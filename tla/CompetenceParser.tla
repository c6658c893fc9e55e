-------------------------- MODULE CompetenceParser --------------------------
(***************************************************************************)
(* The competence pass of CompetenceParser (competenceparser.cpp): the     *)
(* walker enqueues one CommitJob per commit into a fixed thread pool, each *)
(* worker runs commitWorker (validate, diff, materialise, similarity,      *)
(* blame, merge into the mutex-guarded _fileEditions), and after the pool  *)
(* drains the editions and the discovered e-mails are flushed to the DB.   *)
(*                                                                         *)
(* The repository history is data: trees, changed files and blame hunks   *)
(* per commit are CONSTANTS; the external similarity tool's output is a    *)
(* nondeterministic choice.                                                *)
(***************************************************************************)
EXTENDS Integers, Sequences, FiniteSets, SequencesExt, FiniteSetsExt, Bags, TLC

CONSTANTS
  Workers,        \* the pool's threads (option "jobs")
  Walk,           \* commit ids in revwalk order (topological | time), head first
  TreeOrder,      \* every blob path, in the pre-order git_tree_walk visits them
  Tree,           \* Tree[c]: the blob paths of commit c's tree
  Changed,        \* Changed[c]: paths present in c and its parent whose blob differs
  Parent,         \* Parent[c]: first parent of c, or NoParent
  Author,         \* Author[c]: author e-mail, BadName or NoSignature
  Blame,          \* Blame[c][f]: hunks <<lines, origin commit>> of f at c
  PrefixOf,       \* pairs <<g, f>>: path g is a proper string prefix of path f
  FlatName,       \* FlatName[f]: f with '/' replaced by '_' (scratch file name)
  Ext,            \* Ext[k]: extension class of scratch file name k
  Tracked,        \* paths SourceManager::getFile resolves
  ToolOutputs,    \* percentages the similarity tool may print
  PlagThreshold,  \* plagThreshold: rejection threshold
  MaxCommitCount, \* option "commit-count"
  ToolMayHang,    \* whether a similarity tool run may never return
  StaleScores,    \* FileComprehension rows left by an earlier run
  StaleEmails,    \* UserEmail rows left by an earlier run
  NoParent, BadName, NoSignature, Unparsable, NoJob

ASSUME MaxCommitCount \in Nat \ {0}    \* the constructor throws otherwise
ASSUME ToolMayHang \in BOOLEAN

Commits == ToSet(Walk)
Emails  == {Author[c] : c \in Commits} \ {BadName, NoSignature}

(***************************************************************************)
(* git helpers (GitOperations / libgit2), modelled by what they return.    *)
(***************************************************************************)
\* git_diff_tree_to_tree: status of path f between c's parent and c.
Status(c, f) ==
  LET old == Tree[Parent[c]] IN
  CASE f \in Tree[c] /\ f \notin old   -> "added"
    [] f \notin Tree[c] /\ f \in old   -> "deleted"
    [] f \in Tree[c] /\ f \in Changed[c] -> "modified"
    [] OTHER                            -> "unmodified"

\* The deltas of the diff, in path order.
Diff(c) == SelectSeq(TreeOrder, LAMBDA f : Status(c, f) # "unmodified")

\* plagiarismCommand(extension) is non-empty.
SupportedExts == {"cpp", "cs", "java", "py", "txt"}
PlagCommand(k) == Ext[k] \in SupportedExts

(***************************************************************************)
(* walkCb: the first blob in pre-order whose path has the delta's path as  *)
(* a prefix (path.compare(0, current.size(), current) == 0) is written to  *)
(* the scratch directory under its flattened name.                         *)
(***************************************************************************)
WalkMatch(tree, f) ==
  LET i == SelectInSeq(TreeOrder,
             LAMBDA g : g \in tree /\ (g = f \/ <<g, f>> \in PrefixOf))
  IN IF i = 0 THEN {} ELSE {FlatName[TreeOrder[i]]}

Modified(c) == {f \in Tree[c] : Status(c, f) = "modified"}
Added(c)    == {f \in Tree[c] : Status(c, f) = "added"}
NewDir(c)   == UNION {WalkMatch(Tree[c], f) : f \in Modified(c)}
OldDir(c)   == UNION {WalkMatch(Tree[Parent[c]], f) : f \in Modified(c)}

\* The similarity loop runs only if both scratch directories exist.
ScoringRuns(c) == Modified(c) # {} /\ NewDir(c) # {} /\ OldDir(c) # {}
Scorable(c)    == {k \in NewDir(c) : PlagCommand(k)}
Unpaired(c)    == {k \in Scorable(c) : k \notin OldDir(c)}

\* plagValues after the delta loop: every ADDED file registered with 0.
AddedZeros(c) == [k \in {FlatName[f] : f \in Added(c)} |-> 0]

\* plagValues.insert of each parsed tool result; insert never overwrites.
RecordScores(m, out) ==
  LET parsed == {k \in DOMAIN out : out[k] # Unparsable}
  IN [k \in DOMAIN m \cup parsed |-> IF k \in DOMAIN m THEN m[k] ELSE out[k]]

(***************************************************************************)
(* The blame loop: hunks of other commits count towards totalLines only,   *)
(* hunks of this commit also towards userBlame[email].                     *)
(***************************************************************************)
AddLines(ub, a, n) ==
  IF a \in DOMAIN ub THEN [ub EXCEPT ![a] = @ + n] ELSE ub @@ (a :> n)

\* Mutation variant: a hunk of this commit is not added to totalLines.
TallyHunkOwnNotTotal(c, acc, h) ==
  IF h[2] # c
  THEN [acc EXCEPT !.total = @ + h[1]]
  ELSE [acc EXCEPT !.ub = AddLines(@, Author[h[2]], h[1])]

TallyHunk(c, acc, h) ==
  IF h[2] # c
  THEN [acc EXCEPT !.total = @ + h[1]]
  ELSE [total |-> acc.total + h[1], ub |-> AddLines(acc.ub, Author[h[2]], h[1])]

BlameTally(c, f) ==
  FoldLeft(LAMBDA acc, h : TallyHunk(c, acc, h),
           [total |-> 0, ub |-> <<>>], Blame[c][f])

\* Strengths are rationals [num, den]; compared by cross-multiplication.
LessStrength(s, t) == s.num * t.den < t.num * s.den
SameStrength(s, t) == s.num * t.den = t.num * s.den

\* currentPlagValue for delta f of commit c given the job's plagValues.
CurPlag(c, rec, f) ==
  IF /\ Modified(c) # {}
     /\ Status(c, f) \in {"modified", "added"}
     /\ FlatName[f] \in DOMAIN rec
  THEN rec[FlatName[f]] ELSE -1

Flagged(c, rec, f) == Modified(c) # {} /\ CurPlag(c, rec, f) >= PlagThreshold

Strength(plag, lines, total) ==
  IF plag = -1 THEN [num |-> lines, den |-> total]
               ELSE [num |-> 100 - plag, den |-> 1]

\* Mutation variant: the last merged strength wins, greater or not.
MergeEditionsLastWins(eds, f, s) ==
  LET hits == {i \in DOMAIN eds : eds[i].file = f}
      Upd(old) == [a \in DOMAIN old \cup DOMAIN s |->
                    IF a \in DOMAIN s THEN [best |-> s[a], count |-> 1]
                                      ELSE old[a]]
  IN CASE DOMAIN s = {} -> eds
       [] hits = {} -> Append(eds, [file |-> f, ed |-> Upd(<<>>)])
       [] OTHER -> [eds EXCEPT ![Min(hits)].ed = Upd(@)]

\* Mutation variant: an author's first strength is kept, never raised.
MergeEditionsFirstWins(eds, f, s) ==
  LET hits == {i \in DOMAIN eds : eds[i].file = f}
      Upd(old) == [a \in DOMAIN old \cup DOMAIN s |->
                    IF a \in DOMAIN old THEN old[a] ELSE [best |-> s[a], count |-> 1]]
  IN CASE DOMAIN s = {} -> eds
       [] hits = {} -> Append(eds, [file |-> f, ed |-> Upd(<<>>)])
       [] OTHER -> [eds EXCEPT ![Min(hits)].ed = Upd(@)]

\* The critical section: locate file's FileEdition (first match), or push
\* a new one; replace an author's best only when strictly greater.
MergeEditions(eds, f, s) ==
  LET hits == {i \in DOMAIN eds : eds[i].file = f}
      Upd(old) == [a \in DOMAIN old \cup DOMAIN s |->
                    CASE a \notin DOMAIN s -> old[a]
                      [] a \notin DOMAIN old -> [best |-> s[a], count |-> 1]
                      [] LessStrength(old[a].best, s[a]) ->
                           [best |-> s[a], count |-> old[a].count + 1]
                      [] OTHER -> old[a]]
  IN CASE DOMAIN s = {} -> eds
       [] hits = {} -> Append(eds, [file |-> f, ed |-> Upd(<<>>)])
       [] OTHER -> [eds EXCEPT ![Min(hits)].ed = Upd(@)]
-----------------------------------------------------------------------------
VARIABLES
  phase,          \* where parse() is for this repository
  commitCounter,  \* traverseCommits' loop counter
  queue,          \* the pool's pending CommitJobs (job numbers)
  handle,         \* handle[k]: state of job k's git_commit ("live"/"freed")
  wpc, wjob, widx,\* per worker: step, current job, next delta index
  wtmp,           \* per worker: value of faultyCommits read by ++
  simRecord,      \* simRecord[k]: job k's plagValues map
  scratch,        \* jobs whose <workspace>/<name>/competence/<k> exists
  basePath,       \* the member basePath: -1 while empty, else the number of
                  \* "<name>/competence/" suffixes appended to <workspace>
  outPath,        \* outPath[k]: basePath as job k's worker copied it
  faultyCommits,
  editions,       \* _fileEditions (a vector)
  emails,         \* _emailAddresses
  attributions,   \* CommitData rows persisted by persistCommitData
  dbScores,       \* FileComprehension rows (a sequence: duplicates count)
  dbEmails,       \* UserEmail rows
  crashed         \* the process died (null author dereferenced)

workerVars == <<wpc, wjob, widx, wtmp>>
pathVars == <<basePath, outPath>>
vars == <<phase, commitCounter, queue, handle, workerVars, simRecord, scratch,
          pathVars,
          faultyCommits, editions, emails, attributions, dbScores, dbEmails,
          crashed>>

NumJobs == IF MaxCommitCount < Len(Walk) THEN MaxCommitCount ELSE Len(Walk)
Jobs == 1..Len(Walk)
Commit(k) == Walk[k]

Init ==
  /\ phase = "purge"
  /\ commitCounter = 0
  /\ queue = <<>>
  /\ handle = [k \in Jobs |-> "unborn"]
  /\ wpc = [w \in Workers |-> "idle"]
  /\ wjob = [w \in Workers |-> NoJob]
  /\ widx = [w \in Workers |-> 0]
  /\ wtmp = [w \in Workers |-> 0]
  /\ simRecord = [k \in Jobs |-> <<>>]
  /\ scratch = {}
  /\ basePath = -1
  /\ outPath = [k \in {} |-> 0]
  /\ faultyCommits = 0
  /\ editions = <<>>
  /\ emails = {}
  /\ attributions = {}
  /\ dbScores = StaleScores
  /\ dbEmails = StaleEmails
  /\ crashed = FALSE

-----------------------------------------------------------------------------
(* parse(): purge, traverse, flush.                                        *)

\* The transaction erasing every FileComprehension and UserEmail row.
Purge ==
  /\ phase = "purge"
  /\ dbScores' = <<>>
  /\ dbEmails' = {}
  /\ phase' = "traverse"
  /\ UNCHANGED <<commitCounter, queue, handle, workerVars, simRecord, scratch, pathVars,
                 faultyCommits, editions, emails, attributions, crashed>>

\* Mutation variant: the job is numbered with the counter's old value
\* (commitCounter++ instead of ++commitCounter).
EnqueueCommitPostIncrement ==
  /\ phase = "traverse"
  /\ commitCounter < Len(Walk)
  /\ MaxCommitCount > commitCounter
  /\ commitCounter' = commitCounter + 1
  /\ queue' = Append(queue, commitCounter)
  /\ handle' = [handle EXCEPT ![commitCounter + 1] = "freed"]
  /\ UNCHANGED <<phase, workerVars, simRecord, scratch, pathVars, faultyCommits,
                 editions, emails, attributions, dbScores, dbEmails, crashed>>

\* One iteration of the enqueue loop: the CommitPtr is destroyed at the end
\* of the iteration while the job still refers to it.
EnqueueCommit ==
  /\ phase = "traverse"
  /\ commitCounter < Len(Walk)
  /\ MaxCommitCount > commitCounter
  /\ commitCounter' = commitCounter + 1
  /\ queue' = Append(queue, commitCounter + 1)
  /\ handle' = [handle EXCEPT ![commitCounter + 1] = "freed"]
  /\ UNCHANGED <<phase, workerVars, simRecord, scratch, pathVars, faultyCommits,
                 editions, emails, attributions, dbScores, dbEmails, crashed>>

\* Mutation variant: the barrier waits for the queue only, not the threads.
PoolWaitQueueOnly ==
  /\ phase = "traverse"
  /\ ~(commitCounter < Len(Walk) /\ MaxCommitCount > commitCounter)
  /\ queue = <<>>
  /\ phase' = "flushScores"
  /\ UNCHANGED <<commitCounter, queue, handle, workerVars, simRecord, scratch, pathVars,
                 faultyCommits, editions, emails, attributions, dbScores,
                 dbEmails, crashed>>

\* _pool->wait(): returns once the queue is empty and every thread is idle.
PoolWait ==
  /\ phase = "traverse"
  /\ ~(commitCounter < Len(Walk) /\ MaxCommitCount > commitCounter)
  /\ queue = <<>>
  /\ \A w \in Workers : wpc[w] = "idle"
  /\ phase' = "flushScores"
  /\ UNCHANGED <<commitCounter, queue, handle, workerVars, simRecord, scratch, pathVars,
                 faultyCommits, editions, emails, attributions, dbScores,
                 dbEmails, crashed>>

\* persistFileComprehensionData: one row per (edition, author).
EditionRows(e) ==
  SetToSeq({[file |-> e.file, author |-> a, ratio |-> e.ed[a].best]
              : a \in DOMAIN e.ed})

PersistFileComprehension ==
  /\ phase = "flushScores"
  /\ dbScores' = dbScores \o FoldLeft(LAMBDA acc, e : acc \o EditionRows(e),
                                      <<>>, editions)
  /\ phase' = "flushEmails"
  /\ UNCHANGED <<commitCounter, queue, handle, workerVars, simRecord, scratch, pathVars,
                 faultyCommits, editions, emails, attributions, dbEmails,
                 crashed>>

\* persistEmailAddress: erase from _emailAddresses the addresses already
\* stored, then persist the rest.
PersistEmailAddress ==
  /\ phase = "flushEmails"
  /\ emails' = emails \ dbEmails
  /\ dbEmails' = dbEmails \cup emails'
  /\ phase' = "done"
  /\ UNCHANGED <<commitCounter, queue, handle, workerVars, simRecord, scratch, pathVars,
                 faultyCommits, editions, attributions, dbScores, crashed>>

-----------------------------------------------------------------------------
(* commitWorker, one action per stretch of code between shared accesses.  *)

Goto(w, pc) == wpc' = [wpc EXCEPT ![w] = pc]

\* Mutation variant: a pool that hands out a job only when every thread is idle.
DequeueWhenAllIdle(w) ==
  /\ \A v \in Workers : wpc[v] = "idle"
  /\ queue # <<>>
  /\ wjob' = [wjob EXCEPT ![w] = Head(queue)]
  /\ queue' = Tail(queue)
  /\ Goto(w, "check")
  /\ UNCHANGED <<phase, commitCounter, handle, widx, wtmp, simRecord, scratch, pathVars,
                 faultyCommits, editions, emails, attributions, dbScores,
                 dbEmails, crashed>>

Dequeue(w) ==
  /\ wpc[w] = "idle"
  /\ queue # <<>>
  /\ wjob' = [wjob EXCEPT ![w] = Head(queue)]
  /\ queue' = Tail(queue)
  /\ Goto(w, "check")
  /\ UNCHANGED <<phase, commitCounter, handle, widx, wtmp, simRecord, scratch, pathVars,
                 faultyCommits, editions, emails, attributions, dbScores,
                 dbEmails, crashed>>

\* Invalid author name (before basePath is set), or no parent or an empty
\* diff (after it): ++faultyCommits, whose read and write are separate
\* unsynchronised steps.
RejectCommit(w) ==
  LET c == Commit(wjob[w]) IN
  /\ \/ wpc[w] = "check" /\ Author[c] = BadName
     \/ /\ wpc[w] = "checked"
        /\ Author[c] # NoSignature
        /\ \/ Parent[c] = NoParent
           \/ Parent[c] # NoParent /\ Diff(c) = <<>>
  /\ wtmp' = [wtmp EXCEPT ![w] = faultyCommits]
  /\ Goto(w, "faulty")
  /\ UNCHANGED <<phase, commitCounter, queue, handle, wjob, widx, simRecord,
                 scratch, pathVars, faultyCommits, editions, emails,
                 attributions, dbScores, dbEmails, crashed>>

\* basePath = <workspace>: the shared member is assigned without a lock by
\* every worker whose author check passed (a null author passes it) ...
AssignBasePath(w) ==
  /\ wpc[w] = "check"
  /\ Author[Commit(wjob[w])] # BadName
  /\ basePath' = 0
  /\ Goto(w, "append")
  /\ UNCHANGED <<phase, commitCounter, queue, handle, wjob, widx, wtmp,
                 simRecord, scratch, outPath, faultyCommits, editions, emails,
                 attributions, dbScores, dbEmails, crashed>>

\* ... and basePath.append("<name>/competence/") is a second, separate
\* read-modify-write of it.
AppendBasePath(w) ==
  /\ wpc[w] = "append"
  /\ basePath' = basePath + 1
  /\ Goto(w, "checked")
  /\ UNCHANGED <<phase, commitCounter, queue, handle, wjob, widx, wtmp,
                 simRecord, scratch, outPath, faultyCommits, editions, emails,
                 attributions, dbScores, dbEmails, crashed>>

CountFaulty(w) ==
  /\ wpc[w] = "faulty"
  /\ faultyCommits' = wtmp[w] + 1
  /\ Goto(w, "idle")
  /\ UNCHANGED <<phase, commitCounter, queue, handle, wjob, widx, wtmp,
                 simRecord, scratch, pathVars, editions, emails, attributions, dbScores,
                 dbEmails, crashed>>

\* git_commit_author returned null: the check lets it through and
\* commitAuthor->when.time dereferences it.
CrashOnNullAuthor(w) ==
  /\ wpc[w] = "checked"
  /\ Author[Commit(wjob[w])] = NoSignature
  /\ crashed' = TRUE
  /\ UNCHANGED <<phase, commitCounter, queue, handle, workerVars, simRecord,
                 scratch, pathVars, faultyCommits, editions, emails, attributions,
                 dbScores, dbEmails>>

\* outPath = basePath / <k>: create the scratch directory, materialise
\* MODIFIED files, register ADDED files in plagValues.
PrepareScratch(w) ==
  LET k == wjob[w]
      c == Commit(k) IN
  /\ wpc[w] = "checked"
  /\ Author[c] \in Emails
  /\ Parent[c] # NoParent
  /\ Diff(c) # <<>>
  /\ scratch' = scratch \cup {k}
  /\ outPath' = outPath @@ (k :> basePath)
  /\ simRecord' = [simRecord EXCEPT ![k] = AddedZeros(c)]
  /\ Goto(w, "similarity")
  /\ UNCHANGED <<basePath, phase, commitCounter, queue, handle, wjob, widx, wtmp,
                 faultyCommits, editions, emails, attributions, dbScores,
                 dbEmails, crashed>>

\* A supported new file has no old counterpart: return from commitWorker,
\* leaving the scratch directory and every delta of the commit unprocessed.
AbortOnUnpaired(w) ==
  LET c == Commit(wjob[w]) IN
  /\ wpc[w] = "similarity"
  /\ ScoringRuns(c)
  /\ Unpaired(c) # {}
  /\ Goto(w, "idle")
  /\ UNCHANGED <<phase, commitCounter, queue, handle, wjob, widx, wtmp,
                 simRecord, scratch, pathVars, faultyCommits, editions, emails,
                 attributions, dbScores, dbEmails, crashed>>

\* Run the tool on every supported pair, parse its last token, then
\* fs::remove_all(outPath).
RunSimilarity(w) ==
  LET k == wjob[w]
      c == Commit(k) IN
  /\ wpc[w] = "similarity"
  /\ ScoringRuns(c)
  /\ Unpaired(c) = {}
  /\ \E out \in [Scorable(c) -> ToolOutputs \cup {Unparsable}] :
       simRecord' = [simRecord EXCEPT ![k] = RecordScores(@, out)]
  /\ scratch' = scratch \ {k}
  /\ widx' = [widx EXCEPT ![w] = 1]
  /\ Goto(w, "attribute")
  /\ UNCHANGED <<pathVars, phase, commitCounter, queue, handle, wjob, wtmp,
                 faultyCommits, editions, emails, attributions, dbScores,
                 dbEmails, crashed>>

\* boost::process::system on the first tool run never returns: there is no
\* timeout and no cancellation, and the worker holds no lock while it waits.
HangInTool(w) ==
  LET c == Commit(wjob[w]) IN
  /\ ToolMayHang
  /\ wpc[w] = "similarity"
  /\ ScoringRuns(c)
  /\ Unpaired(c) = {}
  /\ Scorable(c) # {}
  /\ Goto(w, "hung")
  /\ UNCHANGED <<phase, commitCounter, queue, handle, wjob, widx, wtmp, simRecord,
                 scratch, pathVars, faultyCommits, editions, emails, attributions,
                 dbScores, dbEmails, crashed>>

\* The blocked worker stays inside the tool call for good.
Blocked(w) ==
  /\ wpc[w] = "hung"
  /\ UNCHANGED vars

\* No modified file or a scratch directory missing: only a warning; the
\* scratch directory is left in place.
SkipSimilarity(w) ==
  /\ wpc[w] = "similarity"
  /\ ~ScoringRuns(Commit(wjob[w]))
  /\ widx' = [widx EXCEPT ![w] = 1]
  /\ Goto(w, "attribute")
  /\ UNCHANGED <<phase, commitCounter, queue, handle, wjob, wtmp, simRecord,
                 scratch, pathVars, faultyCommits, editions, emails, attributions,
                 dbScores, dbEmails, crashed>>

\* Advance the delta loop; the job ends after its last delta.
NextDelta(w, c) ==
  /\ widx' = [widx EXCEPT ![w] = @ + 1]
  /\ Goto(w, IF widx[w] = Len(Diff(c)) THEN "idle" ELSE "attribute")

\* Unresolved file, similarity at or above the threshold, or no blame.
SkipDelta(w) ==
  LET k == wjob[w]
      c == Commit(k)
      f == Diff(c)[widx[w]] IN
  /\ wpc[w] = "attribute"
  /\ \/ f \notin Tracked
     \/ Flagged(c, simRecord[k], f)
     \/ f \notin Tree[c]
  /\ NextDelta(w, c)
  /\ UNCHANGED <<phase, commitCounter, queue, handle, wjob, wtmp, simRecord,
                 scratch, pathVars, faultyCommits, editions, emails, attributions,
                 dbScores, dbEmails, crashed>>

\* Blame the file, record new e-mails, persistCommitData, then merge every
\* author's strength under _calculateFileData.
AttributeDelta(w) ==
  LET k == wjob[w]
      c == Commit(k)
      f == Diff(c)[widx[w]]
      t == BlameTally(c, f)
      plag == CurPlag(c, simRecord[k], f)
      s == [a \in DOMAIN t.ub |-> Strength(plag, t.ub[a], t.total)] IN
  /\ wpc[w] = "attribute"
  /\ f \in Tracked
  /\ ~Flagged(c, simRecord[k], f)
  /\ f \in Tree[c]
  /\ emails' = emails \cup DOMAIN t.ub
  /\ attributions' = attributions \cup
       {[commit |-> c, file |-> f, author |-> a, lines |-> t.ub[a],
         total |-> t.total] : a \in DOMAIN t.ub}
  /\ editions' = MergeEditions(editions, f, s)
  /\ NextDelta(w, c)
  /\ UNCHANGED <<phase, commitCounter, queue, handle, wjob, wtmp, simRecord,
                 scratch, pathVars, faultyCommits, dbScores, dbEmails, crashed>>

\* Every step of a pool thread; nothing runs once the process has died.
Worker(w) ==
  /\ ~crashed
  /\ \/ Dequeue(w)
     \/ RejectCommit(w)
     \/ CountFaulty(w)
     \/ AssignBasePath(w)
     \/ AppendBasePath(w)
     \/ CrashOnNullAuthor(w)
     \/ PrepareScratch(w)
     \/ AbortOnUnpaired(w)
     \/ RunSimilarity(w)
     \/ HangInTool(w)
     \/ SkipSimilarity(w)
     \/ SkipDelta(w)
     \/ AttributeDelta(w)

Walker ==
  /\ ~crashed
  /\ \/ Purge
     \/ EnqueueCommit
     \/ PoolWait
     \/ PersistFileComprehension
     \/ PersistEmailAddress

\* parse() has returned.
Finished ==
  /\ phase = "done"
  /\ UNCHANGED vars

Next ==
  \/ ~crashed /\ Purge
  \/ ~crashed /\ EnqueueCommit
  \/ ~crashed /\ PoolWait
  \/ ~crashed /\ PersistFileComprehension
  \/ ~crashed /\ PersistEmailAddress
  \/ \E w \in Workers : ~crashed /\ Dequeue(w)
  \/ \E w \in Workers : ~crashed /\ RejectCommit(w)
  \/ \E w \in Workers : ~crashed /\ CountFaulty(w)
  \/ \E w \in Workers : ~crashed /\ AssignBasePath(w)
  \/ \E w \in Workers : ~crashed /\ AppendBasePath(w)
  \/ \E w \in Workers : ~crashed /\ CrashOnNullAuthor(w)
  \/ \E w \in Workers : ~crashed /\ PrepareScratch(w)
  \/ \E w \in Workers : ~crashed /\ AbortOnUnpaired(w)
  \/ \E w \in Workers : ~crashed /\ RunSimilarity(w)
  \/ \E w \in Workers : ~crashed /\ HangInTool(w)
  \/ \E w \in Workers : ~crashed /\ SkipSimilarity(w)
  \/ \E w \in Workers : ~crashed /\ SkipDelta(w)
  \/ \E w \in Workers : ~crashed /\ AttributeDelta(w)
  \/ \E w \in Workers : Blocked(w)
  \/ Finished

\* Pool threads and the walker are OS threads that never stop while they
\* have work: each is weakly fair.
Spec ==
  /\ Init /\ [][Next]_vars
  /\ WF_vars(Walker)
  /\ \A w \in Workers : WF_vars(Worker(w))

-----------------------------------------------------------------------------
(***************************************************************************)
(* Reference: what spec section 8 says the run must produce, stated from  *)
(* the history directly rather than from the worker's loops.              *)
(***************************************************************************)
Hunks(c, f) == Blame[c][f]
\* Lines of f whose blame-final commit is c, and all blamed lines of f.
RefCommitted(c, f) ==
  MapThenSumSet(LAMBDA i : Hunks(c, f)[i][1],
                {i \in DOMAIN Hunks(c, f) : Hunks(c, f)[i][2] = c})
RefTotal(c, f) ==
  MapThenSumSet(LAMBDA i : Hunks(c, f)[i][1], DOMAIN Hunks(c, f))

\* Jobs that reach the per-file loop: valid author, a parent, a non-empty
\* diff and no unpaired similarity file.
RefProcessed ==
  {k \in 1..NumJobs :
     LET c == Commit(k) IN
     /\ Author[c] \in Emails /\ Parent[c] # NoParent /\ Diff(c) # <<>>
     /\ ~(ScoringRuns(c) /\ Unpaired(c) # {})}

\* The references are stated over a similarity record sr (sr[k] is job k's
\* plagValues); the invariants below take the one the run built.
\* A file recorded at or above the threshold is copied, not understood.
RecordedFlag(sr, k, f) ==
  FlatName[f] \in DOMAIN sr[k] /\ sr[k][FlatName[f]] >= PlagThreshold

RefAttributed(sr, k, f) ==
  LET c == Commit(k) IN
  /\ f \in Tracked /\ f \in Tree[c] /\ ~RecordedFlag(sr, k, f)
  /\ RefCommitted(c, f) > 0

AttributedPairs(sr) ==
  {p \in RefProcessed \X Tracked :
     p[2] \in ToSet(Diff(Commit(p[1]))) /\ RefAttributed(sr, p[1], p[2])}

ExpectedAttributions(sr) ==
  {LET c == Commit(p[1]) IN
   [commit |-> c, file |-> p[2], author |-> Author[c],
    lines |-> RefCommitted(c, p[2]), total |-> RefTotal(c, p[2])]
     : p \in AttributedPairs(sr)}

RefStrength(sr, k, f) ==
  Strength(CurPlag(Commit(k), sr[k], f),
           RefCommitted(Commit(k), f), RefTotal(Commit(k), f))

ScoredPairs(sr) == {<<r.file, r.author>> : r \in ExpectedAttributions(sr)}

Contributions(sr, p) ==
  {RefStrength(sr, q[1], q[2]) :
     q \in {q \in AttributedPairs(sr) : q[2] = p[1] /\ Author[Commit(q[1])] = p[2]}}

IsBest(s, S) == s \in S /\ \A t \in S : ~LessStrength(s, t)

(* The refinement mapping onto CompetenceTable: the table is the vector's  *)
(* first FileEdition of each file; it is flushed once persistFile-         *)
(* ComprehensionData has run, and its rows are then the FileComprehension *)
(* rows counted with their multiplicity.                                   *)
EditionOf(f) == editions[Min({i \in DOMAIN editions : editions[i].file = f})].ed

TableBest ==
  [p \in UNION {{<<e.file, a>> : a \in DOMAIN e.ed} : e \in Range(editions)}
     |-> EditionOf(p[1])[p[2]].best]

TableStage == IF phase \in {"flushEmails", "done"} THEN "flushed" ELSE "collect"

TableRows ==
  IF TableStage = "flushed"
    THEN [r \in Range(dbScores) |->
            Cardinality({i \in DOMAIN dbScores : dbScores[i] = r})]
    ELSE [r \in {} |-> 0]

Table == INSTANCE CompetenceTable
           WITH Files <- Tracked, Less <- LessStrength,
                best <- TableBest, stage <- TableStage, rows <- TableRows

(* The composition with ParseDriver, which abstracts one input path's      *)
(* competence pass as the single step TraverseCommits adding ScoreRows[p] *)
(* and Emails[p] to the members.  This module is parse() on one path with *)
(* "skip-forgetting" (commitSampling returns at once, so its SkipSampling *)
(* step is taken with the first enqueue), starting on an empty database   *)
(* (stale rows are hidden until the flush).  ScoreRows and Emails are the *)
(* reference results; strengths are compared in lowest terms.  The        *)
(* setUserCompany step is outside this module: the mapped run stops       *)
(* before it.                                                              *)
ThePath == "repo"

Norm(s) ==
  LET g == Max({d \in 1..s.den : s.num % d = 0 /\ s.den % d = 0})
  IN [num |-> s.num \div g, den |-> s.den \div g]

RefRows(sr) ==
  {[file |-> p[1], author |-> p[2],
    ratio |-> Norm(CHOOSE s \in Contributions(sr, p) : IsBest(s, Contributions(sr, p)))]
     : p \in ScoredPairs(sr)}

\* Every similarity record a run can build: each job is registered with its
\* ADDED files at 0, and a job whose tool runs also gets one parsed answer
\* (or none) per scorable file.  Only processed jobs' records are read.
ToolJobs == {k \in RefProcessed : ScoringRuns(Commit(k))}

ToolAnswers ==
  {o \in [ToolJobs -> UNION {[Scorable(Commit(k)) -> ToolOutputs \cup {Unparsable}]
                             : k \in ToolJobs}] :
     \A k \in ToolJobs : DOMAIN o[k] = Scorable(Commit(k))}

PossibleRecords ==
  {[k \in RefProcessed |-> IF k \in ToolJobs THEN RecordScores(AddedZeros(Commit(k)), o[k])
                                             ELSE AddedZeros(Commit(k))] : o \in ToolAnswers}

Outcome(sr) == [rows |-> RefRows(sr), emails |-> {p[2] : p \in ScoredPairs(sr)}]

DriverOutcomes == ThePath :> {Outcome(sr) : sr \in PossibleRecords}

EditionSet ==
  UNION {{[file |-> e.file, author |-> a, ratio |-> Norm(e.ed[a].best)]
            : a \in DOMAIN e.ed} : e \in Range(editions)}

DriverStep ==
  CASE phase = "purge" -> "discover"
    [] phase = "traverse" /\ commitCounter = 0 -> "sample"
    [] phase = "traverse" -> "traverse"
    [] phase = "flushScores" -> "flush"
    [] phase = "flushEmails" -> "emails"
    [] phase = "done" -> "company"

Collected == phase \in {"flushScores", "flushEmails", "done"}

Driver == INSTANCE ParseDriver
  WITH Inputs <- <<ThePath>>, HasRepo <- {ThePath},
       Walk <- (ThePath :> Walk), Parent <- Parent, Changed <- Changed,
       Tracked <- Tracked,
       Outcomes <- DriverOutcomes,
       KeyOrder <- << >>, CompanyName <- << >>, Substring <- {},
       MaxRuns <- 1, NoParent <- NoParent,
       NoCompany <- "none",
       run <- 1, options <- {"skip-forgetting"}, pidx <- 1,
       step <- DriverStep, counter <- 0, commitSample <- << >>,
       editions <- IF Collected THEN EditionSet ELSE {},
       emailAddresses <- IF Collected THEN emails ELSE {},
       dbSample <- EmptyBag,
       dbScores <- IF phase \in {"flushEmails", "done"}
                     THEN {[r EXCEPT !.ratio = Norm(@)] : r \in Range(dbScores)}
                     ELSE {},
       dbEmails <- IF phase = "done" THEN [e \in dbEmails |-> "none"] ELSE << >>,
       passResult <- (ThePath :> IF Collected
                                   THEN [rows |-> EditionSet, emails |-> emails]
                                   ELSE [rows |-> {}, emails |-> {}])

-----------------------------------------------------------------------------
TypeOK ==
  /\ phase \in {"purge", "traverse", "flushScores", "flushEmails", "done"}
  /\ commitCounter \in 0..Len(Walk)
  /\ queue \in Seq(Jobs)
  /\ handle \in [Jobs -> {"unborn", "live", "freed"}]
  /\ wpc \in [Workers -> {"idle", "check", "append", "checked", "faulty",
                           "similarity", "hung", "attribute"}]
  /\ basePath \in -1..Cardinality(Workers)
  /\ DOMAIN outPath \subseteq Jobs
  /\ \A k \in DOMAIN outPath : outPath[k] \in -1..Cardinality(Workers)
  /\ wjob \in [Workers -> Jobs \cup {NoJob}]
  /\ scratch \subseteq Jobs
  /\ faultyCommits \in Nat
  /\ emails \subseteq Emails
  /\ crashed \in BOOLEAN

\* Every CommitData row persisted is exactly the blame tally of a processed,
\* unflagged (commit, file), and once parse() is done every such tally has
\* been persisted (commitWorker's delta loop and blame loop).
AttributionsMatchBlame ==
  /\ attributions \subseteq ExpectedAttributions(simRecord)
  /\ phase = "done" => attributions = ExpectedAttributions(simRecord)

\* After the flush, the FileComprehension table holds exactly one row per
\* (file, author) that any processed commit attributed, carrying the largest
\* strength any of those commits produced, whatever order the workers ran
\* in; and UserEmail holds exactly those authors (the merge under
\* _calculateFileData, the pool barrier, the purge and the flush).
FinalScoresAreBestObserved ==
  phase = "done" =>
    /\ Len(dbScores) = Cardinality(ScoredPairs(simRecord))
    /\ \A p \in ScoredPairs(simRecord) :
         \E i \in 1..Len(dbScores) :
           /\ dbScores[i].file = p[1] /\ dbScores[i].author = p[2]
           /\ \E s \in Contributions(simRecord, p) :
                IsBest(s, Contributions(simRecord, p)) /\ SameStrength(dbScores[i].ratio, s)
    /\ dbEmails = {p[2] : p \in ScoredPairs(simRecord)}

\* parse() implements CompetenceTable: whatever the interleaving of the pool
\* threads, each merge under _calculateFileData only adds or strictly raises
\* entries of one file, no merge happens after the flush (the pool barrier),
\* and persistFileComprehensionData writes exactly one row per entry on a
\* purged table.
ImplementsCompetenceTable == Table!Spec

\* parse() on one path is a run of ParseDriver: the pool's merges, seen at
\* the barrier, leave in _fileEditions and _emailAddresses exactly the best
\* strengths and the authors ParseDriver's one-step competence pass adds,
\* and the two flushes write them (safety part of ParseDriver's Spec).
ImplementsParseDriverPath == Driver!Init /\ [][Driver!Next]_Driver!vars

\* A similarity tool run that hangs (spec 5 accepts it) stalls only the
\* thread that runs it: the call at line 560 holds no lock, so the walker
\* still enqueues every commit and the other threads drain the queue, and
\* only _pool->wait() never returns.
StalledOnHungTool ==
  /\ \E w \in Workers : wpc[w] = "hung"
  /\ ~(commitCounter < Len(Walk) /\ MaxCommitCount > commitCounter)
  /\ queue = <<>>
  /\ \A v \in Workers : wpc[v] \in {"idle", "hung"}
  /\ phase = "traverse"

\* parse() returns, the pool draining and both flushes happening; or a tool
\* run hangs and everything but that thread still finishes its work.
RunCompletes == <>(phase = "done" \/ StalledOnHungTool)

\* A job's git_commit is alive whenever its worker dereferences it
\* (git_commit_author, parents, tree; commitAuthor->when.time at the
\* persistCommitData call).
HandleLiveWhenRead ==
  \A w \in Workers :
    wpc[w] \in {"check", "append", "checked", "attribute"} =>
      handle[wjob[w]] = "live"

\* Once the pool has drained, no per-commit scratch directory remains.
ScratchRemoved ==
  phase \in {"flushScores", "flushEmails", "done"} => scratch = {}

\* When a pool thread dies on a null author signature (line 452), the run
\* has written no FileComprehension or UserEmail row: both flushes follow
\* _pool->wait(), which cannot return while the dying thread holds its job,
\* so a killed parse leaves the purged tables empty, never a partial table
\* built from the jobs that happened to finish.
CrashLeavesNoPartialTable ==
  crashed => dbScores = << >> /\ dbEmails = {}

\* A commit without an author signature is counted faulty, never fatal.
NullAuthorIsFaulty == ~crashed

\* Every job's scratch directory is <workspace>/<name>/competence/<k>: the
\* outPath a worker copies from the shared basePath carries the suffix
\* exactly once, whatever the other workers do to basePath meanwhile.
ScratchUnderCompetenceDir ==
  \A k \in DOMAIN outPath : outPath[k] = 1
=============================================================================
