---------------------------- MODULE ParseDriver ----------------------------
(***************************************************************************)
(* CompetenceParser::parse(): the loop over the input paths.  For each     *)
(* path with a git repository it purges the FileComprehension and          *)
(* UserEmail tables, runs the sampling pass (commitSampling,               *)
(* sampleCommits, persistSampleData), the competence pass                  *)
(* (traverseCommits), the flush of _fileEditions, persistEmailAddress and  *)
(* setUserCompany.  _commitSample, _fileEditions and _emailAddresses are   *)
(* members of the parser object: they live across the paths of one         *)
(* invocation, and are fresh only in a new process.  The process may die   *)
(* between any two steps and be run again; the database survives.          *)
(*                                                                         *)
(* The competence pass of one path is one step here: what it adds to       *)
(* _fileEditions and _emailAddresses is one of the constant Outcomes[p].   *)
(* How that pass computes them under concurrency is the subject of         *)
(* CompetenceParser, which is checked to implement this step.              *)
(***************************************************************************)
EXTENDS Naturals, Sequences, FiniteSets, Bags, TLC

CONSTANTS
    Inputs,          \* _ctx.options["input"]: the input paths, in order
    HasRepo,         \* the paths under which a .git directory is found
    Walk,            \* Walk[p]: the revwalk of p's repository, head first
    Parent,          \* first parent of each commit, or NoParent
    Changed,         \* files each commit's diff against its parent touches
    Tracked,         \* files srcMgr.getFile resolves (present on disk)
    Outcomes,        \* Outcomes[p]: what p's competence pass may produce,
                     \* [rows |-> its FileEditions, emails |-> the authors
                     \* it discovers]; several, as the similarity tool's
                     \* answers decide which files are flagged
    KeyOrder,        \* the domains of _companyList in std::map order
    CompanyName,     \* _companyList: domain -> company
    Substring,       \* <<email, domain>>: email.find(domain) != npos
    MaxRuns,         \* bound on the invocations (first run plus reruns)
    NoParent, NoCompany

Paths == {Inputs[i] : i \in 1..Len(Inputs)}
AllEmails == UNION {o.emails : o \in UNION {Outcomes[p] : p \in Paths}}
AllRows == UNION {o.rows : o \in UNION {Outcomes[p] : p \in Paths}}

\* No competence pass has run for the path in this invocation.
NoOutcome == [rows |-> {}, emails |-> {}]

\* sampleSize, fixed at 1 in commitSampling.
SampleSize == 1

VARIABLES
    run,             \* the invocation, 1..MaxRuns
    options,         \* the invocation's switches: "skip-forgetting",
                     \* "skip-competence" (_ctx.options.count)
    pidx,            \* index of the input path being processed
    step,            \* where parse() is in the body of its loop
    counter,         \* commitCounter of the sampling walk
    commitSample,    \* _commitSample: file -> occurrences
    editions,        \* _fileEditions (abstracted to its rows)
    emailAddresses,  \* _emailAddresses
    dbSample,        \* SampleData rows, a bag of [file, occ]
    dbScores,        \* FileComprehension rows
    dbEmails,        \* UserEmail rows: email -> company
    passResult       \* history: the outcome of each path's pass in this
                     \* invocation

vars == <<run, options, pidx, step, counter, commitSample, editions, emailAddresses,
          dbSample, dbScores, dbEmails, passResult>>
memberVars == <<commitSample, editions, emailAddresses>>
dbVars == <<dbSample, dbScores, dbEmails>>

Steps == {"discover", "sample", "traverse", "flush", "emails", "company",
          "done"}
Path == Inputs[pidx]
Switches == {"skip-forgetting", "skip-competence"}
SkipForgetting == "skip-forgetting" \in options
SkipCompetence == "skip-competence" \in options

TypeOK ==
    /\ run \in 1..MaxRuns
    /\ options \subseteq Switches
    /\ pidx \in 1..Len(Inputs) + 1
    /\ step \in Steps
    /\ counter \in Nat
    /\ DOMAIN commitSample \subseteq Tracked
    /\ \A f \in DOMAIN commitSample : commitSample[f] \in Nat \ {0}
    /\ editions \subseteq AllRows
    /\ emailAddresses \subseteq AllEmails
    /\ IsABag(dbSample)
    /\ DOMAIN dbEmails \subseteq AllEmails
    /\ passResult \in [Paths -> UNION {Outcomes[p] : p \in Paths} \cup {NoOutcome}]

\* The parser object's members as its constructor leaves them.
NoSample == [f \in {} |-> 0]

Init ==
    /\ run = 1
    /\ options \in SUBSET Switches
    /\ pidx = 1
    /\ step = IF Len(Inputs) = 0 THEN "done" ELSE "discover"
    /\ counter = 0
    /\ commitSample = NoSample
    /\ editions = {}
    /\ emailAddresses = {}
    /\ dbSample = EmptyBag
    /\ dbScores = {}
    /\ dbEmails = << >>
    /\ passResult = [p \in Paths |-> NoOutcome]

\* Leave the body of the loop for the next input path.
NextPath ==
    /\ pidx' = pidx + 1
    /\ step' = IF pidx = Len(Inputs) THEN "done" ELSE "discover"

-----------------------------------------------------------------------------
(* Helpers translating the code.                                           *)

\* Mutant of SampleCommits: the `if (!file) continue` dropped, so a file
\* srcMgr cannot resolve gets an entry.
SampleCommitsUnresolved(c, cs) ==
    IF Parent[c] = NoParent THEN cs
    ELSE [f \in DOMAIN cs \cup Changed[c] |->
            (IF f \in DOMAIN cs THEN cs[f] ELSE 0)
            + (IF f \in Changed[c] THEN 1 ELSE 0)]

\* sampleCommits: a commit without a parent is skipped; otherwise every
\* delta whose new_file path srcMgr.getFile resolves counts once.
SampleCommits(c, cs) ==
    IF Parent[c] = NoParent THEN cs
    ELSE LET S == Changed[c] \cap Tracked
         IN [f \in DOMAIN cs \cup S |->
                (IF f \in DOMAIN cs THEN cs[f] ELSE 0) + (IF f \in S THEN 1 ELSE 0)]

\* persistSampleData: one SampleData row per entry of _commitSample.
SampleRows(cs) == SetToBag({[file |-> f, occ |-> cs[f]] : f \in DOMAIN cs})

\* setUserCompany: the first key of the std::map, in key order, that is a
\* substring of the e-mail, or no match.
\* Mutation variant: the key loop without its break, so the last match wins.
CompanyMatchesLast(e) ==
    LET m == SelectSeq(KeyOrder, LAMBDA d : <<e, d>> \in Substring)
    IN [i \in DOMAIN m |-> m[Len(m) + 1 - i]]

CompanyMatches(e) == SelectSeq(KeyOrder, LAMBDA d : <<e, d>> \in Substring)

-----------------------------------------------------------------------------
(* One action per step of the body of parse()'s loop.                     *)

\* No .git under the path: createRepository fails and the loop continues.
SkipNoRepo ==
    /\ step = "discover"
    /\ Path \notin HasRepo
    /\ NextPath
    /\ UNCHANGED <<run, options, counter>> /\ UNCHANGED memberVars /\ UNCHANGED dbVars
    /\ UNCHANGED passResult

\* The purge transaction: every FileComprehension and UserEmail row goes.
Purge ==
    /\ step = "discover"
    /\ Path \in HasRepo
    /\ dbScores' = {}
    /\ dbEmails' = << >>
    /\ step' = "sample"
    /\ counter' = 0
    /\ UNCHANGED <<run, options, pidx, dbSample>> /\ UNCHANGED memberVars
    /\ UNCHANGED passResult

\* commitSampling with "skip-forgetting" given does nothing.
SkipSampling ==
    /\ step = "sample"
    /\ SkipForgetting
    /\ step' = "traverse"
    /\ UNCHANGED <<run, options, pidx, counter>> /\ UNCHANGED memberVars
    /\ UNCHANGED dbVars /\ UNCHANGED passResult

\* One iteration of the second revwalk: ++commitCounter, and
\* sampleCommits(job) when commitCounter % sampleSize == 0.
SampleCommit ==
    /\ step = "sample"
    /\ ~SkipForgetting
    /\ counter < Len(Walk[Path])
    /\ counter' = counter + 1
    /\ commitSample' = IF counter' % SampleSize = 0
                       THEN SampleCommits(Walk[Path][counter'], commitSample)
                       ELSE commitSample
    /\ UNCHANGED <<run, options, pidx, step, editions, emailAddresses>>
    /\ UNCHANGED dbVars /\ UNCHANGED passResult

\* The walk is over: persistSampleData writes the whole _commitSample.
PersistSampleData ==
    /\ step = "sample"
    /\ ~SkipForgetting
    /\ counter = Len(Walk[Path])
    /\ dbSample' = dbSample (+) SampleRows(commitSample)
    /\ step' = "traverse"
    /\ UNCHANGED <<run, options, pidx, counter, dbScores, dbEmails>>
    /\ UNCHANGED memberVars /\ UNCHANGED passResult

\* Mutant of TraverseCommits: the members start fresh for each path, as
\* spec 3 scopes CompetenceState to one repository path.
TraverseCommitsFreshState ==
    /\ step = "traverse"
    /\ \/ SkipCompetence /\ editions' = {} /\ emailAddresses' = {}
          /\ UNCHANGED passResult
       \/ ~SkipCompetence
          /\ \E o \in Outcomes[Path] :
               /\ editions' = o.rows
               /\ emailAddresses' = o.emails
               /\ passResult' = [passResult EXCEPT ![Path] = o]
    /\ step' = "flush"
    /\ UNCHANGED <<run, options, pidx, counter, commitSample>>
    /\ UNCHANGED dbVars

\* traverseCommits: the competence pass adds one of p's outcomes to the
\* members (nothing with "skip-competence").
TraverseCommits ==
    /\ step = "traverse"
    /\ \/ SkipCompetence /\ UNCHANGED <<editions, emailAddresses, passResult>>
       \/ ~SkipCompetence
          /\ \E o \in Outcomes[Path] :
               /\ editions' = editions \cup o.rows
               /\ emailAddresses' = emailAddresses \cup o.emails
               /\ passResult' = [passResult EXCEPT ![Path] = o]
    /\ step' = "flush"
    /\ UNCHANGED <<run, options, pidx, counter, commitSample>> /\ UNCHANGED dbVars

\* persistFileComprehensionData: one row per FileEdition entry.
PersistFileComprehension ==
    /\ step = "flush"
    /\ dbScores' = dbScores \cup editions
    /\ step' = "emails"
    /\ UNCHANGED <<run, options, pidx, counter, dbSample, dbEmails>>
    /\ UNCHANGED memberVars /\ UNCHANGED passResult

\* persistEmailAddress: drop from _emailAddresses what UserEmail holds,
\* persist the rest (company unset).
PersistEmailAddress ==
    /\ step = "emails"
    /\ emailAddresses' = emailAddresses \ DOMAIN dbEmails
    /\ dbEmails' = dbEmails @@ [e \in emailAddresses' |-> NoCompany]
    /\ step' = "company"
    /\ UNCHANGED <<run, options, pidx, counter, commitSample, editions>>
    /\ UNCHANGED <<dbSample, dbScores>> /\ UNCHANGED passResult

\* setUserCompany: each UserEmail row takes the company of its first
\* matching key; a row with no match keeps its company.  Then the loop
\* moves on.
SetUserCompany ==
    /\ step = "company"
    /\ dbEmails' = [e \in DOMAIN dbEmails |->
                      IF CompanyMatches(e) = << >> THEN dbEmails[e]
                      ELSE CompanyName[Head(CompanyMatches(e))]]
    /\ NextPath
    /\ UNCHANGED <<run, options, counter>> /\ UNCHANGED memberVars
    /\ UNCHANGED <<dbSample, dbScores>> /\ UNCHANGED passResult

\* The process dies at any point (or finishes) and the parser is run
\* again: a new CompetenceParser object, the same database.
Restart ==
    /\ run < MaxRuns
    /\ run' = run + 1
    /\ options' \in SUBSET Switches
    /\ pidx' = 1
    /\ step' = IF Len(Inputs) = 0 THEN "done" ELSE "discover"
    /\ counter' = 0
    /\ commitSample' = NoSample
    /\ editions' = {}
    /\ emailAddresses' = {}
    /\ passResult' = [p \in Paths |-> NoOutcome]
    /\ UNCHANGED dbVars

Finished ==
    /\ step = "done"
    /\ UNCHANGED vars

Step ==
    \/ SkipNoRepo
    \/ Purge
    \/ SkipSampling
    \/ SampleCommit
    \/ PersistSampleData
    \/ TraverseCommits
    \/ PersistFileComprehension
    \/ PersistEmailAddress
    \/ SetUserCompany

Next == Step \/ Restart \/ Finished

\* parse() runs on one thread, which always takes its next step; nothing
\* forces a crash or a rerun.
Spec == Init /\ [][Next]_vars /\ WF_vars(Step)

-----------------------------------------------------------------------------
(* Reference definitions, from the repositories rather than the loops.    *)

RepoPaths == Paths \cap HasRepo

\* The stride-selected, non-root commits of p that touch tracked file f.
SampledTouches(f) ==
    UNION {{<<p, k>> : k \in {i \in 1..Len(Walk[p]) :
                                /\ i % SampleSize = 0
                                /\ Parent[Walk[p][i]] # NoParent
                                /\ f \in Changed[Walk[p][i]]}} :
           p \in RepoPaths}

RefSample ==
    {[file |-> f, occ |-> Cardinality(SampledTouches(f))] :
        f \in {g \in Tracked : SampledTouches(g) # {}}}

\* The company spec 4.5 gives an address: that of the key at position i of
\* the table, when it is the first key contained in the address; none when
\* no key is.
FirstKeyAt(e, i) ==
    /\ <<e, KeyOrder[i]>> \in Substring
    /\ \A j \in 1..i-1 : <<e, KeyOrder[j]>> \notin Substring

RefCompany(e) ==
    IF \E i \in DOMAIN KeyOrder : FirstKeyAt(e, i)
      THEN CompanyName[KeyOrder[CHOOSE i \in DOMAIN KeyOrder : FirstKeyAt(e, i)]]
      ELSE NoCompany

-----------------------------------------------------------------------------
(* Properties.                                                             *)

\* Every finished invocation leaves the SampleData table holding exactly
\* one row per sampled tracked file, whose count is the number of
\* stride-selected non-root commits touching it (spec 4.1 and 8), with the
\* sample table scoped to one repository path (spec 3).  The code keeps
\* _commitSample across paths and never purges SampleData.
SampleCountsMatch ==
    (step = "done" /\ ~SkipForgetting) => dbSample = SetToBag(RefSample)

\* Every finished invocation, whatever runs crashed before it, leaves a
\* FileComprehension row for each edition the competence pass of every
\* input path produced in it, and a UserEmail row for each author those
\* passes discovered, although each path's purge
\* erases the rows of all paths: the members carried across the paths
\* re-write them.
FinalTableComplete ==
    step = "done" =>
        /\ dbScores = UNION {passResult[p].rows : p \in RepoPaths}
        /\ DOMAIN dbEmails = UNION {passResult[p].emails : p \in RepoPaths}

\* Every UserEmail row of a finished invocation carries the company of the
\* first _companyList key, in std::map order, contained in its address, or
\* none (spec 4.5), whatever paths, crashes and reruns came before: the
\* purge, persistEmailAddress and setUserCompany's loop with its break.
CompanyIsFirstKeyMatch ==
    step = "done" => \A e \in DOMAIN dbEmails : dbEmails[e] = RefCompany(e)

=============================================================================
