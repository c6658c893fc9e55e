--------------------------- MODULE CompetenceTable ---------------------------
(***************************************************************************)
(* What the competence aggregation of one parse() promises, independent of *)
(* the thread pool and the vector that implement it (spec 3, FileEdition):  *)
(* while commits are being processed, the table keeps for every (file,      *)
(* author) the best strength seen so far; an entry is never lost, is only  *)
(* ever replaced by a strictly greater strength, and one observation       *)
(* touches the entries of one file.  The table is then flushed once: the   *)
(* FileComprehension rows are exactly one row per entry, and after the     *)
(* flush nothing changes.  CompetenceParser implements this specification  *)
(* under the mapping given there.                                          *)
(***************************************************************************)
EXTENDS Bags

CONSTANTS
  Files,       \* files whose strengths are aggregated
  Less(_, _)   \* the strict order on strengths

VARIABLES
  best,   \* best[<<f, a>>]: best strength of author a on file f
  stage,  \* "collect" while commits are processed, then "flushed"
  rows    \* the FileComprehension rows written by the flush (a bag)

vars == <<best, stage, rows>>

Init ==
  /\ best = [p \in {} |-> 0]
  /\ stage = "collect"
  /\ rows = EmptyBag

\* best' differs from best only at entries of file f, keeps every entry,
\* and every changed entry is new or strictly greater than before.
RaisedOn(f) ==
  /\ DOMAIN best \subseteq DOMAIN best'
  /\ \A p \in DOMAIN best' :
       \/ p \in DOMAIN best /\ best'[p] = best[p]
       \/ p[1] = f /\ (p \notin DOMAIN best \/ Less(best[p], best'[p]))

\* One commit's strengths for one file are merged into the table.
Observe ==
  /\ stage = "collect"
  /\ \E f \in Files : RaisedOn(f)
  /\ UNCHANGED <<stage, rows>>

\* The table is written out: one row per entry, carrying its best strength.
Flush ==
  /\ stage = "collect"
  /\ stage' = "flushed"
  /\ rows' = SetToBag({[file |-> p[1], author |-> p[2], ratio |-> best[p]]
                         : p \in DOMAIN best})
  /\ UNCHANGED best

Next == Observe \/ Flush

Spec == Init /\ [][Next]_vars
=============================================================================
