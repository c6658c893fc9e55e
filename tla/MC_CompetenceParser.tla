------------------------- MODULE MC_CompetenceParser -------------------------
(***************************************************************************)
(* An eight-commit history that drives every branch of commitWorker:        *)
(*   c1  root (faulty)              c5  deletes src/a: the old tree walk   *)
(*   c2  modifies src/a.c, adds          matches src/a, the new one        *)
(*       notes.md (scored)               src/a.c: unpaired, aborted        *)
(*   c3  adds src/a: the new tree   c6  modifies notes.md (unsupported)    *)
(*       walk writes src_a instead  c7  empty diff (faulty)                *)
(*   c4  author name not printable  c8  only adds doc.txt: no similarity  *)
(***************************************************************************)
EXTENDS CompetenceParser

MCWorkers == {"w1", "w2"}
MCWalk == <<"c8", "c7", "c6", "c5", "c4", "c3", "c2", "c1">>
MCTreeOrder == <<"doc.txt", "notes.md", "src/a", "src/a.c">>

MCTree ==
  [c \in ToSet(MCWalk) |->
     CASE c = "c1" -> {"src/a.c"}
       [] c = "c2" -> {"src/a.c", "notes.md"}
       [] c \in {"c3", "c4"} -> {"src/a", "src/a.c", "notes.md"}
       [] c = "c8" -> {"src/a.c", "notes.md", "doc.txt"}
       [] OTHER -> {"src/a.c", "notes.md"}]

MCChanged ==
  [c \in ToSet(MCWalk) |->
     CASE c = "c6" -> {"notes.md"}
       [] c \in {"c1", "c7", "c8"} -> {}
       [] OTHER -> {"src/a.c"}]

MCParent ==
  [c \in ToSet(MCWalk) |->
     CASE c = "c1" -> NoParent [] c = "c2" -> "c1" [] c = "c3" -> "c2"
       [] c = "c4" -> "c3" [] c = "c5" -> "c4" [] c = "c6" -> "c5"
       [] c = "c7" -> "c6" [] c = "c8" -> "c7"]

MCAuthor ==
  [c \in ToSet(MCWalk) |->
     CASE c \in {"c1", "c3", "c8"} -> "a"
       [] c = "c4" -> BadName
       [] OTHER -> "b"]

BlameOf(c, f) ==
  CASE <<c, f>> = <<"c2", "src/a.c">> -> <<<<2, "c1">>, <<1, "c2">>>>
    [] <<c, f>> = <<"c2", "notes.md">> -> <<<<1, "c2">>>>
    [] <<c, f>> = <<"c3", "src/a.c">> -> <<<<1, "c1">>, <<1, "c3">>, <<1, "c2">>>>
    [] <<c, f>> = <<"c3", "src/a">> -> <<<<1, "c3">>>>
    [] <<c, f>> = <<"c5", "src/a.c">> -> <<<<1, "c1">>, <<2, "c5">>>>
    [] <<c, f>> = <<"c6", "notes.md">> -> <<<<1, "c2">>, <<1, "c6">>>>
    [] <<c, f>> = <<"c8", "doc.txt">> -> <<<<2, "c8">>>>
    [] OTHER -> <<>>

MCBlame == [c \in ToSet(MCWalk) |-> [f \in MCTree[c] |-> BlameOf(c, f)]]

MCPrefixOf == {<<"src/a", "src/a.c">>}
MCFlatName == ("doc.txt" :> "doc.txt") @@ ("notes.md" :> "notes.md") @@ ("src/a" :> "src_a")
                @@ ("src/a.c" :> "src_a.c")
MCExt == ("doc.txt" :> "txt") @@ ("notes.md" :> "md") @@ ("src_a" :> "none") @@ ("src_a.c" :> "cpp")
MCTracked == {"doc.txt", "notes.md", "src/a.c"}
MCToolOutputs == {30, 100}
MCStaleScores == <<[file |-> "src/a.c", author |-> "a",
                    ratio |-> [num |-> 1, den |-> 1]]>>
MCStaleEmails == {"a"}

\* The state without basePath and outPath.  No guard reads them and they
\* feed no other variable (basePath only its own next value and outPath),
\* so two states that differ only in them have the same behaviours for
\* every property that does not mention them; runs whose properties do not
\* use them fingerprint states by this view.
ControlView ==
  <<phase, commitCounter, queue, handle, workerVars, simRecord, scratch,
    faultyCommits, editions, emails, attributions, dbScores, dbEmails,
    crashed>>

=============================================================================
