--------------------------- MODULE MC_NullAuthor ---------------------------
(* The history of MC_CompetenceParser with c4 carrying no author signature *)
(* (git_commit_author returns null) instead of an unprintable name.        *)
EXTENDS MC_CompetenceParser

MCAuthorNull == [MCAuthor EXCEPT !["c4"] = NoSignature]
=============================================================================
