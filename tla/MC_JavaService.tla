--------------------------- MODULE MC_JavaService ---------------------------
(* Two workspaces, so two handlers share localhost:9090; two webserver      *)
(* threads, so two requests can be in flight on one connection.            *)
EXTENDS JavaService

CONSTANTS h1, h2, t1, t2

MCHandlers == {h1, h2}
MCThreads == {t1, t2}

=============================================================================
