---------------------------- MODULE JavaService ----------------------------
(***************************************************************************)
(* The Java language service (src/plugins/java/service).  Each            *)
(* JavaServiceHandler spawns a Java server as a child process, then        *)
(* JavaQueryHandler::getClientInterface spins on transport->open() against *)
(* the fixed address localhost:9090 until it connects or 25 s have         *)
(* elapsed; the constructor swallows the timeout and leaves _service null. *)
(* Every query is forwarded verbatim as _service->getX(...), a Thrift      *)
(* send followed by a blocking receive on the handler's one connection.   *)
(*                                                                         *)
(* The Java server itself (javaservice.jar) is not in this repository: it  *)
(* is the environment, which may come up, fail to bind the port (another   *)
(* server holds it), or exit at any time, and answers the requests of each *)
(* connection in order.                                                    *)
(***************************************************************************)
EXTENDS Naturals, Sequences

CONSTANTS
    Handlers,    \* one JavaServiceHandler per workspace the webserver serves
    Threads,     \* webserver threads that call the handlers
    Timeout,     \* timeoutInMs_ (25000 ms), in clock ticks
    MaxQueries,  \* bound on the queries each thread issues
    None         \* a null _service, no port owner, no reply

ASSUME Timeout \in Nat /\ MaxQueries \in Nat

VARIABLES
    hpc,       \* handler construction: "unborn", "connecting", "ready"
    child,     \* the Java server process c of each handler
    port,      \* the handler whose Java server is bound to localhost:9090
    elapsed,   \* elapsed_time of the connect loop, in ticks
    service,   \* whose server the client _service is connected to, or None
    req,       \* requests on each handler's connection, tagged by thread
    rep,       \* replies on each handler's connection, tagged by thread
    tpc,       \* "idle" or "wait" (inside _service->getX)
    tat,       \* the handler a waiting thread called
    got,       \* the tag of the last reply each thread received
    sent,      \* queries issued per thread (bounded by MaxQueries)
    crashed    \* the webserver died on a null _service

vars == <<hpc, child, port, elapsed, service, req, rep, tpc, tat, got, sent,
          crashed>>

ChildStates == {"none", "booting", "listening", "exited"}

Init ==
    /\ hpc = [h \in Handlers |-> "unborn"]
    /\ child = [h \in Handlers |-> "none"]
    /\ port = None
    /\ elapsed = [h \in Handlers |-> 0]
    /\ service = [h \in Handlers |-> None]
    /\ req = [h \in Handlers |-> <<>>]
    /\ rep = [h \in Handlers |-> <<>>]
    /\ tpc = [t \in Threads |-> "idle"]
    /\ tat = [t \in Threads |-> None]
    /\ got = [t \in Threads |-> None]
    /\ sent = [t \in Threads |-> 0]
    /\ crashed = FALSE

threadVars == <<req, rep, tpc, tat, got, sent>>

-----------------------------------------------------------------------------
(* The constructor.  The webserver builds its handlers one after another.  *)

\* JavaServiceHandler(): read the DB context, spawn `java -jar ...` as c,
\* start the connect loop (begin = now).
Construct(h) ==
    /\ hpc[h] = "unborn"
    /\ \A g \in Handlers : hpc[g] # "connecting"
    /\ hpc' = [hpc EXCEPT ![h] = "connecting"]
    /\ child' = [child EXCEPT ![h] = "booting"]
    /\ elapsed' = [elapsed EXCEPT ![h] = 0]
    /\ UNCHANGED <<port, service, crashed>>
    /\ UNCHANGED threadVars

\* Mutant of Tick: begin taken anew in every iteration of the loop, so
\* that elapsed_time never grows.
TickBeginInLoop(h) ==
    /\ hpc[h] = "connecting"
    /\ elapsed[h] <= Timeout
    /\ elapsed' = [elapsed EXCEPT ![h] = 0]
    /\ UNCHANGED <<hpc, child, port, service, crashed>>
    /\ UNCHANGED threadVars

\* steady_clock advances while the loop spins.
Tick(h) ==
    /\ hpc[h] = "connecting"
    /\ elapsed[h] <= Timeout
    /\ elapsed' = [elapsed EXCEPT ![h] = @ + 1]
    /\ UNCHANGED <<hpc, child, port, service, crashed>>
    /\ UNCHANGED threadVars

\* One iteration of the while loop that ends it: open() reaches whatever
\* server holds localhost:9090 and _service is set to a client of it; or
\* open() throws, elapsed_time > timeoutInMs_, the exception is rethrown
\* and the constructor catches it, leaving _service null.  A failed open()
\* within the timeout changes nothing and the loop goes round again.
OpenConnects(h) ==
    /\ hpc[h] = "connecting"
    /\ port # None
    /\ service' = [service EXCEPT ![h] = port]
    /\ hpc' = [hpc EXCEPT ![h] = "ready"]

OpenTimesOut(h) ==
    /\ hpc[h] = "connecting"
    /\ port = None
    /\ elapsed[h] > Timeout
    /\ hpc' = [hpc EXCEPT ![h] = "ready"]
    /\ UNCHANGED service

Open(h) ==
    /\ OpenConnects(h) \/ OpenTimesOut(h)
    /\ UNCHANGED <<child, port, elapsed, crashed>>
    /\ UNCHANGED threadVars

-----------------------------------------------------------------------------
(* The Java server processes (environment).                                *)

\* The server binds localhost:9090 if it is free ...
ChildListen(h) ==
    /\ child[h] = "booting"
    /\ port = None
    /\ child' = [child EXCEPT ![h] = "listening"]
    /\ port' = h

\* ... and exits on the bind error if another server holds it.
ChildBindFails(h) ==
    /\ child[h] = "booting"
    /\ port # None
    /\ child' = [child EXCEPT ![h] = "exited"]
    /\ UNCHANGED port

\* A server may die at any time; its port is released.
ChildExit(h) ==
    /\ child[h] \in {"booting", "listening"}
    /\ child' = [child EXCEPT ![h] = "exited"]
    /\ port' = IF port = h THEN None ELSE port

ChildStep(h) ==
    /\ ChildListen(h) \/ ChildBindFails(h) \/ ChildExit(h)
    /\ UNCHANGED <<hpc, elapsed, service, crashed>>
    /\ UNCHANGED threadVars

\* The server answers the oldest request of one connection to it.
Serve(s) ==
    /\ child[s] = "listening"
    /\ \E h \in Handlers :
        /\ service[h] = s
        /\ req[h] # <<>>
        /\ rep' = [rep EXCEPT ![h] = Append(@, Head(req[h]))]
        /\ req' = [req EXCEPT ![h] = Tail(@)]
    /\ UNCHANGED <<hpc, child, port, elapsed, service, tpc, tat, got, sent,
                   crashed>>

-----------------------------------------------------------------------------
(* Queries: JavaServiceHandler::getX forwards to JavaQueryHandler::getX,  *)
(* which runs _service->getX(...).  The webserver serves requests once    *)
(* every handler is constructed.                                          *)

Serving == \A g \in Handlers : hpc[g] = "ready"

\* _service->getX on a null unique_ptr: the webserver dies.
CallNull(t, h) ==
    /\ service[h] = None
    /\ crashed' = TRUE
    /\ UNCHANGED threadVars

\* send_getX: the request is written to the handler's connection.
CallSend(t, h) ==
    /\ service[h] # None
    /\ req' = [req EXCEPT ![h] = Append(@, t)]
    /\ tpc' = [tpc EXCEPT ![t] = "wait"]
    /\ tat' = [tat EXCEPT ![t] = h]
    /\ sent' = [sent EXCEPT ![t] = @ + 1]
    /\ UNCHANGED <<rep, got, crashed>>

Call(t, h) ==
    /\ Serving
    /\ ~crashed
    /\ tpc[t] = "idle"
    /\ sent[t] < MaxQueries
    /\ CallNull(t, h) \/ CallSend(t, h)
    /\ UNCHANGED <<hpc, child, port, elapsed, service>>

\* recv_getX: the thread reads the next reply on its connection.
Recv(t) ==
    /\ ~crashed
    /\ tpc[t] = "wait"
    /\ rep[tat[t]] # <<>>
    /\ got' = [got EXCEPT ![t] = Head(rep[tat[t]])]
    /\ rep' = [rep EXCEPT ![tat[t]] = Tail(@)]
    /\ tpc' = [tpc EXCEPT ![t] = "idle"]
    /\ tat' = [tat EXCEPT ![t] = None]
    /\ UNCHANGED <<hpc, child, port, elapsed, service, req, sent, crashed>>

\* recv_getX on a connection whose server has exited: EOF, the Thrift
\* TTransportException propagates to the webserver's caller.
RecvFails(t) ==
    /\ ~crashed
    /\ tpc[t] = "wait"
    /\ rep[tat[t]] = <<>>
    /\ child[service[tat[t]]] = "exited"
    /\ tpc' = [tpc EXCEPT ![t] = "idle"]
    /\ tat' = [tat EXCEPT ![t] = None]
    /\ UNCHANGED <<hpc, child, port, elapsed, service, req, rep, got, sent,
                   crashed>>

Next ==
    \/ \E h \in Handlers : Construct(h)
    \/ \E h \in Handlers : Tick(h)
    \/ \E h \in Handlers : Open(h)
    \/ \E h \in Handlers : ChildStep(h)
    \/ \E s \in Handlers : Serve(s)
    \/ \E t \in Threads, h \in Handlers : Call(t, h)
    \/ \E t \in Threads : Recv(t)
    \/ \E t \in Threads : RecvFails(t)

\* The clock always advances and the constructing thread always runs; a
\* receiving thread takes a reply or EOF once one is there.  Nothing is
\* assumed of the Java servers: when one starts, exits or answers (TSocket
\* is given no receive timeout, so a live server that never answers keeps
\* its caller waiting).
Fairness ==
    /\ \A h \in Handlers : WF_vars(Tick(h)) /\ WF_vars(Open(h))
    /\ \A h \in Handlers : WF_vars(Construct(h))
    /\ \A t \in Threads : WF_vars(Recv(t)) /\ WF_vars(RecvFails(t))

Spec == Init /\ [][Next]_vars /\ Fairness

-----------------------------------------------------------------------------
(* Properties.                                                             *)

\* getClientInterface returns (connected or by the timeout) whatever the Java
\* server does: the 25 s deadline bounds the spin on transport->open(), even
\* when the server never binds the port or dies while the loop runs.
ConstructorReturns ==
    \A h \in Handlers : hpc[h] = "connecting" ~> hpc[h] = "ready"

\* Each handler's client talks to the Java server it spawned for its own
\* workspace (started with that workspace's -DrawDbContext), never to the
\* server of another handler that holds the fixed port 9090.
ServedByOwnServer ==
    \A h \in Handlers : service[h] \in {h, None}

\* A thread returning from _service->getX gets the reply to its own
\* request: JavaServiceClient's send_getX and recv_getX on the handler's
\* one connection must not interleave with another thread's call.
ReplyToOwnQuery ==
    \A t \in Threads : got[t] \in {t, None}

\* No query is forwarded through a null _service: the constructor catches
\* the connect timeout, so this holds only if no query ever follows it.
NoNullClientCall == ~crashed

=============================================================================
