\* The webserver idles once every thread has used its query budget, and a
\* crash on a null _service ends the process: both are terminal.
CONSTANTS
    h1 = h1
    h2 = h2
    t1 = t1
    t2 = t2
    None = None
    Handlers <- MCHandlers
    Threads <- MCThreads
    Timeout = 2
    MaxQueries = 1
SPECIFICATION Spec
CHECK_DEADLOCK FALSE
INVARIANT ReplyToOwnQuery
