---------------------------- MODULE HttpTransport ----------------------------
(***************************************************************************)
(* The sockets of HttpServer.cpp: the accept loop, a session per connection*)
(* (read, handle, write, close), the io threads they share, the deadline of*)
(* a session, and Start and Stop of the io context.                        *)
(*                                                                         *)
(* An asynchronous operation ends in the kernel and queues its handler; a  *)
(* handler needs an io thread.  HandleRequest is seen from outside: it     *)
(* takes up to SyncTimeout (module HttpServer is what happens in it).      *)
(* Boost.Asio calls queued handlers in order and keeps them over            *)
(* _ioc.stop() and restart(); it is modelled from how the code uses it.     *)
(***************************************************************************)
EXTENDS Naturals, SequencesExt

CONSTANTS
    Conns,        \* connections that clients may open
    IoThreads,    \* 2 in the code
    Starts,       \* bound: calls of Start
    Deadline,     \* 30 s in the code
    SyncTimeout   \* _config.syncTimeoutMs

ASSUME TransportAssumption ==
    /\ IsFiniteSet(Conns) /\ Conns \cap Nat = {} /\ IoThreads \in Nat \ {0}
    /\ Starts \in Nat /\ Deadline \in Nat \ {0} /\ SyncTimeout \in Nat

VARIABLES
    app,       \* the application's thread: serving, or how far Stop has come
    running,   \* _running
    starts,    \* calls of Start so far
    queue,     \* _ioc: the accept loops and sessions whose handler is to be called
    loop,      \* loop[k]: where the accept loop begun by the k-th Start is
    conn,      \* conn[c]: where the connection or its session is
    age,       \* age[c]: time since expires_after, up to Deadline
    early,     \* history: requests that were read with enough of the deadline left
    waited,    \* waited[c]: time in HandleRequest
    response   \* response[c]: what became of it, until the session is closed

appVars   == <<app, running, starts>>
timeVars  == <<age, early, waited>>
vars == <<appVars, queue, loop, conn, timeVars, response>>

Loops == 1..Starts

TypeOK ==
    /\ app \in {"stopped", "serving", "close", "stopIoc", "join"}
    /\ running \in BOOLEAN /\ starts \in 0..Starts
    /\ queue \in Seq(Loops \cup Conns)
    /\ loop \in [Loops -> {"none", "armed", "accepted", "failed", "tested", "rearm"}]
    /\ conn \in [Conns -> {"new", "backlog", "accepted", "reading", "read", "unread",
                           "handling", "writing", "written", "closed"}]
    /\ age \in [Conns -> 0..Deadline] /\ early \subseteq Conns
    /\ waited \in [Conns -> 0..SyncTimeout]
    /\ response \in [Conns -> {"none", "sent", "lost", "late"}]

Init ==
    /\ app = "stopped" /\ running = FALSE /\ starts = 0
    /\ queue = <<>> /\ loop = [k \in Loops |-> "none"]
    /\ conn = [c \in Conns |-> "new"]
    /\ age = [c \in Conns |-> 0] /\ early = {} /\ waited = age
    /\ response = [c \in Conns |-> "none"]

Busy ==
    {k \in Loops : loop[k] \in {"tested", "rearm"}} \cup {c \in Conns : conn[c] = "handling"}

\* io_context runs, and a thread waits for a handler to call.
ThreadFree == app \in {"serving", "close", "stopIoc"} /\ Cardinality(Busy) < IoThreads

\* The kernel ends an operation of x; a thread calls the handler of x.
Enqueue(x) == queue' = Append(queue, x)
Called(x)  == ThreadFree /\ queue # <<>> /\ Head(queue) = x /\ queue' = Tail(queue)

Listening == app \in {"serving", "close"}

Goto(c, from, to) == conn[c] = from /\ conn' = [conn EXCEPT ![c] = to]
Loop(k, to) == loop' = [loop EXCEPT ![k] = to]
-----------------------------------------------------------------------------
(* The accept loop.                                                         *)

Connect(c) ==
    /\ Listening /\ Goto(c, "new", "backlog")
    /\ UNCHANGED <<appVars, queue, loop, timeVars, response>>

KernelAccepts(c) ==
    \E k \in Loops :
        /\ Listening /\ loop[k] = "armed"
        /\ Goto(c, "backlog", "accepted") /\ Loop(k, "accepted") /\ Enqueue(k)
        /\ UNCHANGED <<appVars, timeVars, response>>

AcceptFails(k) ==
    /\ loop[k] = "armed" /\ Loop(k, "failed") /\ Enqueue(k)
    /\ UNCHANGED <<appVars, conn, timeVars, response>>

\* Faulty variant: the loop ends with the first error.
GoesOnUnlessFailed(k) == running /\ loop[k] = "accepted"

GoesOn(k) == running

\* The handler: a stopped server drops the socket; otherwise a session begins to
\* read, unless accept failed.
OnAccept(k) ==
    /\ Called(k)
    /\ Loop(k, IF GoesOn(k) THEN "tested" ELSE "none")
    /\ \/ loop[k] = "failed" /\ UNCHANGED conn
       \/ /\ loop[k] = "accepted"
          /\ \E c \in Conns : Goto(c, "accepted", IF running THEN "reading" ELSE "closed")
    /\ UNCHANGED <<appVars, timeVars, response>>

\* DoAccept tests _running again, and async_accept may find the acceptor closed.
DoAccept(k) ==
    /\ loop[k] = "tested" /\ Loop(k, IF running THEN "rearm" ELSE "none")
    /\ UNCHANGED <<appVars, queue, conn, timeVars, response>>

AsyncAccept(k) ==
    /\ loop[k] = "rearm"
    /\ \/ Listening /\ Loop(k, "armed") /\ UNCHANGED queue
       \/ ~Listening /\ Loop(k, "failed") /\ Enqueue(k)
    /\ UNCHANGED <<appVars, conn, timeVars, response>>
-----------------------------------------------------------------------------
(* A session.                                                               *)

\* The waits a request may go through: those before it in the queue, and its own.
Turns == (Cardinality(Conns) + IoThreads - 1) \div IoThreads
LeavesTimeForWaits(time) == time + Turns * SyncTimeout < Deadline

\* async_read ends: with a request, with an error or the end of the stream, or
\* with the deadline.
ReadEnds(c) ==
    /\ app # "stopped" /\ Enqueue(c)
    /\ \/ Goto(c, "reading", "unread") /\ UNCHANGED early
       \/ /\ age[c] < Deadline /\ Goto(c, "reading", "read")
          /\ early' = IF LeavesTimeForWaits(age[c]) THEN early \cup {c} ELSE early
    /\ UNCHANGED <<appVars, loop, age, waited, response>>

\* A session that is closed is forgotten.
Forget(c) ==
    /\ age' = [age EXCEPT ![c] = 0] /\ early' = early \ {c}
    /\ waited' = [waited EXCEPT ![c] = 0] /\ response' = [response EXCEPT ![c] = "none"]

OnRead(c) ==
    /\ Called(c)
    /\ \/ Goto(c, "read", "handling") /\ UNCHANGED <<timeVars, response>>
       \/ Goto(c, "unread", "closed") /\ Forget(c)
    /\ UNCHANGED <<appVars, loop>>

\* HandleRequest returns, and async_write begins.
OnReadEnds(c) ==
    /\ Goto(c, "handling", "writing")
    /\ UNCHANGED <<appVars, queue, loop, timeVars, response>>

\* The write has what is left of the deadline that was set for the read: past
\* it, the timer races with the write.
WriteEnds(c) ==
    /\ app # "stopped" /\ Goto(c, "writing", "written") /\ Enqueue(c)
    /\ \E result \in {"sent", "lost"} \cup (IF age[c] = Deadline THEN {"late"} ELSE {}) :
          response' = [response EXCEPT ![c] = result]
    /\ UNCHANGED <<appVars, loop, timeVars>>

OnWrite(c) ==
    /\ Called(c) /\ Goto(c, "written", "closed") /\ Forget(c)
    /\ UNCHANGED <<appVars, loop>>
-----------------------------------------------------------------------------
(* Time.                                                                    *)

\* Faulty variant: the wait has no timeout.
MayWaitForever(c) == TRUE

MayWait(c) == waited[c] < SyncTimeout

Older(c) ==
    IF conn[c] \in {"reading", "read", "handling"} /\ age[c] < Deadline
    THEN age[c] + 1 ELSE age[c]

\* Only reads and HandleRequest take time: a free thread calls a queued handler
\* at once, and a response fits the socket's buffer.
Tick ==
    /\ ~(ThreadFree /\ queue # <<>>) /\ Busy \subseteq Conns
    /\ \A c \in Conns : conn[c] # "writing" /\ (conn[c] = "handling" => MayWait(c))
    /\ age' = [c \in Conns |-> Older(c)]
    /\ waited' = [c \in Conns |->
                     IF conn[c] = "handling" /\ waited[c] < SyncTimeout
                     THEN waited[c] + 1 ELSE waited[c]]
    /\ age' # age
    /\ UNCHANGED <<appVars, queue, loop, conn, early, response>>
-----------------------------------------------------------------------------
(* Start and Stop, called by one thread.                                    *)

\* Start listens and begins an accept loop.  If the host is invalid or the port
\* taken, it undoes what it did and nothing of this changes.
Start ==
    /\ app = "stopped" /\ ~running /\ starts < Starts
    /\ app' = "serving" /\ running' = TRUE /\ starts' = starts + 1
    /\ Loop(starts + 1, "armed")
    /\ UNCHANGED <<queue, conn, timeVars, response>>

Stop ==
    /\ app = "serving"
    /\ running' = FALSE /\ app' = "close"
    /\ UNCHANGED <<starts, queue, loop, conn, timeVars, response>>

\* _acceptor.close() aborts the accept and resets who waits to be accepted.
CloseAcceptor ==
    /\ app = "close" /\ app' = "stopIoc"
    /\ \E aborted \in SetToSeqs({k \in Loops : loop[k] = "armed"}) : queue' = queue \o aborted
    /\ loop' = [k \in Loops |-> IF loop[k] = "armed" THEN "failed" ELSE loop[k]]
    /\ conn' = [c \in Conns |-> IF conn[c] = "backlog" THEN "closed" ELSE conn[c]]
    /\ UNCHANGED <<running, starts, timeVars, response>>

\* NotifyAllWaitersAsStopped (module HttpServer), and _ioc.stop().
StopIoc ==
    /\ app = "stopIoc" /\ app' = "join"
    /\ UNCHANGED <<running, starts, queue, loop, conn, timeVars, response>>

IoIdle == Busy = {}

JoinThreads ==
    /\ app = "join" /\ IoIdle
    /\ app' = "stopped"
    /\ UNCHANGED <<running, starts, queue, loop, conn, timeVars, response>>
-----------------------------------------------------------------------------
CallHandler ==
    \/ \E k \in Loops : OnAccept(k)
    \/ \E c \in Conns : OnRead(c) \/ OnWrite(c)
Handler ==
    \/ \E k \in Loops : DoAccept(k) \/ AsyncAccept(k)
    \/ \E c \in Conns : OnReadEnds(c)
Kernel(c) == KernelAccepts(c) \/ ReadEnds(c) \/ WriteEnds(c)
Shutdown == CloseAcceptor \/ StopIoc \/ JoinThreads

Next ==
    \/ CallHandler \/ Handler \/ Tick
    \/ \E c \in Conns : Connect(c) \/ Kernel(c)
    \/ \E k \in Loops : AcceptFails(k)
    \/ Start \/ Stop \/ Shutdown

Spec == Init /\ [][Next]_vars

\* A free thread calls the first handler, a handler that runs ends, a read ends at
\* the latest with its deadline, and accept does not fail for ever.
FairSpec ==
    /\ Spec
    /\ WF_vars(CallHandler)
    /\ \A k \in Loops : WF_vars(DoAccept(k)) /\ WF_vars(AsyncAccept(k))
    /\ \A c \in Conns :
          /\ SF_vars(KernelAccepts(c))
          /\ WF_vars(ReadEnds(c)) /\ WF_vars(WriteEnds(c)) /\ WF_vars(OnReadEnds(c))
    /\ WF_vars(Shutdown)
-----------------------------------------------------------------------------
\* The one deadline of a session also covers the time in which its request queues
\* for an io thread behind others' synchronous waits, its own wait, and the
\* response.  A response is too late only if the client took longer to send the
\* request than those waits leave, or if the server was stopped and started again
\* in between, when handlers stay queued for as long as it is stopped.
LateOnlyIfReadLate ==
    starts = 1 => \A c \in early : response[c] # "late"

\* Every client that connects gets its session served to the end, unless Stop
\* comes: errors of accept do not stop the loop, and waits free their threads.
EveryClientServed ==
    \A c \in Conns : (conn[c] = "backlog") ~> (conn[c] = "closed" \/ ~running)
=============================================================================
