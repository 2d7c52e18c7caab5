--------------------------- MODULE ArtemisServer ---------------------------
(***************************************************************************)
(* The server: Artemis_Server with its pool of threads,                    *)
(* Artemis_Server_Connection and Artemis_Request_Handler.                  *)
(*                                                                         *)
(* One io_service is run by all threads of the pool.  Handlers that are    *)
(* ready wait in its queue; any idle thread takes the oldest one and runs  *)
(* it to its end.  The accept handler starts the read of the connection it *)
(* accepted and then arms the acceptor again.  The read handler serves the *)
(* request on the spot: one upload per computer the request names, each of *)
(* which blocks the pool's thread until it has returned.                   *)
(*                                                                         *)
(* An upload is one interval here; NetworkSender has its inside.  The      *)
(* managers that connect, and the displays, are the environment.           *)
(***************************************************************************)
EXTENDS Integers, Sequences, FiniteSets

CONSTANTS
    Thread,         \* the threads of the pool
    Conn,           \* connections of managers
    NoConn,         \* no connection
    Computer,       \* the displays' addresses (Computer_IP)
    Computers,      \* the computers the request of a connection names, in order
    Unresolvable,   \* addresses that may not be resolvable
    Hung,           \* computers that may take the connection and never read
    MaxErrors       \* bound: number of accepts that fail

ASSUME ArtemisServerAssumption ==
    /\ Thread # {} /\ IsFiniteSet(Thread)
    /\ NoConn \notin Conn
    /\ Computers \in [Conn -> Seq(Computer)]
    /\ Unresolvable \subseteq Computer /\ Hung \subseteq Computer
    /\ MaxErrors \in Nat

VARIABLES
    ready,      \* handlers ready to run, oldest first
    acceptor,   \* "armed" while an async_accept is outstanding, else "idle"
    conn,       \* the server's side of each connection
    message,    \* the manager's side: "nothing", "sent" or "gone"
    pc,         \* where each thread of the pool is
    task,       \* the connection whose handler a thread runs
    served,     \* computers of each connection's request already dealt with
    stopped,    \* io_service.stop() was called
    signalled,  \* SIGINT, SIGTERM or SIGQUIT has arrived
    errors,     \* accepts that failed
    process,    \* "up", "exited" (run has returned) or "terminated"
    unresolvable, hung  \* the computers that are so in this behaviour

shared == <<ready, acceptor>>
clients == <<conn, message, served>>
faults == <<unresolvable, hung>>
control == <<stopped, signalled, errors, process, faults>>
vars == <<ready, acceptor, conn, message, pc, task, served, stopped,
          signalled, errors, process, unresolvable, hung>>

Handler(op, c) == [op |-> op, conn |-> c]
Handlers == [op : {"accept", "accept_error", "read", "read_error", "stop"},
             conn : Conn \cup {NoConn}]

-----------------------------------------------------------------------------
\* The constructor has armed the acceptor; run() has started the pool.
Init ==
    /\ ready = <<>>
    /\ acceptor = "armed"
    /\ conn = [c \in Conn |-> "none"]
    /\ message = [c \in Conn |-> "nothing"]
    /\ pc = [t \in Thread |-> "wait"]
    /\ task = [t \in Thread |-> NoConn]
    /\ served = [c \in Conn |-> 0]
    /\ stopped = FALSE
    /\ signalled = FALSE
    /\ errors = 0
    /\ process = "up"
    /\ unresolvable \in SUBSET Unresolvable
    /\ hung \in SUBSET Hung

-----------------------------------------------------------------------------
(* The managers, the operator and the completion of operations. *)

\* A manager's connection is taken by the kernel before it is accepted.
ManagerConnects(c) ==
    /\ process = "up" /\ conn[c] = "none"
    /\ conn' = [conn EXCEPT ![c] = "backlog"]
    /\ UNCHANGED <<shared, message, pc, task, served, control>>

\* It sends a request with its delimiter, or goes away before that.
ManagerSends(c, what) ==
    /\ process = "up" /\ conn[c] # "none" /\ message[c] = "nothing"
    /\ message' = [message EXCEPT ![c] = what]
    /\ UNCHANGED <<shared, conn, pc, task, served, control>>

AcceptCompletes(c) ==
    /\ process = "up" /\ acceptor = "armed" /\ conn[c] = "backlog"
    /\ acceptor' = "idle"
    /\ conn' = [conn EXCEPT ![c] = "accepted"]
    /\ ready' = Append(ready, Handler("accept", c))
    /\ UNCHANGED <<message, pc, task, served, control>>

AcceptFails ==
    /\ process = "up" /\ acceptor = "armed" /\ errors < MaxErrors
    /\ acceptor' = "idle"
    /\ errors' = errors + 1
    /\ ready' = Append(ready, Handler("accept_error", NoConn))
    /\ UNCHANGED <<clients, pc, task, stopped, signalled, process, faults>>

\* The read of a connection completes with the delimiter or with an error.
ReadCompletes(c) ==
    /\ process = "up" /\ conn[c] = "reading" /\ message[c] # "nothing"
    /\ conn' = [conn EXCEPT ![c] = "read"]
    /\ ready' = Append(ready,
                  Handler(IF message[c] = "sent" THEN "read" ELSE "read_error", c))
    /\ UNCHANGED <<acceptor, message, pc, task, served, control>>

\* The signal's handler needs a thread of the pool like any other one.
SignalArrives ==
    /\ process = "up" /\ ~signalled
    /\ signalled' = TRUE
    /\ ready' = Append(ready, Handler("stop", NoConn))
    /\ UNCHANGED <<acceptor, clients, pc, task, stopped, errors, process, faults>>

-----------------------------------------------------------------------------
(* The threads of the pool. *)

\* After io_service.stop() a thread takes no further handler.
Takes(t, op) ==
    /\ process = "up" /\ pc[t] = "wait" /\ ~stopped
    /\ ready # <<>> /\ Head(ready).op = op
    /\ ready' = Tail(ready)

At(t, label) == process = "up" /\ pc[t] = label

Goto(t, label, c) ==
    /\ pc' = [pc EXCEPT ![t] = label]
    /\ task' = [task EXCEPT ![t] = c]

\* handle_accept without error: new_connection->start() ...
handle_accept(t) ==
    /\ Takes(t, "accept")
    /\ conn' = [conn EXCEPT ![Head(ready).conn] = "reading"]
    /\ Goto(t, "rearm", NoConn)
    /\ UNCHANGED <<acceptor, message, served, control>>

\* ... and with one, nothing is started; the acceptor is armed again all the
\* same.
GiveUpAccepting == "wait"
AfterAcceptError == "rearm"

handle_accept_error(t) ==
    /\ Takes(t, "accept_error")
    /\ Goto(t, AfterAcceptError, NoConn)
    /\ UNCHANGED <<acceptor, clients, control>>

start_accept(t) ==
    /\ At(t, "rearm")
    /\ acceptor' = "armed"
    /\ Goto(t, "wait", NoConn)
    /\ UNCHANGED <<ready, clients, control>>

\* handle_read with an error: the connection object goes away.
handle_read_error(t) ==
    /\ Takes(t, "read_error")
    /\ conn' = [conn EXCEPT ![Head(ready).conn] = "done"]
    /\ UNCHANGED <<acceptor, message, pc, task, served, control>>

\* handle_read without: handle_request, generate_queries.
\* (Before it, one that reads on before it has served the request.)
handle_read_ReadsOn(t) ==
    /\ Takes(t, "read")
    /\ Goto(t, "request", Head(ready).conn)
    /\ conn' = [conn EXCEPT ![Head(ready).conn] = "reading"]
    /\ UNCHANGED <<acceptor, message, served, control>>

handle_read(t) ==
    /\ Takes(t, "read")
    /\ Goto(t, "request", Head(ready).conn)
    /\ UNCHANGED <<acceptor, clients, control>>

NextComputer(t) == Computers[task[t]][served[task[t]] + 1]

\* The loop ends after the last computer.
Exhausted(c) == served[c] = Len(Computers[c])

\* One pass of generate_queries' loop: an upload thread is started and joined.
StartUpload(t) ==
    /\ At(t, "request")
    /\ ~Exhausted(task[t])
    /\ NextComputer(t) \notin unresolvable
    /\ Goto(t, "uploading", task[t])
    /\ UNCHANGED <<shared, clients, control>>

\* connect() throws on the upload's thread, outside the try of handle_request:
\* the exception leaves the thread's function and ends the process.
UploadThrowIsCaught(t) ==
    /\ At(t, "request")
    /\ ~Exhausted(task[t])
    /\ NextComputer(t) \in unresolvable
    /\ served' = [served EXCEPT ![task[t]] = @ + 1]
    /\ UNCHANGED <<shared, conn, message, pc, task, control>>

UploadThrows(t) ==
    /\ At(t, "request")
    /\ ~Exhausted(task[t])
    /\ NextComputer(t) \in unresolvable
    /\ process' = "terminated"
    /\ UNCHANGED <<shared, clients, pc, task, stopped, signalled, errors, faults>>

\* The upload returns, whatever has become of the payload; the join has no
\* time limit, so that a display that never reads keeps the thread for good.
TimedJoin(computer) == TRUE
Join(computer) == computer \notin hung

UploadReturns(t) ==
    /\ At(t, "uploading")
    /\ Join(NextComputer(t))
    /\ served' = [served EXCEPT ![task[t]] = @ + 1]
    /\ Goto(t, "request", task[t])
    /\ UNCHANGED <<shared, conn, message, control>>

RequestServed(t) ==
    /\ At(t, "request")
    /\ Exhausted(task[t])
    /\ conn' = [conn EXCEPT ![task[t]] = "done"]
    /\ Goto(t, "wait", NoConn)
    /\ UNCHANGED <<shared, message, served, control>>

InRequest(t) == pc[t] \in {"request", "uploading"}

\* The stop does not wait for requests in progress, nor is it put off by them.
handle_stop_IfIdle(t) ==
    /\ Takes(t, "stop")
    /\ stopped' = (\A u \in Thread : ~InRequest(u))
    /\ UNCHANGED <<acceptor, clients, pc, task, signalled, errors, process, faults>>

handle_stop(t) ==
    /\ Takes(t, "stop")
    /\ stopped' = TRUE
    /\ UNCHANGED <<acceptor, clients, pc, task, signalled, errors, process, faults>>

\* io_service::run returns on a thread of the pool ...
ThreadReturns(t) ==
    /\ At(t, "wait") /\ stopped
    /\ Goto(t, "returned", NoConn)
    /\ UNCHANGED <<shared, clients, control>>

\* ... and, once it has on all of them, so does Artemis_Server::run.
OneJoined == \E t \in Thread : pc[t] = "returned"
AllJoined == \A t \in Thread : pc[t] = "returned"

RunReturns ==
    /\ process = "up" /\ AllJoined
    /\ process' = "exited"
    /\ UNCHANGED <<shared, clients, pc, task, stopped, signalled, errors, faults>>

-----------------------------------------------------------------------------
ThreadStep(t) ==
    \/ handle_accept(t) \/ handle_accept_error(t) \/ start_accept(t)
    \/ handle_read(t) \/ handle_read_error(t)
    \/ StartUpload(t) \/ UploadThrows(t) \/ UploadReturns(t) \/ RequestServed(t)
    \/ handle_stop(t) \/ ThreadReturns(t)

Completion == AcceptFails \/ \E c \in Conn : AcceptCompletes(c) \/ ReadCompletes(c)

Manager == \E c \in Conn :
    ManagerConnects(c) \/ ManagerSends(c, "sent") \/ ManagerSends(c, "gone")

Next ==
    \/ Manager \/ SignalArrives \/ Completion
    \/ \E t \in Thread : ThreadStep(t)
    \/ RunReturns

Spec == Init /\ [][Next]_vars

\* Threads run and operations that can complete do; managers and the operator
\* need not do anything.
FairSpec ==
    /\ Spec
    /\ \A t \in Thread : WF_vars(ThreadStep(t))
    /\ \A c \in Conn : WF_vars(AcceptCompletes(c)) /\ WF_vars(ReadCompletes(c))
    /\ WF_vars(RunReturns)

-----------------------------------------------------------------------------
\* The types; a thread that serves a request has one, and no loop over the
\* computers of a request runs past the last of them.
TypeOK ==
    /\ ready \in Seq(Handlers)
    /\ acceptor \in {"armed", "idle"}
    /\ conn \in [Conn -> {"none", "backlog", "accepted", "reading", "read", "done"}]
    /\ message \in [Conn -> {"nothing", "sent", "gone"}]
    /\ pc \in [Thread -> {"wait", "rearm", "request", "uploading", "returned"}]
    /\ task \in [Thread -> Conn \cup {NoConn}]
    /\ \A t \in Thread : InRequest(t) => task[t] \in Conn
    /\ served \in [Conn -> Nat]
    /\ \A c \in Conn : served[c] <= Len(Computers[c])
    /\ stopped \in BOOLEAN /\ signalled \in BOOLEAN
    /\ errors \in 0 .. MaxErrors
    /\ process \in {"up", "exited", "terminated"}
    /\ unresolvable \subseteq Unresolvable /\ hung \subseteq Hung

QueuedAccepts ==
    {i \in DOMAIN ready : ready[i].op \in {"accept", "accept_error"}}
Rearming == {t \in Thread : pc[t] = "rearm"}

\* The accept chain never breaks and never forks: at any time there is either
\* one outstanding accept, one queued accept handler, or one thread inside
\* handle_accept.  So new_connection has one user (handle_accept, start_accept).
AcceptChain ==
    Cardinality(QueuedAccepts) + Cardinality(Rearming)
        + (IF acceptor = "armed" THEN 1 ELSE 0) = 1

QueuedReads(c) ==
    {i \in DOMAIN ready : ready[i].op \in {"read", "read_error"} /\ ready[i].conn = c}
ThreadsOf(c) == {t \in Thread : InRequest(t) /\ task[t] = c}

\* The handlers of one connection never run concurrently, although they are not
\* run through its strand: a read is not started while another is outstanding,
\* queued or being handled (start, handle_read).
OneHandlerPerConnection ==
    \A c \in Conn :
        Cardinality(QueuedReads(c)) + Cardinality(ThreadsOf(c))
            = (IF conn[c] = "read" THEN 1 ELSE 0)

\* A stop drops requests that are still queued, but never cuts one short between
\* two of its computers: when run() has returned, every request of which a
\* computer was dealt with is done (handle_stop, generate_queries, run).
StopCutsNoRequestShort ==
    process = "exited" => \A c \in Conn : served[c] > 0 => conn[c] = "done"

\* Threads that wait for a display that never reads.
Blocked(t) == pc[t] = "uploading" /\ NextComputer(t) \in hung
PoolExhausted == process = "up" /\ \A t \in Thread : Blocked(t)

\* Every request that was sent whole is served to the last of its computers,
\* whatever becomes of the uploads before, unless it waits for a display
\* that hangs, all threads do, the server is told to stop, or a request that
\* names an unresolvable computer ends it: as long as one thread is left,
\* a hung display holds up no request but those that name it.
EveryRequestServed ==
    \A c \in Conn :
        (conn[c] # "none" /\ message[c] = "sent")
            ~> \/ conn[c] = "done" /\ served[c] = Len(Computers[c])
               \/ signalled \/ process = "terminated" \/ PoolExhausted
               \/ \E t \in Thread : Blocked(t) /\ task[t] = c

\* A stop signal is handled as long as one thread is left, whatever the others
\* are busy with, and then ends the server unless a display hangs, whose upload
\* run waits for (handle_stop, run).
StopEndsServer ==
    /\ signalled ~> (stopped \/ process # "up" \/ PoolExhausted)
    /\ stopped ~> (process # "up" \/ \E t \in Thread : Blocked(t))

\* The upload of one of its computers hangs, if it comes to it.
Hangs(c) ==
    \E i \in DOMAIN Computers[c] :
        Computers[c][i] \in hung /\ \A j \in 1 .. i : Computers[c][j] \notin unresolvable
HangingRequests == {c \in Conn : conn[c] # "none" /\ message[c] = "sent" /\ Hangs(c)}

\* As many requests as there are threads, each of which comes to a display that
\* does not read, take the whole pool and keep it, whatever order they arrive and
\* are read in: no thread is left to accept, to serve, or to run the handler of a
\* stop signal that comes later (the unbounded join in generate_queries).
HungDisplaysTakeThePool ==
    Cardinality(HangingRequests) >= Cardinality(Thread)
        ~> signalled \/ process = "terminated" \/ []PoolExhausted

\* One request with an unresolvable computer, once it is read, takes the server
\* down with all other requests in progress, unless a signal comes first or
\* that request, or the whole pool, waits for a display that hangs.
OneBadNameEndsServer ==
    \A c \in Conn :
        (/\ conn[c] = "read" /\ message[c] = "sent"
         /\ \E i \in DOMAIN Computers[c] : Computers[c][i] \in unresolvable)
            ~> \/ process = "terminated" \/ signalled \/ PoolExhausted
               \/ \E t \in Thread : Blocked(t) /\ task[t] = c
=============================================================================
