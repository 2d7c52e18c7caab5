--------------------------- MODULE NetworkSender ---------------------------
(***************************************************************************)
(* One upload of the server to one display: handle_upload and the class    *)
(* Artemis_Network_Sender_Connection it drives.                            *)
(*                                                                         *)
(* The upload has an io_service of its own, run by one thread: `queue'     *)
(* holds the handlers that are ready, and a handler is one atomic action.  *)
(* connect() posts do_connect and start_write() posts do_write right after *)
(* it: the write is not started by the completion of the connect.          *)
(*                                                                         *)
(* Boost.Asio, the kernel and the display are the environment.  The name   *)
(* of the display resolves to Endpoints addresses, which async_connect     *)
(* tries in order.  On a POSIX system the reactor keeps a write behind a   *)
(* connect that is pending on the same socket, and shutdown() aborts a     *)
(* connect in progress; on Windows a write to a socket that is not yet     *)
(* connected fails at once, and so, harmlessly, does shutdown().           *)
(***************************************************************************)
EXTENDS Integers, Sequences

CONSTANTS
    Endpoints,  \* number of addresses the name resolves to
    Chunks      \* number of writes the payload takes

ASSUME NetworkSenderAssumption ==
    /\ Endpoints \in Nat \ {0}
    /\ Chunks \in Nat \ {0}

VARIABLES
    stage,      \* of handle_upload: "idle", "running", "returned", "thrown"
    queue,      \* handlers ready to run on the upload's io_service
    socket,     \* "closed", "connecting", "aborted", "failed", "connected",
                \* "broken", "shutdown"
    endpoint,   \* the address being tried, 0 before the first
    writing,    \* a write waits in the reactor for the socket to be writable
    written,    \* chunks the connected display has been sent
    completions,\* number of calls of handle_write
    accepts,    \* environment: the addresses something listens on
    lost,       \* environment: an established connection was lost
    posix       \* environment: the host's socket layer, see above

vars == <<stage, queue, socket, endpoint, writing, written, completions,
          accepts, lost, posix>>
host == <<accepts, posix>>

Handlers == {"do_connect", "do_write", "connect_ok", "connect_error",
             "write_some", "write_error"}

-----------------------------------------------------------------------------
Init ==
    /\ stage = "idle"
    /\ queue = <<>>
    /\ socket = "closed"
    /\ endpoint = 0
    /\ writing = FALSE
    /\ written = 0
    /\ completions = 0
    /\ accepts \in SUBSET (1 .. Endpoints)
    /\ lost = FALSE
    /\ posix \in BOOLEAN

-----------------------------------------------------------------------------
(* handle_upload, on the thread that generate_queries starts for it. *)

\* The calls of connect() and start_write() before the io_service is run: their
\* posts, in order.
Posted == <<"do_connect", "do_write">>

handle_upload ==
    /\ stage = "idle"
    /\ stage' = "running"
    /\ queue' = Posted
    /\ UNCHANGED <<socket, endpoint, writing, written, completions, lost, host>>

\* resolve() throws for a name that cannot be resolved; no one catches it on
\* the upload's thread.
handle_upload_throws ==
    /\ stage = "idle"
    /\ stage' = "thrown"
    /\ UNCHANGED <<queue, socket, endpoint, writing, written, completions, lost, host>>

\* The io_service has work while a handler is ready or an operation pending.
Pending == socket \in {"connecting", "aborted"} \/ writing
ThreadIsDetached == TRUE
ThreadIsJoined == queue = <<>> /\ ~Pending

\* run() returns, the thread is joined, the connection object is destroyed.
handle_upload_returns ==
    /\ stage = "running"
    /\ ThreadIsJoined
    /\ stage' = "returned"
    /\ UNCHANGED <<queue, socket, endpoint, writing, written, completions, lost, host>>

-----------------------------------------------------------------------------
(* The handlers, run one at a time in the order they became ready. *)

Runs(handler) == stage = "running" /\ queue # <<>> /\ Head(queue) = handler

do_connect ==
    /\ Runs("do_connect")
    /\ queue' = Tail(queue)
    /\ socket' = "connecting"
    /\ endpoint' = 1
    /\ UNCHANGED <<stage, writing, written, completions, lost, host>>

\* async_write starts, or goes on with, a write: it sends what fits, waits, or
\* fails, by the state of the socket.
StartWrite(rest) ==
    \/ /\ socket = "connected"
       /\ written' = written + 1
       /\ queue' = Append(rest, "write_some")
       /\ UNCHANGED writing
    \/ /\ socket = "connected" \/ (posix /\ socket = "connecting")
       /\ writing' = TRUE
       /\ queue' = rest
       /\ UNCHANGED written
    \/ /\ socket \in {"closed", "failed", "aborted", "broken", "shutdown"}
            \/ (~posix /\ socket = "connecting")
       /\ queue' = Append(rest, "write_error")
       /\ UNCHANGED <<written, writing>>

\* do_write does not look whether the connect has completed.
do_write_WaitsForConnect ==
    /\ Runs("do_write")
    /\ IF socket = "connected"
          THEN StartWrite(Tail(queue))
          ELSE queue' = Append(Tail(queue), "do_write") /\ UNCHANGED <<written, writing>>
    /\ UNCHANGED <<stage, socket, endpoint, completions, lost, host>>

do_write ==
    /\ Runs("do_write")
    /\ StartWrite(Tail(queue))
    /\ UNCHANGED <<stage, socket, endpoint, completions, lost, host>>

\* handle_connect only logs.
handle_connect_ok ==
    /\ Runs("connect_ok")
    /\ queue' = Tail(queue)
    /\ UNCHANGED <<stage, socket, endpoint, writing, written, completions, lost, host>>

\* The addresses are tried in order, each of them once.
SameAddress(e) == e
NextAddress(e) == e + 1

\* async_connect goes on to the next address on a new socket; with none left,
\* handle_connect only logs.  Closing the old socket cancels a waiting write.
handle_connect_error ==
    /\ Runs("connect_error")
    /\ IF endpoint < Endpoints
          THEN /\ endpoint' = NextAddress(endpoint)
               /\ socket' = "connecting"
          ELSE UNCHANGED <<endpoint, socket>>
    /\ queue' = IF writing THEN Append(Tail(queue), "write_error") ELSE Tail(queue)
    /\ writing' = FALSE
    /\ UNCHANGED <<stage, written, completions, lost, host>>

\* handle_write shuts the socket down whatever the outcome of the write was.
ShutdownEffect ==
    CASE socket = "connected" -> "shutdown"
      [] socket = "connecting" /\ posix -> "aborted"
      [] OTHER -> socket

handle_write ==
    /\ socket' = ShutdownEffect
    /\ completions' = completions + 1
    /\ queue' = Tail(queue)
    /\ UNCHANGED <<stage, endpoint, writing, written, lost, host>>

\* A part of the payload has been written: async_write goes on until all is.
SomeWritten == written > 0
AllWritten == written = Chunks

handle_write_some ==
    /\ Runs("write_some")
    /\ \/ AllWritten /\ handle_write
       \/ /\ ~AllWritten
          /\ StartWrite(Tail(queue))
          /\ UNCHANGED <<stage, socket, endpoint, completions, lost, host>>

handle_write_error ==
    /\ Runs("write_error")
    /\ handle_write

-----------------------------------------------------------------------------
(* The network. *)

\* A pending connect succeeds, and a write that waited behind it is performed.
Connected ==
    /\ stage = "running" /\ socket = "connecting" /\ endpoint \in accepts
    /\ socket' = "connected"
    /\ queue' = Append(queue, "connect_ok")
    /\ UNCHANGED <<stage, endpoint, writing, written, completions, lost, host>>

\* A pending connect fails, and so does a write that waited behind it.
Refused ==
    /\ stage = "running"
    /\ socket = "aborted" \/ (socket = "connecting" /\ endpoint \notin accepts)
    /\ socket' = "failed"
    /\ queue' = IF writing THEN queue \o <<"connect_error", "write_error">>
                           ELSE Append(queue, "connect_error")
    /\ writing' = FALSE
    /\ UNCHANGED <<stage, endpoint, written, completions, lost, host>>

\* The display takes more data: a waiting write is performed.
Writable ==
    /\ stage = "running" /\ socket = "connected" /\ writing
    /\ writing' = FALSE
    /\ written' = written + 1
    /\ queue' = Append(queue, "write_some")
    /\ UNCHANGED <<stage, socket, endpoint, completions, lost, host>>

\* The display goes away.
Broken ==
    /\ stage = "running" /\ socket = "connected"
    /\ socket' = "broken"
    /\ lost' = TRUE
    /\ queue' = IF writing THEN Append(queue, "write_error") ELSE queue
    /\ writing' = FALSE
    /\ UNCHANGED <<stage, endpoint, written, completions, host>>

-----------------------------------------------------------------------------
Handler ==
    \/ do_connect \/ do_write
    \/ handle_connect_ok \/ handle_connect_error
    \/ handle_write_some \/ handle_write_error

Network == Connected \/ Refused \/ Writable

Next ==
    \/ handle_upload \/ handle_upload_throws \/ handle_upload_returns
    \/ Handler
    \/ Network \/ Broken

Spec == Init /\ [][Next]_vars

\* The io_service's thread runs, a connect is answered or times out, and a
\* display that stays connected goes on reading.  No one has to break anything.
FairSpec ==
    /\ Spec
    /\ WF_vars(Handler) /\ WF_vars(handle_upload_returns) /\ WF_vars(Network)

-----------------------------------------------------------------------------
\* The types; no more is written than the payload has, and it completes once.
TypeOK ==
    /\ stage \in {"idle", "running", "returned", "thrown"}
    /\ queue \in Seq(Handlers)
    /\ socket \in {"closed", "connecting", "aborted", "failed", "connected",
                   "broken", "shutdown"}
    /\ endpoint \in 0 .. Endpoints
    /\ writing \in BOOLEAN
    /\ written \in 0 .. Chunks
    /\ completions \in 0 .. 1
    /\ accepts \in SUBSET (1 .. Endpoints)
    /\ lost \in BOOLEAN /\ posix \in BOOLEAN

\* Only the first address is ever sent anything: if it refuses, the write that
\* was started with the first connect has failed before the next one is made,
\* although async_connect goes on through the whole list (do_connect, do_write).
OnlyFirstEndpointIsServed == written > 0 => endpoint = 1

\* On a POSIX system, an upload whose first address accepts and stays connected
\* delivers the whole payload before the connection is shut down.
WholeIfFirstAccepts ==
    posix /\ stage = "returned" /\ 1 \in accepts /\ ~lost => written = Chunks

\* handle_write runs exactly once in every upload that returns, and before it
\* returns, as it must, being bound to a raw `this': the socket is shut down once
\* and no connection is left open for the display to wait on.
ShutdownOnce ==
    stage = "returned" => completions = 1 /\ socket # "connecting"

\* An upload returns if the network answers: the thread of generate_queries
\* that waits for it is not blocked forever.
UploadReturns == (stage = "running") ~> (stage = "returned")
=============================================================================
