------------------------- MODULE NetworkSenderProofs -------------------------
(***************************************************************************)
(* Proofs about NetworkSender, for any number of addresses and chunks.     *)
(*                                                                         *)
(* The io_service never has more than two handlers ready: one that belongs *)
(* to the connect and one that belongs to the write.  The inductive        *)
(* invariant goes through the phases of an upload, each with what its      *)
(* queue holds and what the socket is then; the properties are read off    *)
(* them.                                                                   *)
(***************************************************************************)
EXTENDS NetworkSender, SequenceTheorems, TLAPS

Idle ==
    /\ stage \in {"idle", "thrown"} /\ completions = 0 /\ ~writing
    /\ queue = <<>> /\ socket = "closed" /\ endpoint = 0

\* connect() and start_write() were posted; the connect may have been answered.
Opening ==
    /\ stage = "running" /\ completions = 0 /\ ~writing /\ written = 0
    /\ \/ queue = <<"do_connect", "do_write">> /\ socket = "closed" /\ endpoint = 0
       \/ /\ endpoint = 1
          /\ \/ queue = <<"do_write">> /\ socket = "connecting"
             \/ queue = <<"do_write", "connect_ok">> /\ socket \in {"connected", "broken"}
             \/ queue = <<"do_write", "connect_error">> /\ socket = "failed"

\* The write waits, behind the connect or for the display to read.
Waiting ==
    /\ stage = "running" /\ completions = 0 /\ writing /\ endpoint = 1
    /\ \/ queue = <<>> /\ socket = "connecting" /\ posix
       \/ queue \in {<<>>, <<"connect_ok">>} /\ socket = "connected" /\ written < Chunks

\* Some of the payload has been written.
Sending ==
    /\ stage = "running" /\ completions = 0 /\ ~writing /\ endpoint = 1 /\ written > 0
    /\ queue \in {<<"write_some">>, <<"connect_ok", "write_some">>}
    /\ socket \in {"connected", "broken"}

\* The write has failed; the connect goes on regardless.
Failing ==
    /\ stage = "running" /\ completions = 0 /\ ~writing /\ endpoint > 0
    /\ \/ queue = <<"connect_error", "write_error">> /\ socket = "failed"
       \/ queue = <<"connect_ok", "write_error">> /\ socket = "broken"
       \/ queue = <<"write_error">> /\ socket \in {"connecting", "failed", "broken"}
       \/ queue = <<"write_error", "connect_error">> /\ socket = "failed"
       \/ queue = <<"write_error", "connect_ok">> /\ socket \in {"connected", "broken"}

\* handle_write has run; what is left is the connect.
Completed ==
    /\ stage = "running" /\ completions = 1 /\ ~writing /\ endpoint > 0
    /\ \/ queue = <<>> /\ socket # "closed"
       \/ queue = <<"connect_ok">> /\ socket \in {"connected", "broken", "shutdown"}
       \/ queue = <<"connect_error">> /\ socket = "failed"

Returned ==
    /\ stage = "returned" /\ completions = 1 /\ ~writing
    /\ queue = <<>> /\ socket \notin {"closed", "connecting", "aborted"}

Phase == Idle \/ Opening \/ Waiting \/ Sending \/ Failing \/ Completed \/ Returned

\* The types, but for those of the queue and the completions, which the phases
\* say more of.
Ranges ==
    /\ stage \in {"idle", "running", "returned", "thrown"}
    /\ socket \in {"closed", "connecting", "aborted", "failed", "connected",
                   "broken", "shutdown"}
    /\ endpoint \in 0 .. Endpoints
    /\ writing \in BOOLEAN
    /\ written \in 0 .. Chunks
    /\ accepts \in SUBSET (1 .. Endpoints)
    /\ lost \in BOOLEAN /\ posix \in BOOLEAN

\* Nothing was written without a connection, and only to the first address.
WrittenToFirst ==
    /\ socket \in {"closed", "connecting", "aborted", "failed"} => written = 0
    /\ written > 0 => endpoint = 1

BrokenIsLost == socket = "broken" => lost

\* Where the first address accepts, nothing fails unless the connection is lost.
FirstAccepts ==
    posix /\ 1 \in accepts /\ ~lost =>
        /\ ~Failing
        /\ socket \notin {"failed", "aborted"}
        /\ completions = 1 => written = Chunks

IInv == Ranges /\ Phase /\ WrittenToFirst /\ BrokenIsLost /\ FirstAccepts

-----------------------------------------------------------------------------
\* Queues of at most two handlers.
LEMMA ShortQueues ==
    ASSUME NEW a, NEW b
    PROVE  /\ <<a>> # <<>> /\ <<a, b>> # <<>>
           /\ Head(<<a>>) = a /\ Head(<<a, b>>) = a
           /\ Tail(<<a>>) = <<>> /\ Tail(<<a, b>>) = <<b>>
           /\ Append(<<>>, a) = <<a>> /\ Append(<<a>>, b) = <<a, b>>
           /\ <<>> \o <<a, b>> = <<a, b>>
<1>1. <<a>> # <<>> /\ <<a, b>> # <<>>
  OBVIOUS
<1>2. Head(<<a>>) = a /\ Head(<<a, b>>) = a
  OBVIOUS
<1>3. Tail(<<a>>) = <<>>
  OBVIOUS
<1>4. Tail(<<a, b>>) = <<b>>
  OBVIOUS
<1>5. Append(<<>>, a) = <<a>>
  OBVIOUS
<1>6. Append(<<a>>, b) = <<a, b>>
  <2>1. <<a>> \in Seq({a, b}) /\ <<a, b>> \in Seq({a, b})
    OBVIOUS
  <2>2. /\ Append(<<a>>, b) \in Seq({a, b})
        /\ Len(Append(<<a>>, b)) = 2
        /\ Append(<<a>>, b)[1] = a /\ Append(<<a>>, b)[2] = b
    BY <2>1
  <2>3. Len(<<a, b>>) = 2 /\ <<a, b>>[1] = a /\ <<a, b>>[2] = b
    OBVIOUS
  <2>4. \A i \in 1 .. 2 : i = 1 \/ i = 2
    OBVIOUS
  <2> DEFINE s == Append(<<a>>, b)
             t == <<a, b>>
  <2>5. /\ s \in Seq({a, b}) /\ t \in Seq({a, b}) /\ Len(s) = Len(t)
        /\ \A i \in 1 .. Len(s) : s[i] = t[i]
    BY <2>1, <2>2, <2>3, <2>4
  <2> HIDE DEF s, t
  <2>6. s = t
    BY <2>5, SeqEqual
  <2> QED
    BY <2>6 DEF s, t
<1>7. <<>> \o <<a, b>> = <<a, b>>
  OBVIOUS
<1> QED
  BY <1>1, <1>2, <1>3, <1>4, <1>5, <1>6, <1>7

\* It holds before the upload is started.
LEMMA Initially ==
    ASSUME NetworkSenderAssumption, Init
    PROVE  IInv
<1>1. Ranges
  <2>1. 0 \in 0 .. Endpoints /\ 0 \in 0 .. Chunks
    BY DEF NetworkSenderAssumption
  <2> QED
    BY <2>1, Zenon DEF Init, Ranges
<1>2. Idle /\ ~Failing
  BY DEF Init, Idle, Failing
<1> QED
  BY <1>1, <1>2 DEF Init, IInv, Phase, Idle, WrittenToFirst, BrokenIsLost, FirstAccepts

\* handle_upload: the calls that post, the exception, and the return.
LEMMA UploadSteps ==
    ASSUME NetworkSenderAssumption, IInv,
           handle_upload \/ handle_upload_throws \/ handle_upload_returns
    PROVE  IInv'
<1> USE DEF IInv, Ranges, WrittenToFirst, BrokenIsLost, FirstAccepts
<1>1. CASE handle_upload
  <2>1. Idle
    BY <1>1 DEF handle_upload, Phase, Idle, Opening, Waiting, Sending, Failing,
       Completed, Returned
  <2>2. Opening'
    BY <1>1, <2>1 DEF handle_upload, Posted, Idle, Opening, host
  <2>3. ~Failing'
    BY <1>1, ShortQueues DEF handle_upload, Posted, Failing
  <2> QED
    BY <1>1, <2>1, <2>2, <2>3 DEF handle_upload, Idle, Phase, host
<1>2. CASE handle_upload_throws
  <2>1. Idle
    BY <1>2 DEF handle_upload_throws, Phase, Idle, Opening, Waiting, Sending, Failing,
       Completed, Returned
  <2>2. Idle' /\ ~Failing'
    BY <1>2, <2>1 DEF handle_upload_throws, Idle, Failing, host
  <2> QED
    BY <1>2, <2>1, <2>2 DEF handle_upload_throws, Phase, host
<1>3. CASE handle_upload_returns
  <2>1. Completed
    BY <1>3, ShortQueues DEF handle_upload_returns, ThreadIsJoined, Pending, Phase, Idle,
       Opening, Waiting, Sending, Failing, Completed, Returned
  <2>2. Returned' /\ ~Failing'
    BY <1>3, <2>1 DEF handle_upload_returns, ThreadIsJoined, Pending, Completed, Returned,
       Failing, host
  <2> QED
    BY <1>3, <2>1, <2>2 DEF handle_upload_returns, Phase, host
<1> QED
  BY <1>1, <1>2, <1>3

-----------------------------------------------------------------------------
(* The handlers. *)

\* A phase is settled by what is first in the queue.
LEMMA HeadTellsPhase ==
    ASSUME Phase, NEW handler, Runs(handler)
    PROVE  /\ stage = "running" /\ (Opening \/ Waiting \/ Sending \/ Failing \/ Completed)
           /\ handler = "do_connect" =>
                queue = <<"do_connect", "do_write">> /\ socket = "closed" /\ Opening
           /\ handler = "do_write" =>
                /\ Opening /\ endpoint = 1
                /\ \/ queue = <<"do_write">> /\ socket = "connecting"
                   \/ queue = <<"do_write", "connect_ok">>
                        /\ socket \in {"connected", "broken"}
                   \/ queue = <<"do_write", "connect_error">> /\ socket = "failed"
           /\ handler = "connect_ok" =>
                \/ Waiting /\ queue = <<"connect_ok">>
                \/ Sending /\ queue = <<"connect_ok", "write_some">>
                \/ Failing /\ queue = <<"connect_ok", "write_error">> /\ socket = "broken"
                \/ Completed /\ queue = <<"connect_ok">>
           /\ handler = "connect_error" =>
                /\ socket = "failed" /\ ~writing
                /\ \/ Failing /\ queue = <<"connect_error", "write_error">>
                   \/ Completed /\ queue = <<"connect_error">>
           /\ handler = "write_some" => Sending /\ queue = <<"write_some">>
           /\ handler = "write_error" =>
                /\ Failing
                /\ \/ queue = <<"write_error">>
                        /\ socket \in {"connecting", "failed", "broken"}
                   \/ queue = <<"write_error", "connect_error">> /\ socket = "failed"
                   \/ queue = <<"write_error", "connect_ok">>
                        /\ socket \in {"connected", "broken"}
<1>1. stage = "running" /\ queue # <<>> /\ handler = Head(queue)
  BY DEF Runs
<1>2. Opening \/ Waiting \/ Sending \/ Failing \/ Completed
  BY <1>1 DEF Phase, Idle, Returned
<1>3. CASE Opening
  BY <1>1, <1>3, ShortQueues DEF Opening
<1>4. CASE Waiting
  BY <1>1, <1>4, ShortQueues DEF Waiting
<1>5. CASE Sending
  BY <1>1, <1>5, ShortQueues DEF Sending
<1>6. CASE Failing
  BY <1>1, <1>6, ShortQueues DEF Failing
<1>7. CASE Completed
  BY <1>1, <1>7, ShortQueues DEF Completed
<1> QED
  BY <1>2, <1>3, <1>4, <1>5, <1>6, <1>7

\* The first address is tried, on a socket that nothing was done with.
LEMMA do_connect_keeps ==
    ASSUME NetworkSenderAssumption, IInv, do_connect
    PROVE  IInv'
<1> USE DEF IInv, Ranges, WrittenToFirst, BrokenIsLost, FirstAccepts
<1>1. queue = <<"do_connect", "do_write">> /\ socket = "closed" /\ Opening
  BY HeadTellsPhase DEF do_connect
<1>2. /\ queue' = <<"do_write">> /\ socket' = "connecting" /\ endpoint' = 1
      /\ UNCHANGED <<stage, writing, written, completions, lost, accepts, posix>>
  BY <1>1, ShortQueues DEF do_connect, host
<1>3. Opening' /\ ~Failing'
  BY <1>1, <1>2 DEF Opening, Failing
<1>4. 1 \in 0 .. Endpoints
  BY DEF NetworkSenderAssumption
<1> QED
  BY <1>1, <1>2, <1>3, <1>4 DEF Phase, Opening

\* A write that is started or goes on, with at most one other handler ready.
LEMMA do_write_keeps ==
    ASSUME NetworkSenderAssumption, IInv, do_write
    PROVE  IInv'
<1> USE DEF IInv, Ranges, WrittenToFirst, BrokenIsLost, FirstAccepts
<1>1. /\ Opening /\ endpoint = 1
      /\ \/ queue = <<"do_write">> /\ socket = "connecting"
         \/ queue = <<"do_write", "connect_ok">> /\ socket \in {"connected", "broken"}
         \/ queue = <<"do_write", "connect_error">> /\ socket = "failed"
  BY HeadTellsPhase DEF do_write
<1>2. /\ StartWrite(Tail(queue))
      /\ UNCHANGED <<stage, socket, endpoint, completions, lost, accepts, posix>>
  BY DEF do_write, host
<1>3. stage = "running" /\ completions = 0 /\ ~writing /\ written = 0
  BY <1>1 DEF Opening
<1>4. 1 \in 0 .. Chunks /\ 0 < Chunks /\ 1 > 0
  BY DEF NetworkSenderAssumption
<1>5. CASE queue = <<"do_write">>
  <2>1. socket = "connecting" /\ Tail(queue) = <<>>
    BY <1>1, <1>5, ShortQueues
  <2>2. \/ posix /\ writing' = TRUE /\ queue' = <<>> /\ written' = written
        \/ ~posix /\ queue' = <<"write_error">> /\ UNCHANGED <<written, writing>>
    BY <1>2, <2>1, ShortQueues DEF StartWrite
  <2>3. CASE posix /\ writing' = TRUE /\ queue' = <<>> /\ written' = written
    <3>1. Waiting' /\ ~Failing'
      BY <1>1, <1>2, <1>3, <2>1, <2>3 DEF Waiting, Failing
    <3> QED
      BY <1>2, <1>3, <2>3, <3>1 DEF Phase
  <2>4. CASE ~posix /\ queue' = <<"write_error">> /\ UNCHANGED <<written, writing>>
    <3>1. Failing'
      BY <1>1, <1>2, <1>3, <2>1, <2>4 DEF Failing
    <3> QED
      BY <1>2, <1>3, <2>4, <3>1 DEF Phase
  <2> QED
    BY <2>2, <2>3, <2>4
<1>6. CASE queue = <<"do_write", "connect_ok">> /\ socket = "connected"
  <2>1. Tail(queue) = <<"connect_ok">>
    BY <1>6, ShortQueues
  <2>2. \/ written' = 1 /\ queue' = <<"connect_ok", "write_some">> /\ writing' = writing
        \/ writing' = TRUE /\ queue' = <<"connect_ok">> /\ written' = written
    BY <1>2, <1>3, <1>6, <2>1, ShortQueues DEF StartWrite
  <2>3. CASE written' = 1 /\ queue' = <<"connect_ok", "write_some">> /\ writing' = writing
    <3>1. Sending' /\ ~Failing'
      BY <1>1, <1>2, <1>3, <1>4, <1>6, <2>3 DEF Sending, Failing
    <3> QED
      BY <1>1, <1>2, <1>3, <1>4, <1>6, <2>3, <3>1 DEF Phase
  <2>4. CASE writing' = TRUE /\ queue' = <<"connect_ok">> /\ written' = written
    <3>1. Waiting' /\ ~Failing'
      BY <1>1, <1>2, <1>3, <1>4, <1>6, <2>4 DEF Waiting, Failing
    <3> QED
      BY <1>2, <1>3, <1>6, <2>4, <3>1 DEF Phase
  <2> QED
    BY <2>2, <2>3, <2>4
<1>7. CASE socket \in {"broken", "failed"}
  <2>1. queue' = Append(Tail(queue), "write_error") /\ UNCHANGED <<written, writing>>
    BY <1>2, <1>7 DEF StartWrite
  <2>2. \/ queue' = <<"connect_ok", "write_error">> /\ socket = "broken"
        \/ queue' = <<"connect_error", "write_error">> /\ socket = "failed"
    <3>1. CASE queue = <<"do_write", "connect_ok">> /\ socket = "broken"
      <4>1. Tail(queue) = <<"connect_ok">>
        BY <3>1, ShortQueues
      <4> QED
        BY <2>1, <3>1, <4>1, ShortQueues
    <3>2. CASE queue = <<"do_write", "connect_error">> /\ socket = "failed"
      <4>1. Tail(queue) = <<"connect_error">>
        BY <3>2, ShortQueues
      <4> QED
        BY <2>1, <3>2, <4>1, ShortQueues
    <3> QED
      BY <1>1, <1>7, <3>1, <3>2
  <2>3. Failing'
    BY <1>1, <1>2, <1>3, <2>1, <2>2 DEF Failing
  <2>4. ~(posix /\ 1 \in accepts /\ ~lost)
    BY <1>7
  <2> QED
    BY <1>2, <1>3, <2>1, <2>3, <2>4 DEF Phase
<1> QED
  BY <1>1, <1>5, <1>6, <1>7

\* A connection made is logged, and nothing else is done.
LEMMA handle_connect_ok_keeps ==
    ASSUME NetworkSenderAssumption, IInv, handle_connect_ok
    PROVE  IInv'
<1> USE DEF IInv, Ranges, WrittenToFirst, BrokenIsLost, FirstAccepts
<1>1. \/ Waiting /\ queue = <<"connect_ok">>
      \/ Sending /\ queue = <<"connect_ok", "write_some">>
      \/ Failing /\ queue = <<"connect_ok", "write_error">> /\ socket = "broken"
      \/ Completed /\ queue = <<"connect_ok">>
  BY HeadTellsPhase DEF handle_connect_ok
<1>2. /\ queue' = Tail(queue)
      /\ UNCHANGED <<stage, socket, endpoint, writing, written, completions, lost,
                     accepts, posix>>
  BY DEF handle_connect_ok, host
<1>3. CASE Waiting /\ queue = <<"connect_ok">>
  <2>1. queue' = <<>>
    BY <1>2, <1>3, ShortQueues
  <2>2. Waiting' /\ ~Failing'
    BY <1>2, <1>3, <2>1 DEF Waiting, Failing
  <2> QED
    BY <1>2, <1>3, <2>2 DEF Phase
<1>4. CASE Sending /\ queue = <<"connect_ok", "write_some">>
  <2>1. queue' = <<"write_some">>
    BY <1>2, <1>4, ShortQueues
  <2>2. Sending' /\ ~Failing'
    BY <1>2, <1>4, <2>1 DEF Sending, Failing
  <2> QED
    BY <1>2, <1>4, <2>2 DEF Phase
<1>5. CASE Failing /\ queue = <<"connect_ok", "write_error">> /\ socket = "broken"
  <2>1. queue' = <<"write_error">>
    BY <1>2, <1>5, ShortQueues
  <2>2. Failing'
    BY <1>2, <1>5, <2>1 DEF Failing
  <2> QED
    BY <1>2, <1>5, <2>2 DEF Phase
<1>6. CASE Completed /\ queue = <<"connect_ok">>
  <2>1. queue' = <<>>
    BY <1>2, <1>6, ShortQueues
  <2>2. Completed' /\ ~Failing'
    BY <1>2, <1>6, <2>1 DEF Completed, Failing
  <2> QED
    BY <1>2, <1>6, <2>2 DEF Phase
<1> QED
  BY <1>1, <1>3, <1>4, <1>5, <1>6

\* async_connect goes on although the write has failed or completed.
LEMMA handle_connect_error_keeps ==
    ASSUME NetworkSenderAssumption, IInv, handle_connect_error
    PROVE  IInv'
<1> USE DEF IInv, Ranges, WrittenToFirst, BrokenIsLost, FirstAccepts
<1>1. /\ socket = "failed" /\ ~writing
      /\ \/ Failing /\ queue = <<"connect_error", "write_error">>
         \/ Completed /\ queue = <<"connect_error">>
  BY HeadTellsPhase DEF handle_connect_error
<1>2. /\ queue' = Tail(queue) /\ writing' = FALSE
      /\ UNCHANGED <<stage, written, completions, lost, accepts, posix>>
  BY <1>1 DEF handle_connect_error, host
<1>3. /\ socket' \in {"connecting", "failed"}
      /\ endpoint' \in 0 .. Endpoints /\ endpoint' > 0
  <2>1. Endpoints \in Nat /\ endpoint \in 0 .. Endpoints /\ endpoint > 0
    BY <1>1 DEF NetworkSenderAssumption, Failing, Completed
  <2>2. CASE endpoint < Endpoints
    BY <2>1, <2>2 DEF handle_connect_error, NextAddress
  <2>3. CASE ~(endpoint < Endpoints)
    BY <1>1, <2>1, <2>3 DEF handle_connect_error
  <2> QED
    BY <2>2, <2>3
<1>4. written = 0 /\ ~(posix /\ 1 \in accepts /\ ~lost)
  BY <1>1
<1>5. Ranges'
  BY <1>2, <1>3
<1>6. WrittenToFirst' /\ BrokenIsLost' /\ FirstAccepts'
  BY <1>2, <1>3, <1>4
<1>7. CASE Failing /\ queue = <<"connect_error", "write_error">>
  <2>1. queue' = <<"write_error">>
    BY <1>2, <1>7, ShortQueues
  <2>2. Failing'
    BY <1>2, <1>3, <1>7, <2>1 DEF Failing
  <2> QED
    BY <1>5, <1>6, <2>2 DEF Phase
<1>8. CASE Completed /\ queue = <<"connect_error">>
  <2>1. queue' = <<>>
    BY <1>2, <1>8, ShortQueues
  <2>2. Completed'
    BY <1>2, <1>3, <1>8, <2>1 DEF Completed
  <2> QED
    BY <1>5, <1>6, <2>2 DEF Phase
<1> QED
  BY <1>1, <1>7, <1>8

\* handle_write is the write's last handler: what it leaves is the connect's.
LEMMA CompletedBy ==
    ASSUME NetworkSenderAssumption, IInv, handle_write,
           \/ queue = <<"write_error">> /\ socket \in {"connecting", "failed", "broken"}
           \/ queue = <<"write_error", "connect_error">> /\ socket = "failed"
           \/ queue = <<"write_error", "connect_ok">> /\ socket \in {"connected", "broken"}
           \/ queue = <<"write_some">> /\ socket \in {"connected", "broken"},
           stage = "running", completions = 0, ~writing, endpoint > 0,
           posix /\ 1 \in accepts /\ ~lost => written = Chunks
    PROVE  IInv'
<1> USE DEF IInv, Ranges, WrittenToFirst, BrokenIsLost, FirstAccepts
<1>1. /\ completions' = 1 /\ queue' = Tail(queue) /\ socket' = ShutdownEffect
      /\ UNCHANGED <<stage, endpoint, writing, written, lost, accepts, posix>>
  BY DEF handle_write, host
<1>2. /\ socket = "connected" => socket' = "shutdown"
      /\ socket = "connecting" => socket' \in {"connecting", "aborted"}
      /\ socket \in {"failed", "broken"} => socket' = socket
  BY <1>1 DEF ShutdownEffect
<1>3. Completed'
  <2>1. CASE queue = <<"write_error">> \/ queue = <<"write_some">>
    <3>1. queue' = <<>>
      BY <1>1, <2>1, ShortQueues
    <3>2. socket' # "closed"
      BY <1>2
    <3> QED
      BY <1>1, <3>1, <3>2 DEF Completed
  <2>2. CASE queue = <<"write_error", "connect_error">> /\ socket = "failed"
    <3>1. queue' = <<"connect_error">> /\ socket' = "failed"
      BY <1>1, <1>2, <2>2, ShortQueues
    <3> QED
      BY <1>1, <3>1 DEF Completed
  <2>3. CASE queue = <<"write_error", "connect_ok">> /\ socket \in {"connected", "broken"}
    <3>1. queue' = <<"connect_ok">> /\ socket' \in {"shutdown", "broken"}
      BY <1>1, <1>2, <2>3, ShortQueues
    <3> QED
      BY <1>1, <3>1 DEF Completed
  <2> QED
    BY <2>1, <2>2, <2>3
<1>4. ~Failing'
  BY <1>1 DEF Failing
<1>5. /\ socket' \in {"connecting", "aborted", "failed", "broken", "shutdown"}
      /\ socket' \in {"connecting", "aborted", "failed"} => written = 0
      /\ socket' = "broken" => lost
  BY <1>2
<1>6. posix /\ 1 \in accepts /\ ~lost => socket' \notin {"failed", "aborted"}
  <2> SUFFICES ASSUME posix, 1 \in accepts, ~lost
               PROVE  socket' \notin {"failed", "aborted"}
    OBVIOUS
  <2>1. written = Chunks /\ written > 0
    BY DEF NetworkSenderAssumption
  <2> QED
    BY <1>5, <2>1
<1>7. Ranges' /\ WrittenToFirst' /\ BrokenIsLost'
  BY <1>1, <1>5
<1> QED
  BY <1>1, <1>3, <1>4, <1>6, <1>7 DEF Phase

\* A write that failed ends with a shutdown of the socket, like any other.
LEMMA handle_write_error_keeps ==
    ASSUME NetworkSenderAssumption, IInv, handle_write_error
    PROVE  IInv'
<1>1. /\ Failing
      /\ \/ queue = <<"write_error">> /\ socket \in {"connecting", "failed", "broken"}
         \/ queue = <<"write_error", "connect_error">> /\ socket = "failed"
         \/ queue = <<"write_error", "connect_ok">> /\ socket \in {"connected", "broken"}
  BY HeadTellsPhase DEF handle_write_error, IInv
<1>2. handle_write
  BY DEF handle_write_error
<1>3. stage = "running" /\ completions = 0 /\ ~writing /\ endpoint > 0
  BY <1>1 DEF Failing
<1>4. ~(posix /\ 1 \in accepts /\ ~lost)
  BY <1>1 DEF IInv, FirstAccepts
<1> QED
  BY <1>1, <1>2, <1>3, <1>4, CompletedBy

\* A write that completed in part goes on, and one that is whole shuts the socket down.
LEMMA handle_write_some_keeps ==
    ASSUME NetworkSenderAssumption, IInv, handle_write_some
    PROVE  IInv'
<1> USE DEF IInv, Ranges, WrittenToFirst, BrokenIsLost, FirstAccepts
<1>1. Sending /\ queue = <<"write_some">>
  BY HeadTellsPhase DEF handle_write_some
<1>2. /\ stage = "running" /\ completions = 0 /\ ~writing /\ endpoint = 1 /\ written > 0
      /\ socket \in {"connected", "broken"}
  BY <1>1 DEF Sending
<1>3. CASE AllWritten /\ handle_write
  BY <1>1, <1>2, <1>3, CompletedBy DEF AllWritten
<1>4. CASE /\ ~AllWritten /\ StartWrite(Tail(queue))
           /\ UNCHANGED <<stage, socket, endpoint, completions, lost, host>>
  <2>1. /\ Tail(queue) = <<>> /\ written \in 0 .. Chunks /\ written < Chunks
        /\ written + 1 \in 0 .. Chunks /\ written + 1 > 0
    BY <1>1, <1>2, <1>4, ShortQueues DEF AllWritten, NetworkSenderAssumption
  <2>2. UNCHANGED <<stage, socket, endpoint, completions, lost, accepts, posix>>
    BY <1>4 DEF host
  <2>3. \/ /\ socket = "connected" /\ written' = written + 1
           /\ queue' = <<"write_some">> /\ writing' = writing
        \/ socket = "connected" /\ writing' = TRUE /\ queue' = <<>> /\ written' = written
        \/ socket = "broken" /\ queue' = <<"write_error">> /\ UNCHANGED <<written, writing>>
    BY <1>2, <1>4, <2>1, ShortQueues DEF StartWrite
  <2>4. CASE /\ socket = "connected" /\ written' = written + 1
             /\ queue' = <<"write_some">> /\ writing' = writing
    <3>1. Sending' /\ ~Failing'
      BY <1>2, <2>1, <2>2, <2>4 DEF Sending, Failing
    <3> QED
      BY <1>2, <2>1, <2>2, <2>4, <3>1 DEF Phase
  <2>5. CASE socket = "connected" /\ writing' = TRUE /\ queue' = <<>> /\ written' = written
    <3>1. Waiting' /\ ~Failing'
      BY <1>2, <2>1, <2>2, <2>5 DEF Waiting, Failing
    <3> QED
      BY <1>2, <2>2, <2>5, <3>1 DEF Phase
  <2>6. CASE socket = "broken" /\ queue' = <<"write_error">> /\ UNCHANGED <<written, writing>>
    <3>1. Failing'
      BY <1>2, <2>2, <2>6 DEF Failing
    <3> QED
      BY <1>2, <2>2, <2>6, <3>1 DEF Phase
  <2> QED
    BY <2>3, <2>4, <2>5, <2>6
<1> QED
  BY <1>3, <1>4 DEF handle_write_some

-----------------------------------------------------------------------------
(* The network. *)

\* A connect that is pending belongs to the one handler of the write, if any.
LEMMA ConnectingPhases ==
    ASSUME Phase, stage = "running", socket \in {"connecting", "aborted"}
    PROVE  \/ Opening /\ queue = <<"do_write">> /\ ~writing /\ endpoint = 1
           \/ Waiting /\ queue = <<>> /\ writing /\ endpoint = 1
           \/ Failing /\ queue = <<"write_error">> /\ ~writing
           \/ Completed /\ queue = <<>> /\ ~writing
BY DEF Phase, Idle, Opening, Waiting, Sending, Failing, Completed, Returned

\* A display accepts, and the write that waited stays the one write.
LEMMA ConnectedKeeps ==
    ASSUME NetworkSenderAssumption, IInv, Connected
    PROVE  IInv'
<1> USE DEF IInv, Ranges, WrittenToFirst, BrokenIsLost, FirstAccepts
<1>1. /\ stage = "running" /\ socket = "connecting" /\ socket' = "connected"
      /\ queue' = Append(queue, "connect_ok")
      /\ UNCHANGED <<stage, endpoint, writing, written, completions, lost, accepts, posix>>
  BY DEF Connected, host
<1>2. written = 0 /\ written < Chunks
  BY <1>1 DEF NetworkSenderAssumption
<1>3. /\ Ranges' /\ WrittenToFirst' /\ BrokenIsLost'
  BY <1>1, <1>2
<1>4. CASE Opening /\ queue = <<"do_write">> /\ ~writing /\ endpoint = 1
  <2>1. queue' = <<"do_write", "connect_ok">>
    BY <1>1, <1>4, ShortQueues
  <2>2. Opening'
    BY <1>1, <1>4, <2>1 DEF Opening
  <2>3. ~Failing'
    BY <2>1 DEF Failing
  <2> QED
    BY <1>1, <1>3, <1>4, <2>2, <2>3 DEF Phase, Opening
<1>5. CASE Waiting /\ queue = <<>>
  <2>1. queue' = <<"connect_ok">>
    BY <1>1, <1>5, ShortQueues
  <2>2. Waiting' /\ ~Failing'
    BY <1>1, <1>2, <1>5, <2>1 DEF Waiting, Failing
  <2> QED
    BY <1>1, <1>3, <2>2 DEF Phase
<1>6. CASE Failing /\ queue = <<"write_error">>
  <2>1. queue' = <<"write_error", "connect_ok">>
    BY <1>1, <1>6, ShortQueues
  <2>2. Failing'
    BY <1>1, <1>6, <2>1 DEF Failing
  <2> QED
    BY <1>1, <1>3, <1>6, <2>2 DEF Phase
<1>7. CASE Completed /\ queue = <<>>
  <2>1. queue' = <<"connect_ok">>
    BY <1>1, <1>7, ShortQueues
  <2>2. Completed' /\ ~Failing'
    BY <1>1, <1>7, <2>1 DEF Completed, Failing
  <2> QED
    BY <1>1, <1>3, <2>2 DEF Phase
<1> QED
  BY <1>1, <1>4, <1>5, <1>6, <1>7, ConnectingPhases

\* A display refuses: the handlers of the connect and of the write become ready.
LEMMA RefusedKeeps ==
    ASSUME NetworkSenderAssumption, IInv, Refused
    PROVE  IInv'
<1> USE DEF IInv, Ranges, WrittenToFirst, BrokenIsLost, FirstAccepts
<1>1. /\ stage = "running" /\ socket \in {"connecting", "aborted"} /\ socket' = "failed"
      /\ socket = "connecting" => endpoint \notin accepts
      /\ queue' = (IF writing THEN queue \o <<"connect_error", "write_error">>
                              ELSE Append(queue, "connect_error"))
      /\ writing' = FALSE
      /\ UNCHANGED <<stage, endpoint, written, completions, lost, accepts, posix>>
  BY DEF Refused, host
<1>2. written = 0 /\ written # Chunks
  BY <1>1 DEF NetworkSenderAssumption
<1>3. Ranges' /\ WrittenToFirst' /\ BrokenIsLost'
  BY <1>1, <1>2
<1>4. CASE Opening /\ queue = <<"do_write">> /\ ~writing /\ endpoint = 1
  <2>1. queue' = <<"do_write", "connect_error">>
    BY <1>1, <1>4, ShortQueues
  <2>2. Opening'
    BY <1>1, <1>4, <2>1 DEF Opening
  <2>3. ~(posix /\ 1 \in accepts /\ ~lost)
    BY <1>1, <1>4 DEF Opening
  <2> QED
    BY <1>1, <1>3, <2>2, <2>3 DEF Phase
<1>5. CASE Waiting /\ queue = <<>> /\ writing /\ endpoint = 1
  <2>1. queue' = <<"connect_error", "write_error">>
    BY <1>1, <1>5, ShortQueues
  <2>2. Failing'
    BY <1>1, <1>5, <2>1 DEF Waiting, Failing
  <2>3. ~(posix /\ 1 \in accepts /\ ~lost)
    BY <1>1, <1>5 DEF Waiting
  <2> QED
    BY <1>1, <1>3, <2>2, <2>3 DEF Phase
<1>6. CASE Failing /\ queue = <<"write_error">> /\ ~writing
  <2>1. queue' = <<"write_error", "connect_error">>
    BY <1>1, <1>6, ShortQueues
  <2>2. Failing'
    BY <1>1, <1>6, <2>1 DEF Failing
  <2> QED
    BY <1>1, <1>3, <1>6, <2>2 DEF Phase
<1>7. CASE Completed /\ queue = <<>> /\ ~writing
  <2>1. queue' = <<"connect_error">>
    BY <1>1, <1>7, ShortQueues
  <2>2. Completed'
    BY <1>1, <1>7, <2>1 DEF Completed
  <2>3. ~(posix /\ 1 \in accepts /\ ~lost)
    BY <1>2, <1>7 DEF Completed
  <2> QED
    BY <1>1, <1>3, <2>2, <2>3 DEF Phase
<1> QED
  BY <1>1, <1>4, <1>5, <1>6, <1>7, ConnectingPhases

\* The waiting write becomes a ready handler.
LEMMA WritableKeeps ==
    ASSUME NetworkSenderAssumption, IInv, Writable
    PROVE  IInv'
<1> USE DEF IInv, Ranges, WrittenToFirst, BrokenIsLost, FirstAccepts
<1>1. /\ stage = "running" /\ socket = "connected" /\ writing /\ writing' = FALSE
      /\ written' = written + 1 /\ queue' = Append(queue, "write_some")
      /\ UNCHANGED <<stage, socket, endpoint, completions, lost, accepts, posix>>
  BY DEF Writable, host
<1>2. Waiting
  BY <1>1 DEF Phase, Idle, Opening, Sending, Failing, Completed, Returned
<1>3. /\ completions = 0 /\ endpoint = 1 /\ queue \in {<<>>, <<"connect_ok">>}
      /\ written < Chunks
  BY <1>1, <1>2 DEF Waiting
<1>4. written + 1 \in 0 .. Chunks /\ written + 1 > 0
  BY <1>3 DEF NetworkSenderAssumption
<1>5. queue' \in {<<"write_some">>, <<"connect_ok", "write_some">>}
  <2>1. CASE queue = <<>>
    BY <1>1, <2>1, ShortQueues
  <2>2. CASE queue = <<"connect_ok">>
    BY <1>1, <2>2, ShortQueues
  <2> QED
    BY <1>3, <2>1, <2>2
<1>6. Sending' /\ ~Failing'
  BY <1>1, <1>3, <1>4, <1>5 DEF Sending, Failing
<1>7. Ranges' /\ WrittenToFirst' /\ BrokenIsLost'
  BY <1>1, <1>3, <1>4
<1>8. completions' = 0
  BY <1>1, <1>3
<1>9. FirstAccepts'
  BY <1>1, <1>6, <1>8
<1> QED
  BY <1>6, <1>7, <1>9 DEF Phase

\* The connection breaks, and so does the write that waited.
LEMMA BrokenKeeps ==
    ASSUME NetworkSenderAssumption, IInv, Broken
    PROVE  IInv'
<1> USE DEF IInv, Ranges, WrittenToFirst, BrokenIsLost, FirstAccepts
<1>1. /\ stage = "running" /\ socket = "connected" /\ socket' = "broken" /\ lost' = TRUE
      /\ queue' = (IF writing THEN Append(queue, "write_error") ELSE queue)
      /\ writing' = FALSE
      /\ UNCHANGED <<stage, endpoint, written, completions, accepts, posix>>
  BY DEF Broken, host
<1>2. Ranges' /\ WrittenToFirst' /\ BrokenIsLost' /\ FirstAccepts'
  BY <1>1
<1>3. CASE Waiting
  <2>1. queue \in {<<>>, <<"connect_ok">>} /\ writing
    BY <1>1, <1>3 DEF Waiting
  <2>2. queue' \in {<<"write_error">>, <<"connect_ok", "write_error">>}
    BY <1>1, <2>1, ShortQueues
  <2>3. Failing'
    BY <1>1, <1>3, <2>2 DEF Waiting, Failing
  <2> QED
    BY <1>2, <2>3 DEF Phase
<1>4. CASE Opening
  <2>1. Opening'
    BY <1>1, <1>4 DEF Opening
  <2> QED
    BY <1>2, <2>1 DEF Phase
<1>5. CASE Sending
  <2>1. Sending'
    BY <1>1, <1>5 DEF Sending
  <2> QED
    BY <1>2, <2>1 DEF Phase
<1>6. CASE Failing
  <2>1. Failing'
    BY <1>1, <1>6 DEF Failing
  <2> QED
    BY <1>2, <2>1 DEF Phase
<1>7. CASE Completed
  <2>1. Completed'
    BY <1>1, <1>7 DEF Completed
  <2> QED
    BY <1>2, <2>1 DEF Phase
<1> QED
  BY <1>1, <1>3, <1>4, <1>5, <1>6, <1>7 DEF Phase, Idle, Returned

-----------------------------------------------------------------------------
\* An upload is in one of its phases throughout (handle_upload,
\* Artemis_Network_Sender_Connection).
THEOREM UploadInvariant ==
    ASSUME NetworkSenderAssumption
    PROVE  Spec => []IInv
<1>1. Init => IInv
  BY Initially
<1>2. ASSUME IInv, [Next]_vars
      PROVE  IInv'
  <2>1. CASE handle_upload \/ handle_upload_throws \/ handle_upload_returns
    BY <1>2, <2>1, UploadSteps
  <2>2. CASE Handler
    BY <1>2, <2>2, do_connect_keeps, do_write_keeps, handle_connect_ok_keeps,
       handle_connect_error_keeps, handle_write_some_keeps, handle_write_error_keeps
       DEF Handler
  <2>3. CASE Network \/ Broken
    BY <1>2, <2>3, ConnectedKeeps, RefusedKeeps, WritableKeeps, BrokenKeeps DEF Network
  <2>4. CASE UNCHANGED vars
    BY <1>2, <2>4 DEF vars, IInv, Ranges, Phase, Idle, Opening, Waiting, Sending, Failing,
       Completed, Returned, WrittenToFirst, BrokenIsLost, FirstAccepts
  <2> QED
    BY <1>2, <2>1, <2>2, <2>3, <2>4 DEF Next
<1> QED
  BY <1>1, <1>2, PTL DEF Spec

\* The types; no more is written than the payload has, and it completes once
\* (handle_write).
THEOREM TypeCorrect ==
    ASSUME NetworkSenderAssumption
    PROVE  Spec => []TypeOK
<1>1. ASSUME IInv PROVE TypeOK
  <2>1. queue \in Seq(Handlers)
    <3> DEFINE Short == {<<>>} \cup {<<a>> : a \in Handlers}
                        \cup {<<a, b>> : a, b \in Handlers}
    <3>1. Short \subseteq Seq(Handlers)
      <4> SUFFICES ASSUME NEW q \in Short PROVE q \in Seq(Handlers)
        OBVIOUS
      <4>1. CASE q = <<>>
        BY <4>1
      <4>2. CASE \E a \in Handlers : q = <<a>>
        BY <4>2
      <4>3. CASE \E a, b \in Handlers : q = <<a, b>>
        BY <4>3
      <4> QED
        BY <4>1, <4>2, <4>3
    <3>2. queue \in Short
      <4>1. CASE Idle \/ Returned
        BY <4>1 DEF Idle, Returned
      <4>2. CASE Opening
        BY <4>2 DEF Opening, Handlers
      <4>3. CASE Waiting \/ Sending
        BY <4>3 DEF Waiting, Sending, Handlers
      <4>4. CASE Failing
        BY <4>4 DEF Failing, Handlers
      <4>5. CASE Completed
        BY <4>5 DEF Completed, Handlers
      <4> QED
        BY <1>1, <4>1, <4>2, <4>3, <4>4, <4>5 DEF IInv, Phase
    <3> QED
      BY <3>1, <3>2
  <2>2. completions \in 0 .. 1
    BY <1>1 DEF IInv, Phase, Idle, Opening, Waiting, Sending, Failing, Completed, Returned
  <2> QED
    BY <1>1, <2>1, <2>2 DEF IInv, Ranges, TypeOK
<1> QED
  BY <1>1, UploadInvariant, PTL

\* Only the first address is ever sent anything (do_connect, do_write).
THEOREM OnlyFirst ==
    ASSUME NetworkSenderAssumption
    PROVE  Spec => []OnlyFirstEndpointIsServed
<1>1. IInv => OnlyFirstEndpointIsServed
  BY DEF IInv, WrittenToFirst, OnlyFirstEndpointIsServed
<1> QED
  BY <1>1, UploadInvariant, PTL

\* On a POSIX system an upload whose first address accepts, and is not lost, is
\* whole (do_write, handle_write).
THEOREM WholeUpload ==
    ASSUME NetworkSenderAssumption
    PROVE  Spec => []WholeIfFirstAccepts
<1>1. ASSUME IInv PROVE WholeIfFirstAccepts
  BY <1>1 DEF IInv, Phase, Idle, Opening, Waiting, Sending, Failing, Completed, Returned,
     FirstAccepts, WholeIfFirstAccepts
<1> QED
  BY <1>1, UploadInvariant, PTL

\* handle_write runs exactly once in every upload that returns, and before it
\* (handle_upload, handle_write).
THEOREM OneShutdown ==
    ASSUME NetworkSenderAssumption
    PROVE  Spec => []ShutdownOnce
<1>1. ASSUME IInv PROVE ShutdownOnce
  BY <1>1 DEF IInv, Phase, Idle, Opening, Waiting, Sending, Failing, Completed, Returned,
     ShutdownOnce
<1> QED
  BY <1>1, UploadInvariant, PTL
=============================================================================
