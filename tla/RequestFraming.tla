--------------------------- MODULE RequestFraming ---------------------------
(***************************************************************************)
(* How a request travels from a manager to the server: the manager's       *)
(* Send_Data and Start_Send_Data_Thread, and the reading half of           *)
(* Artemis_Server_Connection.                                              *)
(*                                                                         *)
(* The thread appends the delimiter ';' to the text, writes it, waits for  *)
(* the first bytes to be written and for the disconnection, each for a     *)
(* limited time, and closes the socket.  The server reads until its buffer *)
(* holds a ';', one that belongs to an entity as well, and hands on the    *)
(* whole buffer, as a string that ends at the next NUL.  What was not read *)
(* by then is never read.                                                  *)
(***************************************************************************)
EXTENDS Integers, Sequences

CONSTANTS
    Atom,           \* the parts of texts; one of them arrives whole
    Requests,       \* the texts a manager may send
    Semicolons,     \* the atoms that hold a ';'
    Delimiter,      \* the one the thread appends
    Overreads,      \* what may follow the buffer in memory, up to a NUL
    Space           \* atoms a read has space for

ASSUME RequestFramingAssumption ==
    /\ Requests \subseteq Seq(Atom)
    /\ Semicolons \subseteq Atom /\ Delimiter \in Semicolons
    /\ Overreads \subseteq Seq(Atom)
    /\ Space \in Nat \ {0}

VARIABLES
    request,        \* the text Send_Data was given
    xml_string,     \* the text the thread writes
    sender,         \* how far Send_Data and its thread are
    delivered,      \* atoms that leave the manager, unless it gives up
    taken,          \* atoms in the server's streambuf
    full,           \* the last read has filled the space it had
    reader,         \* "reading", or how the connection was handled
    received_xml    \* what handle_read handed on

senderVars == <<request, xml_string, sender, delivered>>
readerVars == <<taken, full, reader, received_xml>>
framingVars == <<senderVars, readerVars>>

FramingInit ==
    /\ request \in Requests
    /\ xml_string = request
    /\ sender = "connecting"
    /\ delivered = 0
    /\ taken = 0
    /\ full = FALSE
    /\ reader = "reading"
    /\ received_xml = <<>>

-----------------------------------------------------------------------------
(* The manager. *)

\* The slot of connected(), which starts the thread.
send_data_to_server ==
    /\ sender = "connecting"
    /\ sender' = "started"
    /\ UNCHANGED <<request, xml_string, delivered, readerVars>>

run_write ==
    /\ sender = "started"
    /\ xml_string' = Append(xml_string, Delimiter)
    /\ delivered' = Len(xml_string')
    /\ sender' = "written"
    /\ UNCHANGED <<request, readerVars>>

\* The thread returns; the socket of Send_Data, which is never deleted, stays
\* open.
run_error ==
    /\ sender = "started"
    /\ sender' = "failed"
    /\ UNCHANGED <<request, xml_string, delivered, readerVars>>

\* waitForBytesWritten returns when something was written or its time is over.
run_disconnect ==
    /\ sender = "written"
    /\ sender' = "disconnecting"
    /\ UNCHANGED <<request, xml_string, delivered, readerVars>>

\* waitForDisconnected returns when everything was written or its time is over;
\* then the thread's socket is destroyed with whatever it still had to write.
\* Before it, a thread that would leave the socket open then.
run_end_open ==
    /\ sender = "disconnecting"
    /\ delivered' \in taken .. Len(xml_string)
    /\ sender' = (IF delivered' = Len(xml_string) THEN "closed" ELSE "failed")
    /\ UNCHANGED <<request, xml_string, readerVars>>
run_end ==
    /\ sender = "disconnecting"
    /\ delivered' \in taken .. Len(xml_string)
    /\ sender' = "closed"
    /\ UNCHANGED <<request, xml_string, readerVars>>

ManagerStep ==
    send_data_to_server \/ run_write \/ run_error \/ run_disconnect \/ run_end

-----------------------------------------------------------------------------
(* The server's connection. *)

\* What async_read_until waits for; before it, what async_read_some would.
SomethingRead == taken > 0
DelimiterSeen == \E i \in 1 .. taken : xml_string[i] \in Semicolons

\* async_read_until: a read takes what has arrived, as far as it has space.
ReadsSome ==
    /\ reader = "reading" /\ ~DelimiterSeen
    /\ \E n \in 1 .. Space :
          /\ taken + n <= delivered
          /\ taken' = taken + n
          /\ full' = (n = Space)
    /\ UNCHANGED <<senderVars, reader, received_xml>>

\* The buffer's bytes are taken for a string: if the last read left no space,
\* what follows them in memory is taken as well.
Received == SubSeq(xml_string, 1, taken)
HandedOn == {Received} \cup (IF full THEN {Received \o rest : rest \in Overreads} ELSE {})

handle_read(text) ==
    /\ reader = "reading" /\ DelimiterSeen
    /\ received_xml' = text
    /\ reader' = "handled"
    /\ UNCHANGED <<senderVars, taken, full>>

\* The connection was closed before a delimiter arrived.
handle_read_error ==
    /\ reader = "reading" /\ ~DelimiterSeen
    /\ sender = "closed" /\ taken = delivered
    /\ reader' = "refused"
    /\ UNCHANGED <<senderVars, taken, full, received_xml>>

ServerStep == ReadsSome \/ (\E text \in HandedOn : handle_read(text)) \/ handle_read_error

FramingNext == ManagerStep \/ ServerStep
FramingSpec == FramingInit /\ [][FramingNext]_framingVars

-----------------------------------------------------------------------------
Plain(text) == \A i \in DOMAIN text : text[i] \notin Semicolons

\* The types.
FramingTypeOK ==
    /\ request \in Requests
    /\ xml_string \in {request, Append(request, Delimiter)}
    /\ sender \in {"connecting", "started", "written", "disconnecting", "closed", "failed"}
    /\ delivered \in 0 .. Len(xml_string)
    /\ taken \in 0 .. delivered
    /\ full \in BOOLEAN
    /\ reader \in {"reading", "handled", "refused"}
    /\ received_xml \in Seq(Atom)

\* However a request is cut up on its way, one without an entity is handed on
\* whole: all of it and the delimiter come first in what handle_read takes the
\* buffer for.  So one that the manager gave up in the middle is not handled.
PlainRequestsAreWhole ==
    reader = "handled" /\ Plain(request) =>
        /\ delivered = Len(request) + 1
        /\ Len(received_xml) > Len(request)
        /\ SubSeq(received_xml, 1, Len(request) + 1) = Append(request, Delimiter)

\* A request that was written is handled or refused in the end: a manager that
\* gives up closes the connection, which ends the server's read.
RequestEnds == sender = "written" ~> reader # "reading"
=============================================================================
