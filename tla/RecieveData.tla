---------------------------- MODULE RecieveData ----------------------------
(***************************************************************************)
(* The TCP receiver of a display: class Recieve_Data.                      *)
(*                                                                         *)
(* The receiver listens on port 9001 and takes a message to be everything  *)
(* its peer writes on one connection: the end of the message is the end of *)
(* the connection.  The object has ONE socket pointer, `client', and ONE   *)
(* buffer, `data', whatever the number of connections: a slot that is      *)
(* called for one connection works on whatever these two hold.             *)
(*                                                                         *)
(* The peers and the sockets (Qt and the kernel) are the environment.  A   *)
(* peer writes a payload of Chunks chunks, in order, and closes; it may    *)
(* close early, or reset the connection.  The bytes of a connection are a  *)
(* stream, so what has been written, what has been read into the socket's  *)
(* buffer and what has been taken out of that buffer are three counters:   *)
(*                                                                         *)
(*      1 .. consumed .. buffered .. sent .. Chunks                        *)
(*                                                                         *)
(* All slots run on the event loop of the display's main thread: a slot is *)
(* one atomic action.                                                      *)
(***************************************************************************)
EXTENDS Integers, Sequences

CONSTANTS
    Conn,       \* the TCP connections made to the display
    NoConn,     \* the null socket pointer
    Chunks,     \* number of chunks of a whole payload
    Isolated    \* TRUE: a peer connects only when no other connection is live

ASSUME RecieveDataAssumption ==
    /\ NoConn \notin Conn
    /\ Chunks \in Nat \ {0}
    /\ Isolated \in BOOLEAN

VARIABLES
    peer,       \* what the peer did with its end: "up", "fin" or "rst"
    sent,       \* chunks the peer has written
    status,     \* "none", "backlog" (not accepted yet), "open", "finished"
    backlog,    \* QTcpServer's pending connections, oldest first
    buffered,   \* chunks that have reached the socket's read buffer
    consumed,   \* chunks taken out of the socket's read buffer
    client,     \* Recieve_Data::client
    data,       \* Recieve_Data::data, a sequence of chunks <<connection, i>>
    emitted     \* the arguments of the signal data_recieved, in order

peerVars == <<peer, sent>>
objectVars == <<client, data, emitted>>
vars == <<peer, sent, status, backlog, buffered, consumed, client, data, emitted>>

Live(c) == status[c] \in {"backlog", "open"}

\* What a connection carries, between two positions of its stream.
Stream(c, from, to) == [i \in 1 .. (to - from) |-> <<c, from + i>>]

-----------------------------------------------------------------------------
Init ==
    /\ peer = [c \in Conn |-> "up"]
    /\ sent = [c \in Conn |-> 0]
    /\ status = [c \in Conn |-> "none"]
    /\ backlog = <<>>
    /\ buffered = [c \in Conn |-> 0]
    /\ consumed = [c \in Conn |-> 0]
    /\ client = NoConn
    /\ data = <<>>
    /\ emitted = <<>>

-----------------------------------------------------------------------------
(* The peers. *)

Connect(c) ==
    /\ status[c] = "none"
    /\ Isolated => \A d \in Conn : ~Live(d)
    /\ status' = [status EXCEPT ![c] = "backlog"]
    /\ backlog' = Append(backlog, c)
    /\ UNCHANGED <<peerVars, buffered, consumed, objectVars>>

Write(c) ==
    /\ Live(c)
    /\ peer[c] = "up"
    /\ sent[c] < Chunks
    /\ sent' = [sent EXCEPT ![c] = @ + 1]
    /\ UNCHANGED <<peer, status, backlog, buffered, consumed, objectVars>>

\* An orderly close ("fin") lets the display read what was written; a reset
\* ("rst") may destroy what the display has not read yet.
Disconnect(c, how) ==
    /\ Live(c)
    /\ peer[c] = "up"
    /\ peer' = [peer EXCEPT ![c] = how]
    /\ UNCHANGED <<sent, status, backlog, buffered, consumed, objectVars>>

-----------------------------------------------------------------------------
(* The slots of Recieve_Data.  Each of the four helpers below is one choice of
   the code; the definition before it is the choice a bug would make. *)

\* The sockets whose signals still reach the slots: every accepted socket,
\* none is ever disconnected from them.  (Before it, as before other definitions
\* below, the form a bug would give it.)
OnlyCurrentSignals(c) == status[c] = "open" /\ client = c
Signals(c) == status[c] = "open"

\* The socket startRead reads when it is called for connection c.
ReadSocket(c) == client

\* How far the read empties the buffer of socket s: readAll takes all of it.
ReadOneChunk(s) == IF consumed[s] < buffered'[s] THEN consumed[s] + 1 ELSE consumed[s]
ReadAll(s) == buffered'[s]

\* What is left in `data' once it has been announced.
DataKept == data
DataReset == <<>>

\* newConnection: the single client pointer moves to the new socket; the old
\* socket stays connected to the slots.
acceptConnection ==
    /\ backlog # <<>>
    /\ client' = Head(backlog)
    /\ backlog' = Tail(backlog)
    /\ status' = [status EXCEPT ![Head(backlog)] = "open"]
    /\ UNCHANGED <<peerVars, buffered, consumed, data, emitted>>

\* readyRead of connection c: n chunks have reached c's read buffer.  The
\* slot empties the read buffer of `client', which need not be c.
startRead(c) ==
    /\ Signals(c)
    /\ \E n \in (buffered[c] + 1) .. sent[c] :
          buffered' = [buffered EXCEPT ![c] = n]
    /\ LET s == ReadSocket(c) IN
          /\ data' = data \o Stream(s, consumed[s], ReadAll(s))
          /\ consumed' = [consumed EXCEPT ![s] = ReadAll(s)]
    /\ UNCHANGED <<peerVars, status, backlog, client, emitted>>

\* readChannelFinished of connection c: after an orderly close every byte of
\* c has been read into its buffer before; after a reset this need not be so.
\* Whatever `data' holds is announced, and `data' starts afresh.
recieve_complete(c) ==
    /\ Signals(c)
    /\ \/ peer[c] = "fin" /\ buffered[c] = sent[c]
       \/ peer[c] = "rst"
    /\ status' = [status EXCEPT ![c] = "finished"]
    /\ emitted' = Append(emitted, data)
    /\ data' = DataReset
    /\ UNCHANGED <<peerVars, backlog, buffered, consumed, client>>

-----------------------------------------------------------------------------
PeerStep ==
    \/ \E c \in Conn : Connect(c)
    \/ \E c \in Conn : Write(c)
    \/ \E c \in Conn : Disconnect(c, "fin")
    \/ \E c \in Conn : Disconnect(c, "rst")

Next ==
    \/ PeerStep
    \/ acceptConnection
    \/ \E c \in Conn : startRead(c)
    \/ \E c \in Conn : recieve_complete(c)

Spec == Init /\ [][Next]_vars

\* The event loop serves every socket notification sooner or later; nothing
\* is assumed of the peers.
FairSpec ==
    /\ Spec
    /\ WF_vars(acceptConnection)
    /\ \A c \in Conn : WF_vars(startRead(c)) /\ WF_vars(recieve_complete(c))

-----------------------------------------------------------------------------
Chunk == Conn \X (1 .. Chunks)

\* The types; the three counters of a stream stay within its payload.
TypeOK ==
    /\ peer \in [Conn -> {"up", "fin", "rst"}]
    /\ sent \in [Conn -> 0 .. Chunks]
    /\ status \in [Conn -> {"none", "backlog", "open", "finished"}]
    /\ backlog \in Seq(Conn)
    /\ buffered \in [Conn -> 0 .. Chunks]
    /\ consumed \in [Conn -> 0 .. Chunks]
    /\ client \in Conn \cup {NoConn}
    /\ data \in Seq(Chunk)
    /\ emitted \in Seq(Seq(Chunk))

\* The chunks of each connection are later ones in t than in s, or grow in s.
Precedes(s, t) ==
    \A j \in DOMAIN s, k \in DOMAIN t : s[j][1] = t[k][1] => s[j][2] < t[k][2]

Increasing(s) ==
    \A j, k \in DOMAIN s : j < k /\ s[j][1] = s[k][1] => s[j][2] < s[k][2]

\* However the connections overlap, the text handed to the display never
\* repeats a chunk and never reorders the chunks of one connection, within a
\* message and from one message to the next (startRead, recieve_complete).
InOrderAtMostOnce ==
    /\ Increasing(data)
    /\ \A m \in DOMAIN emitted : Increasing(emitted[m]) /\ Precedes(emitted[m], data)
    /\ \A m, n \in DOMAIN emitted : m < n => Precedes(emitted[m], emitted[n])

\* Between two slots, the read buffer of the current client is empty: the
\* notification of an older connection cannot take the bytes of the current
\* one early (startRead reads `client', not the sender of the signal).
CurrentDrained == client # NoConn => consumed[client] = buffered[client]

\* After an orderly close, bytes are missing from what the display got only if
\* the connection had been superseded by a later acceptConnection.
LossMeansSuperseded ==
    \A c \in Conn :
        status[c] = "finished" /\ peer[c] = "fin" /\ consumed[c] < sent[c]
            => client # c

\* When connections do not overlap, a message is what one connection carried
\* from its first chunk on, and all of what was written if the close was
\* orderly: each connection yields its own message and none is mixed.
IntactMessages ==
    Isolated =>
        /\ \A m \in DOMAIN emitted : \E c \in Conn :
              /\ status[c] = "finished"
              /\ emitted[m] = Stream(c, 0, consumed[c])
        /\ \A c \in Conn :
              status[c] = "finished" /\ peer[c] = "fin" => consumed[c] = sent[c]

\* A connection its peer has closed is announced sooner or later, also when
\* it never was, or no longer is, the current client.
ClosedIsAnnounced ==
    \A c \in Conn : (Live(c) /\ peer[c] # "up") ~> (status[c] = "finished")

\* With one connection at a time the receiver implements the mailbox: every
\* message it announces is exactly one connection's text, once.
Mailbox == INSTANCE PayloadMailbox WITH
    wrote <- sent, ended <- peer, delivered <- emitted,
    taken <- [c \in Conn |-> status[c] = "finished"]

MailboxSpec == Mailbox!Spec
=============================================================================
