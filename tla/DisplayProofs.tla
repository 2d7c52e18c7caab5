---------------------------- MODULE DisplayProofs ----------------------------
(***************************************************************************)
(* Theorems about a display, for every number of connections and chunks,   *)
(* every payload and every set of files, and their proofs: the receiver    *)
(* (RecieveData), playback (DisplayLaps), and the two together (Display),  *)
(* for which what the parser makes of the texts is needed (XmlTree).       *)
(***************************************************************************)
EXTENDS Display, DisplayLaps, XmlTreeProofs

-----------------------------------------------------------------------------
(* The receiver: its inductive invariant. *)

\* The counters of a stream are ordered as the receiver's header says.
StreamOrder ==
    \A c \in Conn : consumed[c] <= buffered[c] /\ buffered[c] <= sent[c]

\* The backlog holds connections that wait to be accepted, each once, and
\* nothing of a connection is read before it is accepted.
BacklogOK ==
    /\ \A i \in DOMAIN backlog : status[backlog[i]] = "backlog"
    /\ \A i, j \in DOMAIN backlog : backlog[i] = backlog[j] => i = j
    /\ \A c \in Conn : status[c] \in {"none", "backlog"} => buffered[c] = 0 /\ consumed[c] = 0

\* A slot that reads finds a socket behind the client pointer.
ClientSet == \A c \in Conn : status[c] = "open" => client \in Conn

\* What `data' or an announced message holds of a connection was consumed.
Taken(s) == \A k \in DOMAIN s : s[k][2] <= consumed[s[k][1]]

TakenOK == Taken(data) /\ \A m \in DOMAIN emitted : Taken(emitted[m])

IInv ==
    /\ TypeOK
    /\ StreamOrder
    /\ BacklogOK
    /\ ClientSet
    /\ CurrentDrained
    /\ TakenOK
    /\ InOrderAtMostOnce

-----------------------------------------------------------------------------
(* Facts about streams. *)

\* A stretch of a stream is a sequence of chunks of that connection.
LEMMA StreamType ==
    ASSUME NEW c \in Conn, NEW from \in 0 .. Chunks, NEW to \in 0 .. Chunks, from <= to
    PROVE  /\ Stream(c, from, to) \in Seq(Chunk)
           /\ Len(Stream(c, from, to)) = to - from
           /\ DOMAIN Stream(c, from, to) = 1 .. (to - from)
           /\ \A i \in 1 .. (to - from) : Stream(c, from, to)[i] = <<c, from + i>>
BY RecieveDataAssumption DEF Stream, Chunk

\* Appending a new stretch of a stream keeps a sequence increasing if it holds
\* nothing of that connection beyond the stretch's start.
LEMMA IncreasingAppend ==
    ASSUME NEW s \in Seq(Chunk), NEW c \in Conn,
           NEW from \in 0 .. Chunks, NEW to \in 0 .. Chunks, from <= to,
           Increasing(s),
           \A k \in DOMAIN s : s[k][1] = c => s[k][2] <= from
    PROVE  Increasing(s \o Stream(c, from, to))
<1> DEFINE u == Stream(c, from, to)
           t == s \o u
<1>1. u \in Seq(Chunk) /\ Len(u) = to - from /\ \A i \in 1 .. Len(u) : u[i] = <<c, from + i>>
  BY StreamType
<1>2. /\ DOMAIN t = 1 .. (Len(s) + Len(u))
      /\ \A i \in 1 .. (Len(s) + Len(u)) : t[i] = IF i <= Len(s) THEN s[i] ELSE u[i - Len(s)]
  <2>1. /\ t \in Seq(Chunk)
        /\ Len(t) = Len(s) + Len(u)
        /\ \A i \in 1 .. Len(s) + Len(u) : t[i] = IF i <= Len(s) THEN s[i] ELSE u[i - Len(s)]
    BY <1>1, ConcatProperties
  <2> QED
    BY <2>1, LenProperties
<1> HIDE DEF u, t
<1>3. \A i \in DOMAIN t : i > Len(s) => t[i] = <<c, from + (i - Len(s))>>
  <2> SUFFICES ASSUME NEW i \in DOMAIN t, i > Len(s)
               PROVE  t[i] = <<c, from + (i - Len(s))>>
    OBVIOUS
  <2>1. Len(s) \in Nat /\ Len(u) \in Nat
    BY <1>1, LenProperties
  <2>2. i - Len(s) \in 1 .. Len(u) /\ t[i] = u[i - Len(s)]
    BY <1>2, <2>1
  <2> QED
    BY <1>1, <2>2
<1> SUFFICES ASSUME NEW j \in DOMAIN t, NEW k \in DOMAIN t, j < k, t[j][1] = t[k][1]
             PROVE  t[j][2] < t[k][2]
  BY DEF Increasing, t, u
<1>4. j \in 1 .. (Len(s) + Len(u)) /\ k \in 1 .. (Len(s) + Len(u))
  BY <1>2
<1>5. CASE k <= Len(s)
  <2>1. j \in DOMAIN s /\ k \in DOMAIN s /\ t[j] = s[j] /\ t[k] = s[k]
    BY <1>2, <1>4, <1>5
  <2> QED
    BY <2>1 DEF Increasing
<1>6. CASE j > Len(s)
  BY <1>3, <1>4, <1>6
<1>7. CASE j <= Len(s) /\ k > Len(s)
  <2>1. j \in DOMAIN s /\ t[j] = s[j] /\ s[j] \in Chunk
    BY <1>2, <1>4, <1>7
  <2>2. t[k][1] = c /\ t[k][2] = from + (k - Len(s))
    BY <1>3, <1>7
  <2>3. s[j][2] <= from /\ s[j][2] \in Int
    BY <2>1, <2>2 DEF Chunk
  <2> QED
    BY <1>4, <1>7, <2>1, <2>2, <2>3
<1> QED
  BY <1>4, <1>5, <1>6, <1>7

\* The stretch precedes nothing that was taken before, and is preceded by it.
LEMMA PrecedesAppend ==
    ASSUME NEW s \in Seq(Chunk), NEW r \in Seq(Chunk), NEW c \in Conn,
           NEW from \in 0 .. Chunks, NEW to \in 0 .. Chunks, from <= to,
           Precedes(r, s),
           \A k \in DOMAIN r : r[k][1] = c => r[k][2] <= from
    PROVE  Precedes(r, s \o Stream(c, from, to))
<1> DEFINE u == Stream(c, from, to)
           t == s \o u
<1>1. u \in Seq(Chunk) /\ Len(u) = to - from /\ \A i \in 1 .. Len(u) : u[i] = <<c, from + i>>
  BY StreamType
<1>2. /\ t \in Seq(Chunk)
      /\ Len(t) = Len(s) + Len(u)
      /\ \A i \in 1 .. Len(s) + Len(u) : t[i] = IF i <= Len(s) THEN s[i] ELSE u[i - Len(s)]
  BY <1>1, ConcatProperties
<1>3. Len(s) \in Nat /\ Len(u) \in Nat /\ DOMAIN s = 1 .. Len(s) /\ DOMAIN t = 1 .. Len(t)
  BY <1>1, <1>2, LenProperties
<1> HIDE DEF u, t
<1> SUFFICES ASSUME NEW j \in DOMAIN r, NEW k \in DOMAIN t, r[j][1] = t[k][1]
             PROVE  r[j][2] < t[k][2]
  BY DEF Precedes, t, u
<1>4. k \in 1 .. (Len(s) + Len(u))
  BY <1>2, <1>3
<1>5. CASE k <= Len(s)
  BY <1>2, <1>3, <1>4, <1>5 DEF Precedes
<1>6. CASE k > Len(s)
  <2>1. k - Len(s) \in 1 .. Len(u) /\ t[k] = u[k - Len(s)]
    BY <1>2, <1>3, <1>4, <1>6
  <2>2. t[k][1] = c /\ t[k][2] > from
    BY <1>1, <2>1
  <2>3. r[j] \in Chunk /\ r[j][2] \in Int /\ r[j][2] <= from
    BY <2>2, LenProperties DEF Chunk
  <2> QED
    BY <1>1, <2>1, <2>2, <2>3
<1> QED
  BY <1>3, <1>4, <1>5, <1>6

\* What is taken of a sequence extended by a stretch.
LEMMA TakenAppend ==
    ASSUME NEW s \in Seq(Chunk), NEW c \in Conn,
           NEW from \in 0 .. Chunks, NEW to \in 0 .. Chunks, from <= to,
           NEW limit \in [Conn -> 0 .. Chunks], limit[c] = to,
           \A k \in DOMAIN s : s[k][2] <= limit[s[k][1]]
    PROVE  \A k \in DOMAIN (s \o Stream(c, from, to)) :
              (s \o Stream(c, from, to))[k][2] <= limit[(s \o Stream(c, from, to))[k][1]]
<1> DEFINE u == Stream(c, from, to)
           t == s \o u
<1>1. u \in Seq(Chunk) /\ Len(u) = to - from /\ \A i \in 1 .. (to - from) : u[i] = <<c, from + i>>
  BY StreamType, Zenon
<1>2. /\ t \in Seq(Chunk)
      /\ Len(t) = Len(s) + Len(u)
      /\ \A i \in 1 .. Len(s) + Len(u) : t[i] = IF i <= Len(s) THEN s[i] ELSE u[i - Len(s)]
  BY <1>1, ConcatProperties
<1>3. Len(s) \in Nat /\ Len(u) \in Nat /\ DOMAIN s = 1 .. Len(s) /\ DOMAIN t = 1 .. Len(t)
  BY <1>1, <1>2, LenProperties
<1> HIDE DEF u, t
<1> SUFFICES ASSUME NEW k \in DOMAIN t
             PROVE  t[k][2] <= limit[t[k][1]]
  BY DEF t, u
<1>4. k \in 1 .. (Len(s) + Len(u))
  BY <1>2, <1>3
<1>5. CASE k <= Len(s)
  <2>1. k \in DOMAIN s /\ t[k] = s[k]
    BY <1>2, <1>3, <1>4, <1>5
  <2> QED
    BY <2>1
<1>6. CASE k > Len(s)
  <2>1. k - Len(s) \in 1 .. Len(u) /\ t[k] = u[k - Len(s)]
    BY <1>2, <1>3, <1>4, <1>6
  <2>2. t[k][1] = c /\ t[k][2] = from + (k - Len(s)) /\ from + (k - Len(s)) <= to
    BY <1>1, <2>1
  <2> QED
    BY <2>2
<1> QED
  BY <1>3, <1>4, <1>5, <1>6

-----------------------------------------------------------------------------
(* The invariant holds at the start and is kept by every action. *)

\* A receiver that has accepted nothing satisfies the invariant (the constructor).
LEMMA InvInit == Init => IInv
<1> SUFFICES ASSUME Init PROVE IInv
  OBVIOUS
<1>1. TypeOK
  BY RecieveDataAssumption DEF Init, TypeOK
<1>2. StreamOrder /\ BacklogOK /\ ClientSet /\ CurrentDrained /\ TakenOK /\ InOrderAtMostOnce
  BY RecieveDataAssumption
     DEF Init, StreamOrder, BacklogOK, ClientSet, CurrentDrained, TakenOK, Taken,
         InOrderAtMostOnce, Increasing
<1> QED
  BY <1>1, <1>2 DEF IInv

\* Steps of the peers leave the object, and what it has read, alone.
LEMMA InvPeerStep ==
    ASSUME IInv, PeerStep
    PROVE  IInv'
<1> USE RecieveDataAssumption DEF IInv
<1>1. ASSUME NEW c \in Conn, Connect(c)
      PROVE  IInv'
  <2>1. TypeOK'
    BY <1>1 DEF Connect, TypeOK, objectVars, peerVars
  <2>2. BacklogOK'
    <3>1. \A i \in DOMAIN backlog : backlog[i] # c /\ backlog[i] \in Conn
      BY <1>1 DEF Connect, BacklogOK, TypeOK
    <3>2. /\ DOMAIN backlog' = 1 .. (Len(backlog) + 1)
          /\ backlog'[Len(backlog) + 1] = c
          /\ \A i \in 1 .. Len(backlog) : backlog'[i] = backlog[i]
          /\ DOMAIN backlog = 1 .. Len(backlog)
          /\ Len(backlog) \in Nat
      BY <1>1 DEF Connect, TypeOK
    <3>3. \A i \in DOMAIN backlog' : status'[backlog'[i]] = "backlog"
      BY <1>1, <3>1, <3>2 DEF Connect, BacklogOK, TypeOK
    <3>4. \A i, j \in DOMAIN backlog' : backlog'[i] = backlog'[j] => i = j
      BY <3>1, <3>2 DEF BacklogOK
    <3>5. \A d \in Conn : status'[d] \in {"none", "backlog"} => buffered'[d] = 0 /\ consumed'[d] = 0
      BY <1>1 DEF Connect, BacklogOK, TypeOK
    <3> QED
      BY <3>3, <3>4, <3>5 DEF BacklogOK
  <2>3. ClientSet'
    BY <1>1 DEF Connect, ClientSet, TypeOK, objectVars
  <2>4. StreamOrder' /\ CurrentDrained' /\ TakenOK' /\ InOrderAtMostOnce'
    BY <1>1 DEF Connect, StreamOrder, CurrentDrained, TakenOK, Taken, InOrderAtMostOnce,
                Increasing, Precedes, objectVars, peerVars
  <2> QED
    BY <2>1, <2>2, <2>3, <2>4
<1>2. ASSUME NEW c \in Conn, Write(c)
      PROVE  IInv'
  <2>1. TypeOK'
    BY <1>2 DEF Write, TypeOK, objectVars
  <2>2. StreamOrder'
    BY <1>2 DEF Write, StreamOrder, TypeOK
  <2>3. BacklogOK' /\ ClientSet' /\ CurrentDrained' /\ TakenOK' /\ InOrderAtMostOnce'
    BY <1>2 DEF Write, BacklogOK, ClientSet, CurrentDrained, TakenOK, Taken,
                InOrderAtMostOnce, Increasing, Precedes, objectVars
  <2> QED
    BY <2>1, <2>2, <2>3
<1>3. ASSUME NEW c \in Conn, NEW how \in {"fin", "rst"}, Disconnect(c, how)
      PROVE  IInv'
  <2>1. TypeOK'
    BY <1>3 DEF Disconnect, TypeOK, objectVars
  <2>2. /\ StreamOrder' /\ BacklogOK' /\ ClientSet' /\ CurrentDrained'
        /\ TakenOK' /\ InOrderAtMostOnce'
    BY <1>3 DEF Disconnect, StreamOrder, BacklogOK, ClientSet, CurrentDrained, TakenOK, Taken,
                InOrderAtMostOnce, Increasing, Precedes, objectVars
  <2> QED
    BY <2>1, <2>2
<1> QED
  BY <1>1, <1>2, <1>3 DEF PeerStep

\* Moving the client pointer to a fresh socket keeps the invariant (acceptConnection).
LEMMA InvAccept ==
    ASSUME IInv, acceptConnection
    PROVE  IInv'
<1> USE RecieveDataAssumption DEF IInv
<1> DEFINE h == Head(backlog)
<1>1. /\ h \in Conn /\ h = backlog[1] /\ 1 \in DOMAIN backlog
      /\ Tail(backlog) \in Seq(Conn)
      /\ DOMAIN Tail(backlog) = 1 .. (Len(backlog) - 1)
      /\ \A i \in DOMAIN Tail(backlog) :
            Tail(backlog)[i] = backlog[i + 1] /\ i + 1 \in DOMAIN backlog
      /\ Len(backlog) \in Nat
  BY DEF acceptConnection, TypeOK
<1>2. status[h] = "backlog" /\ buffered[h] = 0 /\ consumed[h] = 0
  BY <1>1 DEF BacklogOK
<1> HIDE DEF h
<1>3. /\ client' = h /\ backlog' = Tail(backlog)
      /\ status' = [status EXCEPT ![h] = "open"]
      /\ UNCHANGED <<peer, sent, buffered, consumed, data, emitted>>
  BY DEF acceptConnection, peerVars, h
<1>4. TypeOK'
  BY <1>1, <1>3 DEF TypeOK
<1>5. BacklogOK'
  <2>1. \A i \in DOMAIN backlog' : backlog'[i] # h
    BY <1>1, <1>3 DEF BacklogOK
  <2>2. \A i \in DOMAIN backlog' : status'[backlog'[i]] = "backlog"
    BY <1>1, <1>3, <2>1 DEF BacklogOK, TypeOK
  <2>3. \A i, j \in DOMAIN backlog' : backlog'[i] = backlog'[j] => i = j
    <3> SUFFICES ASSUME NEW i \in DOMAIN backlog', NEW j \in DOMAIN backlog',
                        backlog'[i] = backlog'[j]
                 PROVE  i = j
      OBVIOUS
    <3>1. i + 1 = j + 1
      BY <1>1, <1>3 DEF BacklogOK
    <3> QED
      BY <1>1, <1>3, <3>1
  <2>4. \A c \in Conn : status'[c] \in {"none", "backlog"} => buffered'[c] = 0 /\ consumed'[c] = 0
    BY <1>1, <1>3 DEF BacklogOK, TypeOK
  <2> QED
    BY <2>2, <2>3, <2>4 DEF BacklogOK
<1>6. ClientSet' /\ CurrentDrained'
  BY <1>1, <1>2, <1>3 DEF ClientSet, CurrentDrained
<1>7. StreamOrder' /\ TakenOK' /\ InOrderAtMostOnce'
  BY <1>3 DEF StreamOrder, TakenOK, Taken, InOrderAtMostOnce, Increasing, Precedes
<1> QED
  BY <1>4, <1>5, <1>6, <1>7

\* Reading the client's buffer, on any socket's signal, keeps it (startRead).
LEMMA InvRead ==
    ASSUME IInv, NEW c \in Conn, startRead(c)
    PROVE  IInv'
<1> USE RecieveDataAssumption DEF IInv
<1> DEFINE u == Stream(client, consumed[client], buffered'[client])
<1>1. client \in Conn /\ status[c] = "open"
  BY DEF startRead, Signals, ClientSet
<1>2. PICK got \in (buffered[c] + 1) .. sent[c] : buffered' = [buffered EXCEPT ![c] = got]
  BY DEF startRead
<1>3. /\ buffered' \in [Conn -> 0 .. Chunks]
      /\ \A d \in Conn : buffered[d] <= buffered'[d] /\ buffered'[d] <= sent[d]
  BY <1>2 DEF TypeOK, StreamOrder
<1>4. /\ data' = data \o u
      /\ consumed' = [consumed EXCEPT ![client] = buffered'[client]]
      /\ UNCHANGED <<peer, sent, status, backlog, client, emitted>>
  BY DEF startRead, ReadSocket, ReadAll, peerVars
<1>5. /\ consumed[client] \in 0 .. Chunks /\ buffered'[client] \in 0 .. Chunks
      /\ consumed[client] <= buffered'[client]
  BY <1>1, <1>3 DEF TypeOK, StreamOrder
<1>6. u \in Seq(Chunk)
  BY <1>1, <1>5, StreamType
<1>7. data \in Seq(Chunk) /\ emitted \in Seq(Seq(Chunk))
  BY DEF TypeOK
<1>8. /\ consumed' \in [Conn -> 0 .. Chunks]
      /\ consumed'[client] = buffered'[client]
      /\ \A d \in Conn : consumed[d] <= consumed'[d] /\ consumed'[d] <= buffered'[d]
  <2>1. consumed' \in [Conn -> 0 .. Chunks] /\ consumed'[client] = buffered'[client]
    BY <1>1, <1>4, <1>5 DEF TypeOK
  <2>2. ASSUME NEW d \in Conn
        PROVE  consumed[d] <= consumed'[d] /\ consumed'[d] <= buffered'[d]
    <3>1. CASE d = client
      BY <1>5, <2>1, <3>1
    <3>2. CASE d # client
      <4>1. consumed'[d] = consumed[d]
        BY <1>4, <3>2 DEF TypeOK
      <4>2. /\ consumed[d] \in Int /\ buffered[d] \in Int /\ buffered'[d] \in Int
            /\ consumed[d] <= buffered[d] /\ buffered[d] <= buffered'[d]
        BY <1>3 DEF TypeOK, StreamOrder
      <4> QED
        BY <4>1, <4>2
    <3> QED
      BY <3>1, <3>2
  <2> QED
    BY <2>1, <2>2
<1>9. TypeOK'
  <2>1. data' \in Seq(Chunk)
    BY <1>4, <1>6, <1>7, ConcatProperties
  <2> QED
    BY <1>3, <1>4, <1>8, <2>1 DEF TypeOK
<1>10. StreamOrder'
  BY <1>3, <1>4, <1>8 DEF StreamOrder
<1>11. BacklogOK'
  <2>1. \A d \in Conn : status[d] \in {"none", "backlog"} => buffered'[d] = 0
    BY <1>1, <1>2 DEF BacklogOK, TypeOK
  <2>2. \A d \in Conn : status[d] \in {"none", "backlog"} => consumed'[d] = 0
    <3>1. \A d \in Conn : consumed'[d] \in 0 .. Chunks /\ consumed'[d] <= buffered'[d]
      BY <1>8
    <3> QED
      BY <2>1, <3>1
  <2> QED
    BY <1>4, <2>1, <2>2 DEF BacklogOK
<1>12. ClientSet' /\ CurrentDrained'
  BY <1>1, <1>4, <1>8 DEF ClientSet, CurrentDrained
<1>13. Taken(data)'
  <2>1. \A k \in DOMAIN data : data[k] \in Chunk
    BY <1>7, LenProperties
  <2>2. \A k \in DOMAIN data : data[k][2] <= consumed'[data[k][1]]
    BY <1>8, <2>1 DEF TakenOK, Taken, Chunk, TypeOK
  <2>3. \A k \in DOMAIN (data \o u) : (data \o u)[k][2] <= consumed'[(data \o u)[k][1]]
    BY <1>1, <1>5, <1>7, <1>8, <2>2, TakenAppend
  <2> QED
    BY <1>4, <2>3 DEF Taken
<1>14. \A m \in DOMAIN emitted' : Taken(emitted[m])'
  <2> SUFFICES ASSUME NEW m \in DOMAIN emitted, NEW k \in DOMAIN emitted[m]
               PROVE  emitted[m][k][2] <= consumed'[emitted[m][k][1]]
    BY <1>4 DEF Taken
  <2>1. emitted[m] \in Seq(Chunk)
    BY <1>7, LenProperties
  <2>2. emitted[m][k] \in Chunk
    BY <2>1, LenProperties
  <2>3. emitted[m][k][2] <= consumed[emitted[m][k][1]]
    BY DEF TakenOK, Taken
  <2> QED
    BY <1>8, <2>2, <2>3 DEF Chunk, TypeOK
<1>15. Increasing(data)'
  <2>1. \A k \in DOMAIN data : data[k][1] = client => data[k][2] <= consumed[client]
    BY DEF TakenOK, Taken
  <2> QED
    BY <1>1, <1>4, <1>5, <1>7, <2>1, IncreasingAppend DEF InOrderAtMostOnce, Increasing
<1>16. \A m \in DOMAIN emitted : Precedes(emitted[m], data')
  <2> SUFFICES ASSUME NEW m \in DOMAIN emitted
               PROVE  Precedes(emitted[m], data')
    OBVIOUS
  <2>1. emitted[m] \in Seq(Chunk)
    BY <1>7, LenProperties
  <2>2. \A k \in DOMAIN emitted[m] :
            emitted[m][k][1] = client => emitted[m][k][2] <= consumed[client]
    BY DEF TakenOK, Taken
  <2>3. Precedes(emitted[m], data)
    BY DEF InOrderAtMostOnce
  <2> QED
    BY <1>1, <1>4, <1>5, <1>7, <2>1, <2>2, <2>3, PrecedesAppend
<1>17. InOrderAtMostOnce'
  <2>1. /\ \A m \in DOMAIN emitted' : Increasing(emitted'[m])
        /\ \A m, n \in DOMAIN emitted' : m < n => Precedes(emitted'[m], emitted'[n])
    BY <1>4 DEF InOrderAtMostOnce
  <2>2. \A m \in DOMAIN emitted' : Precedes(emitted'[m], data')
    BY <1>4, <1>16
  <2>3. /\ \A m \in DOMAIN emitted' : Increasing(emitted[m])' /\ Precedes(emitted[m], data)'
        /\ \A m, n \in DOMAIN emitted' : m < n => Precedes(emitted[m], emitted[n])'
    BY <2>1, <2>2 DEF Increasing, Precedes
  <2> QED
    BY <1>15, <2>3 DEF InOrderAtMostOnce
<1> QED
  BY <1>4, <1>9, <1>10, <1>11, <1>12, <1>13, <1>14, <1>17 DEF TakenOK

\* Announcing `data' and starting it afresh keeps it (recieve_complete).
LEMMA InvComplete ==
    ASSUME IInv, NEW c \in Conn, recieve_complete(c)
    PROVE  IInv'
<1> USE RecieveDataAssumption DEF IInv
<1>1. /\ status[c] = "open"
      /\ status' = [status EXCEPT ![c] = "finished"]
      /\ emitted' = Append(emitted, data)
      /\ data' = <<>>
      /\ UNCHANGED <<peer, sent, backlog, buffered, consumed, client>>
  BY DEF recieve_complete, Signals, DataReset, peerVars
<1>2. data \in Seq(Chunk) /\ emitted \in Seq(Seq(Chunk))
  BY DEF TypeOK
<1>3. /\ DOMAIN emitted' = 1 .. (Len(emitted) + 1)
      /\ DOMAIN emitted = 1 .. Len(emitted)
      /\ Len(emitted) \in Nat
      /\ emitted'[Len(emitted) + 1] = data
      /\ \A m \in 1 .. Len(emitted) : emitted'[m] = emitted[m]
  BY <1>1, <1>2
<1>4. TypeOK'
  BY <1>1, <1>2 DEF TypeOK
<1>5. StreamOrder' /\ ClientSet' /\ CurrentDrained'
  BY <1>1 DEF StreamOrder, ClientSet, CurrentDrained, TypeOK
<1>6. BacklogOK'
  BY <1>1 DEF BacklogOK, TypeOK
<1>7. TakenOK'
  BY <1>1, <1>3 DEF TakenOK, Taken
<1>8. InOrderAtMostOnce'
  <2>1. Increasing(data')
    BY <1>1 DEF Increasing
  <2>2. \A m \in DOMAIN emitted' : Increasing(emitted'[m]) /\ Precedes(emitted'[m], data')
    <3>1. \A m \in DOMAIN emitted' : Increasing(emitted'[m])
      BY <1>3 DEF InOrderAtMostOnce
    <3>2. \A m \in DOMAIN emitted' : Precedes(emitted'[m], data')
      BY <1>1 DEF Precedes
    <3> QED
      BY <3>1, <3>2
  <2>3. \A m, n \in DOMAIN emitted' : m < n => Precedes(emitted'[m], emitted'[n])
    <3> SUFFICES ASSUME NEW m \in DOMAIN emitted', NEW n \in DOMAIN emitted', m < n
                 PROVE  Precedes(emitted'[m], emitted'[n])
      OBVIOUS
    <3>1. CASE n = Len(emitted) + 1
      BY <1>3, <3>1 DEF InOrderAtMostOnce
    <3>2. CASE n # Len(emitted) + 1
      BY <1>3, <3>2 DEF InOrderAtMostOnce
    <3> QED
      BY <3>1, <3>2
  <2>4. /\ Increasing(data)'
        /\ \A m \in DOMAIN emitted' : Increasing(emitted[m])' /\ Precedes(emitted[m], data)'
        /\ \A m, n \in DOMAIN emitted' : m < n => Precedes(emitted[m], emitted[n])'
    BY <2>1, <2>2, <2>3 DEF Increasing, Precedes
  <2> QED
    BY <2>4 DEF InOrderAtMostOnce
<1> QED
  BY <1>4, <1>5, <1>6, <1>7, <1>8

\* Every step of the receiver and of its peers keeps the invariant.
LEMMA InvStep == IInv /\ [Next]_vars => IInv'
<1> SUFFICES ASSUME IInv, [Next]_vars PROVE IInv'
  OBVIOUS
<1>1. CASE PeerStep
  BY <1>1, InvPeerStep
<1>2. CASE acceptConnection
  BY <1>2, InvAccept
<1>3. CASE \E c \in Conn : startRead(c)
  BY <1>3, InvRead
<1>4. CASE \E c \in Conn : recieve_complete(c)
  BY <1>4, InvComplete
<1>5. CASE UNCHANGED vars
  BY <1>5 DEF vars, IInv, TypeOK, StreamOrder, BacklogOK, ClientSet, CurrentDrained,
              TakenOK, Taken, InOrderAtMostOnce, Increasing, Precedes, Chunk
<1> QED
  BY <1>1, <1>2, <1>3, <1>4, <1>5 DEF Next

\* The inductive invariant holds in every reachable state of the receiver.
THEOREM Invariance == Spec => []IInv
<1>1. Init => IInv
  BY InvInit
<1>2. IInv /\ [Next]_vars => IInv'
  BY InvStep
<1> QED
  BY <1>1, <1>2, PTL DEF Spec

\* Every variable of the receiver keeps its type: positions in the streams stay
\* within the payload and only chunks of the peers' payloads are announced.
THEOREM TypeCorrect == Spec => []TypeOK
<1>1. IInv => TypeOK
  BY DEF IInv
<1> QED
  BY <1>1, Invariance, PTL

\* Whatever the number of connections and their overlap, no chunk is announced
\* twice and none of a connection before an earlier one (recieve_complete).
THEOREM NoRepetition == Spec => []InOrderAtMostOnce
<1>1. IInv => InOrderAtMostOnce
  BY DEF IInv
<1> QED
  BY <1>1, Invariance, PTL

\* Between slots the current client's read buffer is empty (startRead).
THEOREM ClientIsDrained == Spec => []CurrentDrained
<1>1. IInv => CurrentDrained
  BY DEF IInv
<1> QED
  BY <1>1, Invariance, PTL

-----------------------------------------------------------------------------
(* Loss after an orderly close. *)

\* A connection that was closed in order is announced only when all of it has
\* reached its read buffer, and nothing reaches it afterwards.
FinishedFin ==
    \A c \in Conn : status[c] = "finished" /\ peer[c] = "fin" => buffered[c] = sent[c]

\* Every step keeps that a finished connection was buffered whole.
LEMMA FinishedStep == IInv /\ FinishedFin /\ [Next]_vars => FinishedFin'
<1> SUFFICES ASSUME TypeOK, FinishedFin, [Next]_vars PROVE FinishedFin'
  BY DEF IInv
<1> USE DEF TypeOK, FinishedFin, peerVars, objectVars
<1>1. ASSUME NEW c \in Conn, Connect(c) PROVE FinishedFin'
  BY <1>1 DEF Connect
<1>2. ASSUME NEW c \in Conn, Write(c) PROVE FinishedFin'
  BY <1>2 DEF Write, Live
<1>3. ASSUME NEW c \in Conn, Disconnect(c, "fin") \/ Disconnect(c, "rst") PROVE FinishedFin'
  BY <1>3 DEF Disconnect, Live
<1>4. CASE acceptConnection
  BY <1>4 DEF acceptConnection
<1>5. ASSUME NEW c \in Conn, startRead(c) PROVE FinishedFin'
  BY <1>5 DEF startRead, Signals
<1>6. ASSUME NEW c \in Conn, recieve_complete(c) PROVE FinishedFin'
  BY <1>6 DEF recieve_complete, Signals
<1>7. CASE UNCHANGED vars
  BY <1>7 DEF vars
<1> QED
  BY <1>1, <1>2, <1>3, <1>4, <1>5, <1>6, <1>7 DEF Next, PeerStep

\* After an orderly close, bytes are lost only to a connection that is no longer
\* the client: readAll emptied the client's buffer (startRead, acceptConnection).
THEOREM LossOnlyWhenSuperseded == Spec => []LossMeansSuperseded
<1>1. Init => FinishedFin
  BY DEF Init, FinishedFin
<1>2. IInv /\ FinishedFin => LossMeansSuperseded
  <2> SUFFICES ASSUME IInv, FinishedFin, NEW c \in Conn, status[c] = "finished",
                      peer[c] = "fin", consumed[c] < sent[c], client = c
               PROVE  FALSE
    BY DEF LossMeansSuperseded
  <2>1. consumed[c] = buffered[c] /\ buffered[c] = sent[c]
    BY RecieveDataAssumption DEF IInv, CurrentDrained, FinishedFin
  <2>2. consumed[c] \in Int /\ sent[c] \in Int
    BY DEF IInv, TypeOK
  <2> QED
    BY <2>1, <2>2
<1> QED
  BY <1>1, <1>2, FinishedStep, Invariance, PTL DEF Spec

-----------------------------------------------------------------------------
(* With one connection at a time: intact messages, and the mailbox. *)

\* At most one connection is live, it is the client once it is accepted, and
\* `data' holds what has been consumed of it and nothing else.
OneLive ==
    /\ \A c, d \in Conn : Live(c) /\ Live(d) => c = d
    /\ \A c \in Conn : status[c] = "open" => client = c
    /\ \A c \in Conn : status[c] = "open" => data = Stream(c, 0, consumed[c])
    /\ (\A c \in Conn : status[c] # "open") => data = <<>>

IsolatedInv == Isolated => OneLive

\* Two adjacent stretches of a stream make one.
LEMMA StreamConcat ==
    ASSUME NEW c \in Conn, NEW mid \in 0 .. Chunks, NEW to \in 0 .. Chunks, mid <= to
    PROVE  Stream(c, 0, mid) \o Stream(c, mid, to) = Stream(c, 0, to)
<1> DEFINE a == Stream(c, 0, mid)
           b == Stream(c, mid, to)
           w == Stream(c, 0, to)
<1>0. 0 \in 0 .. Chunks /\ 0 <= mid /\ 0 <= to
  BY RecieveDataAssumption
<1>1. a \in Seq(Chunk) /\ Len(a) = mid - 0 /\ \A i \in 1 .. (mid - 0) : a[i] = <<c, 0 + i>>
  BY <1>0, StreamType, Zenon
<1>2. b \in Seq(Chunk) /\ Len(b) = to - mid /\ \A i \in 1 .. (to - mid) : b[i] = <<c, mid + i>>
  BY <1>0, StreamType, Zenon
<1>3. w \in Seq(Chunk) /\ Len(w) = to - 0 /\ \A i \in 1 .. (to - 0) : w[i] = <<c, 0 + i>>
  BY <1>0, StreamType, Zenon
<1>4. /\ a \o b \in Seq(Chunk)
      /\ Len(a \o b) = Len(a) + Len(b)
      /\ \A i \in 1 .. Len(a) + Len(b) : (a \o b)[i] = IF i <= Len(a) THEN a[i] ELSE b[i - Len(a)]
  BY <1>1, <1>2, ConcatProperties
<1> HIDE DEF a, b, w
<1>7. mid \in Nat /\ to \in Nat /\ Len(a) = mid /\ Len(b) = to - mid /\ Len(w) = to
  BY <1>1, <1>2, <1>3, RecieveDataAssumption
<1>8. /\ \A i \in 1 .. mid : a[i] = <<c, i>>
      /\ \A i \in 1 .. (to - mid) : b[i] = <<c, mid + i>>
      /\ \A i \in 1 .. to : w[i] = <<c, i>>
  BY <1>1, <1>2, <1>3, <1>7
<1>9. \A i \in 1 .. to : (a \o b)[i] = IF i <= mid THEN a[i] ELSE b[i - mid]
  BY <1>4, <1>7
<1>5. Len(a \o b) = Len(w)
  BY <1>4, <1>7
<1>6. \A i \in 1 .. Len(a \o b) : (a \o b)[i] = w[i]
  <2> SUFFICES ASSUME NEW i \in 1 .. to PROVE (a \o b)[i] = w[i]
    BY <1>5, <1>7
  <2>1. CASE i <= mid
    BY <1>7, <1>8, <1>9, <2>1
  <2>2. CASE i > mid
    <3>1. i - mid \in 1 .. (to - mid) /\ mid + (i - mid) = i
      BY <1>7, <2>2
    <3>2. b[i - mid] = <<c, i>>
      BY <1>8, <3>1
    <3>3. (a \o b)[i] = b[i - mid]
      BY <1>7, <1>9, <2>2
    <3> QED
      BY <1>8, <3>2, <3>3
  <2> QED
    BY <1>7, <2>1, <2>2
<1> QED
  BY <1>3, <1>4, <1>5, <1>6, SeqEqual DEF a, b, w

\* An empty stretch is the empty text.
LEMMA StreamEmpty ==
    ASSUME NEW c \in Conn
    PROVE  Stream(c, 0, 0) = <<>>
<1>1. Stream(c, 0, 0) \in Seq(Chunk) /\ Len(Stream(c, 0, 0)) = 0
  BY StreamType, RecieveDataAssumption
<1> QED
  BY <1>1, EmptySeq

-----------------------------------------------------------------------------
\* At first no connection is live and nothing has been announced.
LEMMA IsolatedInit == Init => IsolatedInv /\ IntactMessages
BY DEF Init, IsolatedInv, OneLive, IntactMessages, Live

\* Each action keeps the two facts, one connection live and messages intact.
LEMMA IsolatedStep ==
    ASSUME Isolated, IInv, IsolatedInv, IntactMessages, [Next]_vars
    PROVE  OneLive' /\ IntactMessages'
<1> USE DEF IInv
<1>1. ASSUME NEW c \in Conn, Connect(c)
      PROVE  OneLive' /\ IntactMessages'
  <2>1. OneLive'
    BY <1>1 DEF Connect, IsolatedInv, OneLive, Live, TypeOK, objectVars
  <2>2. IntactMessages'
    BY <1>1 DEF Connect, IntactMessages, TypeOK, objectVars, peerVars
  <2> QED
    BY <2>1, <2>2
<1>2. ASSUME NEW c \in Conn, Write(c)
      PROVE  OneLive' /\ IntactMessages'
  <2>1. OneLive'
    BY <1>2 DEF Write, IsolatedInv, OneLive, Live, objectVars
  <2>2. IntactMessages'
    BY <1>2 DEF Write, IntactMessages, TypeOK, objectVars, Live
  <2> QED
    BY <2>1, <2>2
<1>3. ASSUME NEW c \in Conn, NEW how \in {"fin", "rst"}, Disconnect(c, how)
      PROVE  OneLive' /\ IntactMessages'
  <2>1. OneLive'
    BY <1>3 DEF Disconnect, IsolatedInv, OneLive, Live, objectVars
  <2>2. IntactMessages'
    BY <1>3 DEF Disconnect, IntactMessages, TypeOK, objectVars, Live
  <2> QED
    BY <2>1, <2>2
<1>4. ASSUME acceptConnection
      PROVE  OneLive' /\ IntactMessages'
  <2> DEFINE h == Head(backlog)
  <2>1. h \in Conn /\ status[h] = "backlog" /\ consumed[h] = 0
    <3>1. h \in Conn /\ h = backlog[1] /\ 1 \in DOMAIN backlog
      BY <1>4 DEF acceptConnection, TypeOK
    <3> QED
      BY <3>1 DEF BacklogOK
  <2>2. /\ client' = h /\ status' = [status EXCEPT ![h] = "open"]
        /\ UNCHANGED <<peer, sent, consumed, data, emitted>>
    BY <1>4 DEF acceptConnection, peerVars
  <2> HIDE DEF h
  <2>3. \A d \in Conn : status[d] # "open"
    BY <2>1 DEF IsolatedInv, OneLive, Live
  <2>4. data = Stream(h, 0, consumed[h])
    BY <2>1, <2>3, StreamEmpty DEF IsolatedInv, OneLive
  <2>5. OneLive'
    BY <2>1, <2>2, <2>3, <2>4 DEF IsolatedInv, OneLive, Live, TypeOK
  <2>6. IntactMessages'
    BY <2>1, <2>2 DEF IntactMessages, TypeOK
  <2> QED
    BY <2>5, <2>6
<1>5. ASSUME NEW c \in Conn, startRead(c)
      PROVE  OneLive' /\ IntactMessages'
  <2>1. status[c] = "open" /\ client = c
    BY <1>5 DEF startRead, Signals, IsolatedInv, OneLive
  <2>2. PICK n \in (buffered[c] + 1) .. sent[c] : buffered' = [buffered EXCEPT ![c] = n]
    BY <1>5 DEF startRead
  <2>3. /\ consumed' = [consumed EXCEPT ![c] = n]
        /\ data' = data \o Stream(c, consumed[c], n)
        /\ UNCHANGED <<peer, sent, status, client, emitted>>
    BY <1>5, <2>1, <2>2 DEF startRead, ReadSocket, ReadAll, TypeOK, peerVars
  <2>4. consumed[c] \in 0 .. Chunks /\ n \in 0 .. Chunks /\ consumed[c] <= n
    <3>1. /\ consumed[c] \in 0 .. Chunks /\ buffered[c] \in 0 .. Chunks
          /\ sent[c] \in 0 .. Chunks /\ consumed[c] <= buffered[c]
      BY DEF TypeOK, StreamOrder
    <3> QED
      BY <2>2, <3>1, RecieveDataAssumption
  <2>5. data' = Stream(c, 0, n)
    BY <2>1, <2>3, <2>4, StreamConcat DEF IsolatedInv, OneLive
  <2>6. \A d \in Conn : status[d] = "open" => d = c
    BY <2>1 DEF IsolatedInv, OneLive, Live
  <2>7. OneLive'
    BY <2>1, <2>3, <2>5, <2>6 DEF IsolatedInv, OneLive, Live, TypeOK
  <2>8. IntactMessages'
    BY <2>1, <2>3 DEF IntactMessages, TypeOK
  <2> QED
    BY <2>7, <2>8
<1>6. ASSUME NEW c \in Conn, recieve_complete(c)
      PROVE  OneLive' /\ IntactMessages'
  <2>1. /\ status[c] = "open" /\ client = c
        /\ status' = [status EXCEPT ![c] = "finished"]
        /\ emitted' = Append(emitted, data)
        /\ data' = <<>>
        /\ UNCHANGED <<peer, sent, buffered, consumed, client>>
        /\ peer[c] = "fin" => buffered[c] = sent[c]
    BY <1>6 DEF recieve_complete, Signals, DataReset, peerVars, IsolatedInv, OneLive
  <2>2. data = Stream(c, 0, consumed[c])
    BY <2>1 DEF IsolatedInv, OneLive
  <2>3. /\ DOMAIN emitted' = 1 .. (Len(emitted) + 1)
        /\ DOMAIN emitted = 1 .. Len(emitted)
        /\ emitted'[Len(emitted) + 1] = data
        /\ \A m \in 1 .. Len(emitted) : emitted'[m] = emitted[m]
        /\ Len(emitted) \in Nat
    BY <2>1 DEF TypeOK
  <2>4. OneLive'
    BY <2>1 DEF IsolatedInv, OneLive, Live, TypeOK
  <2>5. \A m \in DOMAIN emitted' : \E d \in Conn :
            status'[d] = "finished" /\ emitted'[m] = Stream(d, 0, consumed'[d])
    <3> SUFFICES ASSUME NEW m \in DOMAIN emitted'
                 PROVE  \E d \in Conn : status'[d] = "finished" /\ emitted'[m] = Stream(d, 0, consumed'[d])
      OBVIOUS
    <3>1. CASE m = Len(emitted) + 1
      BY <2>1, <2>2, <2>3, <3>1 DEF TypeOK
    <3>2. CASE m # Len(emitted) + 1
      <4>1. m \in DOMAIN emitted
        BY <2>3, <3>2
      <4>2. PICK d \in Conn : status[d] = "finished" /\ emitted[m] = Stream(d, 0, consumed[d])
        BY <4>1 DEF IntactMessages
      <4> QED
        BY <2>1, <2>3, <4>1, <4>2 DEF TypeOK
    <3> QED
      BY <3>1, <3>2
  <2>6. \A d \in Conn : status'[d] = "finished" /\ peer'[d] = "fin" => consumed'[d] = sent'[d]
    <3> SUFFICES ASSUME NEW d \in Conn, status'[d] = "finished", peer'[d] = "fin"
                 PROVE  consumed'[d] = sent'[d]
      OBVIOUS
    <3>1. CASE d = c
      <4>1. client # NoConn
        BY <2>1, RecieveDataAssumption
      <4>2. consumed[c] = buffered[c]
        BY <2>1, <4>1 DEF CurrentDrained
      <4> QED
        BY <2>1, <3>1, <4>2
    <3>2. CASE d # c
      BY <2>1, <3>2 DEF IntactMessages, TypeOK
    <3> QED
      BY <3>1, <3>2
  <2>7. IntactMessages'
    BY <2>5, <2>6 DEF IntactMessages, Stream
  <2> QED
    BY <2>4, <2>7
<1>7. CASE UNCHANGED vars
  BY <1>7 DEF vars, IsolatedInv, OneLive, Live, IntactMessages, Stream
<1> QED
  BY <1>1, <1>2, <1>3, <1>4, <1>5, <1>6, <1>7 DEF Next, PeerStep

\* When connections do not overlap, every message is one connection's text from
\* its first chunk, and the whole of it after an orderly close.
THEOREM MessagesAreIntact == Spec => []IntactMessages
<1> DEFINE Inv == IInv /\ IsolatedInv /\ IntactMessages
<1>1. Init => Inv
  BY InvInit, IsolatedInit
<1>2. Inv /\ [Next]_vars => Inv'
  <2> SUFFICES ASSUME Inv, [Next]_vars PROVE Inv'
    OBVIOUS
  <2>1. IInv'
    BY InvStep
  <2>2. CASE Isolated
    BY <2>1, <2>2, IsolatedStep DEF IsolatedInv
  <2>3. CASE ~Isolated
    BY <2>1, <2>3 DEF IsolatedInv, IntactMessages
  <2> QED
    BY <2>2, <2>3
<1>3. Inv => IntactMessages
  OBVIOUS
<1> QED
  BY <1>1, <1>2, <1>3, PTL DEF Spec

\* Every step of the receiver is a step of the mailbox, or none: a write is a
\* write, a close an end, the announcement of a connection its delivery.
LEMMA MailboxStep ==
    ASSUME Isolated, IInv, IsolatedInv, IntactMessages', [Next]_vars
    PROVE  [Mailbox!Next]_(Mailbox!mailVars)
<1> DEFINE taken == [d \in Conn |-> status[d] = "finished"]
<1>1. ASSUME NEW c \in Conn, Connect(c)
      PROVE  UNCHANGED Mailbox!mailVars
  <2>1. taken' = taken
    BY <1>1 DEF Connect, IInv, TypeOK
  <2> QED
    BY <1>1, <2>1 DEF Connect, Mailbox!mailVars, objectVars, peerVars
<1>2. ASSUME NEW c \in Conn, Write(c)
      PROVE  Mailbox!Write(c)
  <2>1. taken' = taken
    BY <1>2 DEF Write
  <2> QED
    BY <1>2, <2>1 DEF Write, Mailbox!Write, objectVars
<1>3. ASSUME NEW c \in Conn, NEW how \in {"fin", "rst"}, Disconnect(c, how)
      PROVE  Mailbox!End(c)
  <2>1. taken' = taken
    BY <1>3 DEF Disconnect
  <2> QED
    BY <1>3, <2>1 DEF Disconnect, Mailbox!End, objectVars
<1>4. ASSUME acceptConnection
      PROVE  UNCHANGED Mailbox!mailVars
  <2>1. Head(backlog) \in Conn /\ status[Head(backlog)] = "backlog"
    <3>1. Head(backlog) \in Conn /\ Head(backlog) = backlog[1] /\ 1 \in DOMAIN backlog
      BY <1>4 DEF acceptConnection, IInv, TypeOK
    <3> QED
      BY <3>1 DEF IInv, BacklogOK
  <2>2. taken' = taken
    BY <1>4, <2>1 DEF acceptConnection, IInv, TypeOK
  <2> QED
    BY <1>4, <2>2 DEF acceptConnection, Mailbox!mailVars, peerVars
<1>5. ASSUME NEW c \in Conn, startRead(c)
      PROVE  UNCHANGED Mailbox!mailVars
  <2>1. taken' = taken
    BY <1>5 DEF startRead
  <2> QED
    BY <1>5, <2>1 DEF startRead, Mailbox!mailVars, peerVars
<1>6. ASSUME NEW c \in Conn, recieve_complete(c)
      PROVE  Mailbox!Deliver(c)
  <2>1. /\ status[c] = "open"
        /\ status' = [status EXCEPT ![c] = "finished"]
        /\ emitted' = Append(emitted, data)
        /\ UNCHANGED <<peer, sent, consumed>>
        /\ peer[c] # "up"
    BY <1>6 DEF recieve_complete, Signals, peerVars
  <2>2. data = Stream(c, 0, consumed[c])
    BY <2>1 DEF IsolatedInv, OneLive
  <2>3. consumed[c] \in 0 .. sent[c] /\ (peer[c] = "fin" => consumed[c] = sent[c])
    <3>1. consumed[c] \in 0 .. Chunks /\ consumed[c] <= buffered[c]
          /\ buffered[c] <= sent[c] /\ buffered[c] \in Int /\ sent[c] \in Int
      BY DEF IInv, TypeOK, StreamOrder
    <3>2. status'[c] = "finished"
      BY <2>1 DEF IInv, TypeOK
    <3>3. peer[c] = "fin" => consumed[c] = sent[c]
      BY <2>1, <3>2 DEF IntactMessages
    <3> QED
      BY <3>1, <3>3, RecieveDataAssumption
  <2>4. data = Mailbox!Text(c, consumed[c])
    BY <2>2, <2>3 DEF Stream, Mailbox!Text
  <2>5. taken' = [taken EXCEPT ![c] = TRUE] /\ ~taken[c]
    BY <2>1 DEF IInv, TypeOK
  <2> QED
    BY <2>1, <2>3, <2>4, <2>5 DEF Mailbox!Deliver
<1>7. CASE UNCHANGED vars
  BY <1>7 DEF vars, Mailbox!mailVars
<1> QED
  BY <1>1, <1>2, <1>3, <1>4, <1>5, <1>6, <1>7 DEF Next, PeerStep, Mailbox!Next

\* With one connection at a time the receiver implements the mailbox: what the
\* display handles is exactly what each peer wrote, one message per connection.
THEOREM ImplementsMailbox ==
    ASSUME Isolated
    PROVE  Spec => MailboxSpec
<1>1. Init => Mailbox!Init
  BY DEF Init, Mailbox!Init
<1>2. IInv /\ IsolatedInv /\ IntactMessages' /\ [Next]_vars => [Mailbox!Next]_(Mailbox!mailVars)
  BY MailboxStep
<1>3. Spec => []IsolatedInv
  <2>1. Init => IsolatedInv /\ IntactMessages
    BY IsolatedInit
  <2>2. IInv /\ (IsolatedInv /\ IntactMessages) /\ [Next]_vars => (IsolatedInv /\ IntactMessages)'
    BY IsolatedStep DEF IsolatedInv
  <2> QED
    BY <2>1, <2>2, Invariance, PTL DEF Spec
<1> QED
  BY <1>1, <1>2, <1>3, Invariance, MessagesAreIntact, PTL DEF Spec, MailboxSpec, Mailbox!Spec

-----------------------------------------------------------------------------
(* Playback. *)

\* The inductive invariant: the types and where each entry stands.
LapsInv == LapsTypeOK /\ OncePerLap

-----------------------------------------------------------------------------
\* A message prolongs the playlist by well-formed entries and keeps the rest.
LEMMA PlaylistGrows ==
    ASSUME PlayerTypeOK, Receive
    PROVE  /\ playlist' \in Seq(Entry)
           /\ Len(playlist) <= Len(playlist')
           /\ \A i \in DOMAIN playlist : playlist'[i] = playlist[i]
           /\ alive' \in BOOLEAN
           /\ disk' \subseteq File
           /\ UNCHANGED <<current_index_of_queue, media, current>>
<1>1. PICK items \in Messages : handle_recieved_data(items)
  BY DEF Receive
<1>2. items \in Seq(Item)
  BY DisplayPlayerAssumption
<1>3. PICK n \in 0 .. Len(items) :
          /\ disk' = disk \cup StoredFiles(items, n)
          /\ playlist' = playlist \o [i \in 1 .. n |-> EntryOf(items[i])]
          /\ alive' = (n = Len(items))
  BY <1>1 DEF handle_recieved_data
<1>4. Len(items) \in Nat /\ \A i \in 1 .. Len(items) : items[i] \in Item
  BY <1>2, LenProperties
<1> DEFINE new == [i \in 1 .. n |-> EntryOf(items[i])]
<1>5. new \in Seq(Entry)
  <2>1. \A i \in 1 .. n : EntryOf(items[i]) \in Entry
    BY <1>4 DEF EntryOf, Entry, Item
  <2> QED
    BY <1>4, <2>1
<1>6. StoredFiles(items, n) \subseteq File
  BY <1>4 DEF StoredFiles, Item
<1>7. playlist \in Seq(Entry)
  BY DEF PlayerTypeOK
<1>8. /\ playlist \o new \in Seq(Entry)
      /\ Len(playlist \o new) = Len(playlist) + Len(new)
      /\ \A i \in 1 .. Len(playlist) + Len(new) :
            (playlist \o new)[i] = IF i <= Len(playlist) THEN playlist[i] ELSE new[i - Len(playlist)]
  BY <1>5, <1>7, ConcatProperties
<1>9. Len(playlist) \in Nat /\ Len(new) \in Nat /\ DOMAIN playlist = 1 .. Len(playlist)
  BY <1>5, <1>7, LenProperties
<1> HIDE DEF new
<1>10. Len(playlist) <= Len(playlist') /\ \A i \in DOMAIN playlist : playlist'[i] = playlist[i]
  BY <1>3, <1>8, <1>9 DEF new
<1>11. UNCHANGED <<current_index_of_queue, media, current>>
  BY <1>1 DEF handle_recieved_data
<1> QED
  BY <1>3, <1>6, <1>8, <1>10, <1>11 DEF new, PlayerTypeOK

-----------------------------------------------------------------------------
\* An empty playlist satisfies the invariant (the constructor).
LEMMA LapsInvInit == LapsInit => LapsInv
<1> SUFFICES ASSUME LapsInit PROVE LapsInv
  OBVIOUS
<1>1. playlist = <<>> /\ joined = <<>> /\ plays = <<>> /\ finished = <<>>
  BY DEF LapsInit, PlayerInit
<1>2. PlayerTypeOK
  BY DEF LapsInit, PlayerInit, PlayerTypeOK, MediaState
<1>3. <<>> \in Seq(Nat) /\ <<>> \in [DOMAIN <<>> -> Nat]
  BY EmptySeq, LenProperties
<1>4. LapsTypeOK
  BY <1>1, <1>2, <1>3 DEF LapsInit, LapsTypeOK
<1>5. OncePerLap
  BY <1>1 DEF OncePerLap
<1> QED
  BY <1>4, <1>5 DEF LapsInv

\* Entries appended by a message join the current lap (handle_recieved_data).
LEMMA LapsInvReceive ==
    ASSUME LapsInv, LapsReceive
    PROVE  LapsInv'
<1> USE DEF LapsInv
<1>1. PlayerTypeOK
  BY DEF LapsTypeOK
<1>2. /\ playlist' \in Seq(Entry)
      /\ Len(playlist) <= Len(playlist')
      /\ alive' \in BOOLEAN
      /\ disk' \subseteq File
      /\ UNCHANGED <<current_index_of_queue, media, current>>
  BY <1>1, PlaylistGrows DEF LapsReceive
<1>3. /\ DOMAIN playlist = 1 .. Len(playlist) /\ DOMAIN playlist' = 1 .. Len(playlist')
      /\ Len(playlist) \in Nat /\ Len(playlist') \in Nat
  BY <1>1, <1>2, LenProperties DEF PlayerTypeOK
<1>4. PlayerTypeOK'
  BY <1>1, <1>2, <1>3 DEF PlayerTypeOK
<1>5. /\ joined \in [1 .. Len(playlist) -> Nat] /\ plays \in [1 .. Len(playlist) -> Nat]
      /\ finished \in [1 .. Len(playlist) -> Nat] /\ laps \in Nat
  BY <1>3 DEF LapsTypeOK
<1>6. LapsTypeOK'
  BY <1>3, <1>4, <1>5 DEF LapsTypeOK, LapsReceive
<1>7. OncePerLap'
  <2> SUFFICES ASSUME NEW i \in DOMAIN playlist'
               PROVE  plays'[i] + joined'[i]
                        = laps' + (IF i <= current_index_of_queue' THEN 1 ELSE 0)
    BY DEF OncePerLap
  <2>1. CASE i \in DOMAIN playlist
    <3>1. plays'[i] = plays[i] /\ joined'[i] = joined[i] /\ laps' = laps
      BY <1>3, <1>5, <2>1 DEF LapsReceive
    <3> QED
      BY <1>2, <2>1, <3>1 DEF OncePerLap
  <2>2. CASE i \notin DOMAIN playlist
    <3>1. plays'[i] = 0 /\ joined'[i] = laps /\ laps' = laps
      BY <1>3, <1>5, <2>2 DEF LapsReceive
    <3>2. i > Len(playlist) /\ current_index_of_queue <= Len(playlist)
      BY <1>1, <1>3, <2>2 DEF PlayerTypeOK
    <3>3. current_index_of_queue \in Nat
      BY <1>1, <1>3 DEF PlayerTypeOK
    <3> QED
      BY <1>2, <1>3, <1>5, <3>1, <3>2, <3>3
  <2> QED
    BY <2>1, <2>2
<1> QED
  BY <1>6, <1>7

\* Opening an entry, after a wrap or not, keeps the count of every entry in
\* step with the lap (play_next_media_in_queue).
LEMMA LapsInvOpen ==
    ASSUME LapsInv, LapsOpen
    PROVE  LapsInv'
<1> DEFINE index == WrapIndex(current_index_of_queue)
           N == Len(playlist)
<1>0. LapsTypeOK /\ PlayerTypeOK /\ OncePerLap
  BY DEF LapsInv, LapsTypeOK
<1>1. /\ N \in Nat /\ DOMAIN playlist = 1 .. N /\ current_index_of_queue \in 0 .. N
      /\ playlist \in Seq(Entry)
  BY <1>0, LenProperties DEF PlayerTypeOK
<1>2. /\ N > 0
      /\ media' \in OpenStates
      /\ current' = index + 1 /\ current_index_of_queue' = index + 1
      /\ UNCHANGED <<alive, playlist, disk, joined, finished>>
      /\ laps' = IF Wraps THEN laps + 1 ELSE laps
      /\ plays' = [plays EXCEPT ![current'] = @ + 1]
      /\ silent' = FALSE
  BY DEF LapsOpen, check_media_state, play_next_media_in_queue, open_and_play
<1>4. Wraps <=> current_index_of_queue = N
  <2>1. playlist # <<>>
    BY <1>1, <1>2, EmptySeq
  <2> QED
    BY <2>1 DEF Wraps
<1>5. index = IF current_index_of_queue = N THEN 0 ELSE current_index_of_queue
  BY DEF WrapIndex
<1>6. UNCHANGED <<Len(playlist), DOMAIN playlist>>
  BY <1>2
<1> HIDE DEF index, N
<1>3. index \in 0 .. (N - 1)
  BY <1>1, <1>2, <1>5
<1>7. PlayerTypeOK'
  <2>1. index + 1 \in 0 .. N
    BY <1>1, <1>3
  <2>2. media' \in MediaState
    BY <1>2, DisplayPlayerAssumption DEF MediaState
  <2> QED
    BY <1>0, <1>2, <1>6, <2>1, <2>2 DEF PlayerTypeOK, N
<1>8. /\ plays \in [1 .. N -> Nat] /\ joined \in [1 .. N -> Nat] /\ laps \in Nat
      /\ finished \in [1 .. N -> Nat]
  BY <1>0, <1>1 DEF LapsTypeOK
<1>9. LapsTypeOK'
  <2>1. plays' \in [1 .. N -> Nat] /\ laps' \in Nat
    BY <1>1, <1>2, <1>3, <1>8
  <2> QED
    BY <1>1, <1>2, <1>6, <1>7, <1>8, <2>1 DEF LapsTypeOK
<1>10. OncePerLap'
  <2> SUFFICES ASSUME NEW i \in 1 .. N
               PROVE  plays'[i] + joined'[i]
                        = laps' + (IF i <= current_index_of_queue' THEN 1 ELSE 0)
    BY <1>1, <1>6 DEF OncePerLap
  <2>1. plays[i] + joined[i] = laps + (IF i <= current_index_of_queue THEN 1 ELSE 0)
    BY <1>0, <1>1 DEF OncePerLap
  <2>2. plays'[i] = (IF i = index + 1 THEN plays[i] + 1 ELSE plays[i]) /\ joined'[i] = joined[i]
    BY <1>2, <1>8
  <2>3. plays[i] \in Nat /\ joined[i] \in Nat
    BY <1>8
  <2>4. CASE current_index_of_queue = N
    <3>1. laps' = laps + 1 /\ current_index_of_queue' = 1 /\ index = 0
      BY <1>2, <1>4, <1>5, <2>4
    <3>2. plays[i] + joined[i] = laps + 1
      BY <1>1, <2>1, <2>4
    <3> QED
      BY <1>1, <1>8, <2>2, <2>3, <3>1, <3>2
  <2>5. CASE current_index_of_queue # N
    <3>1. laps' = laps /\ index = current_index_of_queue
          /\ current_index_of_queue' = current_index_of_queue + 1
      BY <1>2, <1>4, <1>5, <2>5
    <3>2. CASE i = index + 1
      <4>1. ~(i <= current_index_of_queue) /\ i <= current_index_of_queue'
        BY <1>1, <3>1, <3>2
      <4>2. plays[i] + joined[i] = laps
        BY <1>8, <2>1, <2>3, <4>1
      <4>3. plays'[i] = plays[i] + 1 /\ joined'[i] = joined[i]
        BY <2>2, <3>2
      <4>4. plays'[i] + joined'[i] = laps' + 1
        BY <1>8, <2>3, <3>1, <4>2, <4>3
      <4> QED
        BY <4>1, <4>4
    <3>3. CASE i # index + 1
      <4>1. i <= current_index_of_queue' <=> i <= current_index_of_queue
        BY <1>1, <3>1, <3>3
      <4> QED
        BY <2>1, <2>2, <3>1, <3>3, <4>1
    <3> QED
      BY <3>2, <3>3
  <2> QED
    BY <2>4, <2>5
<1> QED
  BY <1>9, <1>10 DEF LapsInv

\* The remaining steps neither change the playlist nor open anything.
LEMMA LapsInvOther ==
    ASSUME LapsInv, LapsTimeout \/ LapsEnded \/ LapsMedia \/ UNCHANGED lapVars
    PROVE  LapsInv'
<1> USE DEF LapsInv
<1>1. /\ UNCHANGED <<alive, playlist, current_index_of_queue, current, disk>>
      /\ UNCHANGED <<laps, joined, plays>>
      /\ media' \in MediaState /\ silent' \in BOOLEAN
  BY DEF LapsTimeout, LapsEnded, LapsMedia, lapVars, playerVars, MediaOpening, MediaPlaying,
         MediaError, MediaEnded, MediaState, LapsTypeOK, PlayerTypeOK
<1>2. finished' \in [DOMAIN playlist -> Nat]
  BY DEF LapsTimeout, LapsEnded, LapsMedia, lapVars, LapsTypeOK
<1> QED
  BY <1>1, <1>2 DEF LapsTypeOK, PlayerTypeOK, OncePerLap

\* The inductive invariant holds in every reachable state of the playback.
THEOREM LapsInvariance == LapsSpec => []LapsInv
<1>1. LapsInv /\ [LapsNext]_lapVars => LapsInv'
  BY LapsInvReceive, LapsInvOpen, LapsInvOther DEF LapsNext
<1> QED
  BY <1>1, LapsInvInit, PTL DEF LapsSpec

\* Every variable keeps its type; in particular the index of the queue and the
\* entry being shown stay within the playlist (play_next_media_in_queue).
THEOREM LapsTypeCorrect == LapsSpec => []LapsTypeOK
<1>1. LapsInv => LapsTypeOK
  BY DEF LapsInv
<1> QED
  BY <1>1, LapsInvariance, PTL

\* In every lap each entry of the playlist is opened once, entries appended in
\* the middle of a lap included.
THEOREM EveryEntryOncePerLap == LapsSpec => []OncePerLap
<1>1. LapsInv => OncePerLap
  BY DEF LapsInv
<1> QED
  BY <1>1, LapsInvariance, PTL

-----------------------------------------------------------------------------
\* When open() leaves the idle state at once, the player is idle only before
\* the first open, and what is not the entry shown has been played to its end.
ShownWhole ==
    OpenStates = {"Opening"} =>
        /\ media = "Idle" <=> current = 0
        /\ NothingCutShort

\* A message appends entries that were neither opened nor finished.
LEMMA WholeReceive ==
    ASSUME LapsInv, ShownWhole, OpenStates = {"Opening"}, LapsReceive
    PROVE  ShownWhole'
<1>1. PlayerTypeOK
  BY DEF LapsInv, LapsTypeOK
<1>2. /\ playlist' \in Seq(Entry)
      /\ Len(playlist) <= Len(playlist')
      /\ UNCHANGED <<current_index_of_queue, media, current>>
  BY <1>1, PlaylistGrows DEF LapsReceive
<1>3. /\ DOMAIN playlist = 1 .. Len(playlist) /\ DOMAIN playlist' = 1 .. Len(playlist')
      /\ Len(playlist) \in Nat /\ Len(playlist') \in Nat /\ current \in 0 .. Len(playlist)
  BY <1>1, <1>2, LenProperties DEF PlayerTypeOK
<1>4. DOMAIN plays = DOMAIN playlist /\ DOMAIN finished = DOMAIN playlist
  BY DEF LapsInv, LapsTypeOK
<1>5. ASSUME NEW i \in DOMAIN playlist'
      PROVE  plays'[i] = finished'[i] + (IF i = current' /\ media' # "Ended" THEN 1 ELSE 0)
  <2>1. CASE i \in DOMAIN playlist
    <3>1. plays'[i] = plays[i] /\ finished'[i] = finished[i]
      BY <1>4, <1>5, <2>1 DEF LapsReceive
    <3> QED
      BY <1>2, <2>1, <3>1 DEF ShownWhole, NothingCutShort
  <2>2. CASE i \notin DOMAIN playlist
    <3>1. plays'[i] = 0 /\ finished'[i] = 0
      BY <1>4, <1>5, <2>2 DEF LapsReceive
    <3>2. i # current'
      BY <1>2, <1>3, <2>2
    <3> QED
      BY <3>1, <3>2
  <2> QED
    BY <2>1, <2>2
<1>6. NothingCutShort'
  BY <1>5 DEF NothingCutShort
<1> QED
  BY <1>2, <1>6 DEF ShownWhole

\* An entry is opened only when every entry has been played to its end.
LEMMA WholeOpen ==
    ASSUME LapsInv, ShownWhole, OpenStates = {"Opening"}, LapsOpen
    PROVE  ShownWhole'
<1>1. /\ DOMAIN playlist = 1 .. Len(playlist) /\ Len(playlist) \in Nat
      /\ current \in 0 .. Len(playlist)
      /\ current_index_of_queue \in 0 .. Len(playlist)
      /\ plays \in [DOMAIN playlist -> Nat] /\ finished \in [DOMAIN playlist -> Nat]
  BY LenProperties DEF LapsInv, LapsTypeOK, PlayerTypeOK
<1>2. /\ media \in {"Idle", "Ended"} /\ media' = "Opening"
      /\ current' = WrapIndex(current_index_of_queue) + 1
      /\ UNCHANGED <<playlist, finished>>
      /\ plays' = [plays EXCEPT ![current'] = @ + 1]
  BY DEF LapsOpen, check_media_state, play_next_media_in_queue, open_and_play, AdvanceStates
<1>3. current' # 0
  <2>1. WrapIndex(current_index_of_queue) \in {0, current_index_of_queue}
    BY DEF WrapIndex
  <2>2. current_index_of_queue \in Nat
    BY <1>1
  <2> QED
    BY <1>2, <2>1, <2>2
<1>4. ASSUME NEW i \in DOMAIN playlist
      PROVE  plays[i] = finished[i] /\ plays[i] \in Nat
  <2>1. ~(i = current /\ media # "Ended")
    BY <1>1, <1>2 DEF ShownWhole
  <2> QED
    BY <1>1, <2>1 DEF ShownWhole, NothingCutShort
<1>5. ASSUME NEW i \in DOMAIN playlist
      PROVE  plays'[i] = finished'[i] + (IF i = current' /\ media' # "Ended" THEN 1 ELSE 0)
  BY <1>1, <1>2, <1>4
<1>6. NothingCutShort'
  BY <1>2, <1>5 DEF NothingCutShort
<1> QED
  BY <1>2, <1>3, <1>6 DEF ShownWhole

\* The media that ends is the entry shown; the other steps of VLC end nothing.
LEMMA WholeOther ==
    ASSUME LapsInv, ShownWhole, OpenStates = {"Opening"},
           LapsTimeout \/ LapsEnded \/ LapsMedia \/ UNCHANGED lapVars
    PROVE  ShownWhole'
<1>1. /\ current \in Int
      /\ plays \in [DOMAIN playlist -> Nat] /\ finished \in [DOMAIN playlist -> Nat]
  BY DEF LapsInv, LapsTypeOK, PlayerTypeOK
<1>2. CASE LapsEnded
  <2>1. /\ media = "Playing" /\ media' = "Ended"
        /\ UNCHANGED <<playlist, current, plays>>
        /\ finished' = [finished EXCEPT ![current] = @ + 1]
    BY <1>2 DEF LapsEnded, MediaEnded
  <2>2. ASSUME NEW i \in DOMAIN playlist
        PROVE  plays'[i] = finished'[i] + (IF i = current' /\ media' # "Ended" THEN 1 ELSE 0)
    BY <1>1, <2>1 DEF ShownWhole, NothingCutShort
  <2> QED
    BY <2>1, <2>2 DEF ShownWhole, NothingCutShort
<1>3. CASE LapsMedia
  <2>1. /\ media # "Idle" /\ media # "Ended" /\ media' # "Idle" /\ media' # "Ended"
        /\ UNCHANGED <<playlist, current, plays, finished>>
    BY <1>3 DEF LapsMedia, MediaOpening, MediaPlaying, MediaError, ShownWhole
  <2> QED
    BY <2>1 DEF ShownWhole, NothingCutShort
<1>4. CASE LapsTimeout \/ UNCHANGED lapVars
  BY <1>4 DEF LapsTimeout, lapVars, playerVars, ShownWhole, NothingCutShort
<1> QED
  BY <1>2, <1>3, <1>4

\* If VLC leaves the idle state within open(), no media is replaced before its
\* end, whatever arrives in the meantime (check_media_state).
THEOREM NoneIsCutShort == LapsSpec => []NothingCutShort
<1>1. LapsInit => ShownWhole
  <2> SUFFICES ASSUME LapsInit PROVE ShownWhole
    OBVIOUS
  <2>1. playlist = <<>> /\ media = "Idle" /\ current = 0
    BY DEF LapsInit, PlayerInit
  <2> QED
    BY <2>1 DEF ShownWhole, NothingCutShort
<1>2. LapsInv /\ ShownWhole /\ [LapsNext]_lapVars => ShownWhole'
  BY WholeReceive, WholeOpen, WholeOther DEF LapsNext, ShownWhole
<1>3. ShownWhole => NothingCutShort
  BY DEF ShownWhole, NothingCutShort
<1> QED
  BY <1>1, <1>2, <1>3, LapsInvariance, PTL DEF LapsSpec

-----------------------------------------------------------------------------
(* What the display makes of a text of chunks. *)

Elements == {"Computer", "Item"}
Middle(x) == x[2] # 1 /\ x[2] # Chunks

\* A chunk is read as a whole: it adds a Computer, an Item with the chunk for
\* its text, or nothing; the parser is between tags again, or has failed.
Adds(p, x, q) ==
    \/ q.nodes = p.nodes
    \/ \E new \in Node(Elements, Chunk) :
          /\ q.nodes = Append(p.nodes, new)
          /\ new.name = "Item" => new.text = <<x>> /\ Middle(x)

Between(p) == p \in ParserState(Elements, Chunk) /\ p.at \in {"content", "failed"}

\* The three kinds of chunks.
LEMMA AtomsOfCases ==
    ASSUME NEW x \in Chunk
    PROVE  /\ x[2] = 1 => AtomsOf(x) = <<Open("Computer"), Gt>>
           /\ x[2] = Chunks => AtomsOf(x) = <<Lt, Close("Computer")>>
           /\ Middle(x) => AtomsOf(x) = <<Open("Item"), Gt, Text(x), Lt, Close("Item")>>
<1>1. 1 # Chunks
  <2>1. x[1] \in Conn
    BY DEF Chunk
  <2>2. Payload[x[1]] \in Seq(Item) /\ Len(Payload[x[1]]) + 2 = Chunks
    BY <2>1, DisplayAssumption
  <2>3. Len(Payload[x[1]]) \in Nat
    BY <2>2, LenProperties
  <2> QED
    BY <2>2, <2>3
<1> QED
  BY <1>1 DEF AtomsOf, Middle

\* Between two chunks the parser is between two tags, or has failed.
LEMMA ChunkRead ==
    ASSUME NEW p, Between(p), NEW x \in Chunk
    PROVE  \E q : Leads(p, AtomsOf(x), q) /\ Between(q) /\ Adds(p, x, q)
<1>1. CASE p.at = "failed"
  <2>1. Len(AtomsOf(x)) \in Nat
    <3>1. Len(<<Open("Computer"), Gt>>) = 2 /\ Len(<<Lt, Close("Computer")>>) = 2
          /\ Len(<<Open("Item"), Gt, Text(x), Lt, Close("Item")>>) = 5
      OBVIOUS
    <3>2. x[2] = 1 \/ x[2] = Chunks \/ Middle(x)
      BY DEF Middle
    <3> QED
      BY <3>1, <3>2, AtomsOfCases
  <2>2. Leads(p, AtomsOf(x), p)
    BY <1>1, <2>1, FailedRead DEF Between
  <2>3. Adds(p, x, p)
    BY DEF Adds
  <2> QED
    BY <2>2, <2>3
<1>2. CASE p.at = "content" /\ x[2] = 1
  <2> DEFINE new == [name |-> "Computer", depth |-> Len(p.open) + 1,
                     attribute |-> <<>>, text |-> <<>>]
             q == [nodes |-> Append(p.nodes, new), open |-> Append(p.open, Len(p.nodes) + 1),
                   at |-> "content"]
  <2>1. q \in ParserState(Elements, Chunk) /\ Leads(p, <<Open("Computer"), Gt>>, q)
    <3>1. "Computer" \in Elements /\ p \in ParserState(Elements, Chunk) /\ p.at = "content"
      BY <1>2 DEF Elements, Between
    <3> QED
      BY <3>1, StartTagRead
  <2>2. new \in Node(Elements, Chunk) /\ new.name # "Item"
    <3>1. Len(p.open) \in Nat
      BY LenProperties DEF Between, ParserState
    <3> QED
      BY <3>1 DEF Node, Elements
  <2>3. q.nodes = Append(p.nodes, new) /\ q.at = "content"
    OBVIOUS
  <2> HIDE DEF q, new
  <2>4. Between(q) /\ Adds(p, x, q)
    BY <2>1, <2>2, <2>3 DEF Between, Adds
  <2> QED
    BY <1>2, <2>1, <2>4, AtomsOfCases
<1>3. CASE p.at = "content" /\ x[2] = Chunks
  <2> DEFINE q == IF ClosesCursor(p, "Computer") THEN Popped(p) ELSE [p EXCEPT !.at = "failed"]
  <2>1. q \in ParserState(Elements, Chunk) /\ Leads(p, <<Lt, Close("Computer")>>, q)
    <3>1. p \in ParserState(Elements, Chunk) /\ p.at = "content"
      BY <1>3 DEF Between
    <3> QED
      BY <3>1, EndTagRead
  <2>2. q.nodes = p.nodes /\ q.at \in {"content", "failed"}
    BY <1>3 DEF Between, ParserState, Popped
  <2> HIDE DEF q
  <2>3. Between(q) /\ Adds(p, x, q)
    BY <2>1, <2>2 DEF Between, Adds
  <2> QED
    BY <1>3, <2>1, <2>3, AtomsOfCases
<1>4. CASE p.at = "content" /\ Middle(x)
  <2> DEFINE new == [name |-> "Item", depth |-> Len(p.open) + 1,
                     attribute |-> <<>>, text |-> <<x>>]
             q == [nodes |-> Append(p.nodes, new), open |-> p.open, at |-> "content"]
  <2>1. /\ q \in ParserState(Elements, Chunk)
        /\ Leads(p, <<Open("Item"), Gt, Text(x), Lt, Close("Item")>>, q)
    <3>1. "Item" \in Elements /\ p \in ParserState(Elements, Chunk) /\ p.at = "content"
      BY <1>4 DEF Elements, Between
    <3> QED
      BY <3>1, ElementRead
  <2>2. new \in Node(Elements, Chunk) /\ new.text = <<x>>
    <3>1. Len(p.open) \in Nat
      BY LenProperties DEF Between, ParserState
    <3> QED
      BY <3>1 DEF Node, Elements
  <2>3. q.nodes = Append(p.nodes, new) /\ q.at = "content"
    OBVIOUS
  <2> HIDE DEF q, new
  <2>4. Between(q) /\ Adds(p, x, q)
    BY <1>4, <2>1, <2>2, <2>3 DEF Between, Adds
  <2> QED
    BY <1>4, <2>1, <2>4, AtomsOfCases
<1> QED
  BY <1>1, <1>2, <1>3, <1>4 DEF Between, Middle

\* The Items in the tree are chunks of the text, in the order they have there.
Traces(src, ns, s, n) ==
    /\ src \in [1 .. Len(ns) -> 1 .. n]
    /\ Ascends(src, Len(ns))
    /\ \A i \in 1 .. Len(ns) :
          ns[i].name = "Item" => ns[i].text = <<s[src[i]]>> /\ Middle(s[src[i]])

\* What a chunk adds can be traced to it.
LEMMA TraceGrows ==
    ASSUME NEW s \in Seq(Chunk), NEW n \in 1 .. Len(s), NEW p, Between(p), NEW q, Between(q),
           NEW src, Traces(src, p.nodes, s, n - 1), Adds(p, s[n], q)
    PROVE  \E dst : Traces(dst, q.nodes, s, n)
<1> DEFINE L == Len(p.nodes)
<1>1. p.nodes \in Seq(Node(Elements, Chunk)) /\ L \in Nat /\ n \in Nat
  <2>1. p.nodes \in Seq(Node(Elements, Chunk))
    BY DEF Between, ParserState
  <2>2. L \in Nat /\ Len(s) \in Nat
    BY <2>1, LenProperties
  <2> QED
    BY <2>1, <2>2
<1>2. /\ src \in [1 .. L -> 1 .. (n - 1)] /\ Ascends(src, L)
      /\ \A i \in 1 .. L :
            p.nodes[i].name = "Item" => p.nodes[i].text = <<s[src[i]]>> /\ Middle(s[src[i]])
  BY DEF Traces
<1>3. \A i \in 1 .. L : src[i] \in 1 .. n /\ src[i] < n
  BY <1>1, <1>2
<1>4. CASE q.nodes = p.nodes
  <2>1. src \in [1 .. L -> 1 .. n]
    BY <1>2, <1>3
  <2>2. Traces(src, q.nodes, s, n)
    BY <1>2, <1>4, <2>1 DEF Traces
  <2> QED
    BY <2>2
<1>5. ASSUME NEW new \in Node(Elements, Chunk), q.nodes = Append(p.nodes, new),
             new.name = "Item" => new.text = <<s[n]>> /\ Middle(s[n])
      PROVE  \E dst : Traces(dst, q.nodes, s, n)
  <2> DEFINE ns == q.nodes
             dst == [i \in 1 .. (L + 1) |-> IF i = L + 1 THEN n ELSE src[i]]
  <2>1. /\ Len(ns) = L + 1 /\ ns[L + 1] = new
        /\ \A i \in 1 .. L : ns[i] = p.nodes[i]
    BY <1>1, <1>5, AppendProperties
  <2> HIDE DEF ns, L
  <2>2. dst[L + 1] = n /\ \A i \in 1 .. L : dst[i] = src[i]
    BY <1>1
  <2>3. dst \in [1 .. (L + 1) -> 1 .. n]
    BY <1>1, <1>3
  <2> HIDE DEF dst
  <2>4. Ascends(dst, L + 1)
    <3>1. ASSUME NEW i \in 1 .. (L + 1), NEW j \in 1 .. (L + 1), i < j PROVE dst[i] < dst[j]
      <4>1. i \in 1 .. L /\ dst[i] = src[i] /\ src[i] < n
        BY <1>1, <1>3, <2>2, <3>1
      <4>2. CASE j = L + 1
        BY <2>2, <4>1, <4>2
      <4>3. CASE j # L + 1
        <5>1. j \in 1 .. L /\ dst[j] = src[j]
          BY <1>1, <2>2, <3>1, <4>3
        <5> QED
          BY <1>2, <3>1, <4>1, <5>1 DEF Ascends
      <4> QED
        BY <4>2, <4>3
    <3> QED
      BY <3>1 DEF Ascends
  <2>5. ASSUME NEW i \in 1 .. (L + 1), ns[i].name = "Item"
        PROVE  ns[i].text = <<s[dst[i]]>> /\ Middle(s[dst[i]])
    <3>1. CASE i = L + 1
      BY <1>5, <2>1, <2>2, <2>5, <3>1
    <3>2. CASE i # L + 1
      <4>1. i \in 1 .. L
        BY <1>1, <3>2
      <4> QED
        BY <1>2, <2>1, <2>2, <2>5, <4>1
    <3> QED
      BY <3>1, <3>2
  <2>6. Traces(dst, ns, s, n)
    BY <2>1, <2>3, <2>4, <2>5 DEF Traces
  <2> QED
    BY <2>6 DEF ns
<1> QED
  BY <1>4, <1>5 DEF Adds

\* The parser's states at the ends of the chunks, and where the Items come from.
Reached(s, text, n) ==
    \E q : /\ Leads(StartOfText, text, q) /\ Between(q)
           /\ \E src : Traces(src, q.nodes, s, n)

TextOf(s) == [k \in DOMAIN s |-> AtomsOf(s[k])]

Atoms == {Open(n) : n \in Elements} \cup {Close(n) : n \in Elements}
            \cup {Gt, Lt} \cup {Text(x) : x \in Chunk}

\* The text of a chunk ends a tag.
LEMMA AtomsType ==
    ASSUME NEW x \in Chunk
    PROVE  /\ AtomsOf(x) \in Seq(Atoms) /\ AtomsOf(x) # <<>>
           /\ AtomsOf(x)[Len(AtomsOf(x))].kind \in {"gt", "close"}
<1>1. ASSUME x[2] = 1 PROVE AtomsOf(x) = <<Open("Computer"), Gt>>
  BY <1>1, AtomsOfCases
<1>2. ASSUME x[2] = Chunks PROVE AtomsOf(x) = <<Lt, Close("Computer")>>
  BY <1>2, AtomsOfCases
<1>3. ASSUME Middle(x) PROVE AtomsOf(x) = <<Open("Item"), Gt, Text(x), Lt, Close("Item")>>
  BY <1>3, AtomsOfCases
<1>4. /\ Open("Computer") \in Atoms /\ Close("Computer") \in Atoms
      /\ Open("Item") \in Atoms /\ Close("Item") \in Atoms
  <2>1. \A n \in Elements : Open(n) \in Atoms /\ Close(n) \in Atoms
    <3> HIDE DEF Elements
    <3> QED
      BY DEF Atoms
  <2> QED
    BY <2>1 DEF Elements
<1>5. Gt \in Atoms /\ Lt \in Atoms /\ Text(x) \in Atoms
  BY DEF Atoms
<1>6. Gt.kind = "gt" /\ Close("Computer").kind = "close" /\ Close("Item").kind = "close"
  BY DEF Gt, Close, AtomOf
<1>7. \A u, v : /\ Len(<<u, v>>) = 2 /\ <<u, v>>[2] = v /\ <<u, v>> # <<>>
                /\ u \in Atoms /\ v \in Atoms => <<u, v>> \in Seq(Atoms)
  OBVIOUS
<1>8. CASE x[2] = 1
  <2>1. AtomsOf(x) = <<Open("Computer"), Gt>>
    BY <1>1, <1>8
  <2> QED
    BY <1>4, <1>5, <1>6, <1>7, <2>1
<1>9. CASE x[2] = Chunks
  <2>1. AtomsOf(x) = <<Lt, Close("Computer")>>
    BY <1>2, <1>9
  <2> QED
    BY <1>4, <1>5, <1>6, <1>7, <2>1
<1>10. CASE Middle(x)
  <2>1. AtomsOf(x) = <<Open("Item"), Gt, Text(x), Lt, Close("Item")>>
    BY <1>3, <1>10
  <2>2. \A a, b, c, d, e :
            /\ Len(<<a, b, c, d, e>>) = 5 /\ <<a, b, c, d, e>>[5] = e /\ <<a, b, c, d, e>> # <<>>
            /\ {a, b, c, d, e} \subseteq Atoms => <<a, b, c, d, e>> \in Seq(Atoms)
    OBVIOUS
  <2> QED
    BY <1>4, <1>5, <1>6, <2>1, <2>2
<1> QED
  BY <1>8, <1>9, <1>10 DEF Middle

\* The parser after each chunk of a text.
LEMMA AllReached ==
    ASSUME NEW s \in Seq(Chunk),
           NEW g \in [0 .. Len(TextOf(s)) -> Seq(Atoms)], Flattens(g, TextOf(s))
    PROVE  \A n \in 0 .. Len(s) : Reached(s, g[n], n)
<1>1. Len(s) \in Nat /\ DOMAIN s = 1 .. Len(s)
  BY LenProperties
<1>2. Len(TextOf(s)) = Len(s) /\ \A k \in 1 .. Len(s) : TextOf(s)[k] = AtomsOf(s[k])
  BY <1>1 DEF TextOf
<1>3. g \in [0 .. Len(s) -> Seq(Atoms)] /\ g[0] = <<>>
      /\ \A i \in 1 .. Len(s) : g[i] = g[i - 1] \o AtomsOf(s[i])
  BY <1>2 DEF Flattens
<1> DEFINE S == {n \in Nat : n \in 0 .. Len(s) => Reached(s, g[n], n)}
<1>4. 0 \in S
  <2> DEFINE src == [i \in 1 .. 0 |-> i]
  <2>1. Between(StartOfText) /\ StartOfText.nodes = <<>>
    BY DEF Between, StartOfText, ParserState
  <2>2. src \in [1 .. 0 -> 1 .. 0]
    OBVIOUS
  <2>3. Traces(src, StartOfText.nodes, s, 0)
    BY <2>1, <2>2 DEF Traces, Ascends
  <2>4. Leads(StartOfText, g[0], StartOfText)
    BY <1>3, LeadsNothing
  <2>5. Reached(s, g[0], 0)
    BY <2>1, <2>3, <2>4 DEF Reached
  <2> QED
    BY <2>5
<1>5. ASSUME NEW n \in Nat, n \in S PROVE n + 1 \in S
  <2> SUFFICES ASSUME n + 1 \in 0 .. Len(s) PROVE Reached(s, g[n + 1], n + 1)
    OBVIOUS
  <2>1. n + 1 \in 1 .. Len(s) /\ n \in 0 .. Len(s) /\ (n + 1) - 1 = n
    BY <1>1
  <2>2. Reached(s, g[n], n)
    BY <1>5, <2>1
  <2>3. PICK p : /\ Leads(StartOfText, g[n], p) /\ Between(p)
                 /\ \E src : Traces(src, p.nodes, s, n)
    BY <2>2 DEF Reached
  <2>4. PICK src : Traces(src, p.nodes, s, n)
    BY <2>3
  <2> DEFINE x == s[n + 1]
  <2>5. x \in Chunk
    BY <2>1, LenProperties
  <2> HIDE DEF x, S
  <2>6. PICK q : Leads(p, AtomsOf(x), q) /\ Between(q) /\ Adds(p, x, q)
    BY <2>3, <2>5, ChunkRead
  <2>7. \E dst : Traces(dst, q.nodes, s, n + 1)
    BY <2>1, <2>3, <2>4, <2>6, TraceGrows DEF x
  <2>8. Leads(StartOfText, g[n] \o AtomsOf(x), q)
    <3>1. g[n] \in Seq(Atoms) /\ AtomsOf(x) \in Seq(Atoms)
      BY <1>3, <2>1, <2>5, AtomsType
    <3> QED
      BY <2>3, <2>6, <3>1, LeadsOn
  <2>9. g[n + 1] = g[n] \o AtomsOf(x)
    BY <1>3, <2>1 DEF x
  <2> QED
    BY <2>6, <2>7, <2>8, <2>9 DEF Reached
<1> HIDE DEF S
<1>6. \A n \in Nat : n \in S
  BY <1>4, <1>5, Induction
<1> QED
  BY <1>1, <1>6 DEF S

\* The prefixes of a text end with the text of their last chunk, in a tag.
LEMMA EndsInTag ==
    ASSUME NEW s \in Seq(Chunk), s # <<>>,
           NEW g \in [0 .. Len(TextOf(s)) -> Seq(Atoms)], Flattens(g, TextOf(s))
    PROVE  /\ Len(TextOf(s)) = Len(s)
           /\ g[Len(s)] \in Seq(Atoms)
           /\ ~IsData(Last(g[Len(s)]))
<1> DEFINE L == Len(s)
           x == s[L]
           t == AtomsOf(x)
           u == g[L - 1]
<1>1. L \in Nat /\ L # 0 /\ DOMAIN s = 1 .. L
  BY LenProperties, EmptySeq
<1>2. Len(TextOf(s)) = L /\ \A k \in 1 .. L : TextOf(s)[k] = AtomsOf(s[k])
  BY <1>1 DEF TextOf
<1>3. x \in Chunk
  BY <1>1, LenProperties
<1> HIDE DEF L
<1>4. L \in 1 .. L /\ L - 1 \in 0 .. L /\ L \in 0 .. L
  BY <1>1
<1>5. g[L] = u \o t /\ u \in Seq(Atoms) /\ g[L] \in Seq(Atoms)
  BY <1>2, <1>4 DEF Flattens
<1>6. t \in Seq(Atoms) /\ t # <<>> /\ t[Len(t)].kind \in {"gt", "close"}
  BY <1>3, AtomsType
<1> HIDE DEF t, u, x
<1> DEFINE m == Len(u)
           k == Len(t)
<1>7. m \in Nat /\ k \in Nat /\ k # 0
  BY <1>5, <1>6, LenProperties, EmptySeq
<1>8. /\ Len(u \o t) = m + k
      /\ \A i \in 1 .. m + k : (u \o t)[i] = IF i <= m THEN u[i] ELSE t[i - m]
  BY <1>5, <1>6, ConcatProperties
<1>9. t[k].kind \in {"gt", "close"}
  BY <1>6
<1> HIDE DEF m, k
<1>10. (u \o t)[m + k] = t[k]
  <2>1. m + k \in 1 .. m + k /\ ~(m + k <= m) /\ (m + k) - m = k
    BY <1>7
  <2> QED
    BY <1>8, <2>1
<1>11. Last(u \o t) = t[k]
  BY <1>8, <1>10 DEF Last
<1> QED
  BY <1>2, <1>5, <1>9, <1>11 DEF IsData, L

TreeOf(s) == Parse(FlattenSeq(TextOf(s)))

\* Where the text of the chunks ends, the parser is done.
LEMMA TreeIs ==
    ASSUME NEW s \in Seq(Chunk),
           NEW g \in [0 .. Len(TextOf(s)) -> Seq(Atoms)], Flattens(g, TextOf(s)),
           FlattenSeq(TextOf(s)) = g[Len(TextOf(s))],
           NEW q, Leads(StartOfText, g[Len(s)], q), q.at \in {"content", "failed"}
    PROVE  TreeOf(s) = q.nodes
<1> DEFINE text == g[Len(s)]
<1>1. Len(s) \in Nat /\ DOMAIN s = 1 .. Len(s) /\ Len(TextOf(s)) = Len(s)
  <2>1. Len(s) \in Nat /\ DOMAIN s = 1 .. Len(s)
    BY LenProperties
  <2> QED
    BY <2>1 DEF TextOf
<1>2. text \in Seq(Atoms) /\ Len(text) \in Nat
  <2>1. text \in Seq(Atoms)
    BY <1>1
  <2> HIDE DEF text
  <2> QED
    BY <2>1, LenProperties
<1>3. Parse(text) = EndOfText(q, text).nodes
  <2> HIDE DEF text
  <2> QED
    BY <1>2, LeadsParse DEF text
<1>4. EndOfText(q, text) = q
  <2>1. CASE s = <<>>
    <3>1. text = <<>>
      BY <1>1, <2>1 DEF Flattens
    <3>2. Leads(StartOfText, text, StartOfText)
      BY <3>1, LeadsNothing
    <3>3. q = StartOfText
      <4>1. PICK f : Runs(f, StartOfText, text) /\ f[Len(text)] = q
        BY DEF Leads
      <4>2. PICK h : Runs(h, StartOfText, text) /\ h[Len(text)] = StartOfText
        BY <3>2 DEF Leads
      <4> QED
        BY <1>2, <4>1, <4>2, RunUnique
    <3> QED
      BY <3>3 DEF EndOfText, StartOfText
  <2>2. CASE s # <<>>
    <3>1. ~IsData(Last(text))
      BY <2>2, EndsInTag
    <3> HIDE DEF text
    <3> QED
      BY <3>1 DEF EndOfText
  <2> QED
    BY <2>1, <2>2
<1> QED
  BY <1>1, <1>3, <1>4 DEF TreeOf

\* The text of a sequence of chunks is built chunk by chunk.
LEMMA TextFlattens ==
    ASSUME NEW s \in Seq(Chunk)
    PROVE  \E g \in [0 .. Len(TextOf(s)) -> Seq(Atoms)] :
              Flattens(g, TextOf(s)) /\ FlattenSeq(TextOf(s)) = g[Len(TextOf(s))]
<1>1. Len(s) \in Nat /\ DOMAIN s = 1 .. Len(s) /\ \A k \in 1 .. Len(s) : s[k] \in Chunk
  BY LenProperties
<1>2. TextOf(s) \in Seq(Seq(Atoms))
  <2>1. \A k \in 1 .. Len(s) : AtomsOf(s[k]) \in Seq(Atoms)
    BY <1>1, AtomsType
  <2> QED
    BY <1>1, <2>1 DEF TextOf
<1> QED
  BY <1>2, FlattenPrefixes

\* Every Item of the tree can be traced to a chunk of the text.
LEMMA TreeTraced ==
    ASSUME NEW s \in Seq(Chunk)
    PROVE  \E src : Traces(src, TreeOf(s), s, Len(s)) /\ TreeOf(s) \in Seq(Node(Elements, Chunk))
<1>1. Len(s) \in Nat
  BY LenProperties
<1>2. PICK g \in [0 .. Len(TextOf(s)) -> Seq(Atoms)] :
          Flattens(g, TextOf(s)) /\ FlattenSeq(TextOf(s)) = g[Len(TextOf(s))]
  BY TextFlattens
<1>3. Reached(s, g[Len(s)], Len(s))
  BY <1>1, <1>2, AllReached
<1>4. PICK q : /\ Leads(StartOfText, g[Len(s)], q) /\ Between(q)
               /\ \E src : Traces(src, q.nodes, s, Len(s))
  BY <1>3 DEF Reached
<1>5. TreeOf(s) = q.nodes
  BY <1>2, <1>4, TreeIs DEF Between
<1>6. q.nodes \in Seq(Node(Elements, Chunk))
  BY <1>4 DEF Between, ParserState
<1> QED
  BY <1>4, <1>5, <1>6

-----------------------------------------------------------------------------
(* Where the entries of the playlist come from. *)

\* The index of every child is one of the tree's.
LEMMA ChildrenAre ==
    ASSUME NEW N, NEW V, NEW ns \in Seq(Node(N, V))
    PROVE  LET S == Children(ns, FirstChild(ns, {0}, "Computer"), "Item")
           IN  S \subseteq 1 .. Len(ns) /\ \A j \in S : ns[j].name = "Item"
<1>1. Len(ns) \in Nat
  BY LenProperties
<1>2. \A k \in Nat : Below(ns, k) \subseteq 1 .. Len(ns)
  BY <1>1 DEF Below
<1>3. \A n, ks : ks \subseteq Nat =>
          /\ Children(ns, ks, n) \subseteq 1 .. Len(ns)
          /\ \A j \in Children(ns, ks, n) : ns[j].name = n
  BY <1>2 DEF Children
<1>4. FirstChild(ns, {0}, "Computer") \subseteq Nat
  <2>1. Children(ns, {0}, "Computer") \subseteq 1 .. Len(ns)
    BY <1>3
  <2> QED
    BY <2>1 DEF FirstChild
<1> QED
  BY <1>3, <1>4

\* Chunks out of a text, in its order, that carry an Item.
OutOf(o, s) ==
    /\ o \in Seq(Chunk)
    /\ Increasing(o)
    /\ \A i \in DOMAIN o : Middle(o[i]) /\ \E k \in DOMAIN s : o[i] = s[k]

\* What ComputerItems finds in a text are the items of such chunks.
LEMMA ItemsTraced ==
    ASSUME NEW s \in Seq(Chunk), Increasing(s)
    PROVE  \E o : OutOf(o, s) /\ ComputerItems(s) = [i \in 1 .. Len(o) |-> ItemOf(o[i])]
<1>1. PICK src : Traces(src, TreeOf(s), s, Len(s)) /\ TreeOf(s) \in Seq(Node(Elements, Chunk))
  BY TreeTraced
<1> DEFINE tree == TreeOf(s)
           ks == Children(tree, FirstChild(tree, {0}, "Computer"), "Item")
           at == InOrder(ks)
<1>2. ComputerItems(s) = [i \in DOMAIN at |-> ItemOf(tree[at[i]].text[1])]
  BY DEF ComputerItems, TreeOf, TextOf
<1>3. ks \subseteq 1 .. Len(tree) /\ \A j \in ks : tree[j].name = "Item"
  BY <1>1, ChildrenAre
<1>4. Len(tree) \in Nat /\ Len(s) \in Nat /\ DOMAIN s = 1 .. Len(s)
  BY <1>1, LenProperties
<1>5. /\ src \in [1 .. Len(tree) -> 1 .. Len(s)] /\ Ascends(src, Len(tree))
      /\ \A i \in 1 .. Len(tree) :
            tree[i].name = "Item" => tree[i].text = <<s[src[i]]>> /\ Middle(s[src[i]])
  BY <1>1 DEF Traces
<1> HIDE DEF tree, ks
<1>6. PICK n \in Nat : at \in [1 .. n -> ks] /\ Ascends(at, n)
  BY <1>3, <1>4, InOrderAscends
<1> HIDE DEF at
<1> DEFINE o == [i \in 1 .. n |-> s[src[at[i]]]]
<1>7. \A i \in 1 .. n : /\ at[i] \in 1 .. Len(tree) /\ tree[at[i]].name = "Item"
                        /\ src[at[i]] \in DOMAIN s /\ s[src[at[i]]] \in Chunk
  <2>1. \A i \in 1 .. n : at[i] \in 1 .. Len(tree) /\ tree[at[i]].name = "Item"
    BY <1>3, <1>6
  <2>2. \A i \in 1 .. n : src[at[i]] \in DOMAIN s
    BY <1>4, <1>5, <2>1
  <2>3. \A k \in DOMAIN s : s[k] \in Chunk
    BY <1>4, LenProperties
  <2> QED
    BY <2>1, <2>2, <2>3
<1>8. o \in Seq(Chunk) /\ Len(o) = n /\ DOMAIN o = 1 .. n
  BY <1>6, <1>7
<1>9. \A i \in 1 .. n : o[i] = s[src[at[i]]]
  OBVIOUS
<1> HIDE DEF o
<1>10. Increasing(o)
  <2> SUFFICES ASSUME NEW j \in 1 .. n, NEW k \in 1 .. n, j < k, o[j][1] = o[k][1]
               PROVE  o[j][2] < o[k][2]
    BY <1>8 DEF Increasing
  <2>1. at[j] < at[k]
    BY <1>6 DEF Ascends
  <2>2. src[at[j]] < src[at[k]]
    BY <1>5, <1>7, <2>1 DEF Ascends
  <2> QED
    BY <1>7, <1>9, <2>2 DEF Increasing
<1>11. OutOf(o, s)
  BY <1>5, <1>7, <1>8, <1>9, <1>10 DEF OutOf
<1>12. ComputerItems(s) = [i \in 1 .. Len(o) |-> ItemOf(o[i])]
  <2>1. \A i \in 1 .. n : tree[at[i]].text[1] = o[i]
    <3>1. \A i \in 1 .. n : tree[at[i]].text = <<s[src[at[i]]]>>
      BY <1>5, <1>7
    <3>2. \A x : <<x>>[1] = x
      OBVIOUS
    <3> QED
      BY <1>9, <3>1, <3>2
  <2>2. DOMAIN at = 1 .. n
    BY <1>6
  <2> QED
    BY <1>2, <1>8, <2>1, <2>2
<1> QED
  BY <1>11, <1>12

\* The chunks whose Items are in the playlist: of each connection in their
\* order, all of them consumed, and before what `data' holds.
Traced(o) ==
    /\ o \in Seq(Chunk) /\ Len(o) = Len(playlist)
    /\ \A i \in DOMAIN o : Middle(o[i]) /\ playlist[i] = EntryOf(ItemOf(o[i]))
    /\ Increasing(o)
    /\ Precedes(o, data)
    /\ Taken(o)

PlaylistTraced == \E o : Traced(o)

\* An Item is the payload's at its chunk.
LEMMA ItemOfType ==
    ASSUME NEW x \in Chunk, Middle(x)
    PROVE  /\ x[1] \in Conn /\ x[2] - 1 \in DOMAIN Payload[x[1]]
           /\ ItemOf(x) = Payload[x[1]][x[2] - 1] /\ ItemOf(x) \in Item
<1>1. x[1] \in Conn /\ x[2] \in 1 .. Chunks /\ Chunks \in Nat
  BY RecieveDataAssumption DEF Chunk
<1> DEFINE c == x[1]
           k == x[2] - 1
<1>2. Payload[c] \in Seq(Item) /\ Len(Payload[c]) + 2 = Chunks
  BY <1>1, DisplayAssumption
<1>3. Len(Payload[c]) \in Nat /\ DOMAIN Payload[c] = 1 .. Len(Payload[c])
  BY <1>2, LenProperties
<1>4. k \in 1 .. Len(Payload[c])
  BY <1>1, <1>2, <1>3 DEF Middle
<1>5. Payload[c][k] \in Item
  BY <1>2, <1>4, LenProperties
<1> QED
  BY <1>1, <1>3, <1>4, <1>5 DEF ItemOf

\* The playlist consists of entries.
PlaylistSeq == playlist \in Seq(Entry)

\* A message prolongs the playlist by entries of its items.
LEMMA PlaylistAdds ==
    ASSUME IInv, PlaylistSeq, data_recieved
    PROVE  playlist' \in Seq(Entry) /\ \E new \in Seq(Entry) : playlist' = playlist \o new
<1>1. data \in Seq(Chunk) /\ Increasing(data)
  BY DEF IInv, TypeOK, InOrderAtMostOnce
<1>2. PICK r : OutOf(r, data) /\ ComputerItems(data) = [i \in 1 .. Len(r) |-> ItemOf(r[i])]
  BY <1>1, ItemsTraced
<1> DEFINE items == ComputerItems(data)
<1>3. Len(r) \in Nat /\ \A i \in 1 .. Len(r) : ItemOf(r[i]) \in Item
  <2>1. Len(r) \in Nat /\ DOMAIN r = 1 .. Len(r) /\ \A i \in 1 .. Len(r) : r[i] \in Chunk
    BY <1>2, LenProperties DEF OutOf
  <2> QED
    BY <1>2, <2>1, ItemOfType DEF OutOf
<1>4. Len(items) = Len(r) /\ \A i \in 1 .. Len(r) : items[i] \in Item
  BY <1>2, <1>3
<1> HIDE DEF items
<1>5. PICK n \in 0 .. Len(items) : playlist' = playlist \o [i \in 1 .. n |-> EntryOf(items[i])]
  BY DEF data_recieved, handle_recieved_data, items
<1>6. [i \in 1 .. n |-> EntryOf(items[i])] \in Seq(Entry)
  <2>1. n \in Nat /\ \A i \in 1 .. n : EntryOf(items[i]) \in Entry
    BY <1>3, <1>4, <1>5 DEF EntryOf, Entry, Item
  <2> QED
    BY <2>1
<1> QED
  BY <1>5, <1>6, ConcatProperties DEF PlaylistSeq

\* The receiver of a display takes steps of the receiver only.
LEMMA NextOfDisplay == [DisplayNext]_displayVars => [Next]_vars
BY DEF DisplayNext, Receiving, data_recieved, Playing, Next, displayVars, vars

\* Reading moves no chunk of the playlist and nothing past it (startRead).
LEMMA TracedRead ==
    ASSUME IInv, NEW o, Traced(o), NEW c \in Conn, startRead(c), UNCHANGED playlist
    PROVE  Traced(o)'
<1>1. TypeOK /\ client \in Conn
  BY DEF IInv, startRead, Signals, ClientSet
<1>2. IInv'
  BY InvStep DEF Next
<1>3. /\ data' = data \o Stream(client, consumed[client], buffered'[client])
      /\ consumed' = [consumed EXCEPT ![client] = buffered'[client]]
  BY DEF startRead, ReadSocket, ReadAll
<1>4. o \in Seq(Chunk) /\ Precedes(o, data) /\ Taken(o) /\ data \in Seq(Chunk)
  BY <1>1 DEF Traced, TypeOK
<1>5. \A k \in DOMAIN o : o[k] \in Chunk
  BY <1>4, LenProperties
<1>6. /\ consumed[client] \in 0 .. Chunks /\ buffered'[client] \in 0 .. Chunks
      /\ consumed[client] <= buffered'[client]
  <2>1. PICK n \in (buffered[c] + 1) .. sent[c] : buffered' = [buffered EXCEPT ![c] = n]
    BY DEF startRead
  <2>2. buffered'[client] \in 0 .. Chunks
    BY <1>1, <1>2 DEF IInv, TypeOK
  <2>3. /\ consumed[client] \in 0 .. Chunks /\ buffered[client] \in 0 .. Chunks
        /\ consumed[client] <= buffered[client]
    BY <1>1 DEF IInv, TypeOK, StreamOrder
  <2>4. buffered[client] <= buffered'[client]
    BY <1>1, <2>1, <2>2, <2>3 DEF TypeOK
  <2> QED
    BY <2>2, <2>3, <2>4, RecieveDataAssumption
<1>7. Precedes(o, data')
  <2>1. \A k \in DOMAIN o : o[k][1] = client => o[k][2] <= consumed[client]
    BY <1>4 DEF Taken
  <2> QED
    BY <1>1, <1>3, <1>4, <1>6, <2>1, PrecedesAppend
<1>8. \A k \in DOMAIN o : o[k][2] <= consumed'[o[k][1]]
  <2>1. \A d \in Conn : /\ consumed[d] \in 0 .. Chunks /\ consumed'[d] \in 0 .. Chunks
                        /\ consumed[d] <= consumed'[d]
    <3>1. consumed \in [Conn -> 0 .. Chunks] /\ consumed' \in [Conn -> 0 .. Chunks]
      BY <1>1, <1>2 DEF IInv, TypeOK
    <3>2. \A d \in Conn : d # client => consumed'[d] = consumed[d]
      BY <1>3, <3>1
    <3>3. consumed'[client] = buffered'[client]
      BY <1>1, <1>3, <3>1
    <3> QED
      BY <1>6, <3>1, <3>2, <3>3, RecieveDataAssumption
  <2> QED
    BY <1>4, <1>5, <2>1, RecieveDataAssumption DEF Chunk, Taken
<1>9. Increasing(o)' /\ Precedes(o, data)' /\ Taken(o)'
  BY <1>7, <1>8 DEF Traced, Increasing, Precedes, Taken
<1>10. (o \in Seq(Chunk) /\ Len(o) = Len(playlist))'
  BY DEF Traced, Chunk
<1>11. (\A i \in DOMAIN o : Middle(o[i]) /\ playlist[i] = EntryOf(ItemOf(o[i])))'
  BY DEF Traced, Middle, EntryOf, ItemOf
<1> QED
  BY <1>9, <1>10, <1>11 DEF Traced

\* The entries a message adds come from chunks of `data', which all come after
\* those of the entries before (recieve_complete, handle_recieved_data).
LEMMA TracedHandle ==
    ASSUME IInv, PlaylistSeq, NEW o, Traced(o), data_recieved
    PROVE  PlaylistTraced'
<1>1. /\ data \in Seq(Chunk) /\ Increasing(data) /\ Taken(data)
  BY DEF IInv, TypeOK, InOrderAtMostOnce, TakenOK
<1>2. data' = <<>> /\ consumed' = consumed
  BY DEF data_recieved, recieve_complete, DataReset
<1>3. handle_recieved_data(ComputerItems(data))
  BY DEF data_recieved
<1>4. PICK r : OutOf(r, data) /\ ComputerItems(data) = [i \in 1 .. Len(r) |-> ItemOf(r[i])]
  BY <1>1, ItemsTraced
<1> DEFINE items == ComputerItems(data)
<1>5. /\ o \in Seq(Chunk) /\ Len(o) = Len(playlist) /\ Increasing(o) /\ Precedes(o, data)
      /\ Taken(o) /\ r \in Seq(Chunk)
  BY <1>4 DEF Traced, OutOf
<1>6. Len(r) \in Nat /\ Len(o) \in Nat /\ DOMAIN r = 1 .. Len(r) /\ DOMAIN o = 1 .. Len(o)
      /\ Len(playlist) \in Nat /\ DOMAIN data = 1 .. Len(data)
  BY <1>1, <1>5, LenProperties DEF PlaylistSeq
<1>7. Len(items) = Len(r)
  BY <1>4, <1>6
<1> HIDE DEF items
<1>8. PICK n \in 0 .. Len(items) : playlist' = playlist \o [i \in 1 .. n |-> EntryOf(items[i])]
  BY <1>3 DEF handle_recieved_data, items
<1> DEFINE new == [i \in 1 .. n |-> EntryOf(items[i])]
           u == [i \in 1 .. n |-> r[i]]
           p == o \o u
           L == Len(o)
<1>9. n \in Nat /\ n <= Len(r) /\ \A i \in 1 .. n : i \in DOMAIN r
  BY <1>6, <1>7, <1>8
<1>10. \A i \in 1 .. n : /\ r[i] \in Chunk /\ Middle(r[i]) /\ items[i] = ItemOf(r[i])
                         /\ \E k \in DOMAIN data : r[i] = data[k]
  <2>1. \A i \in 1 .. n : r[i] \in Chunk
    BY <1>5, <1>9, LenProperties
  <2>2. \A i \in 1 .. n : items[i] = ItemOf(r[i])
    BY <1>4, <1>6, <1>9 DEF items
  <2> QED
    BY <1>4, <1>9, <2>1, <2>2 DEF OutOf
<1>11. new \in Seq(Entry) /\ Len(new) = n /\ \A i \in 1 .. n : new[i] = EntryOf(ItemOf(r[i]))
  <2>1. \A i \in 1 .. n : EntryOf(items[i]) \in Entry
    BY <1>10, ItemOfType DEF EntryOf, Entry, Item
  <2> QED
    BY <1>9, <1>10, <2>1
<1>12. u \in Seq(Chunk) /\ Len(u) = n /\ \A i \in 1 .. n : u[i] = r[i]
  BY <1>9, <1>10
<1> HIDE DEF new, u
<1>13. /\ Len(playlist') = L + n
       /\ \A i \in 1 .. L + n : playlist'[i] = IF i <= L THEN playlist[i] ELSE new[i - L]
  BY <1>5, <1>8, <1>11, ConcatProperties DEF PlaylistSeq, new
<1>14. /\ p \in Seq(Chunk) /\ Len(p) = L + n
       /\ \A i \in 1 .. L + n : p[i] = IF i <= L THEN o[i] ELSE u[i - L]
  <2>1. /\ o \o u \in Seq(Chunk) /\ Len(o \o u) = Len(o) + Len(u)
        /\ \A i \in 1 .. Len(o) + Len(u) : (o \o u)[i] = IF i <= Len(o) THEN o[i] ELSE u[i - Len(o)]
    BY <1>5, <1>12, ConcatProperties
  <2>2. Len(u) = n
    BY <1>12
  <2> QED
    BY <2>1, <2>2
<1>15. DOMAIN p = 1 .. L + n /\ DOMAIN o = 1 .. L /\ L \in Nat
  BY <1>6, <1>14, LenProperties
<1> HIDE DEF p, L
<1>16. \A i \in 1 .. L + n : i > L => i - L \in 1 .. n /\ p[i] = r[i - L] /\ playlist'[i] = new[i - L]
  BY <1>9, <1>12, <1>13, <1>14, <1>15
<1>17. \A i \in 1 .. L + n : i <= L => i \in 1 .. L /\ p[i] = o[i] /\ playlist'[i] = playlist[i]
  BY <1>9, <1>13, <1>14, <1>15
<1>18. ASSUME NEW i \in DOMAIN p PROVE Middle(p[i]) /\ playlist'[i] = EntryOf(ItemOf(p[i]))
  <2>1. CASE i <= L
    BY <1>15, <1>17, <2>1 DEF Traced
  <2>2. CASE i > L
    BY <1>10, <1>11, <1>15, <1>16, <2>2
  <2> QED
    BY <1>15, <2>1, <2>2
<1>19. Increasing(p)
  <2> SUFFICES ASSUME NEW j \in DOMAIN p, NEW k \in DOMAIN p, j < k, p[j][1] = p[k][1]
               PROVE  p[j][2] < p[k][2]
    BY DEF Increasing
  <2>1. CASE k <= L
    BY <1>5, <1>15, <1>17, <2>1 DEF Increasing
  <2>2. CASE j > L
    <3>1. /\ j - L \in DOMAIN r /\ k - L \in DOMAIN r /\ j - L < k - L
          /\ p[j] = r[j - L] /\ p[k] = r[k - L]
      BY <1>9, <1>15, <1>16, <2>2
    <3> QED
      BY <1>4, <3>1 DEF OutOf, Increasing
  <2>3. CASE j <= L /\ k > L
    <3>1. j \in DOMAIN o /\ p[j] = o[j]
      BY <1>15, <1>17, <2>3
    <3>2. k - L \in 1 .. n /\ p[k] = r[k - L]
      BY <1>15, <1>16, <2>3
    <3>3. \E h \in DOMAIN data : r[k - L] = data[h]
      BY <1>10, <3>2
    <3>4. PICK h \in DOMAIN data : p[k] = data[h]
      BY <3>2, <3>3
    <3> QED
      BY <1>5, <3>1, <3>4 DEF Precedes
  <2> QED
    BY <1>15, <2>1, <2>2, <2>3
<1>20. Precedes(p, data')
  BY <1>2 DEF Precedes
<1>21. \A i \in DOMAIN p : p[i][2] <= consumed[p[i][1]]
  <2> SUFFICES ASSUME NEW i \in DOMAIN p PROVE p[i][2] <= consumed[p[i][1]]
    OBVIOUS
  <2>1. CASE i <= L
    BY <1>5, <1>15, <1>17, <2>1 DEF Taken
  <2>2. CASE i > L
    <3>1. PICK h \in DOMAIN data : p[i] = data[h]
      BY <1>10, <1>15, <1>16, <2>2
    <3> QED
      BY <1>1, <3>1 DEF Taken
  <2> QED
    BY <1>15, <2>1, <2>2
<1>22. Traced(p)'
  <2>1. (p \in Seq(Chunk) /\ Len(p) = Len(playlist))'
    BY <1>13, <1>14 DEF Chunk
  <2>2. (\A i \in DOMAIN p : Middle(p[i]) /\ playlist[i] = EntryOf(ItemOf(p[i])))'
    BY <1>18 DEF Middle, EntryOf, ItemOf
  <2>3. (Increasing(p) /\ Precedes(p, data) /\ Taken(p))'
    BY <1>2, <1>19, <1>20, <1>21 DEF Increasing, Precedes, Taken
  <2> QED
    BY <2>1, <2>2, <2>3 DEF Traced
<1> QED
  BY <1>22 DEF PlaylistTraced

PlaylistInv == IInv /\ PlaylistSeq /\ PlaylistTraced

\* At first the playlist is empty.
LEMMA PlaylistInvInit == DisplayInit => PlaylistInv
<1> SUFFICES ASSUME DisplayInit PROVE PlaylistInv
  OBVIOUS
<1>1. IInv
  BY InvInit DEF DisplayInit
<1>2. playlist = <<>>
  BY DEF DisplayInit, PlayerInit
<1>3. Traced(<<>>)
  BY <1>2 DEF Traced, Increasing, Precedes, Taken
<1> QED
  BY <1>1, <1>2, <1>3 DEF PlaylistInv, PlaylistSeq, PlaylistTraced

\* Every step of the display keeps what its playlist can be traced to.
LEMMA PlaylistInvStep == PlaylistInv /\ [DisplayNext]_displayVars => PlaylistInv'
<1> SUFFICES ASSUME PlaylistInv, [DisplayNext]_displayVars PROVE PlaylistInv'
  OBVIOUS
<1>1. IInv /\ IInv' /\ PlaylistSeq
  BY NextOfDisplay, InvStep DEF PlaylistInv
<1>2. PICK o : Traced(o)
  BY DEF PlaylistInv, PlaylistTraced
<1>3. ASSUME UNCHANGED <<playlist, data, consumed>> PROVE PlaylistInv'
  <2>1. PlaylistSeq'
    BY <1>1, <1>3 DEF PlaylistSeq, Entry
  <2>2. Traced(o)'
    BY <1>2, <1>3 DEF Traced, Increasing, Precedes, Taken, Middle, EntryOf, ItemOf, Chunk
  <2> QED
    BY <1>1, <2>1, <2>2 DEF PlaylistInv, PlaylistTraced
<1>4. CASE Receiving /\ PeerStep
  BY <1>3, <1>4 DEF Receiving, PeerStep, Connect, Write, Disconnect, playerVars, objectVars
<1>5. CASE Receiving /\ acceptConnection
  BY <1>3, <1>5 DEF Receiving, acceptConnection, playerVars
<1>6. ASSUME Receiving, NEW c \in Conn, startRead(c) PROVE PlaylistInv'
  <2>1. UNCHANGED playlist
    BY <1>6 DEF Receiving, playerVars
  <2>2. Traced(o)'
    BY <1>1, <1>2, <1>6, <2>1, TracedRead
  <2>3. PlaylistSeq'
    BY <1>1, <2>1 DEF PlaylistSeq, Entry
  <2> QED
    BY <1>1, <2>2, <2>3 DEF PlaylistInv, PlaylistTraced
<1>7. CASE data_recieved
  <2>1. PlaylistTraced'
    BY <1>1, <1>2, <1>7, TracedHandle
  <2>2. PlaylistSeq'
    BY <1>1, <1>7, PlaylistAdds DEF PlaylistSeq, data_recieved
  <2> QED
    BY <1>1, <2>1, <2>2 DEF PlaylistInv
<1>8. CASE Playing
  <2>1. UNCHANGED <<data, consumed>>
    BY <1>8 DEF Playing, vars
  <2>2. UNCHANGED playlist
    BY <1>8 DEF Playing, check_media_state, play_next_media_in_queue, MediaStep, MediaOpening,
                MediaPlaying, MediaError, MediaEnded
  <2> QED
    BY <1>3, <2>1, <2>2
<1>9. CASE UNCHANGED displayVars
  BY <1>3, <1>9 DEF displayVars, vars, playerVars
<1> QED
  BY <1>4, <1>5, <1>6, <1>7, <1>8, <1>9 DEF DisplayNext, Receiving

\* However connections overlap, each entry of the playlist was made from a
\* chunk of its own, and those of one connection in the order of its chunks.
THEOREM EntriesAreTraced == DisplaySpec => []PlaylistTraced
<1>1. PlaylistInv => PlaylistTraced
  BY DEF PlaylistInv
<1> QED
  BY <1>1, PlaylistInvInit, PlaylistInvStep, PTL DEF DisplaySpec

\* No file is that of two items, of one upload or of two.
FilesTellApart ==
    \A c, d \in Conn : \A a \in DOMAIN Payload[c], b \in DOMAIN Payload[d] :
        Payload[c][a].file = Payload[d][b].file => c = d /\ a = b

\* So, when an entry's item can be told by its file, the playlist holds no item
\* of an upload twice, and an upload's items in the order they have there.
THEOREM NoneTwice ==
    ASSUME FilesTellApart
    PROVE  DisplaySpec => []NoItemTwice
<1>1. PlaylistInv => NoItemTwice
  <2> SUFFICES ASSUME PlaylistInv, NEW c \in Conn, NEW i \in EntriesOf(c), NEW j \in EntriesOf(c),
                      i < j
               PROVE  \E a, b \in DOMAIN Payload[c] :
                         /\ a < b
                         /\ playlist[i].file = Payload[c][a].file
                         /\ playlist[j].file = Payload[c][b].file
    BY DEF NoItemTwice
  <2>1. PICK o : Traced(o)
    BY DEF PlaylistInv, PlaylistTraced
  <2>2. DOMAIN o = DOMAIN playlist /\ \A k \in DOMAIN o : o[k] \in Chunk
    <3>1. o \in Seq(Chunk) /\ Len(o) = Len(playlist) /\ playlist \in Seq(Entry)
      BY <2>1 DEF Traced, PlaylistInv, PlaylistSeq
    <3> QED
      BY <3>1, LenProperties
  <2>3. ASSUME NEW k \in EntriesOf(c)
        PROVE  /\ k \in DOMAIN o /\ o[k][1] = c /\ o[k][2] - 1 \in DOMAIN Payload[c]
               /\ playlist[k].file = Payload[c][o[k][2] - 1].file /\ o[k][2] \in Int
    <3>1. k \in DOMAIN o /\ \E a \in DOMAIN Payload[c] : playlist[k].file = Payload[c][a].file
      BY <2>2 DEF EntriesOf
    <3>2. PICK a \in DOMAIN Payload[c] : playlist[k].file = Payload[c][a].file
      BY <3>1
    <3> DEFINE x == o[k]
    <3>3. x \in Chunk /\ Middle(x) /\ playlist[k] = EntryOf(ItemOf(x))
      BY <2>1, <2>2, <3>1 DEF Traced
    <3> HIDE DEF x
    <3>4. /\ x[1] \in Conn /\ x[2] - 1 \in DOMAIN Payload[x[1]]
          /\ ItemOf(x) = Payload[x[1]][x[2] - 1]
      BY <3>3, ItemOfType
    <3>5. playlist[k].file = Payload[x[1]][x[2] - 1].file
      BY <3>3, <3>4 DEF EntryOf
    <3>6. x[1] = c
      <4> DEFINE d == x[1]
                 b == x[2] - 1
      <4>1. d \in Conn /\ b \in DOMAIN Payload[d] /\ Payload[c][a].file = Payload[d][b].file
        BY <3>2, <3>4, <3>5
      <4> HIDE DEF d, b
      <4>2. c = d
        BY <3>2, <4>1 DEF FilesTellApart
      <4> QED
        BY <4>2 DEF d
    <3>7. x[2] \in Int
      BY <3>3 DEF Chunk
    <3> QED
      BY <3>1, <3>4, <3>5, <3>6, <3>7 DEF x
  <2>4. o[i][2] < o[j][2]
    BY <2>1, <2>3 DEF Traced, Increasing
  <2>5. o[i][2] - 1 < o[j][2] - 1
    BY <2>3, <2>4
  <2> QED
    BY <2>3, <2>5
<1> QED
  BY <1>1, PlaylistInvInit, PlaylistInvStep, PTL DEF DisplaySpec

-----------------------------------------------------------------------------
(* What a whole upload adds. *)

\* The tree of the first n chunks of connection c.
Whole(c, n) ==
    [i \in 1 .. n |->
        IF i = 1 THEN [name |-> "Computer", depth |-> 1, attribute |-> <<>>, text |-> <<>>]
                 ELSE [name |-> "Item", depth |-> 2, attribute |-> <<>>, text |-> <<<<c, i>>>>]]

AfterWhole(c, n) == [nodes |-> Whole(c, n), open |-> <<1>>, at |-> "content"]

\* It is a tree, to which the next chunk adds an Item.
LEMMA WholeGrows ==
    ASSUME NEW c \in Conn, NEW n \in 1 .. (Chunks - 1)
    PROVE  /\ Whole(c, n) \in Seq(Node(Elements, Chunk)) /\ Len(Whole(c, n)) = n
           /\ AfterWhole(c, n) \in ParserState(Elements, Chunk)
           /\ Append(Whole(c, n), [name |-> "Item", depth |-> 2, attribute |-> <<>>,
                                   text |-> <<<<c, n + 1>>>>])
                = Whole(c, n + 1)
<1>1. n \in Nat /\ n >= 1 /\ Chunks \in Nat
  BY RecieveDataAssumption
<1>2. \A i \in 1 .. (n + 1) : Whole(c, n + 1)[i] \in Node(Elements, Chunk)
  <2>1. \A i \in 1 .. (n + 1) : <<c, i>> \in Chunk
    BY <1>1 DEF Chunk
  <2>2. \A x \in Chunk :
            [name |-> "Item", depth |-> 2, attribute |-> <<>>, text |-> <<x>>] \in Node(Elements, Chunk)
    BY DEF Node, Elements
  <2>3. [name |-> "Computer", depth |-> 1, attribute |-> <<>>, text |-> <<>>] \in Node(Elements, Chunk)
    BY DEF Node, Elements
  <2> QED
    BY <2>1, <2>2, <2>3 DEF Whole
<1>3. /\ Len(Whole(c, n)) = n /\ Len(Whole(c, n + 1)) = n + 1
      /\ \A i \in 1 .. n : Whole(c, n)[i] = Whole(c, n + 1)[i]
  BY <1>1 DEF Whole
<1>4. Whole(c, n + 1)[n + 1] = [name |-> "Item", depth |-> 2, attribute |-> <<>>,
                                text |-> <<<<c, n + 1>>>>]
  BY <1>1 DEF Whole
<1>5. DOMAIN Whole(c, n) = 1 .. n /\ DOMAIN Whole(c, n + 1) = 1 .. (n + 1)
  BY DEF Whole
<1>6. /\ Whole(c, n) = [i \in 1 .. n |-> Whole(c, n)[i]]
      /\ Whole(c, n + 1) = [i \in 1 .. (n + 1) |-> Whole(c, n + 1)[i]]
  BY DEF Whole
<1>7. Whole(c, n) \in Seq(Node(Elements, Chunk)) /\ Whole(c, n + 1) \in Seq(Node(Elements, Chunk))
  <2>1. \A i \in 1 .. n : Whole(c, n)[i] \in Node(Elements, Chunk)
    BY <1>1, <1>2, <1>3
  <2>2. \A m \in Nat : \A f, V : (\A i \in 1 .. m : f[i] \in V) => [i \in 1 .. m |-> f[i]] \in Seq(V)
    OBVIOUS
  <2>3. n \in Nat /\ n + 1 \in Nat
    BY <1>1
  <2>4. [i \in 1 .. n |-> Whole(c, n)[i]] \in Seq(Node(Elements, Chunk))
    BY <2>1, <2>2, <2>3
  <2>5. [i \in 1 .. (n + 1) |-> Whole(c, n + 1)[i]] \in Seq(Node(Elements, Chunk))
    BY <1>2, <2>2, <2>3
  <2> QED
    BY <1>6, <2>4, <2>5
<1>8. AfterWhole(c, n) \in ParserState(Elements, Chunk)
  BY <1>7 DEF AfterWhole, ParserState
<1>9. ASSUME NEW new \in Node(Elements, Chunk), Whole(c, n + 1)[n + 1] = new
      PROVE  Append(Whole(c, n), new) = Whole(c, n + 1)
  <2> DEFINE w == Whole(c, n)
             v == Whole(c, n + 1)
  <2>1. /\ w \in Seq(Node(Elements, Chunk)) /\ v \in Seq(Node(Elements, Chunk))
        /\ Len(w) = n /\ Len(v) = n + 1 /\ v[n + 1] = new /\ \A i \in 1 .. n : w[i] = v[i]
    BY <1>3, <1>7, <1>9
  <2> HIDE DEF w, v
  <2>2. /\ Append(w, new) \in Seq(Node(Elements, Chunk)) /\ Len(Append(w, new)) = n + 1
        /\ Append(w, new)[n + 1] = new /\ \A i \in 1 .. n : Append(w, new)[i] = w[i]
    BY <1>9, <2>1, AppendProperties
  <2>3. \A i \in 1 .. (n + 1) : Append(w, new)[i] = v[i]
    BY <1>1, <2>1, <2>2
  <2>4. Append(w, new) = v
    BY <2>1, <2>2, <2>3, SeqEqual
  <2> QED
    BY <2>4 DEF w, v
<1>10. Whole(c, n + 1)[n + 1] \in Node(Elements, Chunk)
  BY <1>1, <1>2
<1>11. Append(Whole(c, n), Whole(c, n + 1)[n + 1]) = Whole(c, n + 1)
  BY <1>9, <1>10
<1> QED
  BY <1>3, <1>4, <1>7, <1>8, <1>11

\* A payload has its two tags at least.
LEMMA TwoTags ==
    /\ Conn # {} => Chunks \in Nat /\ Chunks >= 2
    /\ \A c \in Conn : /\ Payload[c] \in Seq(Item) /\ Len(Payload[c]) = Chunks - 2
                       /\ DOMAIN Payload[c] = 1 .. (Chunks - 2)
<1>1. ASSUME NEW c \in Conn
      PROVE  /\ Chunks \in Nat /\ Chunks >= 2
             /\ Payload[c] \in Seq(Item) /\ Len(Payload[c]) = Chunks - 2
             /\ DOMAIN Payload[c] = 1 .. (Chunks - 2)
  <2>1. Payload[c] \in Seq(Item) /\ Len(Payload[c]) + 2 = Chunks
    BY DisplayAssumption
  <2>2. Len(Payload[c]) \in Nat /\ DOMAIN Payload[c] = 1 .. Len(Payload[c])
    BY <2>1, LenProperties
  <2> QED
    BY <2>1, <2>2
<1> QED
  BY <1>1

\* Chunk by chunk, the parser builds the tree of the chunks so far.
LEMMA WholeReached ==
    ASSUME NEW c \in Conn,
           NEW g \in [0 .. Len(TextOf(Stream(c, 0, Chunks))) -> Seq(Atoms)],
           Flattens(g, TextOf(Stream(c, 0, Chunks)))
    PROVE  /\ g[Chunks] = g[Chunks - 1] \o AtomsOf(<<c, Chunks>>)
           /\ g[Chunks - 1] \in Seq(Atoms)
           /\ Leads(StartOfText, g[Chunks - 1], AfterWhole(c, Chunks - 1))
<1> DEFINE s == Stream(c, 0, Chunks)
<1>1. Chunks \in Nat /\ Chunks >= 2
  BY TwoTags
<1>2. s \in Seq(Chunk) /\ Len(s) = Chunks /\ DOMAIN s = 1 .. Chunks
      /\ \A i \in 1 .. Chunks : s[i] = <<c, i>>
  <2>1. /\ s \in Seq(Chunk) /\ Len(s) = Chunks - 0 /\ DOMAIN s = 1 .. (Chunks - 0)
        /\ \A i \in 1 .. (Chunks - 0) : s[i] = <<c, 0 + i>>
    <3>1. 0 \in 0 .. Chunks /\ Chunks \in 0 .. Chunks /\ 0 <= Chunks
      BY <1>1
    <3> QED
      BY <3>1, StreamType, Zenon
  <2> HIDE DEF s
  <2> QED
    BY <1>1, <2>1
<1>3. Len(TextOf(s)) = Chunks /\ \A k \in 1 .. Chunks : TextOf(s)[k] = AtomsOf(<<c, k>>)
  <2> HIDE DEF s
  <2>1. TextOf(s) = [k \in 1 .. Chunks |-> AtomsOf(s[k])]
    BY <1>2 DEF TextOf
  <2>2. TextOf(s) = [k \in 1 .. Chunks |-> AtomsOf(<<c, k>>)]
    BY <1>2, <2>1
  <2>4. Len([k \in 1 .. Chunks |-> AtomsOf(<<c, k>>)]) = Chunks
    BY <1>1
  <2> QED
    BY <2>2, <2>4
<1>4. /\ g \in [0 .. Chunks -> Seq(Atoms)] /\ g[0] = <<>>
      /\ \A k \in 1 .. Chunks : g[k] = g[k - 1] \o AtomsOf(<<c, k>>)
  BY <1>3 DEF Flattens
<1> HIDE DEF s
<1>5. \A k \in 1 .. Chunks : /\ <<c, k>> \in Chunk /\ AtomsOf(<<c, k>>) \in Seq(Atoms)
  <2>1. \A k \in 1 .. Chunks : <<c, k>> \in Chunk
    BY DEF Chunk
  <2> QED
    BY <2>1, AtomsType
<1> DEFINE S == {n \in Nat : n + 1 <= Chunks - 1 => Leads(StartOfText, g[n + 1], AfterWhole(c, n + 1))}
<1>6. 0 \in S
  <2> SUFFICES Leads(StartOfText, g[1], AfterWhole(c, 1))
    OBVIOUS
  <2>1. StartOfText \in ParserState(Elements, Chunk) /\ StartOfText.at = "content"
        /\ StartOfText.nodes = <<>> /\ StartOfText.open = <<>>
    BY DEF StartOfText, ParserState
  <2> DEFINE q == [nodes |-> Append(StartOfText.nodes, [name |-> "Computer",
                                depth |-> Len(StartOfText.open) + 1,
                                attribute |-> <<>>, text |-> <<>>]),
                   open  |-> Append(StartOfText.open, Len(StartOfText.nodes) + 1),
                   at    |-> "content"]
  <2>2. Leads(StartOfText, <<Open("Computer"), Gt>>, q)
    <3>1. "Computer" \in Elements
      BY DEF Elements
    <3> QED
      BY <2>1, <3>1, StartTagRead
  <2>3. q = AfterWhole(c, 1)
    <3>1. /\ Append(StartOfText.nodes, [name |-> "Computer", depth |-> Len(StartOfText.open) + 1,
                                        attribute |-> <<>>, text |-> <<>>])
               = <<[name |-> "Computer", depth |-> 1, attribute |-> <<>>, text |-> <<>>]>>
          /\ Append(StartOfText.open, Len(StartOfText.nodes) + 1) = <<1>>
      BY <2>1
    <3>2. Whole(c, 1) = <<[name |-> "Computer", depth |-> 1, attribute |-> <<>>, text |-> <<>>]>>
      <4>1. Whole(c, 1) = [i \in 1 .. 1 |-> [name |-> "Computer", depth |-> 1, attribute |-> <<>>,
                                             text |-> <<>>]]
        BY DEF Whole
      <4>2. \A x : [i \in 1 .. 1 |-> x] = <<x>>
        OBVIOUS
      <4> QED
        BY <4>1, <4>2
    <3> QED
      BY <3>1, <3>2 DEF AfterWhole
  <2> HIDE DEF q
  <2>4. <<c, 1>> \in Chunk /\ <<c, 1>>[2] = 1
    BY <1>1, <1>5
  <2>5. AtomsOf(<<c, 1>>) = <<Open("Computer"), Gt>>
    BY <2>4, AtomsOfCases
  <2>6. g[1] = <<>> \o AtomsOf(<<c, 1>>)
    <3>1. 1 \in 1 .. Chunks /\ 1 - 1 = 0
      BY <1>1
    <3> QED
      BY <1>4, <3>1
  <2>7. g[1] = AtomsOf(<<c, 1>>)
    <3>1. AtomsOf(<<c, 1>>) \in Seq(Atoms)
      BY <1>1, <1>5
    <3> QED
      BY <2>6, <3>1, ConcatEmptySeq
  <2> QED
    BY <2>2, <2>3, <2>5, <2>7
<1>7. ASSUME NEW n \in Nat, n \in S PROVE n + 1 \in S
  <2> DEFINE m == n + 1
             x == <<c, m + 1>>
  <2> SUFFICES ASSUME m + 1 <= Chunks - 1
               PROVE  Leads(StartOfText, g[m + 1], AfterWhole(c, m + 1))
    OBVIOUS
  <2>1. /\ m \in 1 .. (Chunks - 1) /\ m \in 0 .. Chunks /\ m + 1 \in 1 .. Chunks /\ (m + 1) - 1 = m
        /\ m + 1 # 1 /\ m + 1 # Chunks
    BY <1>1
  <2>2. Leads(StartOfText, g[m], AfterWhole(c, m))
    BY <1>1, <1>7
  <2> HIDE DEF m, S
  <2>3. /\ Append(Whole(c, m), [name |-> "Item", depth |-> 2, attribute |-> <<>>, text |-> <<x>>])
             = Whole(c, m + 1)
        /\ AfterWhole(c, m) \in ParserState(Elements, Chunk)
    BY <2>1, WholeGrows
  <2>4. x \in Chunk /\ Middle(x)
    BY <1>5, <2>1 DEF Middle
  <2> HIDE DEF x
  <2> DEFINE p == AfterWhole(c, m)
             q == [nodes |-> Append(p.nodes, [name |-> "Item", depth |-> Len(p.open) + 1,
                                              attribute |-> <<>>, text |-> <<x>>]),
                   open  |-> p.open, at |-> "content"]
  <2>5. p.at = "content" /\ p.nodes = Whole(c, m) /\ p.open = <<1>> /\ Len(p.open) + 1 = 2
    BY DEF AfterWhole
  <2>6. q = AfterWhole(c, m + 1)
    BY <2>3, <2>5 DEF AfterWhole
  <2>7. Leads(p, <<Open("Item"), Gt, Text(x), Lt, Close("Item")>>, q)
    <3>1. "Item" \in Elements
      BY DEF Elements
    <3> HIDE DEF p
    <3> QED
      BY <2>3, <2>4, <2>5, <3>1, ElementRead DEF p
  <2> HIDE DEF q, p
  <2>8. Leads(p, AtomsOf(x), q)
    BY <2>4, <2>7, AtomsOfCases
  <2>9. g[m + 1] = g[m] \o AtomsOf(x) /\ g[m] \in Seq(Atoms) /\ AtomsOf(x) \in Seq(Atoms)
    BY <1>4, <1>5, <2>1 DEF x
  <2>10. Leads(StartOfText, g[m] \o AtomsOf(x), q)
    BY <2>2, <2>8, <2>9, LeadsOn DEF p
  <2> QED
    BY <2>6, <2>9, <2>10
<1> HIDE DEF S
<1>8. \A n \in Nat : n \in S
  BY <1>6, <1>7, Induction
<1>9. Leads(StartOfText, g[Chunks - 1], AfterWhole(c, Chunks - 1))
  <2>1. Chunks - 2 \in Nat /\ (Chunks - 2) + 1 = Chunks - 1
    BY <1>1
  <2>2. Chunks - 2 \in S
    BY <1>8, <2>1
  <2> QED
    BY <1>1, <2>1, <2>2 DEF S
<1>10. Chunks \in 1 .. Chunks /\ Chunks - 1 \in 0 .. Chunks
  BY <1>1
<1>11. g[Chunks] = g[Chunks - 1] \o AtomsOf(<<c, Chunks>>) /\ g[Chunks - 1] \in Seq(Atoms)
  BY <1>4, <1>10
<1> QED
  BY <1>9, <1>11

\* The tree of a whole upload.
LEMMA WholeTree ==
    ASSUME NEW c \in Conn
    PROVE  TreeOf(Stream(c, 0, Chunks)) = Whole(c, Chunks - 1)
<1> DEFINE s == Stream(c, 0, Chunks)
           M == Chunks - 1
           p == AfterWhole(c, M)
<1>1. Chunks \in Nat /\ Chunks >= 2
  BY TwoTags
<1>2. s \in Seq(Chunk) /\ Len(s) = Chunks
  <2>1. 0 \in 0 .. Chunks /\ Chunks \in 0 .. Chunks /\ 0 <= Chunks
    BY <1>1
  <2>2. s \in Seq(Chunk) /\ Len(s) = Chunks - 0
    BY <2>1, StreamType, Zenon
  <2> HIDE DEF s
  <2> QED
    BY <1>1, <2>2
<1>3. PICK g \in [0 .. Len(TextOf(s)) -> Seq(Atoms)] :
          Flattens(g, TextOf(s)) /\ FlattenSeq(TextOf(s)) = g[Len(TextOf(s))]
  BY <1>2, TextFlattens
<1>4. /\ g[Chunks] = g[M] \o AtomsOf(<<c, Chunks>>) /\ g[M] \in Seq(Atoms)
      /\ Leads(StartOfText, g[M], p)
  BY <1>3, WholeReached
<1> HIDE DEF s
<1>5. M \in 1 .. (Chunks - 1) /\ M \in Nat /\ M >= 1
  BY <1>1
<1>6. Len(Whole(c, M)) = M /\ p \in ParserState(Elements, Chunk)
  BY <1>5, WholeGrows
<1>7. p.at = "content" /\ p.open = <<1>> /\ p.nodes = Whole(c, M)
  BY DEF AfterWhole
<1>8. Whole(c, M)[1].name = "Computer"
  BY <1>5 DEF Whole
<1> HIDE DEF p, M
<1>9. <<c, Chunks>> \in Chunk /\ AtomsOf(<<c, Chunks>>) = <<Lt, Close("Computer")>>
  <2>1. <<c, Chunks>> \in Chunk /\ <<c, Chunks>>[2] = Chunks
    BY <1>1 DEF Chunk
  <2> QED
    BY <2>1, AtomsOfCases
<1>10. ClosesCursor(p, "Computer")
  <2>1. <<1>>[Len(<<1>>)] = 1 /\ <<1>> # <<>>
    OBVIOUS
  <2> QED
    BY <1>7, <1>8, <2>1 DEF ClosesCursor, Cursor, Last
<1> DEFINE q == Popped(p)
<1>11. Leads(p, <<Lt, Close("Computer")>>, q)
  <2>1. /\ (IF ClosesCursor(p, "Computer") THEN Popped(p) ELSE [p EXCEPT !.at = "failed"]) = q
    BY <1>10
  <2> HIDE DEF q
  <2> QED
    BY <1>6, <1>7, <2>1, EndTagRead
<1>12. q.nodes = Whole(c, M) /\ q.at \in {"content", "failed"}
  BY <1>6, <1>7 DEF Popped, ParserState
<1> HIDE DEF q
<1>13. AtomsOf(<<c, Chunks>>) \in Seq(Atoms)
  BY <1>9, AtomsType
<1>14. Leads(StartOfText, g[Chunks], q)
  BY <1>4, <1>9, <1>11, <1>13, LeadsOn
<1>15. TreeOf(s) = q.nodes
  BY <1>2, <1>3, <1>12, <1>14, TreeIs
<1> QED
  BY <1>12, <1>15 DEF s, M

\* The items of a whole upload are those of its payload, in order.
LEMMA WholeItems ==
    ASSUME NEW c \in Conn
    PROVE  ComputerItems(Stream(c, 0, Chunks)) = Payload[c]
<1> DEFINE s == Stream(c, 0, Chunks)
           M == Chunks - 1
           tree == Whole(c, M)
           ks == Children(tree, FirstChild(tree, {0}, "Computer"), "Item")
           at == InOrder(ks)
           t == [i \in 1 .. (M - 1) |-> i + 1]
<1>1. Chunks \in Nat /\ Chunks >= 2 /\ M \in Nat /\ M >= 1 /\ M - 1 \in Nat
  BY TwoTags
<1>2. ComputerItems(s) = [i \in DOMAIN at |-> ItemOf(tree[at[i]].text[1])]
  <2>1. TreeOf(s) = tree
    BY WholeTree
  <2> QED
    BY <2>1 DEF ComputerItems, TreeOf, TextOf
<1>3. Len(tree) = M
  <2>1. M \in 1 .. (Chunks - 1)
    BY <1>1
  <2> QED
    BY <2>1, WholeGrows
<1> HIDE DEF s, M
<1>4. \A i \in 1 .. M : /\ i = 1 => tree[i].name = "Computer" /\ tree[i].depth = 1
                        /\ i # 1 => /\ tree[i].name = "Item" /\ tree[i].depth = 2
                                    /\ tree[i].text = <<<<c, i>>>>
  BY DEF Whole
<1> HIDE DEF tree
<1>5. Below(tree, 0) = 1 .. M
  <2>1. \A i \in 1 .. M : tree[i].depth > 0
    BY <1>4
  <2>2. Below(tree, 0) = {j \in 0 + 1 .. M : \A i \in 0 + 1 .. j : tree[i].depth > 0}
    BY <1>3 DEF Below, DepthOf
  <2>3. \A j \in 1 .. M : \A i \in 1 .. j : i \in 1 .. M
    BY <1>1
  <2>4. 0 + 1 = 1
    OBVIOUS
  <2>5. Below(tree, 0) = {j \in 1 .. M : \A i \in 1 .. j : tree[i].depth > 0}
    BY <2>2, <2>4
  <2> QED
    BY <2>1, <2>3, <2>5
<1>6. Children(tree, {0}, "Computer") = {1}
  <2>1. Children(tree, {0}, "Computer")
            = {j \in 1 .. M : tree[j].depth = 0 + 1 /\ tree[j].name = "Computer"}
    BY <1>5 DEF Children, DepthOf
  <2>2. \A j \in 1 .. M : tree[j].depth = 0 + 1 /\ tree[j].name = "Computer" <=> j = 1
    BY <1>4
  <2>3. 1 \in 1 .. M
    BY <1>1
  <2> QED
    BY <2>1, <2>2, <2>3
<1>7. FirstChild(tree, {0}, "Computer") = {1}
  BY <1>6 DEF FirstChild
<1>8. Below(tree, 1) = 2 .. M
  <2>1. \A i \in 2 .. M : tree[i].depth > 1
    BY <1>4
  <2>2. Below(tree, 1) = {j \in 1 + 1 .. M : \A i \in 1 + 1 .. j : tree[i].depth > tree[1].depth}
    BY <1>3 DEF Below, DepthOf
  <2>3. \A j \in 2 .. M : \A i \in 2 .. j : i \in 2 .. M
    BY <1>1
  <2>4. tree[1].depth = 1 /\ 1 + 1 = 2
    BY <1>1, <1>4
  <2>5. Below(tree, 1) = {j \in 2 .. M : \A i \in 2 .. j : tree[i].depth > 1}
    BY <2>2, <2>4
  <2> QED
    BY <2>1, <2>3, <2>5
<1>9. ks = 2 .. M
  <2>1. Children(tree, {1}, "Item")
            = {j \in 2 .. M : tree[j].depth = DepthOf(tree, 1) + 1 /\ tree[j].name = "Item"}
    BY <1>8 DEF Children
  <2>2. DepthOf(tree, 1) = 1
    <3>1. 1 \in 1 .. M
      BY <1>1
    <3> QED
      BY <1>4, <3>1 DEF DepthOf
  <2>3. \A j \in 2 .. M : tree[j].depth = 2 /\ tree[j].name = "Item"
    BY <1>4
  <2>4. ks = Children(tree, {1}, "Item")
    BY <1>7
  <2> HIDE DEF ks
  <2>5. \A j \in 2 .. M : tree[j].depth = DepthOf(tree, 1) + 1 /\ tree[j].name = "Item"
    <3>1. DepthOf(tree, 1) + 1 = 2
      BY <2>2
    <3> QED
      BY <2>3, <3>1
  <2>6. Children(tree, {1}, "Item") = 2 .. M
    BY <2>1, <2>5
  <2> QED
    BY <2>4, <2>6
<1> HIDE DEF ks
<1>10. at = t
  <2>1. t \in [1 .. (M - 1) -> Nat] /\ Ascends(t, M - 1)
    BY <1>1 DEF Ascends
  <2>2. {t[i] : i \in 1 .. (M - 1)} = 2 .. M
    <3>1. ASSUME NEW j \in 2 .. M PROVE \E i \in 1 .. (M - 1) : j = t[i]
      <4>1. j - 1 \in 1 .. (M - 1) /\ t[j - 1] = j
        BY <1>1
      <4> QED
        BY <4>1
    <3>2. \A i \in 1 .. (M - 1) : t[i] \in 2 .. M
      BY <1>1
    <3> QED
      BY <3>1, <3>2
  <2> HIDE DEF t
  <2> QED
    BY <1>1, <1>9, <2>1, <2>2, InOrderIs
<1> HIDE DEF at
<1>11. \A i \in 1 .. (M - 1) : ItemOf(tree[at[i]].text[1]) = Payload[c][i]
  <2> SUFFICES ASSUME NEW i \in 1 .. (M - 1)
               PROVE  ItemOf(tree[at[i]].text[1]) = Payload[c][i]
    OBVIOUS
  <2>1. at[i] = i + 1 /\ i + 1 \in 1 .. M /\ i + 1 # 1 /\ (i + 1) - 1 = i
    BY <1>1, <1>10
  <2>2. tree[i + 1].text = <<<<c, i + 1>>>>
    BY <1>4, <2>1
  <2>3. \A x : <<x>>[1] = x
    OBVIOUS
  <2>4. tree[at[i]].text[1] = <<c, i + 1>>
    BY <2>1, <2>2, <2>3
  <2> QED
    BY <2>1, <2>4 DEF ItemOf
<1>12. DOMAIN at = 1 .. (M - 1)
  BY <1>10
<1>13. Payload[c] \in Seq(Item) /\ Len(Payload[c]) = M - 1
  BY <1>1, TwoTags DEF M
<1>14. Payload[c] = [i \in 1 .. (M - 1) |-> Payload[c][i]]
  <2>1. Payload[c] = [i \in 1 .. Len(Payload[c]) |-> Payload[c][i]]
    BY <1>13
  <2> QED
    BY <1>13, <2>1
<1> QED
  BY <1>2, <1>11, <1>12, <1>14 DEF s

\* The entries of connection c's upload are in the playlist after the first k.
HeldAt(k, c) ==
    /\ k + Len(Payload[c]) <= Len(playlist)
    /\ \A i \in 1 .. Len(Payload[c]) : playlist[k + i] = EntryOf(Payload[c][i])

Finished(c) == status[c] = "finished" /\ peer[c] = "fin" /\ sent[c] = Chunks

\* Once announced, the upload is held somewhere.
Held == Isolated /\ alive => \A c \in Conn : Finished(c) => \E k \in Nat : HeldAt(k, c)

HeldInv == IInv /\ PlaylistSeq /\ IsolatedInv /\ IntactMessages /\ Held

\* A playlist that grows keeps what it holds.
LEMMA HeldLonger ==
    ASSUME PlaylistSeq, NEW new \in Seq(Entry), playlist' = playlist \o new,
           NEW c \in Conn, NEW k \in Nat, HeldAt(k, c)
    PROVE  HeldAt(k, c)'
<1> DEFINE L == Len(playlist)
           P == Len(Payload[c])
<1>1. /\ Len(playlist \o new) = Len(playlist) + Len(new)
      /\ \A i \in 1 .. Len(playlist) + Len(new) :
            (playlist \o new)[i] = IF i <= Len(playlist) THEN playlist[i] ELSE new[i - Len(playlist)]
  BY ConcatProperties DEF PlaylistSeq
<1>2. L \in Nat /\ Len(new) \in Nat /\ P \in Nat
  <2>1. L \in Nat /\ Len(new) \in Nat
    BY LenProperties DEF PlaylistSeq
  <2>2. Payload[c] \in Seq(Item)
    BY DisplayAssumption
  <2> QED
    BY <2>1, <2>2, LenProperties
<1>3. k + P <= L /\ \A i \in 1 .. P : playlist[k + i] = EntryOf(Payload[c][i])
  BY DEF HeldAt
<1>4. Len(playlist') = L + Len(new) /\ \A i \in 1 .. L : playlist'[i] = playlist[i]
  BY <1>1, <1>2
<1> HIDE DEF L, P
<1>5. k + P <= Len(playlist')
  BY <1>2, <1>3, <1>4
<1>6. \A i \in 1 .. P : playlist'[k + i] = EntryOf(Payload[c][i])
  <2>1. \A i \in 1 .. P : k + i \in 1 .. L
    BY <1>2, <1>3
  <2> QED
    BY <1>3, <1>4, <2>1
<1> QED
  BY <1>5, <1>6 DEF HeldAt, EntryOf, P

\* The announcement of a whole upload adds all its entries, unless the display
\* ends (recieve_complete, handle_recieved_data).
LEMMA HeldAnnounced ==
    ASSUME Isolated, HeldInv, IntactMessages', NEW c \in Conn, recieve_complete(c),
           handle_recieved_data(ComputerItems(data)), alive', Finished(c)'
    PROVE  \A k \in Nat : k = Len(playlist) => HeldAt(k, c)'
<1>1. status[c] = "open" /\ consumed' = consumed /\ sent' = sent /\ peer' = peer
  BY DEF recieve_complete, Signals, peerVars
<1>2. consumed[c] = Chunks
  BY <1>1 DEF IntactMessages, Finished
<1>3. data = Stream(c, 0, Chunks)
  BY <1>1, <1>2 DEF HeldInv, IsolatedInv, OneLive
<1>4. ComputerItems(data) = Payload[c]
  BY <1>3, WholeItems
<1> DEFINE items == Payload[c]
<1>5. items \in Seq(Item) /\ Len(items) \in Nat /\ \A i \in 1 .. Len(items) : items[i] \in Item
  <2>1. items \in Seq(Item)
    BY DisplayAssumption
  <2> QED
    BY <2>1, LenProperties
<1>6. handle_recieved_data(items)
  BY <1>4
<1> HIDE DEF items
<1>7. playlist' = playlist \o [i \in 1 .. Len(items) |-> EntryOf(items[i])]
  <2>1. PICK n \in 0 .. Len(items) :
            playlist' = playlist \o [i \in 1 .. n |-> EntryOf(items[i])] /\ alive' = (n = Len(items))
    BY <1>6 DEF handle_recieved_data
  <2> QED
    BY <2>1
<1> DEFINE new == [i \in 1 .. Len(items) |-> EntryOf(items[i])]
           L == Len(playlist)
<1>8. new \in Seq(Entry) /\ Len(new) = Len(items)
      /\ \A i \in 1 .. Len(items) : new[i] = EntryOf(items[i])
  <2>1. \A i \in 1 .. Len(items) : EntryOf(items[i]) \in Entry
    BY <1>5 DEF EntryOf, Entry, Item
  <2> QED
    BY <1>5, <2>1
<1> HIDE DEF new
<1>9. /\ Len(playlist \o new) = Len(playlist) + Len(new)
      /\ \A i \in 1 .. Len(playlist) + Len(new) :
            (playlist \o new)[i] = IF i <= Len(playlist) THEN playlist[i] ELSE new[i - Len(playlist)]
  BY <1>8, ConcatProperties DEF HeldInv, PlaylistSeq
<1>10. L \in Nat
  BY LenProperties DEF HeldInv, PlaylistSeq
<1>11. \A i \in 1 .. Len(items) : L + i \in 1 .. L + Len(items) /\ ~(L + i <= L) /\ (L + i) - L = i
  BY <1>5, <1>10
<1>12. \A i \in 1 .. Len(items) : playlist'[L + i] = EntryOf(items[i])
  BY <1>7, <1>8, <1>9, <1>11 DEF new
<1>13. L + Len(items) <= Len(playlist')
  BY <1>5, <1>7, <1>8, <1>9, <1>10 DEF new
<1>14. ASSUME NEW k \in Nat, k = L PROVE HeldAt(k, c)'
  <2>1. /\ k + Len(items) <= Len(playlist')
        /\ \A i \in 1 .. Len(items) : playlist'[k + i] = EntryOf(items[i])
    BY <1>12, <1>13, <1>14
  <2> QED
    BY <2>1 DEF HeldAt, items, EntryOf
<1> QED
  BY <1>14

\* At first nothing has been announced.
LEMMA HeldInvInit == DisplayInit => HeldInv
<1> SUFFICES ASSUME DisplayInit PROVE HeldInv
  OBVIOUS
<1>1. IInv /\ IsolatedInv /\ IntactMessages
  BY InvInit, IsolatedInit DEF DisplayInit
<1>2. PlaylistSeq
  BY DEF DisplayInit, PlayerInit, PlaylistSeq
<1>3. Held
  BY DEF DisplayInit, Init, Held, Finished
<1> QED
  BY <1>1, <1>2, <1>3 DEF HeldInv

\* Every step of the display keeps the uploads it holds, and holds the one it
\* announces.
LEMMA HeldInvStep == HeldInv /\ [DisplayNext]_displayVars => HeldInv'
<1> SUFFICES ASSUME HeldInv, [DisplayNext]_displayVars PROVE HeldInv'
  OBVIOUS
<1>1. [Next]_vars
  BY NextOfDisplay
<1>2. IInv' /\ IsolatedInv' /\ IntactMessages'
  <2>1. IInv'
    BY <1>1, InvStep DEF HeldInv
  <2>2. CASE Isolated
    BY <1>1, <2>1, <2>2, IsolatedStep DEF HeldInv, IsolatedInv
  <2>3. CASE ~Isolated
    BY <2>1, <2>3 DEF IsolatedInv, IntactMessages
  <2> QED
    BY <2>1, <2>2, <2>3
<1>3. ASSUME UNCHANGED <<playlist, alive>>,
             \A c \in Conn : Finished(c)' => Finished(c)
      PROVE  HeldInv'
  <2>1. PlaylistSeq'
    BY <1>3 DEF HeldInv, PlaylistSeq, Entry
  <2>2. ASSUME NEW k, NEW c, HeldAt(k, c) PROVE HeldAt(k, c)'
    BY <1>3, <2>2 DEF HeldAt, EntryOf
  <2>3. Held'
    BY <1>3, <2>2 DEF HeldInv, Held
  <2> QED
    BY <1>2, <2>1, <2>3 DEF HeldInv
<1>4. CASE Receiving
  <2>1. UNCHANGED <<playlist, alive>>
    BY <1>4 DEF Receiving, playerVars
  <2>2. TypeOK
    BY DEF HeldInv, IInv
  <2>3. ASSUME NEW c \in Conn, Finished(c)' PROVE Finished(c)
    <3>1. ASSUME NEW d \in Conn, Connect(d) PROVE Finished(c)
      BY <2>2, <2>3, <3>1 DEF Connect, Finished, TypeOK, peerVars
    <3>2. ASSUME NEW d \in Conn, Write(d) PROVE Finished(c)
      BY <2>2, <2>3, <3>2 DEF Write, Finished, TypeOK, Live
    <3>3. ASSUME NEW d \in Conn, Disconnect(d, "fin") \/ Disconnect(d, "rst") PROVE Finished(c)
      BY <2>2, <2>3, <3>3 DEF Disconnect, Finished, TypeOK, Live
    <3>4. CASE acceptConnection
      BY <2>2, <2>3, <3>4 DEF acceptConnection, Finished, TypeOK, peerVars
    <3>5. ASSUME NEW d \in Conn, startRead(d) PROVE Finished(c)
      BY <2>3, <3>5 DEF startRead, Finished, peerVars
    <3> QED
      BY <1>4, <3>1, <3>2, <3>3, <3>4, <3>5 DEF Receiving, PeerStep
  <2> QED
    BY <1>3, <2>1, <2>3
<1>5. CASE data_recieved
  <2>1. PICK d \in Conn : recieve_complete(d)
    BY <1>5 DEF data_recieved
  <2>2. alive /\ handle_recieved_data(ComputerItems(data))
    BY <1>5 DEF data_recieved
  <2>3. PlaylistSeq'
    BY <1>5, PlaylistAdds DEF HeldInv, PlaylistSeq
  <2>4. ASSUME Isolated, alive', NEW c \in Conn, Finished(c)'
        PROVE  \E k \in Nat : HeldAt(k, c)'
    <3>1. CASE c = d
      <4>1. Len(playlist) \in Nat
        BY LenProperties DEF HeldInv, PlaylistSeq
      <4>2. \A k \in Nat : k = Len(playlist) => HeldAt(k, c)'
        BY <1>2, <2>1, <2>2, <2>4, <3>1, HeldAnnounced
      <4> QED
        BY <4>1, <4>2
    <3>2. CASE c # d
      <4>1. Finished(c)
        BY <2>1, <2>4, <3>2 DEF Finished, recieve_complete, HeldInv, IInv, TypeOK, peerVars
      <4>2. PICK k \in Nat : HeldAt(k, c)
        BY <2>2, <2>4, <4>1 DEF HeldInv, Held
      <4>3. PICK new \in Seq(Entry) : playlist' = playlist \o new
        BY <1>5, PlaylistAdds DEF HeldInv
      <4>4. HeldAt(k, c)'
        BY <4>2, <4>3, HeldLonger DEF HeldInv
      <4> QED
        BY <4>4
    <3> QED
      BY <3>1, <3>2
  <2>5. Held'
    BY <2>4 DEF Held
  <2> QED
    BY <1>2, <2>3, <2>5 DEF HeldInv
<1>6. CASE Playing
  <2>1. UNCHANGED <<status, peer, sent>>
    BY <1>6 DEF Playing, vars
  <2>2. UNCHANGED <<playlist, alive>>
    BY <1>6 DEF Playing, check_media_state, play_next_media_in_queue, MediaStep, MediaOpening,
                MediaPlaying, MediaError, MediaEnded
  <2> QED
    BY <1>3, <2>1, <2>2 DEF Finished
<1>7. CASE UNCHANGED displayVars
  BY <1>3, <1>7 DEF displayVars, vars, playerVars, Finished
<1> QED
  BY <1>4, <1>5, <1>6, <1>7 DEF DisplayNext

\* When uploads do not overlap, one that was written whole and closed in good
\* order is in the playlist whole and unbroken once it was announced.
THEOREM WholeUploads == DisplaySpec => []UploadsAreWhole
<1>1. HeldInv => UploadsAreWhole
  <2> SUFFICES ASSUME HeldInv, Isolated, alive, NEW c \in Conn, Finished(c)
               PROVE  \E k \in 0 .. Len(playlist) :
                         /\ k + Len(Payload[c]) <= Len(playlist)
                         /\ SubSeq(playlist, k + 1, k + Len(Payload[c])) = Uploaded(c)
    BY DEF UploadsAreWhole, Finished
  <2>1. PICK k \in Nat : HeldAt(k, c)
    BY DEF HeldInv, Held
  <2> DEFINE L == Len(playlist)
             P == Len(Payload[c])
             w == SubSeq(playlist, k + 1, k + P)
  <2>2. playlist \in Seq(Entry) /\ L \in Nat
    BY LenProperties DEF HeldInv, PlaylistSeq
  <2>3. P \in Nat /\ DOMAIN Payload[c] = 1 .. P
    <3>1. Payload[c] \in Seq(Item)
      BY DisplayAssumption
    <3> QED
      BY <3>1, LenProperties
  <2>4. k + P <= L /\ \A i \in 1 .. P : playlist[k + i] = EntryOf(Payload[c][i])
    BY <2>1 DEF HeldAt
  <2>5. Uploaded(c) = [i \in 1 .. P |-> EntryOf(Payload[c][i])]
    BY <2>3 DEF Uploaded
  <2> HIDE DEF P, L
  <2>6. \A i \in 1 .. P : k + i \in 1 .. L
    BY <2>2, <2>3, <2>4
  <2>7. w = [i \in 1 .. P |-> playlist[k + i]]
    <3>1. (k + P) - (k + 1) + 1 = P
      BY <2>3
    <3>2. \A i \in 1 .. P : (k + 1) + i - 1 = k + i
      BY <2>3
    <3>3. w = [i \in 1 .. (k + P) - (k + 1) + 1 |-> playlist[(k + 1) + i - 1]]
      BY <2>2, <2>3
    <3> QED
      BY <3>1, <3>2, <3>3
  <2>8. w = Uploaded(c)
    BY <2>4, <2>5, <2>7
  <2>9. k \in 0 .. L
    BY <2>2, <2>3, <2>4
  <2> QED
    BY <2>4, <2>8, <2>9 DEF L, P
<1> QED
  BY <1>1, HeldInvInit, HeldInvStep, PTL DEF DisplaySpec
=============================================================================
