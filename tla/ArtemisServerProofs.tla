------------------------- MODULE ArtemisServerProofs -------------------------
(***************************************************************************)
(* Proofs about ArtemisServer: its types, its accept chain, the handlers   *)
(* of a connection, and what becomes of requests.                          *)
(*                                                                         *)
(* The two counting properties are inductive only together with where the  *)
(* handlers that are queued come from: an accept handler's connection was  *)
(* accepted and is not being read yet, so that handle_accept starts the    *)
(* one read it will ever have.  That no thread counts past the last of the *)
(* computers of a request rests in turn on no two threads serving it.      *)
(***************************************************************************)
EXTENDS ArtemisServer, FiniteSetTheorems, SequenceTheorems, TLAPS

\* The places in a queue of handlers of a kind.
Places(s, H) == {i \in DOMAIN s : s[i] \in H}
One(S) == \E x : S = {x}

Accepts == [op : {"accept", "accept_error"}, conn : Conn \cup {NoConn}]
ReadsOf(c) == [op : {"read", "read_error"}, conn : {c}]

QueueOK ==
    \A i \in DOMAIN ready :
        /\ ready[i].op \in {"accept", "read", "read_error"} => ready[i].conn \in Conn
        /\ ready[i].op = "accept" => conn[ready[i].conn] = "accepted"
        /\ ready[i].op = "read_error" => message[ready[i].conn] = "gone"

\* One accept is outstanding, or queued, or being handled.
Chain ==
    IF acceptor = "armed"
    THEN Places(ready, Accepts) = {} /\ Rearming = {}
    ELSE \/ One(Places(ready, Accepts)) /\ Rearming = {}
         \/ Places(ready, Accepts) = {} /\ One(Rearming)

\* So is the one read a connection has, once it has completed.
OneHandler(c) ==
    IF conn[c] = "read"
    THEN \/ One(Places(ready, ReadsOf(c))) /\ ThreadsOf(c) = {}
         \/ Places(ready, ReadsOf(c)) = {} /\ One(ThreadsOf(c))
    ELSE Places(ready, ReadsOf(c)) = {} /\ ThreadsOf(c) = {}
Handling == \A c \in Conn : OneHandler(c)

\* Uploads are of computers the request names.
UploadsInRange ==
    \A t \in Thread : pc[t] = "uploading" => served[task[t]] < Len(Computers[task[t]])

MessagesKnown == \A c \in Conn : conn[c] \in {"read", "done"} => message[c] # "nothing"

\* A request of which a computer was dealt with is done, or in a thread's hands.
BegunIsHeld ==
    \A c \in Conn : served[c] > 0 => conn[c] = "done" \/ ThreadsOf(c) # {}
ExitJoined == process = "exited" => AllJoined

IInv ==
    /\ TypeOK /\ QueueOK /\ Chain /\ Handling /\ UploadsInRange
    /\ MessagesKnown /\ BegunIsHeld /\ ExitJoined

-----------------------------------------------------------------------------
(* The queue. *)

\* A handler that is queued comes last.
LEMMA PlacesAppended ==
    ASSUME NEW S, NEW s \in Seq(S), NEW x \in S, NEW H
    PROVE  /\ Append(s, x) \in Seq(S)
           /\ x \in H => Places(Append(s, x), H) = Places(s, H) \cup {Len(s) + 1}
           /\ x \notin H => Places(Append(s, x), H) = Places(s, H)
<1>1. /\ Append(s, x) \in Seq(S) /\ Len(Append(s, x)) = Len(s) + 1
      /\ Len(s) \in Nat /\ DOMAIN s = 1 .. Len(s)
      /\ DOMAIN Append(s, x) = 1 .. Len(s) + 1
      /\ \A i \in 1 .. Len(s) : Append(s, x)[i] = s[i]
      /\ Append(s, x)[Len(s) + 1] = x
  OBVIOUS
<1> QED
  BY <1>1 DEF Places

\* A handler that is taken came first; the others move up.
LEMMA PlacesTaken ==
    ASSUME NEW S, NEW s \in Seq(S), s # <<>>, NEW H
    PROVE  /\ Tail(s) \in Seq(S) /\ Head(s) \in S
           /\ Places(s, H) = {} => Places(Tail(s), H) = {} /\ Head(s) \notin H
           /\ Head(s) \in H /\ One(Places(s, H)) => Places(Tail(s), H) = {}
           /\ Head(s) \notin H /\ One(Places(s, H)) => One(Places(Tail(s), H))
<1>1. /\ Tail(s) \in Seq(S) /\ Head(s) \in S
      /\ Len(s) \in Nat /\ Len(s) > 0 /\ DOMAIN s = 1 .. Len(s)
      /\ DOMAIN Tail(s) = 1 .. Len(s) - 1
      /\ Head(s) = s[1] /\ 1 \in DOMAIN s
      /\ \A i \in 1 .. Len(s) - 1 : Tail(s)[i] = s[i + 1]
  OBVIOUS
<1>2. \A i \in DOMAIN Tail(s) : i + 1 \in DOMAIN s /\ Tail(s)[i] = s[i + 1] /\ i + 1 # 1
  BY <1>1
<1>3. Places(s, H) = {} => Places(Tail(s), H) = {} /\ Head(s) \notin H
  BY <1>1, <1>2 DEF Places
<1>4. ASSUME NEW k, Places(s, H) = {k}, Head(s) \in H
      PROVE  Places(Tail(s), H) = {}
  <2>1. k = 1
    BY <1>1, <1>4 DEF Places
  <2> QED
    BY <1>2, <1>4, <2>1 DEF Places
<1>5. ASSUME NEW k, Places(s, H) = {k}, Head(s) \notin H
      PROVE  Places(Tail(s), H) = {k - 1}
  <2>1. k \in DOMAIN s /\ s[k] \in H /\ k # 1
    BY <1>1, <1>5 DEF Places
  <2>2. k - 1 \in DOMAIN Tail(s) /\ Tail(s)[k - 1] = s[k]
    BY <1>1, <2>1
  <2>3. \A i \in DOMAIN Tail(s) : Tail(s)[i] \in H => i = k - 1
    BY <1>1, <1>2, <1>5, <2>1 DEF Places
  <2> QED
    BY <2>1, <2>2, <2>3 DEF Places
<1> QED
  BY <1>1, <1>3, <1>4, <1>5 DEF One

-----------------------------------------------------------------------------
(* Steps of the environment. *)

\* A manager connects: nothing of the server has changed.
LEMMA ManagerConnectsKeeps ==
    ASSUME IInv, NEW c \in Conn, ManagerConnects(c)
    PROVE  IInv'
<1> USE DEF IInv
<1>1. /\ conn[c] = "none" /\ conn' = [conn EXCEPT ![c] = "backlog"]
      /\ UNCHANGED <<ready, acceptor, message, pc, task, served, stopped, signalled,
                     errors, process, unresolvable, hung>>
  BY DEF ManagerConnects, shared, control, faults
<1>2. TypeOK'
  BY <1>1 DEF TypeOK, InRequest
<1>3. \A d \in Conn : conn'[d] = (IF d = c THEN "backlog" ELSE conn[d])
  BY <1>1 DEF TypeOK
<1>4. QueueOK'
  BY <1>1, <1>3 DEF QueueOK
<1>5. Chain' /\ UploadsInRange' /\ ExitJoined'
  BY <1>1 DEF Chain, Rearming, UploadsInRange, ExitJoined, AllJoined
<1>6. \A d \in Conn : ThreadsOf(d)' = ThreadsOf(d)
  BY <1>1 DEF ThreadsOf, InRequest
<1>7. Handling' /\ MessagesKnown' /\ BegunIsHeld'
  BY <1>1, <1>3, <1>6 DEF Handling, OneHandler, MessagesKnown, BegunIsHeld
<1> QED
  BY <1>2, <1>4, <1>5, <1>7

\* A message changes from nothing once, so that what was read stays known.
LEMMA ManagerSendsKeeps ==
    ASSUME IInv, NEW c \in Conn, NEW what \in {"sent", "gone"}, ManagerSends(c, what)
    PROVE  IInv'
<1> USE DEF IInv
<1>1. /\ message[c] = "nothing" /\ message' = [message EXCEPT ![c] = what]
      /\ UNCHANGED <<ready, acceptor, conn, pc, task, served, stopped, signalled,
                     errors, process, unresolvable, hung>>
  BY DEF ManagerSends, shared, control, faults
<1>2. TypeOK'
  BY <1>1 DEF TypeOK, InRequest
<1>3. \A d \in Conn : message'[d] = (IF d = c THEN what ELSE message[d])
  BY <1>1 DEF TypeOK
<1>4. QueueOK'
  BY <1>1, <1>3 DEF QueueOK
<1>5. Chain' /\ UploadsInRange' /\ ExitJoined'
  BY <1>1 DEF Chain, Rearming, UploadsInRange, ExitJoined, AllJoined
<1>6. \A d \in Conn : ThreadsOf(d)' = ThreadsOf(d)
  BY <1>1 DEF ThreadsOf, InRequest
<1>7. Handling' /\ BegunIsHeld'
  BY <1>1, <1>6 DEF Handling, OneHandler, BegunIsHeld
<1>8. MessagesKnown'
  BY <1>1, <1>3 DEF MessagesKnown
<1> QED
  BY <1>2, <1>4, <1>5, <1>7, <1>8

\* An operation that completes queues its handler: what is so of the handlers
\* that were queued, and of the new one, is so of all.
LEMMA QueueGrows ==
    ASSUME TypeOK, QueueOK, NEW h \in Handlers, ready' = Append(ready, h),
           message' = message,
           \A d \in Conn : conn[d] = "accepted" => conn'[d] = "accepted",
           h.op \in {"accept", "read", "read_error"} => h.conn \in Conn,
           h.op = "accept" => conn'[h.conn] = "accepted",
           h.op = "read_error" => message[h.conn] = "gone"
    PROVE  QueueOK'
<1>1. /\ Len(ready) \in Nat /\ DOMAIN ready = 1 .. Len(ready)
      /\ DOMAIN ready' = 1 .. Len(ready) + 1
      /\ \A i \in 1 .. Len(ready) : ready'[i] = ready[i]
      /\ ready'[Len(ready) + 1] = h
  BY DEF TypeOK
<1>2. ASSUME NEW i \in DOMAIN ready', ready'[i] = h
      PROVE  /\ ready'[i].op \in {"accept", "read", "read_error"} => ready'[i].conn \in Conn
             /\ ready'[i].op = "accept" => conn'[ready'[i].conn] = "accepted"
             /\ ready'[i].op = "read_error" => message'[ready'[i].conn] = "gone"
  BY <1>2
<1>3. ASSUME NEW i \in DOMAIN ready, ready'[i] = ready[i]
      PROVE  /\ ready'[i].op \in {"accept", "read", "read_error"} => ready'[i].conn \in Conn
             /\ ready'[i].op = "accept" => conn'[ready'[i].conn] = "accepted"
             /\ ready'[i].op = "read_error" => message'[ready'[i].conn] = "gone"
  BY <1>3 DEF QueueOK
<1>4. \A i \in DOMAIN ready' : ready'[i] = h \/ (i \in DOMAIN ready /\ ready'[i] = ready[i])
  BY <1>1
<1> QED
  BY <1>2, <1>3, <1>4 DEF QueueOK

\* The outstanding accept becomes a queued one, of an accepted connection.
LEMMA AcceptCompletesKeeps ==
    ASSUME ArtemisServerAssumption, IInv, NEW c \in Conn, AcceptCompletes(c)
    PROVE  IInv'
<1> USE DEF IInv
<1> DEFINE h == Handler("accept", c)
<1>1. /\ acceptor = "armed" /\ acceptor' = "idle" /\ conn[c] = "backlog"
      /\ conn' = [conn EXCEPT ![c] = "accepted"] /\ ready' = Append(ready, h)
      /\ UNCHANGED <<message, pc, task, served, stopped, signalled, errors, process,
                     unresolvable, hung>>
  BY DEF AcceptCompletes, control, faults
<1>2. \A d \in Conn : conn'[d] = (IF d = c THEN "accepted" ELSE conn[d])
  BY <1>1 DEF TypeOK
<1>3. /\ h \in Handlers /\ h.op = "accept" /\ h.conn = c
      /\ h \in Accepts /\ \A d \in Conn : h \notin ReadsOf(d)
  BY DEF Handler, Handlers, Accepts, ReadsOf
<1>4. ready \in Seq(Handlers)
  BY DEF TypeOK
<1> HIDE DEF h
<1>5. /\ ready' \in Seq(Handlers)
      /\ Places(ready', Accepts) = Places(ready, Accepts) \cup {Len(ready) + 1}
      /\ \A d \in Conn : Places(ready', ReadsOf(d)) = Places(ready, ReadsOf(d))
  BY <1>1, <1>3, <1>4, PlacesAppended
<1>6. TypeOK'
  BY <1>1, <1>5 DEF TypeOK, InRequest
<1>7. QueueOK'
  BY <1>1, <1>2, <1>3, QueueGrows
<1>8. Chain'
  <2>1. Rearming' = Rearming
    BY <1>1 DEF Rearming
  <2> QED
    BY <1>1, <1>5, <2>1 DEF Chain, One
<1>9. UploadsInRange' /\ ExitJoined'
  BY <1>1 DEF UploadsInRange, ExitJoined, AllJoined
<1>10. \A d \in Conn : ThreadsOf(d)' = ThreadsOf(d)
  BY <1>1 DEF ThreadsOf, InRequest
<1>11. Handling' /\ MessagesKnown' /\ BegunIsHeld'
  BY <1>1, <1>2, <1>5, <1>10
     DEF Handling, OneHandler, MessagesKnown, BegunIsHeld
<1> QED
  BY <1>6, <1>7, <1>8, <1>9, <1>11

\* So does one that failed, of no connection.
LEMMA AcceptFailsKeeps ==
    ASSUME ArtemisServerAssumption, IInv, AcceptFails
    PROVE  IInv'
<1> USE DEF IInv
<1> DEFINE h == Handler("accept_error", NoConn)
<1>1. /\ acceptor = "armed" /\ acceptor' = "idle"
      /\ ready' = Append(ready, h) /\ errors < MaxErrors /\ errors' = errors + 1
      /\ UNCHANGED <<conn, message, pc, task, served, stopped, signalled, process,
                     unresolvable, hung>>
  BY DEF AcceptFails, clients, faults
<1>2. /\ h \in Handlers /\ h.op = "accept_error"
      /\ h \in Accepts /\ \A d \in Conn : h \notin ReadsOf(d)
  BY DEF Handler, Handlers, Accepts, ReadsOf
<1>3. ready \in Seq(Handlers) /\ errors' \in 0 .. MaxErrors
  BY <1>1 DEF TypeOK, ArtemisServerAssumption
<1> HIDE DEF h
<1>4. /\ ready' \in Seq(Handlers)
      /\ Places(ready', Accepts) = Places(ready, Accepts) \cup {Len(ready) + 1}
      /\ \A d \in Conn : Places(ready', ReadsOf(d)) = Places(ready, ReadsOf(d))
  BY <1>1, <1>2, <1>3, PlacesAppended
<1>5. TypeOK'
  BY <1>1, <1>3, <1>4 DEF TypeOK, InRequest
<1>6. QueueOK'
  BY <1>1, <1>2, QueueGrows
<1>7. Chain'
  <2>1. Rearming' = Rearming
    BY <1>1 DEF Rearming
  <2> QED
    BY <1>1, <1>4, <2>1 DEF Chain, One
<1>8. UploadsInRange' /\ ExitJoined' /\ MessagesKnown'
  BY <1>1 DEF UploadsInRange, ExitJoined, AllJoined, MessagesKnown
<1>9. \A d \in Conn : ThreadsOf(d)' = ThreadsOf(d)
  BY <1>1 DEF ThreadsOf, InRequest
<1>10. Handling' /\ BegunIsHeld'
  BY <1>1, <1>4, <1>9 DEF Handling, OneHandler, BegunIsHeld
<1> QED
  BY <1>5, <1>6, <1>7, <1>8, <1>10

\* The one read of a connection becomes a queued handler.
LEMMA ReadCompletesKeeps ==
    ASSUME ArtemisServerAssumption, IInv, NEW c \in Conn, ReadCompletes(c)
    PROVE  IInv'
<1> USE DEF IInv
<1> DEFINE h == Handler(IF message[c] = "sent" THEN "read" ELSE "read_error", c)
<1>1. /\ conn[c] = "reading" /\ message[c] # "nothing"
      /\ conn' = [conn EXCEPT ![c] = "read"] /\ ready' = Append(ready, h)
      /\ UNCHANGED <<acceptor, message, pc, task, served, stopped, signalled, errors,
                     process, unresolvable, hung>>
  BY DEF ReadCompletes, control, faults
<1>2. \A d \in Conn : conn'[d] = (IF d = c THEN "read" ELSE conn[d])
  BY <1>1 DEF TypeOK
<1>3. /\ h \in Handlers /\ h.op \in {"read", "read_error"} /\ h.conn = c
      /\ h \notin Accepts /\ \A d \in Conn : h \in ReadsOf(d) <=> d = c
  BY DEF Handler, Handlers, Accepts, ReadsOf
<1>4. h.op = "read_error" => message[h.conn] = "gone"
  BY <1>1 DEF TypeOK, Handler
<1>5. ready \in Seq(Handlers)
  BY DEF TypeOK
<1> HIDE DEF h
<1>6. /\ ready' \in Seq(Handlers)
      /\ Places(ready', Accepts) = Places(ready, Accepts)
      /\ \A d \in Conn : Places(ready', ReadsOf(d)) =
            Places(ready, ReadsOf(d)) \cup (IF d = c THEN {Len(ready) + 1} ELSE {})
  BY <1>1, <1>3, <1>5, PlacesAppended
<1>7. TypeOK'
  BY <1>1, <1>6 DEF TypeOK, InRequest
<1>8. QueueOK'
  BY <1>1, <1>2, <1>3, <1>4, QueueGrows
<1>9. Chain'
  BY <1>1, <1>6 DEF Chain, Rearming
<1>10. UploadsInRange' /\ ExitJoined'
  BY <1>1 DEF UploadsInRange, ExitJoined, AllJoined
<1>11. \A d \in Conn : ThreadsOf(d)' = ThreadsOf(d)
  BY <1>1 DEF ThreadsOf, InRequest
<1>12. Handling'
  BY <1>1, <1>2, <1>6, <1>11 DEF Handling, OneHandler, One
<1>13. MessagesKnown' /\ BegunIsHeld'
  BY <1>1, <1>2, <1>11 DEF MessagesKnown, BegunIsHeld
<1> QED
  BY <1>7, <1>8, <1>9, <1>10, <1>12, <1>13

\* A signal's handler is neither an accept nor a read.
LEMMA SignalArrivesKeeps ==
    ASSUME ArtemisServerAssumption, IInv, SignalArrives
    PROVE  IInv'
<1> USE DEF IInv
<1> DEFINE h == Handler("stop", NoConn)
<1>1. /\ ready' = Append(ready, h) /\ signalled' = TRUE
      /\ UNCHANGED <<acceptor, conn, message, pc, task, served, stopped, errors,
                     process, unresolvable, hung>>
  BY DEF SignalArrives, clients, faults
<1>2. /\ h \in Handlers /\ h.op = "stop"
      /\ h \notin Accepts /\ \A d \in Conn : h \notin ReadsOf(d)
  BY DEF Handler, Handlers, Accepts, ReadsOf
<1>3. ready \in Seq(Handlers)
  BY DEF TypeOK
<1> HIDE DEF h
<1>4. /\ ready' \in Seq(Handlers)
      /\ Places(ready', Accepts) = Places(ready, Accepts)
      /\ \A d \in Conn : Places(ready', ReadsOf(d)) = Places(ready, ReadsOf(d))
  BY <1>1, <1>2, <1>3, PlacesAppended
<1>5. TypeOK'
  BY <1>1, <1>4 DEF TypeOK, InRequest
<1>6. QueueOK'
  BY <1>1, <1>2, QueueGrows
<1>7. Chain' /\ UploadsInRange' /\ ExitJoined' /\ MessagesKnown'
  BY <1>1, <1>4
     DEF Chain, Rearming, UploadsInRange, ExitJoined, AllJoined, MessagesKnown
<1>8. \A d \in Conn : ThreadsOf(d)' = ThreadsOf(d)
  BY <1>1 DEF ThreadsOf, InRequest
<1>9. Handling' /\ BegunIsHeld'
  BY <1>1, <1>4, <1>8 DEF Handling, OneHandler, BegunIsHeld
<1> QED
  BY <1>5, <1>6, <1>7, <1>9

-----------------------------------------------------------------------------
(* Steps of the threads that take a handler. *)

\* What is so of the handlers that are queued is so of those behind the first,
\* unless the first was an accept handler whose connection is being read now.
LEMMA QueueShrinks ==
    ASSUME TypeOK, QueueOK, ready # <<>>, ready' = Tail(ready), message' = message,
           \A i \in DOMAIN Tail(ready) :
               Tail(ready)[i].op = "accept" => conn'[Tail(ready)[i].conn] = "accepted"
    PROVE  QueueOK'
<1>1. \A i \in DOMAIN Tail(ready) :
          i + 1 \in DOMAIN ready /\ Tail(ready)[i] = ready[i + 1]
  BY DEF TypeOK
<1> QED
  BY <1>1 DEF QueueOK

\* The thread that takes a handler waited, and runs no request or accept then.
LEMMA TakerWaits ==
    ASSUME TypeOK, NEW t \in Thread, NEW op, Takes(t, op)
    PROVE  /\ ready \in Seq(Handlers) /\ ready # <<>> /\ ready' = Tail(ready)
           /\ Head(ready) \in Handlers /\ Head(ready).op = op
           /\ 1 \in DOMAIN ready /\ ready[1] = Head(ready)
           /\ process = "up" /\ pc[t] = "wait"
BY DEF Takes, TypeOK

\* The accept that was queued is in the hands of a thread, and the read is started.
LEMMA handle_accept_keeps ==
    ASSUME ArtemisServerAssumption, IInv, NEW t \in Thread, handle_accept(t)
    PROVE  IInv'
<1> USE DEF IInv
<1> DEFINE c == Head(ready).conn
<1>1. Takes(t, "accept")
  BY DEF handle_accept
<1>2. /\ ready \in Seq(Handlers) /\ ready # <<>> /\ ready' = Tail(ready)
      /\ Head(ready) \in Handlers /\ Head(ready).op = "accept"
      /\ 1 \in DOMAIN ready /\ ready[1] = Head(ready) /\ pc[t] = "wait"
      /\ process = "up"
  BY <1>1, TakerWaits
<1>3. c \in Conn /\ conn[c] = "accepted"
  BY <1>2 DEF QueueOK
<1>4. Head(ready) \in Accepts /\ \A d \in Conn : Head(ready) \notin ReadsOf(d)
  BY <1>2 DEF Accepts, ReadsOf, Handlers
<1>5. /\ conn' = [conn EXCEPT ![c] = "reading"]
      /\ pc' = [pc EXCEPT ![t] = "rearm"] /\ task' = [task EXCEPT ![t] = NoConn]
      /\ UNCHANGED <<acceptor, message, served, stopped, signalled, errors, process,
                     unresolvable, hung>>
  BY DEF handle_accept, Goto, control, faults
<1>6. \A d \in Conn : conn'[d] = (IF d = c THEN "reading" ELSE conn[d])
  BY <1>5, <1>3 DEF TypeOK
<1>7. \A u \in Thread : /\ pc'[u] = (IF u = t THEN "rearm" ELSE pc[u])
                        /\ u # t => task'[u] = task[u]
  BY <1>5 DEF TypeOK
<1>8. /\ ready' \in Seq(Handlers) /\ One(Places(ready, Accepts))
      /\ Places(ready', Accepts) = {}
      /\ \A d \in Conn : /\ Places(ready, ReadsOf(d)) = {} => Places(ready', ReadsOf(d)) = {}
                         /\ One(Places(ready, ReadsOf(d))) => One(Places(ready', ReadsOf(d)))
  BY <1>2, <1>4, PlacesTaken DEF Chain
<1> HIDE DEF c
<1>9. TypeOK'
  <2>1. /\ conn' \in [Conn -> {"none", "backlog", "accepted", "reading", "read", "done"}]
        /\ pc' \in [Thread -> {"wait", "rearm", "request", "uploading", "returned"}]
        /\ task' \in [Thread -> Conn \cup {NoConn}]
    BY <1>5 DEF TypeOK
  <2>2. \A u \in Thread : InRequest(u)' => task'[u] \in Conn
    BY <1>7 DEF TypeOK, InRequest
  <2> QED
    BY <1>5, <1>8, <2>1, <2>2 DEF TypeOK
<1>10. QueueOK'
  <2>1. \A i \in DOMAIN Tail(ready) : Tail(ready)[i] \notin Accepts
    BY <1>2, <1>8 DEF Places
  <2>2. \A i \in DOMAIN Tail(ready) : Tail(ready)[i] \in Handlers
    BY <1>2, <1>8
  <2>3. \A i \in DOMAIN Tail(ready) : Tail(ready)[i].op # "accept"
    BY <2>1, <2>2 DEF Accepts, Handlers
  <2> QED
    BY <1>2, <1>5, <2>3, QueueShrinks
<1>11. Chain'
  <2>1. acceptor' # "armed" /\ Rearming = {}
    BY <1>4, <1>5, <1>8 DEF Chain, One
  <2>2. Rearming' = {t}
    BY <1>7, <2>1 DEF Rearming
  <2> QED
    BY <1>8, <2>1, <2>2 DEF Chain, One
<1>12. \A d \in Conn : ThreadsOf(d)' = ThreadsOf(d)
  BY <1>2, <1>7 DEF ThreadsOf, InRequest
<1>13. Handling'
  BY <1>3, <1>6, <1>8, <1>12 DEF Handling, OneHandler
<1>14. UploadsInRange' /\ ExitJoined'
  BY <1>2, <1>5, <1>7 DEF UploadsInRange, ExitJoined
<1>15. MessagesKnown' /\ BegunIsHeld'
  BY <1>3, <1>5, <1>6, <1>12 DEF MessagesKnown, BegunIsHeld
<1> QED
  BY <1>9, <1>10, <1>11, <1>13, <1>14, <1>15

\* So is one that failed, and no read is started.
LEMMA handle_accept_error_keeps ==
    ASSUME ArtemisServerAssumption, IInv, NEW t \in Thread, handle_accept_error(t)
    PROVE  IInv'
<1> USE DEF IInv
<1>1. Takes(t, "accept_error")
  BY DEF handle_accept_error
<1>2. /\ ready \in Seq(Handlers) /\ ready # <<>> /\ ready' = Tail(ready)
      /\ Head(ready) \in Handlers /\ Head(ready).op = "accept_error"
      /\ pc[t] = "wait" /\ process = "up"
  BY <1>1, TakerWaits
<1>3. Head(ready) \in Accepts /\ \A d \in Conn : Head(ready) \notin ReadsOf(d)
  BY <1>2 DEF Accepts, ReadsOf, Handlers
<1>4. /\ pc' = [pc EXCEPT ![t] = "rearm"] /\ task' = [task EXCEPT ![t] = NoConn]
      /\ UNCHANGED <<acceptor, conn, message, served, stopped, signalled, errors, process,
                     unresolvable, hung>>
  BY DEF handle_accept_error, AfterAcceptError, Goto, clients, control, faults
<1>5. \A u \in Thread : /\ pc'[u] = (IF u = t THEN "rearm" ELSE pc[u])
                        /\ u # t => task'[u] = task[u]
  BY <1>4 DEF TypeOK
<1>6. /\ ready' \in Seq(Handlers) /\ One(Places(ready, Accepts))
      /\ Places(ready', Accepts) = {}
      /\ \A d \in Conn : /\ Places(ready, ReadsOf(d)) = {} => Places(ready', ReadsOf(d)) = {}
                         /\ One(Places(ready, ReadsOf(d))) => One(Places(ready', ReadsOf(d)))
  BY <1>2, <1>3, PlacesTaken DEF Chain
<1>7. TypeOK'
  <2>1. /\ pc' \in [Thread -> {"wait", "rearm", "request", "uploading", "returned"}]
        /\ task' \in [Thread -> Conn \cup {NoConn}]
    BY <1>4 DEF TypeOK
  <2>2. \A u \in Thread : InRequest(u)' => task'[u] \in Conn
    BY <1>5 DEF TypeOK, InRequest
  <2> QED
    BY <1>4, <1>6, <2>1, <2>2 DEF TypeOK
<1>8. QueueOK'
  <2>1. \A i \in DOMAIN Tail(ready) :
            i + 1 \in DOMAIN ready /\ Tail(ready)[i] = ready[i + 1]
    BY <1>2
  <2> QED
    BY <1>4, <1>2, <2>1 DEF QueueOK
<1>9. Chain'
  <2>1. acceptor' # "armed" /\ Rearming = {}
    BY <1>4, <1>6 DEF Chain, One
  <2>2. Rearming' = {t}
    BY <1>5, <2>1 DEF Rearming
  <2> QED
    BY <1>6, <2>1, <2>2 DEF Chain, One
<1>10. \A d \in Conn : ThreadsOf(d)' = ThreadsOf(d)
  BY <1>2, <1>5 DEF ThreadsOf, InRequest
<1>11. Handling' /\ MessagesKnown' /\ BegunIsHeld'
  BY <1>4, <1>6, <1>10
     DEF Handling, OneHandler, MessagesKnown, BegunIsHeld
<1>12. UploadsInRange' /\ ExitJoined'
  BY <1>2, <1>4, <1>5 DEF UploadsInRange, ExitJoined
<1> QED
  BY <1>7, <1>8, <1>9, <1>11, <1>12

\* The error handler was the connection's one handler, and leaves none.
LEMMA handle_read_error_keeps ==
    ASSUME ArtemisServerAssumption, IInv, NEW t \in Thread, handle_read_error(t)
    PROVE  IInv'
<1> USE DEF IInv
<1> DEFINE c == Head(ready).conn
<1>1. Takes(t, "read_error")
  BY DEF handle_read_error
<1>2. /\ ready \in Seq(Handlers) /\ ready # <<>> /\ ready' = Tail(ready)
      /\ Head(ready) \in Handlers /\ Head(ready).op = "read_error"
      /\ 1 \in DOMAIN ready /\ ready[1] = Head(ready) /\ process = "up"
  BY <1>1, TakerWaits
<1>3. c \in Conn /\ message[c] = "gone"
  BY <1>2 DEF QueueOK
<1>4. Head(ready) \notin Accepts /\ \A d \in Conn : Head(ready) \in ReadsOf(d) <=> d = c
  BY <1>2, <1>3 DEF Accepts, ReadsOf, Handlers
<1>5. /\ conn' = [conn EXCEPT ![c] = "done"]
      /\ UNCHANGED <<acceptor, message, pc, task, served, stopped, signalled, errors,
                     process, unresolvable, hung>>
  BY DEF handle_read_error, control, faults
<1>6. \A d \in Conn : conn'[d] = (IF d = c THEN "done" ELSE conn[d])
  BY <1>5, <1>3 DEF TypeOK
<1>7. /\ ready' \in Seq(Handlers)
      /\ Places(ready, Accepts) = {} => Places(ready', Accepts) = {}
      /\ One(Places(ready, Accepts)) => One(Places(ready', Accepts))
  BY <1>2, <1>4, PlacesTaken
<1>8. \A d \in Conn \ {c} :
          /\ Places(ready, ReadsOf(d)) = {} => Places(ready', ReadsOf(d)) = {}
          /\ One(Places(ready, ReadsOf(d))) => One(Places(ready', ReadsOf(d)))
  BY <1>2, <1>4, PlacesTaken
<1>9. /\ Places(ready, ReadsOf(c)) # {}
      /\ One(Places(ready, ReadsOf(c))) => Places(ready', ReadsOf(c)) = {}
  <2>1. Head(ready) \in ReadsOf(c)
    BY <1>3, <1>4
  <2> QED
    BY <1>2, <2>1, PlacesTaken
<1>10. conn[c] = "read" /\ ThreadsOf(c) = {} /\ Places(ready', ReadsOf(c)) = {}
  BY <1>3, <1>9 DEF Handling, OneHandler
<1> HIDE DEF c
<1>11. TypeOK'
  BY <1>3, <1>5, <1>7 DEF TypeOK, InRequest
<1>12. QueueOK'
  <2>1. \A i \in DOMAIN Tail(ready) :
            i + 1 \in DOMAIN ready /\ Tail(ready)[i] = ready[i + 1]
    BY <1>2
  <2>2. \A i \in DOMAIN ready : ready[i].op = "accept" => ready[i].conn # c
    BY <1>10 DEF QueueOK
  <2>3. \A i \in DOMAIN ready :
            ready[i].op = "accept" => conn'[ready[i].conn] = "accepted"
    BY <1>6, <2>2 DEF QueueOK
  <2> QED
    BY <1>2, <1>5, <2>1, <2>3, QueueShrinks
<1>13. Chain' /\ UploadsInRange' /\ ExitJoined'
  BY <1>5, <1>7 DEF Chain, Rearming, UploadsInRange, ExitJoined, AllJoined
<1>14. \A d \in Conn : ThreadsOf(d)' = ThreadsOf(d)
  BY <1>5 DEF ThreadsOf, InRequest
<1>15. Handling'
  BY <1>6, <1>8, <1>10, <1>14 DEF Handling, OneHandler
<1>16. MessagesKnown' /\ BegunIsHeld'
  BY <1>3, <1>5, <1>6, <1>14 DEF MessagesKnown, BegunIsHeld
<1> QED
  BY <1>11, <1>12, <1>13, <1>15, <1>16

\* The read handler passes from the queue to the thread.
LEMMA handle_read_keeps ==
    ASSUME ArtemisServerAssumption, IInv, NEW t \in Thread, handle_read(t)
    PROVE  IInv'
<1> USE DEF IInv
<1> DEFINE c == Head(ready).conn
<1>1. Takes(t, "read")
  BY DEF handle_read
<1>2. /\ ready \in Seq(Handlers) /\ ready # <<>> /\ ready' = Tail(ready)
      /\ Head(ready) \in Handlers /\ Head(ready).op = "read"
      /\ 1 \in DOMAIN ready /\ ready[1] = Head(ready) /\ process = "up"
      /\ pc[t] = "wait"
  BY <1>1, TakerWaits
<1>3. c \in Conn
  BY <1>2 DEF QueueOK
<1>4. Head(ready) \notin Accepts /\ \A d \in Conn : Head(ready) \in ReadsOf(d) <=> d = c
  BY <1>2, <1>3 DEF Accepts, ReadsOf, Handlers
<1>5. /\ pc' = [pc EXCEPT ![t] = "request"] /\ task' = [task EXCEPT ![t] = c]
      /\ UNCHANGED <<acceptor, conn, message, served, stopped, signalled, errors,
                     process, unresolvable, hung>>
  BY DEF handle_read, Goto, clients, control, faults
<1>6. \A u \in Thread : /\ pc'[u] = (IF u = t THEN "request" ELSE pc[u])
                        /\ task'[u] = (IF u = t THEN c ELSE task[u])
  BY <1>5 DEF TypeOK
<1>7. /\ ready' \in Seq(Handlers)
      /\ Places(ready, Accepts) = {} => Places(ready', Accepts) = {}
      /\ One(Places(ready, Accepts)) => One(Places(ready', Accepts))
  BY <1>2, <1>4, PlacesTaken
<1>8. \A d \in Conn \ {c} :
          /\ Places(ready, ReadsOf(d)) = {} => Places(ready', ReadsOf(d)) = {}
          /\ One(Places(ready, ReadsOf(d))) => One(Places(ready', ReadsOf(d)))
  BY <1>2, <1>4, PlacesTaken
<1>9. /\ Places(ready, ReadsOf(c)) # {}
      /\ One(Places(ready, ReadsOf(c))) => Places(ready', ReadsOf(c)) = {}
  <2>1. Head(ready) \in ReadsOf(c)
    BY <1>3, <1>4
  <2> QED
    BY <1>2, <2>1, PlacesTaken
<1>10. conn[c] = "read" /\ ThreadsOf(c) = {} /\ Places(ready', ReadsOf(c)) = {}
  BY <1>3, <1>9 DEF Handling, OneHandler
<1> HIDE DEF c
<1>11. TypeOK'
  <2>1. /\ pc' \in [Thread -> {"wait", "rearm", "request", "uploading", "returned"}]
        /\ task' \in [Thread -> Conn \cup {NoConn}]
    BY <1>3, <1>5 DEF TypeOK
  <2>2. \A u \in Thread : InRequest(u)' => task'[u] \in Conn
    BY <1>3, <1>6 DEF TypeOK, InRequest
  <2> QED
    BY <1>5, <1>7, <2>1, <2>2 DEF TypeOK
<1>12. QueueOK'
  <2>1. \A i \in DOMAIN Tail(ready) :
            i + 1 \in DOMAIN ready /\ Tail(ready)[i] = ready[i + 1]
    BY <1>2
  <2> QED
    BY <1>2, <1>5, <2>1, QueueShrinks DEF QueueOK
<1>13. Chain'
  <2>1. Rearming' = Rearming
    BY <1>2, <1>6 DEF Rearming
  <2> QED
    BY <1>5, <1>7, <2>1 DEF Chain
<1>14. UploadsInRange' /\ ExitJoined'
  BY <1>2, <1>5, <1>6 DEF UploadsInRange, ExitJoined
<1>15. \A d \in Conn : ThreadsOf(d)' = (IF d = c THEN {t} ELSE ThreadsOf(d))
  BY <1>2, <1>6, <1>10 DEF ThreadsOf, InRequest
<1>16. Handling'
  BY <1>5, <1>8, <1>10, <1>15 DEF Handling, OneHandler, One
<1>17. MessagesKnown' /\ BegunIsHeld'
  BY <1>5, <1>15 DEF MessagesKnown, BegunIsHeld
<1> QED
  BY <1>11, <1>12, <1>13, <1>14, <1>16, <1>17

\* A stop takes neither an accept nor a read out of the queue.
LEMMA handle_stop_keeps ==
    ASSUME ArtemisServerAssumption, IInv, NEW t \in Thread, handle_stop(t)
    PROVE  IInv'
<1> USE DEF IInv
<1>1. Takes(t, "stop")
  BY DEF handle_stop
<1>2. /\ ready \in Seq(Handlers) /\ ready # <<>> /\ ready' = Tail(ready)
      /\ Head(ready) \in Handlers /\ Head(ready).op = "stop"
  BY <1>1, TakerWaits
<1>3. Head(ready) \notin Accepts /\ \A d \in Conn : Head(ready) \notin ReadsOf(d)
  BY <1>2 DEF Accepts, ReadsOf, Handlers
<1>4. /\ stopped' = TRUE
      /\ UNCHANGED <<acceptor, conn, message, pc, task, served, signalled, errors,
                     process, unresolvable, hung>>
  BY DEF handle_stop, clients, faults
<1>5. /\ ready' \in Seq(Handlers)
      /\ Places(ready, Accepts) = {} => Places(ready', Accepts) = {}
      /\ One(Places(ready, Accepts)) => One(Places(ready', Accepts))
      /\ \A d \in Conn : /\ Places(ready, ReadsOf(d)) = {} => Places(ready', ReadsOf(d)) = {}
                         /\ One(Places(ready, ReadsOf(d))) => One(Places(ready', ReadsOf(d)))
  BY <1>2, <1>3, PlacesTaken
<1>6. TypeOK'
  BY <1>4, <1>5 DEF TypeOK, InRequest
<1>7. QueueOK'
  <2>1. \A i \in DOMAIN Tail(ready) :
            i + 1 \in DOMAIN ready /\ Tail(ready)[i] = ready[i + 1]
    BY <1>2
  <2> QED
    BY <1>2, <1>4, <2>1, QueueShrinks DEF QueueOK
<1>8. Chain' /\ UploadsInRange' /\ ExitJoined' /\ MessagesKnown'
  BY <1>4, <1>5
     DEF Chain, Rearming, UploadsInRange, ExitJoined, AllJoined, MessagesKnown
<1>9. \A d \in Conn : ThreadsOf(d)' = ThreadsOf(d)
  BY <1>4 DEF ThreadsOf, InRequest
<1>10. Handling' /\ BegunIsHeld'
  BY <1>4, <1>5, <1>9 DEF Handling, OneHandler, BegunIsHeld
<1> QED
  BY <1>6, <1>7, <1>8, <1>10

-----------------------------------------------------------------------------
(* Steps of the threads within a handler. *)

\* The accept that a thread held is outstanding again.
LEMMA start_accept_keeps ==
    ASSUME ArtemisServerAssumption, IInv, NEW t \in Thread, start_accept(t)
    PROVE  IInv'
<1> USE DEF IInv
<1>1. /\ process = "up" /\ pc[t] = "rearm" /\ acceptor' = "armed"
      /\ pc' = [pc EXCEPT ![t] = "wait"] /\ task' = [task EXCEPT ![t] = NoConn]
      /\ UNCHANGED <<ready, conn, message, served, stopped, signalled, errors,
                     process, unresolvable, hung>>
  BY DEF start_accept, At, Goto, clients, control, faults
<1>2. \A u \in Thread : /\ pc'[u] = (IF u = t THEN "wait" ELSE pc[u])
                        /\ u # t => task'[u] = task[u]
  BY <1>1 DEF TypeOK
<1>3. TypeOK'
  <2>1. /\ pc' \in [Thread -> {"wait", "rearm", "request", "uploading", "returned"}]
        /\ task' \in [Thread -> Conn \cup {NoConn}]
    BY <1>1 DEF TypeOK
  <2>2. \A u \in Thread : InRequest(u)' => task'[u] \in Conn
    BY <1>2 DEF TypeOK, InRequest
  <2> QED
    BY <1>1, <2>1, <2>2 DEF TypeOK
<1>4. Chain'
  <2>1. t \in Rearming
    BY <1>1 DEF Rearming
  <2>2. Rearming = {t} /\ Places(ready, Accepts) = {}
    BY <2>1 DEF Chain, One
  <2>3. Rearming' = {}
    BY <1>2, <2>2 DEF Rearming
  <2> QED
    BY <1>1, <2>2, <2>3 DEF Chain
<1>5. \A d \in Conn : ThreadsOf(d)' = ThreadsOf(d)
  BY <1>1, <1>2 DEF ThreadsOf, InRequest
<1>6. QueueOK' /\ Handling' /\ MessagesKnown' /\ BegunIsHeld'
  BY <1>1, <1>5
     DEF QueueOK, Handling, OneHandler, MessagesKnown, BegunIsHeld
<1>7. UploadsInRange' /\ ExitJoined'
  BY <1>1, <1>2 DEF UploadsInRange, ExitJoined
<1> QED
  BY <1>3, <1>4, <1>6, <1>7

\* The upload begun is of a computer the request names.
LEMMA StartUploadKeeps ==
    ASSUME ArtemisServerAssumption, IInv, NEW t \in Thread, StartUpload(t)
    PROVE  IInv'
<1> USE DEF IInv
<1>1. /\ process = "up" /\ pc[t] = "request" /\ ~Exhausted(task[t])
      /\ pc' = [pc EXCEPT ![t] = "uploading"] /\ task' = [task EXCEPT ![t] = task[t]]
      /\ UNCHANGED <<ready, acceptor, conn, message, served, stopped, signalled, errors,
                     process, unresolvable, hung>>
  BY DEF StartUpload, At, Goto, shared, clients, control, faults
<1>2. task' = task /\ \A u \in Thread : pc'[u] = (IF u = t THEN "uploading" ELSE pc[u])
  BY <1>1 DEF TypeOK
<1>3. \A u \in Thread : InRequest(u)' <=> InRequest(u)
  BY <1>1, <1>2 DEF InRequest
<1>4. TypeOK'
  <2>1. pc' \in [Thread -> {"wait", "rearm", "request", "uploading", "returned"}]
    BY <1>1 DEF TypeOK
  <2> QED
    BY <1>1, <1>2, <1>3, <2>1 DEF TypeOK
<1>5. Chain'
  <2>1. Rearming' = Rearming
    BY <1>1, <1>2 DEF Rearming
  <2> QED
    BY <1>1, <2>1 DEF Chain
<1>6. \A d \in Conn : ThreadsOf(d)' = ThreadsOf(d)
  BY <1>2, <1>3 DEF ThreadsOf
<1>7. QueueOK' /\ Handling' /\ MessagesKnown' /\ BegunIsHeld'
  BY <1>1, <1>6
     DEF QueueOK, Handling, OneHandler, MessagesKnown, BegunIsHeld
<1>8. UploadsInRange'
  <2>1. task[t] \in Conn
    BY <1>1 DEF TypeOK, InRequest
  <2>2. /\ served[task[t]] \in Nat /\ Len(Computers[task[t]]) \in Nat
        /\ served[task[t]] <= Len(Computers[task[t]])
    BY <2>1 DEF TypeOK, ArtemisServerAssumption
  <2>3. served[task[t]] < Len(Computers[task[t]])
    BY <1>1, <2>2 DEF Exhausted
  <2> QED
    BY <1>1, <1>2, <2>3 DEF UploadsInRange
<1>9. ExitJoined'
  BY <1>1 DEF ExitJoined
<1> QED
  BY <1>4, <1>5, <1>7, <1>8, <1>9

\* The process has ended, and everything else is as it was.
LEMMA UploadThrowsKeeps ==
    ASSUME IInv, NEW t \in Thread, UploadThrows(t)
    PROVE  IInv'
<1> USE DEF IInv
<1>1. /\ process' = "terminated"
      /\ UNCHANGED <<ready, acceptor, conn, message, pc, task, served, stopped, signalled,
                     errors, unresolvable, hung>>
  BY DEF UploadThrows, shared, clients, faults
<1>2. TypeOK'
  BY <1>1 DEF TypeOK, InRequest
<1>3. \A d \in Conn : ThreadsOf(d)' = ThreadsOf(d)
  BY <1>1 DEF ThreadsOf, InRequest
<1>4. QueueOK' /\ Chain' /\ UploadsInRange' /\ ExitJoined'
  BY <1>1 DEF QueueOK, Chain, Rearming, UploadsInRange, ExitJoined
<1>5. Handling' /\ MessagesKnown' /\ BegunIsHeld'
  BY <1>1, <1>3 DEF Handling, OneHandler, MessagesKnown, BegunIsHeld
<1> QED
  BY <1>2, <1>4, <1>5

\* No other thread is at an upload of this request, so that the count stays
\* within what the request names.
LEMMA UploadReturnsKeeps ==
    ASSUME ArtemisServerAssumption, IInv, NEW t \in Thread, UploadReturns(t)
    PROVE  IInv'
<1> USE DEF IInv
<1>1. PICK c \in Conn : c = task[t]
  BY DEF UploadReturns, At, TypeOK, InRequest
<1>2. /\ process = "up" /\ pc[t] = "uploading"
      /\ pc' = [pc EXCEPT ![t] = "request"] /\ task' = [task EXCEPT ![t] = task[t]]
      /\ served' = [served EXCEPT ![c] = @ + 1]
      /\ UNCHANGED <<ready, acceptor, conn, message, stopped, signalled, errors,
                     process, unresolvable, hung>>
  BY <1>1 DEF UploadReturns, At, Goto, shared, control, faults
<1>3. task' = task /\ \A u \in Thread : pc'[u] = (IF u = t THEN "request" ELSE pc[u])
  BY <1>2 DEF TypeOK
<1>4. \A d \in Conn : served'[d] = (IF d = c THEN served[d] + 1 ELSE served[d])
  BY <1>2 DEF TypeOK
<1>5. \A u \in Thread : InRequest(u)' <=> InRequest(u)
  BY <1>2, <1>3 DEF InRequest
<1>6. \A d \in Conn : ThreadsOf(d)' = ThreadsOf(d)
  BY <1>3, <1>5 DEF ThreadsOf
<1>7. t \in ThreadsOf(c)
  BY <1>1, <1>2 DEF ThreadsOf, InRequest
<1>8. conn[c] = "read" /\ ThreadsOf(c) = {t}
  BY <1>7 DEF Handling, OneHandler, One
<1>9. /\ served[c] \in Nat /\ Len(Computers[c]) \in Nat /\ served[c] < Len(Computers[c])
  BY <1>1, <1>2 DEF UploadsInRange, TypeOK, ArtemisServerAssumption
<1>10. TypeOK'
  <2>1. pc' \in [Thread -> {"wait", "rearm", "request", "uploading", "returned"}]
    BY <1>2 DEF TypeOK
  <2>2. served' \in [Conn -> Nat]
    BY <1>2, <1>9 DEF TypeOK
  <2>3. \A d \in Conn : served'[d] <= Len(Computers[d])
    <3>1. served[c] + 1 <= Len(Computers[c])
      BY <1>9
    <3>2. \A d \in Conn : served[d] <= Len(Computers[d])
      BY DEF TypeOK
    <3> QED
      BY <1>4, <3>1, <3>2
  <2> QED
    BY <1>2, <1>3, <1>5, <2>1, <2>2, <2>3 DEF TypeOK
<1>11. Chain'
  <2>1. Rearming' = Rearming
    BY <1>2, <1>3 DEF Rearming
  <2> QED
    BY <1>2, <2>1 DEF Chain
<1>12. QueueOK' /\ Handling' /\ MessagesKnown' /\ ExitJoined'
  BY <1>2, <1>6 DEF QueueOK, Handling, OneHandler, MessagesKnown, ExitJoined
<1>13. UploadsInRange'
  <2> SUFFICES ASSUME NEW u \in Thread, pc'[u] = "uploading"
               PROVE  served'[task'[u]] < Len(Computers[task'[u]])
    BY DEF UploadsInRange
  <2>1. u # t /\ pc[u] = "uploading" /\ task[u] \in Conn
    BY <1>3 DEF TypeOK, InRequest
  <2>2. task[u] # c
    BY <1>8, <2>1 DEF ThreadsOf, InRequest
  <2> QED
    BY <1>3, <1>4, <2>1, <2>2 DEF UploadsInRange
<1>14. BegunIsHeld'
  BY <1>2, <1>4, <1>6, <1>8 DEF BegunIsHeld
<1> QED
  BY <1>10, <1>11, <1>12, <1>13, <1>14

\* The request is done with all its computers dealt with.
LEMMA RequestServedKeeps ==
    ASSUME ArtemisServerAssumption, IInv, NEW t \in Thread, RequestServed(t)
    PROVE  IInv'
<1> USE DEF IInv
<1>1. PICK c \in Conn : c = task[t]
  BY DEF RequestServed, At, TypeOK, InRequest
<1>2. /\ process = "up" /\ pc[t] = "request" /\ served[c] = Len(Computers[c])
      /\ conn' = [conn EXCEPT ![c] = "done"]
      /\ pc' = [pc EXCEPT ![t] = "wait"] /\ task' = [task EXCEPT ![t] = NoConn]
      /\ UNCHANGED <<ready, acceptor, message, served, stopped, signalled, errors,
                     process, unresolvable, hung>>
  BY <1>1 DEF RequestServed, At, Goto, Exhausted, shared, control, faults
<1>3. \A u \in Thread : /\ pc'[u] = (IF u = t THEN "wait" ELSE pc[u])
                        /\ u # t => task'[u] = task[u]
  BY <1>2 DEF TypeOK
<1>4. \A d \in Conn : conn'[d] = (IF d = c THEN "done" ELSE conn[d])
  BY <1>2 DEF TypeOK
<1>5. t \in ThreadsOf(c)
  BY <1>1, <1>2 DEF ThreadsOf, InRequest
<1>6. conn[c] = "read" /\ ThreadsOf(c) = {t} /\ Places(ready, ReadsOf(c)) = {}
  BY <1>5 DEF Handling, OneHandler, One
<1>7. \A d \in Conn : ThreadsOf(d)' = (IF d = c THEN {} ELSE ThreadsOf(d))
  BY <1>1, <1>2, <1>3, <1>6 DEF ThreadsOf, InRequest
<1>8. TypeOK'
  <2>1. /\ conn' \in [Conn -> {"none", "backlog", "accepted", "reading", "read", "done"}]
        /\ pc' \in [Thread -> {"wait", "rearm", "request", "uploading", "returned"}]
        /\ task' \in [Thread -> Conn \cup {NoConn}]
    BY <1>2 DEF TypeOK
  <2>2. \A u \in Thread : InRequest(u)' => task'[u] \in Conn
    BY <1>3 DEF TypeOK, InRequest
  <2> QED
    BY <1>2, <2>1, <2>2 DEF TypeOK
<1>9. QueueOK'
  <2>1. \A i \in DOMAIN ready : ready[i].op = "accept" => ready[i].conn # c
    BY <1>6 DEF QueueOK
  <2> QED
    BY <1>2, <1>4, <2>1 DEF QueueOK
<1>10. Chain'
  <2>1. Rearming' = Rearming
    BY <1>2, <1>3 DEF Rearming
  <2> QED
    BY <1>2, <2>1 DEF Chain
<1>11. Handling'
  BY <1>2, <1>4, <1>6, <1>7 DEF Handling, OneHandler
<1>12. UploadsInRange' /\ ExitJoined'
  BY <1>2, <1>3 DEF UploadsInRange, ExitJoined
<1>13. MessagesKnown' /\ BegunIsHeld'
  BY <1>2, <1>4, <1>6, <1>7 DEF MessagesKnown, BegunIsHeld
<1> QED
  BY <1>8, <1>9, <1>10, <1>11, <1>12, <1>13

\* A thread that returns had neither an accept nor a request.
LEMMA ThreadReturnsKeeps ==
    ASSUME IInv, NEW t \in Thread, ThreadReturns(t)
    PROVE  IInv'
<1> USE DEF IInv
<1>1. /\ process = "up" /\ pc[t] = "wait"
      /\ pc' = [pc EXCEPT ![t] = "returned"] /\ task' = [task EXCEPT ![t] = NoConn]
      /\ UNCHANGED <<ready, acceptor, conn, message, served, stopped, signalled, errors,
                     process, unresolvable, hung>>
  BY DEF ThreadReturns, At, Goto, shared, clients, control, faults
<1>2. \A u \in Thread : /\ pc'[u] = (IF u = t THEN "returned" ELSE pc[u])
                        /\ u # t => task'[u] = task[u]
  BY <1>1 DEF TypeOK
<1>3. TypeOK'
  <2>1. /\ pc' \in [Thread -> {"wait", "rearm", "request", "uploading", "returned"}]
        /\ task' \in [Thread -> Conn \cup {NoConn}]
    BY <1>1 DEF TypeOK
  <2>2. \A u \in Thread : InRequest(u)' => task'[u] \in Conn
    BY <1>2 DEF TypeOK, InRequest
  <2> QED
    BY <1>1, <2>1, <2>2 DEF TypeOK
<1>4. Chain'
  <2>1. Rearming' = Rearming
    BY <1>1, <1>2 DEF Rearming
  <2> QED
    BY <1>1, <2>1 DEF Chain
<1>5. \A d \in Conn : ThreadsOf(d)' = ThreadsOf(d)
  BY <1>1, <1>2 DEF ThreadsOf, InRequest
<1>6. QueueOK' /\ Handling' /\ MessagesKnown' /\ BegunIsHeld'
  BY <1>1, <1>5
     DEF QueueOK, Handling, OneHandler, MessagesKnown, BegunIsHeld
<1>7. UploadsInRange' /\ ExitJoined'
  BY <1>1, <1>2 DEF UploadsInRange, ExitJoined
<1> QED
  BY <1>3, <1>4, <1>6, <1>7

\* run returns when all threads have.
LEMMA RunReturnsKeeps ==
    ASSUME IInv, RunReturns
    PROVE  IInv'
<1> USE DEF IInv
<1>1. /\ AllJoined /\ process' = "exited"
      /\ UNCHANGED <<ready, acceptor, conn, message, pc, task, served, stopped, signalled,
                     errors, unresolvable, hung>>
  BY DEF RunReturns, shared, clients, faults
<1>2. TypeOK'
  BY <1>1 DEF TypeOK, InRequest
<1>3. \A d \in Conn : ThreadsOf(d)' = ThreadsOf(d)
  BY <1>1 DEF ThreadsOf, InRequest
<1>4. QueueOK' /\ Chain' /\ UploadsInRange' /\ ExitJoined'
  BY <1>1 DEF QueueOK, Chain, Rearming, UploadsInRange, ExitJoined, AllJoined
<1>5. Handling' /\ MessagesKnown' /\ BegunIsHeld'
  BY <1>1, <1>3 DEF Handling, OneHandler, MessagesKnown, BegunIsHeld
<1> QED
  BY <1>2, <1>4, <1>5

\* Steps that change nothing.
LEMMA Stutters ==
    ASSUME IInv, UNCHANGED vars
    PROVE  IInv'
<1> USE DEF IInv
<1>1. UNCHANGED <<ready, acceptor, conn, message, pc, task, served, stopped, signalled,
                  errors, process, unresolvable, hung>>
  BY DEF vars
<1>2. TypeOK'
  BY <1>1 DEF TypeOK, InRequest
<1>3. \A d \in Conn : ThreadsOf(d)' = ThreadsOf(d)
  BY <1>1 DEF ThreadsOf, InRequest
<1>4. QueueOK' /\ Chain' /\ UploadsInRange' /\ ExitJoined'
  BY <1>1 DEF QueueOK, Chain, Rearming, UploadsInRange, ExitJoined, AllJoined
<1>5. Handling' /\ MessagesKnown' /\ BegunIsHeld'
  BY <1>1, <1>3 DEF Handling, OneHandler, MessagesKnown, BegunIsHeld
<1> QED
  BY <1>2, <1>4, <1>5

-----------------------------------------------------------------------------
\* It holds when run has started the pool.
LEMMA Initially ==
    ASSUME ArtemisServerAssumption, Init
    PROVE  IInv
<1> USE DEF Init
<1>1. \A t \in Thread : pc[t] = "wait" /\ ~InRequest(t)
  BY DEF InRequest
<1>2. \A d \in Conn : ThreadsOf(d) = {} /\ conn[d] = "none" /\ served[d] = 0
  BY <1>1 DEF ThreadsOf
<1>3. \A H : Places(ready, H) = {}
  BY DEF Places
<1>4. \A d \in Conn : 0 <= Len(Computers[d])
  BY DEF ArtemisServerAssumption
<1>5. TypeOK
  <2>1. ready \in Seq(Handlers)
    OBVIOUS
  <2>2. served \in [Conn -> Nat] /\ \A d \in Conn : served[d] <= Len(Computers[d])
    BY <1>4
  <2>3. \A t \in Thread : InRequest(t) => task[t] \in Conn
    BY <1>1
  <2>4. errors \in 0 .. MaxErrors
    BY DEF ArtemisServerAssumption
  <2> QED
    BY <2>1, <2>2, <2>3, <2>4 DEF TypeOK
<1>6. QueueOK /\ Chain /\ UploadsInRange /\ ExitJoined
  BY <1>1, <1>3 DEF QueueOK, Chain, Rearming, UploadsInRange, ExitJoined
<1>7. Handling /\ MessagesKnown /\ BegunIsHeld
  BY <1>2, <1>3 DEF Handling, OneHandler, MessagesKnown, BegunIsHeld
<1> QED
  BY <1>5, <1>6, <1>7 DEF IInv

\* The strengthening holds throughout, for any number of threads, managers and
\* computers (Artemis_Server, Artemis_Server_Connection).
THEOREM ServerInvariant ==
    ASSUME ArtemisServerAssumption
    PROVE  Spec => []IInv
<1>1. Init => IInv
  BY Initially
<1>2. ASSUME IInv, [Next]_vars
      PROVE  IInv'
  <2>1. CASE Manager
    BY <1>2, <2>1, ManagerConnectsKeeps, ManagerSendsKeeps DEF Manager
  <2>2. CASE SignalArrives \/ Completion
    BY <1>2, <2>2, SignalArrivesKeeps, AcceptFailsKeeps, AcceptCompletesKeeps,
       ReadCompletesKeeps DEF Completion
  <2>3. ASSUME NEW t \in Thread, ThreadStep(t)
        PROVE  IInv'
    BY <1>2, <2>3, handle_accept_keeps, handle_accept_error_keeps, start_accept_keeps,
       handle_read_keeps, handle_read_error_keeps, StartUploadKeeps, UploadThrowsKeeps,
       UploadReturnsKeeps, RequestServedKeeps, handle_stop_keeps, ThreadReturnsKeeps
       DEF ThreadStep
  <2>4. CASE RunReturns
    BY <1>2, <2>4, RunReturnsKeeps
  <2>5. CASE UNCHANGED vars
    BY <1>2, <2>5, Stutters
  <2> QED
    BY <1>2, <2>1, <2>2, <2>3, <2>4, <2>5 DEF Next
<1> QED
  BY <1>1, <1>2, PTL DEF Spec

-----------------------------------------------------------------------------
\* The types; no loop over a request's computers runs past the last of them
\* (generate_queries).
THEOREM TypeCorrect ==
    ASSUME ArtemisServerAssumption
    PROVE  Spec => []TypeOK
<1>1. IInv => TypeOK
  BY DEF IInv
<1> QED
  BY <1>1, ServerInvariant, PTL

\* What the two counting properties count is nothing, or one thing.
LEMMA CardinalityOfOne ==
    /\ Cardinality({}) = 0
    /\ \A S : One(S) => Cardinality(S) = 1
BY FS_EmptySet, FS_Singleton DEF One

\* The accept chain never breaks and never forks (handle_accept, start_accept).
THEOREM AcceptChainHolds ==
    ASSUME ArtemisServerAssumption
    PROVE  Spec => []AcceptChain
<1>1. ASSUME IInv PROVE AcceptChain
  <2>1. QueuedAccepts = Places(ready, Accepts)
    <3>1. \A i \in DOMAIN ready : ready[i] \in Handlers
      BY <1>1 DEF IInv, TypeOK
    <3>2. \A h \in Handlers : h.op \in {"accept", "accept_error"} <=> h \in Accepts
      BY DEF Handlers, Accepts
    <3> QED
      BY <3>1, <3>2 DEF QueuedAccepts, Places
  <2>2. Chain
    BY <1>1 DEF IInv
  <2>3. CASE acceptor = "armed" /\ QueuedAccepts = {} /\ Rearming = {}
    BY <2>3, CardinalityOfOne DEF AcceptChain
  <2>4. CASE acceptor # "armed" /\ One(QueuedAccepts) /\ Rearming = {}
    BY <2>4, CardinalityOfOne DEF AcceptChain
  <2>5. CASE acceptor # "armed" /\ QueuedAccepts = {} /\ One(Rearming)
    BY <2>5, CardinalityOfOne DEF AcceptChain
  <2> QED
    BY <2>1, <2>2, <2>3, <2>4, <2>5 DEF Chain
<1> QED
  BY <1>1, ServerInvariant, PTL

\* The handlers of one connection never run concurrently (start, handle_read).
THEOREM OneHandlerPerConnectionHolds ==
    ASSUME ArtemisServerAssumption
    PROVE  Spec => []OneHandlerPerConnection
<1>1. ASSUME IInv PROVE OneHandlerPerConnection
  <2> SUFFICES ASSUME NEW c \in Conn
               PROVE  Cardinality(QueuedReads(c)) + Cardinality(ThreadsOf(c))
                          = (IF conn[c] = "read" THEN 1 ELSE 0)
    BY DEF OneHandlerPerConnection
  <2>1. QueuedReads(c) = Places(ready, ReadsOf(c))
    <3>1. \A i \in DOMAIN ready : ready[i] \in Handlers
      BY <1>1 DEF IInv, TypeOK
    <3>2. \A h \in Handlers :
              (h.op \in {"read", "read_error"} /\ h.conn = c) <=> h \in ReadsOf(c)
      BY DEF Handlers, ReadsOf
    <3> QED
      BY <3>1, <3>2 DEF QueuedReads, Places
  <2>2. OneHandler(c)
    BY <1>1 DEF IInv, Handling
  <2>3. CASE conn[c] # "read" /\ QueuedReads(c) = {} /\ ThreadsOf(c) = {}
    BY <2>3, CardinalityOfOne
  <2>4. CASE conn[c] = "read" /\ One(QueuedReads(c)) /\ ThreadsOf(c) = {}
    BY <2>4, CardinalityOfOne
  <2>5. CASE conn[c] = "read" /\ QueuedReads(c) = {} /\ One(ThreadsOf(c))
    BY <2>5, CardinalityOfOne
  <2> QED
    BY <2>1, <2>2, <2>3, <2>4, <2>5 DEF OneHandler
<1> QED
  BY <1>1, ServerInvariant, PTL

\* A stop cuts no request short between two of its computers (handle_stop, run).
THEOREM StopCutsNone ==
    ASSUME ArtemisServerAssumption
    PROVE  Spec => []StopCutsNoRequestShort
<1>1. ASSUME IInv PROVE StopCutsNoRequestShort
  <2> SUFFICES ASSUME process = "exited", NEW c \in Conn, served[c] > 0
               PROVE  conn[c] = "done"
    BY DEF StopCutsNoRequestShort
  <2>1. ThreadsOf(c) = {}
    BY <1>1 DEF IInv, ExitJoined, AllJoined, ThreadsOf, InRequest
  <2> QED
    BY <1>1, <2>1 DEF IInv, BegunIsHeld
<1> QED
  BY <1>1, ServerInvariant, PTL
=============================================================================
