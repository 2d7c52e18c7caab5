--------------------------- MODULE RequestsProofs ---------------------------
(***************************************************************************)
(* Proofs about requests: that one without an entity is handed on whole    *)
(* and carried out as it was meant, and that of one that was cut only the  *)
(* last item can be other than it was meant.                               *)
(*                                                                         *)
(* Of RequestFraming, what is inductive is more than the property: nothing *)
(* is taken before the text has its delimiter, and what was handed on      *)
(* begins with what the streambuf held, in which there was a ';'.  The     *)
(* texts are read by the lemmas of XmlTreeProofs: parsing undoes printing, *)
(* and the elements of a text that was cut are the first of those of the   *)
(* whole, of which the last may differ.                                    *)
(***************************************************************************)
EXTENDS Requests, XmlTreeProofs

-----------------------------------------------------------------------------
(* The framing. *)

Unwritten == sender \in {"connecting", "started", "failed"}

\* Nothing leaves the manager before the delimiter was appended.
WrittenWithDelimiter ==
    IF Unwritten THEN xml_string = request /\ delivered = 0
                 ELSE xml_string = Append(request, Delimiter)

\* What was handed on begins with what was taken, and that holds a ';'.
HandledIsTaken ==
    reader = "handled" =>
        /\ DelimiterSeen
        /\ Len(received_xml) >= taken
        /\ \A i \in 1 .. taken : received_xml[i] = xml_string[i]

FramingInv == FramingTypeOK /\ WrittenWithDelimiter /\ HandledIsTaken

-----------------------------------------------------------------------------
\* The texts are sequences of atoms, with the delimiter as well (Send_Data).
LEMMA TextsAreSequences ==
    ASSUME RequestFramingAssumption, FramingTypeOK
    PROVE  /\ request \in Seq(Atom)
           /\ xml_string \in Seq(Atom)
           /\ Append(request, Delimiter) \in Seq(Atom)
           /\ Len(Append(request, Delimiter)) = Len(request) + 1
<1>1. request \in Seq(Atom) /\ Delimiter \in Atom
  BY DEF RequestFramingAssumption, FramingTypeOK
<1>2. Append(request, Delimiter) \in Seq(Atom)
      /\ Len(Append(request, Delimiter)) = Len(request) + 1
  BY <1>1
<1> QED
  BY <1>1, <1>2 DEF FramingTypeOK

\* Every string handle_read may take the buffer for begins with what the
\* streambuf holds (handle_read).
LEMMA HandedOnBegins ==
    ASSUME RequestFramingAssumption, FramingTypeOK, NEW text \in HandedOn
    PROVE  /\ text \in Seq(Atom)
           /\ Len(text) >= taken
           /\ \A i \in 1 .. taken : text[i] = xml_string[i]
<1>1. xml_string \in Seq(Atom)
  BY TextsAreSequences
<1>2. taken \in 0 .. Len(xml_string)
  BY <1>1 DEF FramingTypeOK
<1>3. /\ Received \in Seq(Atom)
      /\ Len(Received) = taken
      /\ \A i \in 1 .. taken : Received[i] = xml_string[i]
  BY <1>1, <1>2 DEF Received
<1>4. CASE text = Received
  BY <1>3, <1>4, <1>2
<1>5. ASSUME NEW rest \in Overreads, text = Received \o rest
      PROVE  /\ text \in Seq(Atom)
             /\ Len(text) >= taken
             /\ \A i \in 1 .. taken : text[i] = xml_string[i]
  <2>1. rest \in Seq(Atom)
    BY DEF RequestFramingAssumption
  <2>2. /\ text \in Seq(Atom)
        /\ Len(text) = taken + Len(rest)
        /\ \A i \in 1 .. Len(Received) : text[i] = Received[i]
    <3> DEFINE joined == Received \o rest
    <3>1. /\ joined \in Seq(Atom)
          /\ Len(joined) = Len(Received) + Len(rest)
          /\ \A i \in 1 .. Len(Received) + Len(rest) : joined[i] =
                  IF i <= Len(Received) THEN Received[i] ELSE rest[i - Len(Received)]
      BY <1>3, <2>1, ConcatProperties
    <3>2. text = joined
      BY <1>5
    <3> HIDE DEF joined
    <3>3. Len(Received) \in Nat /\ Len(rest) \in Nat
      BY <1>3, <2>1
    <3> QED
      BY <1>3, <3>1, <3>2, <3>3
  <2> QED
    BY <1>2, <1>3, <2>1, <2>2
<1> QED
  BY <1>4, <1>5 DEF HandedOn

-----------------------------------------------------------------------------
\* It holds when the request is about to be sent.
LEMMA FramingInitially ==
    ASSUME RequestFramingAssumption, FramingInit
    PROVE  FramingInv
<1>1. request \in Seq(Atom)
  BY DEF RequestFramingAssumption, FramingInit
<1>2. Len(request) \in Nat /\ <<>> \in Seq(Atom)
  BY <1>1
<1>3. FramingTypeOK
  <2>1. delivered \in 0 .. Len(xml_string) /\ taken \in 0 .. delivered
    BY <1>2 DEF FramingInit
  <2>2. received_xml \in Seq(Atom)
    BY <1>2 DEF FramingInit
  <2> QED
    BY <2>1, <2>2 DEF FramingInit, FramingTypeOK
<1> QED
  BY <1>3 DEF FramingInit, FramingInv, WrittenWithDelimiter, Unwritten, HandledIsTaken

\* The thread's steps: the text changes only while nothing was taken.
LEMMA FramingManagerStep ==
    ASSUME RequestFramingAssumption, FramingInv, ManagerStep
    PROVE  FramingInv'
<1> USE DEF FramingInv, FramingTypeOK, WrittenWithDelimiter, Unwritten
<1>1. /\ request \in Seq(Atom)
      /\ Append(request, Delimiter) \in Seq(Atom)
      /\ Len(Append(request, Delimiter)) = Len(request) + 1
      /\ Len(request) \in Nat
  BY TextsAreSequences
<1>2. UNCHANGED <<request, taken, full, reader, received_xml>>
  BY DEF ManagerStep, send_data_to_server, run_write, run_error, run_disconnect,
         run_end, readerVars
<1>3. CASE send_data_to_server \/ run_error \/ run_disconnect
  <2>1. UNCHANGED <<xml_string, delivered>>
    BY <1>3 DEF send_data_to_server, run_error, run_disconnect
  <2>2. FramingTypeOK' /\ WrittenWithDelimiter'
    BY <1>2, <1>3, <2>1 DEF send_data_to_server, run_error, run_disconnect
  <2>3. HandledIsTaken'
    BY <1>2, <2>1 DEF HandledIsTaken, DelimiterSeen
  <2> QED
    BY <2>2, <2>3
<1>4. CASE run_write
  <2>1. taken = 0 /\ ~DelimiterSeen
    BY <1>4 DEF run_write, DelimiterSeen
  <2>2. reader # "handled"
    BY <2>1 DEF HandledIsTaken
  <2>3. FramingTypeOK' /\ WrittenWithDelimiter'
    BY <1>1, <1>2, <1>4, <2>1 DEF run_write
  <2> QED
    BY <1>2, <2>2, <2>3 DEF HandledIsTaken
<1>5. CASE run_end
  <2>1. FramingTypeOK' /\ WrittenWithDelimiter'
    BY <1>1, <1>2, <1>5 DEF run_end
  <2>2. UNCHANGED xml_string
    BY <1>5 DEF run_end
  <2>3. HandledIsTaken'
    BY <1>2, <2>2 DEF HandledIsTaken, DelimiterSeen
  <2> QED
    BY <2>1, <2>3
<1> QED
  BY <1>3, <1>4, <1>5 DEF ManagerStep

\* The connection's steps: it takes more only while it has seen no delimiter.
LEMMA FramingServerStep ==
    ASSUME RequestFramingAssumption, FramingInv, ServerStep
    PROVE  FramingInv'
<1> USE DEF FramingInv, FramingTypeOK
<1>1. UNCHANGED <<request, xml_string, sender, delivered>>
  BY DEF ServerStep, ReadsSome, handle_read, handle_read_error, senderVars
<1>2. WrittenWithDelimiter'
  BY <1>1 DEF WrittenWithDelimiter, Unwritten
<1>3. delivered \in Nat
  BY TextsAreSequences
<1>4. CASE ReadsSome
  <2>1. reader' = "reading" /\ taken' \in 0 .. delivered /\ full' \in BOOLEAN
        /\ received_xml' = received_xml
    BY <1>3, <1>4 DEF ReadsSome, RequestFramingAssumption
  <2> QED
    BY <1>1, <1>2, <2>1 DEF HandledIsTaken
<1>5. ASSUME NEW text \in HandedOn, handle_read(text)
      PROVE  FramingInv'
  <2>1. DelimiterSeen' /\ received_xml' = text /\ reader' = "handled"
        /\ UNCHANGED <<taken, full>>
    BY <1>1, <1>5 DEF handle_read, DelimiterSeen
  <2>2. /\ text \in Seq(Atom)
        /\ Len(text) >= taken
        /\ \A i \in 1 .. taken : text[i] = xml_string[i]
    BY <1>5, HandedOnBegins
  <2> QED
    BY <1>1, <1>2, <2>1, <2>2 DEF HandledIsTaken
<1>6. CASE handle_read_error
  BY <1>1, <1>2, <1>6 DEF handle_read_error, HandledIsTaken
<1> QED
  BY <1>4, <1>5, <1>6 DEF ServerStep

\* The strengthening holds throughout (Send_Data, Start_Send_Data_Thread,
\* handle_read).
THEOREM FramingInvariant ==
    ASSUME RequestFramingAssumption
    PROVE  FramingSpec => []FramingInv
<1>1. FramingInit => FramingInv
  BY FramingInitially
<1>2. ASSUME FramingInv, [FramingNext]_framingVars
      PROVE  FramingInv'
  <2>1. CASE FramingNext
    BY <1>2, <2>1, FramingManagerStep, FramingServerStep DEF FramingNext
  <2>2. CASE UNCHANGED framingVars
    BY <1>2, <2>2
       DEF framingVars, senderVars, readerVars, FramingInv, FramingTypeOK,
           WrittenWithDelimiter, Unwritten, HandledIsTaken, DelimiterSeen
  <2> QED
    BY <1>2, <2>1, <2>2
<1> QED
  BY <1>1, <1>2, PTL DEF FramingSpec

-----------------------------------------------------------------------------
\* The types of the manager's thread and of the server's connection.
THEOREM FramingTypeCorrect ==
    ASSUME RequestFramingAssumption
    PROVE  FramingSpec => []FramingTypeOK
<1>1. FramingInv => FramingTypeOK
  BY DEF FramingInv
<1> QED
  BY <1>1, FramingInvariant, PTL

\* A text without a ';' is whole once its delimiter has been seen: the only ';'
\* is the last atom.
LEMMA InvImpliesWhole ==
    ASSUME RequestFramingAssumption, FramingInv
    PROVE  PlainRequestsAreWhole
<1> SUFFICES ASSUME reader = "handled", Plain(request)
             PROVE  /\ delivered = Len(request) + 1
                    /\ Len(received_xml) > Len(request)
                    /\ SubSeq(received_xml, 1, Len(request) + 1)
                           = Append(request, Delimiter)
  BY DEF PlainRequestsAreWhole
<1> DEFINE whole == Append(request, Delimiter)
<1>1. /\ request \in Seq(Atom) /\ whole \in Seq(Atom)
      /\ Len(whole) = Len(request) + 1 /\ Len(request) \in Nat
  BY TextsAreSequences DEF FramingInv
<1>2. PICK i \in 1 .. taken : xml_string[i] \in Semicolons
  BY DEF FramingInv, HandledIsTaken, DelimiterSeen
<1>3. taken \in 0 .. delivered /\ delivered \in 0 .. Len(xml_string)
      /\ xml_string \in {request, whole} /\ received_xml \in Seq(Atom)
  BY DEF FramingInv, FramingTypeOK
<1>4. taken \in Nat /\ delivered \in Nat
  BY <1>1, <1>3
<1>5. \A j \in 1 .. Len(request) :
          request[j] \notin Semicolons /\ whole[j] = request[j]
  BY <1>1 DEF Plain
<1>6. xml_string = whole /\ i = Len(request) + 1
  BY <1>1, <1>2, <1>3, <1>4, <1>5
<1>7. taken = Len(request) + 1 /\ delivered = Len(request) + 1
  BY <1>1, <1>2, <1>3, <1>4, <1>6
<1>8. Len(received_xml) >= Len(request) + 1
      /\ \A j \in 1 .. Len(request) + 1 : received_xml[j] = whole[j]
  BY <1>6, <1>7 DEF FramingInv, HandledIsTaken
<1> DEFINE start == SubSeq(received_xml, 1, Len(request) + 1)
<1>9. /\ start \in Seq(Atom) /\ Len(start) = Len(request) + 1
      /\ \A j \in 1 .. Len(request) + 1 : start[j] = received_xml[j]
  BY <1>1, <1>3, <1>8
<1>10. start = whole
  BY <1>1, <1>8, <1>9, SeqEqual
<1> QED
  BY <1>1, <1>3, <1>7, <1>8, <1>10

\* However a request is cut up, one without an entity is handed on whole
\* (async_read_until, handle_read).
THEOREM PlainRequestsAreWholeTheorem ==
    ASSUME RequestFramingAssumption
    PROVE  FramingSpec => []PlainRequestsAreWhole
<1>1. FramingInv => PlainRequestsAreWhole
  BY InvImpliesWhole
<1> QED
  BY <1>1, FramingInvariant, PTL

-----------------------------------------------------------------------------
(* Sequences of sequences, one behind the other. *)

\* F is ss[1], ss[2] and so on, where ss[c] begins behind F[s[c]].
Laid(s, ss, F) ==
    /\ s \in [1 .. (Len(ss) + 1) -> Nat] /\ s[1] = 0 /\ s[Len(ss) + 1] = Len(F)
    /\ \A c \in 1 .. Len(ss) : /\ s[c + 1] = s[c] + Len(ss[c])
                               /\ \A i \in 1 .. Len(ss[c]) : F[s[c] + i] = ss[c][i]

\* FlattenSeq lays its argument so.
LEMMA FlattenLays ==
    ASSUME NEW D, NEW ss \in Seq(Seq(D))
    PROVE  FlattenSeq(ss) \in Seq(D) /\ \E s : Laid(s, ss, FlattenSeq(ss))
<1> DEFINE M == Len(ss)
<1>1. M \in Nat /\ \A c \in 1 .. M : ss[c] \in Seq(D) /\ Len(ss[c]) \in Nat
  BY LenProperties, ElementOfSeq
<1>2. PICK g \in [0 .. M -> Seq(D)] : Flattens(g, ss) /\ FlattenSeq(ss) = g[M]
  BY FlattenPrefixes
<1>3. \A n \in 0 .. M : g[n] \in Seq(D) /\ Len(g[n]) \in Nat
  BY <1>2, LenProperties
<1>4. Len(g[0]) = 0
  BY <1>2 DEF Flattens
<1>5. ASSUME NEW c \in 1 .. M
      PROVE  /\ Len(g[c]) = Len(g[c - 1]) + Len(ss[c])
             /\ \A k \in 1 .. Len(g[c - 1]) : g[c][k] = g[c - 1][k]
             /\ \A i \in 1 .. Len(ss[c]) : g[c][Len(g[c - 1]) + i] = ss[c][i]
  <2>1. c - 1 \in 0 .. M
    BY <1>1
  <2>2. g[c] = g[c - 1] \o ss[c] /\ g[c - 1] \in Seq(D) /\ ss[c] \in Seq(D)
    BY <1>1, <1>2, <1>3, <2>1 DEF Flattens
  <2> QED
    BY <2>2, ConcatProperties, LenProperties
<1> DEFINE H(n) == \A c \in 1 .. n : /\ Len(g[c]) <= Len(g[n])
                                     /\ \A i \in 1 .. Len(ss[c]) :
                                           g[n][Len(g[c - 1]) + i] = ss[c][i]
           S == {n \in Nat : n <= M => H(n)}
<1>6. 0 \in S
  OBVIOUS
<1>7. ASSUME NEW n \in Nat, n \in S PROVE n + 1 \in S
  <2> DEFINE b == n + 1
             Good(c) == /\ Len(g[c]) <= Len(g[b])
                        /\ \A i \in 1 .. Len(ss[c]) : g[b][Len(g[c - 1]) + i] = ss[c][i]
  <2> SUFFICES ASSUME b <= M, NEW c \in 1 .. b PROVE Good(c)
    OBVIOUS
  <2>1. b \in 1 .. M /\ b - 1 = n /\ n \in 0 .. M /\ b \in 0 .. M /\ n <= M
    BY <1>1
  <2>2. c # b => c \in 1 .. n /\ c \in 1 .. M /\ c - 1 \in 0 .. M /\ c \in 0 .. M
    BY <2>1
  <2>3. H(n)
    BY <1>7, <2>1
  <2> HIDE DEF b
  <2>4. /\ Len(g[b]) = Len(g[n]) + Len(ss[b])
        /\ \A k \in 1 .. Len(g[n]) : g[b][k] = g[n][k]
        /\ \A i \in 1 .. Len(ss[b]) : g[b][Len(g[n]) + i] = ss[b][i]
    BY <1>5, <2>1
  <2>5. Len(g[n]) \in Nat /\ Len(g[b]) \in Nat /\ Len(ss[b]) \in Nat
    BY <1>1, <1>3, <2>1
  <2>6. CASE c = b
    <3>1. c - 1 = n /\ b \in Nat
      BY <2>1, <2>6
    <3>2. Len(g[c]) <= Len(g[b])
      BY <2>5, <2>6
    <3>3. \A i \in 1 .. Len(ss[c]) : g[b][Len(g[c - 1]) + i] = ss[c][i]
      BY <2>4, <2>6, <3>1
    <3> QED
      BY <3>2, <3>3
  <2>7. CASE c # b
    <3> DEFINE from == Len(g[c - 1])
               size == Len(ss[c])
               to == Len(g[c])
               all == Len(g[n])
               rest == Len(ss[b])
               total == Len(g[b])
    <3>1. to <= all /\ \A i \in 1 .. size : g[n][from + i] = ss[c][i]
      BY <2>2, <2>3, <2>7
    <3>2. to = from + size
      BY <1>5, <2>2, <2>7
    <3>3. from \in Nat /\ size \in Nat /\ to \in Nat /\ all \in Nat
      BY <1>1, <1>3, <2>2, <2>5, <2>7
    <3>4. \A k \in 1 .. all : g[b][k] = g[n][k]
      BY <2>4
    <3>5. total = all + rest /\ rest \in Nat
      BY <2>4, <2>5
    <3> HIDE DEF from, size, to, all, rest, total
    <3>8. to <= total
      BY <3>1, <3>3, <3>5
    <3>6. \A i \in 1 .. size : from + i \in 1 .. all
      BY <3>1, <3>2, <3>3
    <3>7. \A i \in 1 .. size : g[b][from + i] = ss[c][i]
      BY <3>1, <3>4, <3>6
    <3> QED
      BY <3>7, <3>8 DEF from, size, to, total
  <2> HIDE DEF Good
  <2> QED
    BY <2>6, <2>7
<1> HIDE DEF S
<1>8. M \in S
  BY <1>1, <1>6, <1>7, Induction
<1>9. H(M)
  <2> HIDE DEF H
  <2> QED
    BY <1>1, <1>8 DEF S
<1> DEFINE s == [c \in 1 .. (M + 1) |-> Len(g[c - 1])]
<1>10. Laid(s, ss, g[M])
  <2>1. s \in [1 .. (M + 1) -> Nat]
    <3>1. \A c \in 1 .. (M + 1) : c - 1 \in 0 .. M
      BY <1>1
    <3> QED
      BY <1>3, <3>1
  <2>2. s[1] = 0 /\ s[M + 1] = Len(g[M])
    <3>1. 1 \in 1 .. (M + 1) /\ M + 1 \in 1 .. (M + 1) /\ 1 - 1 = 0 /\ (M + 1) - 1 = M
      BY <1>1
    <3> QED
      BY <1>4, <3>1
  <2>3. ASSUME NEW c \in 1 .. M
        PROVE  /\ s[c + 1] = s[c] + Len(ss[c])
               /\ \A i \in 1 .. Len(ss[c]) : g[M][s[c] + i] = ss[c][i]
    <3>1. c \in 1 .. (M + 1) /\ c + 1 \in 1 .. (M + 1) /\ (c + 1) - 1 = c
      BY <1>1
    <3>2. s[c] = Len(g[c - 1]) /\ s[c + 1] = Len(g[c])
      BY <3>1
    <3> HIDE DEF s
    <3> QED
      BY <1>5, <1>9, <3>2
  <2> HIDE DEF s
  <2> QED
    BY <2>1, <2>2, <2>3 DEF Laid
<1>11. g[M] \in Seq(D)
  BY <1>1, <1>3
<1> HIDE DEF s
<1> QED
  BY <1>2, <1>10, <1>11

\* Every element is in one of the sequences, and they begin in their order.
LEMMA LaidCovers ==
    ASSUME NEW D, NEW ss \in Seq(Seq(D)), NEW F, NEW s, Laid(s, ss, F)
    PROVE  /\ \A k \in 1 .. Len(F) : \E c \in 1 .. Len(ss) : \E i \in 1 .. Len(ss[c]) :
                 k = s[c] + i
           /\ \A c, e \in 1 .. Len(ss) : c < e => s[c + 1] <= s[e]
<1> DEFINE M == Len(ss)
<1>1. M \in Nat /\ \A c \in 1 .. M : Len(ss[c]) \in Nat
  BY LenProperties, ElementOfSeq
<1>2. \A c \in 1 .. (M + 1) : s[c] \in Nat
  BY DEF Laid
<1>3. s[1] = 0 /\ s[M + 1] = Len(F) /\ \A c \in 1 .. M : s[c + 1] = s[c] + Len(ss[c])
  BY DEF Laid
<1> DEFINE H(n) == /\ \A k \in 1 .. s[n + 1] : \E c \in 1 .. n : \E i \in 1 .. Len(ss[c]) :
                         k = s[c] + i
                   /\ \A c \in 1 .. n : s[c + 1] <= s[n + 1]
           S == {n \in Nat : n <= M => H(n)}
<1>4. 0 \in S
  <2>1. s[0 + 1] = 0
    BY <1>3
  <2> QED
    BY <2>1
<1>5. ASSUME NEW n \in Nat, n \in S PROVE n + 1 \in S
  <2> DEFINE b == n + 1
  <2> SUFFICES ASSUME b <= M PROVE H(b)
    OBVIOUS
  <2>1. b \in 1 .. M /\ b \in 1 .. (M + 1) /\ b + 1 \in 1 .. (M + 1) /\ n <= M
    BY <1>1
  <2>2. s[b + 1] = s[b] + Len(ss[b]) /\ s[b] \in Nat /\ Len(ss[b]) \in Nat
    BY <1>1, <1>2, <1>3, <2>1
  <2>3. /\ \A k \in 1 .. s[b] : \E c \in 1 .. n : \E i \in 1 .. Len(ss[c]) : k = s[c] + i
        /\ \A c \in 1 .. n : s[c + 1] <= s[b]
    BY <1>5, <2>1
  <2>4. ASSUME NEW k \in 1 .. s[b + 1]
        PROVE  \E c \in 1 .. b : \E i \in 1 .. Len(ss[c]) : k = s[c] + i
    <3>1. CASE k <= s[b]
      <4>1. k \in 1 .. s[b]
        BY <2>2, <3>1
      <4>2. PICK c \in 1 .. n : \E i \in 1 .. Len(ss[c]) : k = s[c] + i
        BY <2>3, <4>1
      <4>3. c \in 1 .. b
        OBVIOUS
      <4> QED
        BY <4>2, <4>3
    <3>2. CASE k > s[b]
      <4>1. b \in 1 .. b /\ k - s[b] \in 1 .. Len(ss[b]) /\ k = s[b] + (k - s[b])
        BY <2>2, <3>2
      <4> QED
        BY <4>1
    <3> QED
      BY <2>2, <3>1, <3>2
  <2>5. ASSUME NEW c \in 1 .. b PROVE s[c + 1] <= s[b + 1]
    <3>1. CASE c = b
      BY <2>2, <3>1
    <3>2. CASE c # b
      <4>1. c \in 1 .. n /\ c + 1 \in 1 .. (M + 1)
        BY <2>1, <3>2
      <4>2. s[c + 1] <= s[b] /\ s[c + 1] \in Nat
        BY <1>2, <2>3, <4>1
      <4> HIDE DEF b
      <4>3. s[b] <= s[b + 1] /\ s[b + 1] \in Nat
        BY <2>2
      <4> QED
        BY <2>2, <4>2, <4>3
    <3> QED
      BY <3>1, <3>2
  <2> QED
    BY <2>4, <2>5
<1> HIDE DEF S
<1>6. \A n \in Nat : n \in S
  BY <1>4, <1>5, Induction
<1>7. \A n \in 0 .. M : H(n)
  <2> HIDE DEF H
  <2> QED
    BY <1>1, <1>6 DEF S
<1>8. \A k \in 1 .. Len(F) : \E c \in 1 .. M : \E i \in 1 .. Len(ss[c]) : k = s[c] + i
  <2>1. M \in 0 .. M
    BY <1>1
  <2>2. \A k \in 1 .. s[M + 1] : \E c \in 1 .. M : \E i \in 1 .. Len(ss[c]) : k = s[c] + i
    BY <1>7, <2>1
  <2> HIDE DEF H
  <2> QED
    BY <1>3, <2>2
<1>9. ASSUME NEW c \in 1 .. M, NEW e \in 1 .. M, c < e PROVE s[c + 1] <= s[e]
  <2>1. e - 1 \in 0 .. M /\ c \in 1 .. (e - 1) /\ (e - 1) + 1 = e
    BY <1>1, <1>9
  <2>2. H(e - 1)
    BY <1>7, <2>1
  <2> QED
    BY <2>1, <2>2
<1> QED
  BY <1>8, <1>9

\* A function on 1 .. n is a sequence.
LEMMA FunctionIsSequence ==
    ASSUME NEW D, NEW n \in Nat, NEW f \in [1 .. n -> D]
    PROVE  f \in Seq(D) /\ Len(f) = n
OBVIOUS

\* One element before a sequence.
LEMMA PutBefore ==
    ASSUME NEW D, NEW x \in D, NEW F \in Seq(D)
    PROVE  /\ <<x>> \o F \in Seq(D) /\ Len(<<x>> \o F) = Len(F) + 1 /\ (<<x>> \o F)[1] = x
           /\ \A k \in 1 .. Len(F) : (<<x>> \o F)[1 + k] = F[k]
<1>1. <<x>> \in Seq(D) /\ Len(<<x>>) = 1 /\ <<x>>[1] = x
  OBVIOUS
<1> QED
  BY <1>1, ConcatProperties, LenProperties

-----------------------------------------------------------------------------
(* The elements of an upload's text. *)

ElementNames ==
    {"Tacktech", "Type", "Upload", "Computer", "Item", "Filename", "File_Data", "Pause"}
Pieces == Value \cup {"UPLOAD"}

\* The elements are nodes.
LEMMA ElementNode ==
    ASSUME NEW n \in ElementNames, NEW d \in Nat, NEW a \in Seq(Pieces), NEW t \in Seq(Pieces)
    PROVE  /\ Element(n, d, a, t) \in Node(ElementNames, Pieces)
           /\ Element(n, d, a, t).name = n /\ Element(n, d, a, t).depth = d
           /\ Element(n, d, a, t).attribute = a /\ Element(n, d, a, t).text = t
BY DEF Element, Node

\* An item is four elements.
LEMMA ItemNodesAre ==
    ASSUME NEW item \in Item
    PROVE  /\ ItemNodes(item) \in Seq(Node(ElementNames, Pieces)) /\ Len(ItemNodes(item)) = 4
           /\ ItemNodes(item)[1] = Element("Item", 5, <<>>, <<>>)
           /\ \A f \in 1 .. 3 : ItemNodes(item)[1 + f] = Element(Fields[f], 6, <<>>, item[f])
<1> DEFINE E == Node(ElementNames, Pieces)
           x == Element("Item", 5, <<>>, <<>>)
           head == <<x>>
           fields == [f \in DOMAIN Fields |-> Element(Fields[f], 6, <<>>, item[f])]
<1>1. DOMAIN Fields = 1 .. 3 /\ \A f \in 1 .. 3 : Fields[f] \in ElementNames
  BY DEF Fields, ElementNames
<1>2. Seq(Value) \subseteq Seq(Pieces) /\ <<>> \in Seq(Pieces)
  <2>1. Value \subseteq Pieces
    BY DEF Pieces
  <2> QED
    BY <2>1, SeqMonotonic
<1>3. x \in E
  <2>1. "Item" \in ElementNames
    BY DEF ElementNames
  <2> QED
    BY <1>2, <2>1, ElementNode
<1>4. ASSUME NEW f \in 1 .. 3 PROVE Element(Fields[f], 6, <<>>, item[f]) \in E
  <2>1. item[f] \in Seq(Pieces)
    BY <1>1, <1>2 DEF Item
  <2> QED
    BY <1>1, <1>2, <2>1, ElementNode
<1>5. \A f \in 1 .. 3 : fields[f] = Element(Fields[f], 6, <<>>, item[f])
  BY <1>1
<1>6. fields \in Seq(E) /\ Len(fields) = 3
  <2>1. fields \in [1 .. 3 -> E]
    BY <1>1, <1>4
  <2> HIDE DEF fields, E
  <2> QED
    BY <2>1, FunctionIsSequence
<1>7. ItemNodes(item) = head \o fields
  BY DEF ItemNodes
<1> HIDE DEF fields, E, x
<1>8. /\ head \o fields \in Seq(E) /\ Len(head \o fields) = 4
      /\ (head \o fields)[1] = x /\ \A f \in 1 .. 3 : (head \o fields)[1 + f] = fields[f]
  <2> DEFINE whole == <<x>> \o fields
  <2>1. fields \in Seq(E)
    BY <1>6
  <2>2. /\ whole \in Seq(E) /\ Len(whole) = Len(fields) + 1 /\ whole[1] = x
        /\ \A k \in 1 .. Len(fields) : whole[1 + k] = fields[k]
    BY <1>3, <2>1, PutBefore
  <2> HIDE DEF whole
  <2>3. /\ whole \in Seq(E) /\ Len(whole) = 4 /\ whole[1] = x
        /\ \A f \in 1 .. 3 : whole[1 + f] = fields[f]
    BY <1>6, <2>2
  <2> QED
    BY <2>3 DEF whole
<1> QED
  BY <1>5, <1>7, <1>8 DEF E, x

\* A computer is one element and four for each item.
LEMMA ComputerNodesAre ==
    ASSUME NEW computer \in Computer
    PROVE  LET C == ComputerNodes(computer)
               n == Len(computer.items) IN
           /\ n \in Nat /\ C \in Seq(Node(ElementNames, Pieces)) /\ Len(C) = 4 * n + 1
           /\ C[1] = Element("Computer", 4, computer.ip, <<>>)
           /\ \A i \in 1 .. n :
                 /\ C[4 * i - 2] = Element("Item", 5, <<>>, <<>>)
                 /\ \A f \in 1 .. 3 :
                       C[4 * i - 2 + f] = Element(Fields[f], 6, <<>>, computer.items[i][f])
<1> DEFINE E == Node(ElementNames, Pieces)
           items == computer.items
           n == Len(items)
           x == Element("Computer", 4, computer.ip, <<>>)
           head == <<x>>
           ss == [i \in DOMAIN items |-> ItemNodes(items[i])]
           F == FlattenSeq(ss)
<1>1. /\ items \in Seq(Item) /\ n \in Nat /\ DOMAIN items = 1 .. n
      /\ \A i \in 1 .. n : items[i] \in Item
  <2>1. items \in Seq(Item)
    BY DEF Computer
  <2> HIDE DEF items
  <2> QED
    BY <2>1, LenProperties, ElementOfSeq
<1>2. x \in E
  <2>1. "Computer" \in ElementNames
    BY DEF ElementNames
  <2>2. computer.ip \in Seq(Value) /\ Value \subseteq Pieces
    BY DEF Computer, Pieces
  <2>3. computer.ip \in Seq(Pieces) /\ <<>> \in Seq(Pieces)
    BY <2>2, SeqMonotonic
  <2> QED
    BY <2>1, <2>3, ElementNode
<1>3. \A i \in 1 .. n : ss[i] = ItemNodes(items[i])
  BY <1>1
<1>4. \A i \in 1 .. n :
         /\ ss[i] \in Seq(E) /\ Len(ss[i]) = 4 /\ ss[i][1] = Element("Item", 5, <<>>, <<>>)
         /\ \A f \in 1 .. 3 : ss[i][1 + f] = Element(Fields[f], 6, <<>>, items[i][f])
  <2> HIDE DEF items, ss, E
  <2> QED
    BY <1>1, <1>3, ItemNodesAre DEF E
<1>5. ss \in Seq(Seq(E)) /\ Len(ss) = n
  <2>1. ss \in [1 .. n -> Seq(E)]
    <3>1. ss \in [1 .. n -> {ss[i] : i \in 1 .. n}]
      BY <1>1
    <3> HIDE DEF ss, E
    <3> QED
      BY <1>4, <3>1
  <2> HIDE DEF ss, E, n
  <2> QED
    BY <1>1, <2>1
<1>6. F \in Seq(E) /\ \E s : Laid(s, ss, F)
  <2> HIDE DEF ss, E
  <2> QED
    BY <1>5, FlattenLays
<1>7. PICK s : Laid(s, ss, F)
  BY <1>6
<1> HIDE DEF ss, F, n, items, E, x
<1> DEFINE S == {i \in Nat : i <= n => s[i + 1] = 4 * i}
<1>8. \A i \in Nat : i \in S
  <2>1. 0 \in S
    <3>1. s[0 + 1] = 0
      BY <1>7 DEF Laid
    <3> QED
      BY <3>1
  <2>2. ASSUME NEW i \in Nat, i \in S PROVE i + 1 \in S
    <3> SUFFICES ASSUME i + 1 <= n PROVE s[(i + 1) + 1] = 4 * (i + 1)
      OBVIOUS
    <3>1. i + 1 \in 1 .. n /\ s[i + 1] = 4 * i
      BY <1>1, <2>2
    <3>2. s[(i + 1) + 1] = s[i + 1] + Len(ss[i + 1]) /\ Len(ss[i + 1]) = 4
      BY <1>4, <1>5, <1>7, <3>1 DEF Laid
    <3> QED
      BY <3>1, <3>2
  <2> HIDE DEF S
  <2> QED
    BY <2>1, <2>2, Induction
<1>9. Len(F) = 4 * n
  <2>1. s[n + 1] = 4 * n
    BY <1>1, <1>8
  <2> QED
    BY <1>5, <1>7, <2>1 DEF Laid
<1>10. ASSUME NEW i \in 1 .. n PROVE \A j \in 1 .. 4 : F[4 * i - 4 + j] = ss[i][j]
  <2>1. i - 1 \in Nat /\ i - 1 <= n /\ (i - 1) + 1 = i /\ 4 * (i - 1) = 4 * i - 4
    BY <1>1
  <2>2. s[i] = 4 * i - 4
    BY <1>8, <2>1
  <2>3. \A j \in 1 .. Len(ss[i]) : F[s[i] + j] = ss[i][j]
    BY <1>5, <1>7 DEF Laid
  <2> QED
    BY <1>4, <2>2, <2>3
<1> DEFINE C == head \o F
<1>11. ComputerNodes(computer) = C
  BY DEF ComputerNodes, F, ss, items, x
<1>12. /\ C \in Seq(E) /\ Len(C) = 4 * n + 1 /\ C[1] = x
       /\ \A k \in 1 .. (4 * n) : C[1 + k] = F[k]
  BY <1>1, <1>2, <1>6, <1>9, PutBefore
<1> HIDE DEF C
<1>13. ASSUME NEW i \in 1 .. n, NEW j \in 1 .. 4 PROVE C[4 * i - 3 + j] = ss[i][j]
  <2> DEFINE k == 4 * i - 4 + j
  <2>1. k \in 1 .. (4 * n) /\ 1 + k = 4 * i - 3 + j
    BY <1>1
  <2>2. F[k] = ss[i][j]
    BY <1>10
  <2> HIDE DEF k
  <2> QED
    BY <1>12, <2>1, <2>2
<1>14. ASSUME NEW i \in 1 .. n
       PROVE  /\ C[4 * i - 2] = Element("Item", 5, <<>>, <<>>)
              /\ \A f \in 1 .. 3 : C[4 * i - 2 + f] = Element(Fields[f], 6, <<>>, items[i][f])
  <2>1. C[4 * i - 2] = ss[i][1]
    <3>1. 1 \in 1 .. 4 /\ 4 * i - 3 + 1 = 4 * i - 2
      BY <1>1
    <3>2. C[4 * i - 3 + 1] = ss[i][1]
      BY <1>13, <3>1
    <3> QED
      BY <3>1, <3>2
  <2>2. ASSUME NEW f \in 1 .. 3 PROVE C[4 * i - 2 + f] = ss[i][1 + f]
    <3>1. 1 + f \in 1 .. 4 /\ 4 * i - 3 + (1 + f) = 4 * i - 2 + f
      BY <1>1
    <3>2. C[4 * i - 3 + (1 + f)] = ss[i][1 + f]
      BY <1>13, <3>1
    <3> QED
      BY <3>1, <3>2
  <2> QED
    BY <1>4, <2>1, <2>2
<1> QED
  BY <1>1, <1>11, <1>12, <1>14 DEF E, n, items, x

\* The elements behind the first are those of items, four of each.
LEMMA Quarter ==
    ASSUME NEW k \in Nat, k >= 2
    PROVE  \E i \in Nat \ {0} : \E f \in 0 .. 3 : k = 4 * i - 2 + f
<1> DEFINE At(n, i, f) == n + 2 = 4 * i - 2 + f
           S == {n \in Nat : \E i \in Nat \ {0} : \E f \in 0 .. 3 : At(n, i, f)}
<1>1. At(0, 1, 0)
  OBVIOUS
<1>2. ASSUME NEW n \in Nat, NEW i \in Nat \ {0}, NEW f \in 0 .. 3, At(n, i, f)
      PROVE  (f + 1 \in 0 .. 3 /\ At(n + 1, i, f + 1)) \/ At(n + 1, i + 1, 0)
  BY <1>2
<1>3. \A n, i, f : At(n, i, f) => n + 2 = 4 * i - 2 + f
  OBVIOUS
<1> HIDE DEF At
<1>4. 0 \in S
  BY <1>1
<1>5. ASSUME NEW n \in Nat, n \in S PROVE n + 1 \in S
  <2>1. PICK i \in Nat \ {0}, f \in 0 .. 3 : At(n, i, f)
    BY <1>5
  <2>2. i + 1 \in Nat \ {0} /\ 0 \in 0 .. 3 /\ n + 1 \in Nat
    OBVIOUS
  <2>3. (f + 1 \in 0 .. 3 /\ At(n + 1, i, f + 1)) \/ At(n + 1, i + 1, 0)
    BY <1>2, <2>1
  <2> QED
    BY <2>2, <2>3
<1> HIDE DEF S
<1>6. k - 2 \in S
  BY <1>4, <1>5, Induction
<1>7. PICK i \in Nat \ {0}, f \in 0 .. 3 : At(k - 2, i, f)
  BY <1>6 DEF S
<1>8. k = 4 * i - 2 + f
  BY <1>3, <1>7
<1> QED
  BY <1>8

\* The names and depths of a computer's elements.
LEMMA ComputerShape ==
    ASSUME NEW computer \in Computer
    PROVE  LET C == ComputerNodes(computer)
               n == Len(computer.items) IN
           /\ C[1].name = "Computer" /\ C[1].depth = 4
           /\ \A i \in 1 .. n :
                 /\ C[4 * i - 2].name = "Item" /\ C[4 * i - 2].depth = 5
                 /\ \A f \in 1 .. 3 : /\ C[4 * i - 2 + f].name = Fields[f]
                                      /\ C[4 * i - 2 + f].depth = 6
                                      /\ C[4 * i - 2 + f].text = computer.items[i][f]
           /\ \A k \in 2 .. Len(C) :
                 \E i \in 1 .. n : \E f \in 0 .. 3 : k = 4 * i - 2 + f
           /\ \A k \in 2 .. Len(C) : C[k].depth > 4 /\ C[k].depth <= C[k - 1].depth + 1
<1> DEFINE C == ComputerNodes(computer)
           n == Len(computer.items)
           items == computer.items
<1>1. /\ n \in Nat /\ Len(C) = 4 * n + 1
      /\ C[1] = Element("Computer", 4, computer.ip, <<>>)
      /\ \A i \in 1 .. n :
            /\ C[4 * i - 2] = Element("Item", 5, <<>>, <<>>)
            /\ \A f \in 1 .. 3 : C[4 * i - 2 + f] = Element(Fields[f], 6, <<>>, items[i][f])
  BY ComputerNodesAre
<1>2. \A m, d, a, t : /\ Element(m, d, a, t).name = m /\ Element(m, d, a, t).depth = d
                      /\ Element(m, d, a, t).text = t
  BY DEF Element
<1> HIDE DEF C, n, items
<1>3. C[1].name = "Computer" /\ C[1].depth = 4
  BY <1>1, <1>2
<1>4. ASSUME NEW i \in 1 .. n
      PROVE  /\ C[4 * i - 2].name = "Item" /\ C[4 * i - 2].depth = 5
             /\ \A f \in 1 .. 3 : /\ C[4 * i - 2 + f].name = Fields[f]
                                  /\ C[4 * i - 2 + f].depth = 6
                                  /\ C[4 * i - 2 + f].text = items[i][f]
  BY <1>1, <1>2
<1>5. ASSUME NEW k \in 2 .. Len(C)
      PROVE  \E i \in 1 .. n : \E f \in 0 .. 3 : k = 4 * i - 2 + f
  <2>1. k \in Nat /\ k >= 2 /\ k <= 4 * n + 1
    BY <1>1
  <2>2. PICK i \in Nat \ {0}, f \in 0 .. 3 : k = 4 * i - 2 + f
    BY <2>1, Quarter
  <2>3. i \in 1 .. n
    BY <1>1, <2>1, <2>2
  <2> QED
    BY <2>2, <2>3
<1>6. ASSUME NEW k \in 2 .. Len(C)
      PROVE  C[k].depth \in {5, 6} /\ (C[k].depth = 6 => C[k - 1].depth \in {5, 6})
  <2>1. PICK i \in 1 .. n, f \in 0 .. 3 : k = 4 * i - 2 + f
    BY <1>5
  <2>2. C[4 * i - 2].depth = 5 /\ \A h \in 1 .. 3 : C[4 * i - 2 + h].depth = 6
    BY <1>4
  <2>3. CASE f = 0
    <3>1. k = 4 * i - 2
      BY <1>1, <2>1, <2>3
    <3> QED
      BY <2>2, <3>1
  <2>4. CASE f = 1
    <3>1. f \in 1 .. 3 /\ k - 1 = 4 * i - 2
      BY <1>1, <2>1, <2>4
    <3> QED
      BY <2>1, <2>2, <3>1
  <2>5. CASE f \in 2 .. 3
    <3>1. f \in 1 .. 3 /\ f - 1 \in 1 .. 3 /\ k - 1 = 4 * i - 2 + (f - 1)
      BY <1>1, <2>1, <2>5
    <3> QED
      BY <2>1, <2>2, <3>1
  <2> QED
    BY <2>3, <2>4, <2>5
<1>7. ASSUME NEW k \in 2 .. Len(C) PROVE C[k].depth > 4 /\ C[k].depth <= C[k - 1].depth + 1
  <2>1. C[k - 1].depth \in {4, 5, 6}
    <3>1. k - 1 = 1 \/ k - 1 \in 2 .. Len(C)
      BY <1>1
    <3> QED
      BY <1>3, <1>6, <3>1
  <2>2. C[k].depth \in {5, 6} /\ (C[k].depth = 6 => C[k - 1].depth \in {5, 6})
    BY <1>6
  <2> DEFINE x == C[k].depth
             y == C[k - 1].depth
  <2> HIDE DEF x, y
  <2>3. x > 4 /\ x <= y + 1
    BY <2>1, <2>2 DEF x, y
  <2> QED
    BY <2>3 DEF x, y
<1> QED
  BY <1>3, <1>4, <1>5, <1>7 DEF C, n, items

\* A value, and the only one of the first children of an element.
IsValue(x, D) == x \in Seq(D)
IsFirst(ns, k, m, j) == FirstChild(ns, {k}, m) = {j}

\* The value of a child is its text.
LEMMA OneChildValue ==
    ASSUME NEW ns, NEW k, NEW m, NEW j, IsFirst(ns, k, m, j),
           NEW D, IsValue(ns[j].text, D)
    PROVE  child_value(ns, k, m) = ns[j].text
<1> DEFINE t == ns[j].text
           F == FirstChild(ns, {k}, m)
<1>6. F = {j}
  BY DEF IsFirst
<1>1. Cardinality(F) = 1
  BY <1>6, FS_Singleton
<1>2. (CHOOSE i \in F : TRUE) = j
  BY <1>6
<1>3. child_value(ns, k, m) = FlattenSeq([i \in 1 .. Cardinality(F) |-> ns[CHOOSE z \in F : TRUE].text])
  BY DEF child_value
<1>4. [i \in 1 .. Cardinality(F) |-> ns[CHOOSE z \in F : TRUE].text] = <<t>>
  <2>1. [i \in 1 .. 1 |-> t] = <<t>>
    OBVIOUS
  <2> HIDE DEF F
  <2> QED
    BY <1>1, <1>2, <2>1
<1>5. FlattenSeq(<<t>>) = t
  <2>1. <<>> \in Seq(Seq(D)) /\ Append(<<>>, t) = <<t>> /\ t \in Seq(D)
    BY DEF IsValue
  <2>2. FlattenSeq(<<t>>) = FlattenSeq(<<>>) \o t
    <3> HIDE DEF t
    <3> QED
      BY <2>1, FlattenAppend
  <2>3. <<>> \o t = t
    <3> HIDE DEF t
    <3> QED
      BY <2>1, ConcatEmptySeq
  <2> QED
    BY <2>2, <2>3, FlattenNothing
<1> QED
  BY <1>3, <1>4, <1>5

\* The first child of a name, and the children within its parent.
LEMMA FirstOf ==
    ASSUME NEW ns, NEW ks, NEW m, NEW j \in Children(ns, ks, m),
           Children(ns, ks, m) \subseteq Nat, \A i \in Children(ns, ks, m) : j <= i
    PROVE  FirstChild(ns, ks, m) = {j}
<1> DEFINE all == Children(ns, ks, m)
<1>1. FirstChild(ns, ks, m) = {i \in all : \A h \in all : i <= h}
  BY DEF FirstChild
<1>2. ASSUME NEW i \in all, \A h \in all : i <= h PROVE i = j
  <2>1. i \in Nat /\ j \in Nat /\ i <= j /\ j <= i
    BY <1>2
  <2> QED
    BY <2>1
<1> HIDE DEF all
<1> QED
  BY <1>1, <1>2 DEF all

\* What a display shows of the text of a computer's first elements: the items
\* of that computer, of which the last may not be whole
\* (xml_node::print, handle_recieved_data).
LEMMA ItemsOfCut ==
    ASSUME NEW computer \in Computer, NEW U, NEW b \in Seq(Node(U, U)), b # <<>>,
           CutOf(b, ComputerNodes(computer)), b[1].name = "Computer"
    PROVE  LET items == computer.items
               shown == ItemsShown(PrintAll(b)) IN
           /\ Len(shown) \in Nat /\ Len(shown) <= Len(items)
           /\ \A i \in 1 .. (Len(shown) - 1) : shown[i] = items[i]
           /\ Len(shown) # 0 => b[1] = ComputerNodes(computer)[1]
           /\ b = ComputerNodes(computer) => shown = items
<1> DEFINE C == ComputerNodes(computer)
           items == computer.items
           n == Len(items)
           M == Len(b)
           W == IF b[M].name = C[M].name THEN M ELSE M - 1
<1>1. /\ n \in Nat /\ Len(C) = 4 * n + 1 /\ items \in Seq(Item)
  <2>1. items \in Seq(Item)
    BY DEF Computer
  <2> HIDE DEF items
  <2> QED
    BY <2>1, ComputerNodesAre, LenProperties DEF items
<1>2. /\ C[1].name = "Computer" /\ C[1].depth = 4
      /\ \A i \in 1 .. n : /\ C[4 * i - 2].name = "Item" /\ C[4 * i - 2].depth = 5
                           /\ \A f \in 1 .. 3 : /\ C[4 * i - 2 + f].name = Fields[f]
                                                /\ C[4 * i - 2 + f].depth = 6
                                                /\ C[4 * i - 2 + f].text = items[i][f]
      /\ \A k \in 2 .. Len(C) : \E i \in 1 .. n : \E f \in 0 .. 3 : k = 4 * i - 2 + f
      /\ \A k \in 2 .. Len(C) : C[k].depth > 4 /\ C[k].depth <= C[k - 1].depth + 1
  BY ComputerShape
<1>3. M \in Nat \ {0} /\ \A k \in 1 .. M : b[k] \in Node(U, U)
  <2>1. M \in Nat /\ M # 0 /\ \A k \in 1 .. M : b[k] \in Node(U, U)
    BY EmptySeq, LenProperties, ElementOfSeq
  <2> QED
    BY <2>1
<1>4. /\ M <= Len(C)
      /\ \A k \in 1 .. M : /\ b[k].name \in {C[k].name, Damaged} /\ b[k].depth = C[k].depth
                           /\ k < M \/ b = C => b[k] = C[k]
  BY DEF CutOf
<1> HIDE DEF C, n, items, M
\* Those that have their names.
<1>24. /\ W \in 1 .. M /\ M <= W + 1 /\ (b = C => W = M)
       /\ \A k \in 1 .. W : k \in 1 .. M /\ b[k].name = C[k].name
       /\ \A k \in 1 .. M : k > W => b[k].name = Damaged
  <2>1. M = 1 => b[M].name = C[M].name
    BY <1>2
  <2>2. b = C => b[M].name = C[M].name
    OBVIOUS
  <2>3. CASE b[M].name = C[M].name
    BY <1>3, <1>4, <2>3
  <2>4. CASE b[M].name # C[M].name
    <3>1. W = M - 1 /\ M # 1 /\ b # C
      BY <2>1, <2>2, <2>4
    <3>2. W \in 1 .. M /\ M = W + 1 /\ M \in 1 .. M
      BY <1>3, <3>1
    <3>3. b[M].name = Damaged
      BY <1>4, <2>4, <3>2
    <3>4. \A k \in 1 .. W : k \in 1 .. M /\ k < M
      BY <1>3, <3>2
    <3>5. \A k \in 1 .. M : k > W => k = M
      BY <1>3, <3>2
    <3> QED
      BY <1>3, <1>4, <3>1, <3>2, <3>3, <3>4, <3>5
  <2> QED
    BY <2>3, <2>4
<1> HIDE DEF W
<1>5. \A k \in 1 .. M : b[k].depth \in Nat /\ b[k].text \in Seq(U) /\ b[k].attribute \in Seq(U)
  BY <1>3 DEF Node
<1>6. IsTree(b, 4)
  <2>1. b[1].depth = 4
    <3>1. 1 \in 1 .. M
      BY <1>3
    <3> QED
      BY <1>2, <1>4, <3>1
  <2>2. ASSUME NEW k \in 2 .. M PROVE b[k].depth > 4 /\ b[k].depth <= b[k - 1].depth + 1
    <3>1. k \in 2 .. Len(C) /\ k \in 1 .. M /\ k - 1 \in 1 .. M
      BY <1>1, <1>3, <1>4
    <3>2. C[k].depth > 4 /\ C[k].depth <= C[k - 1].depth + 1
      BY <1>2, <3>1
    <3>3. b[k].depth = C[k].depth /\ b[k - 1].depth = C[k - 1].depth
      BY <1>4, <3>1
    <3> QED
      BY <3>2, <3>3
  <2> QED
    BY <2>1, <2>2 DEF IsTree, M
<1> DEFINE q == Moved(b, M, 4)
<1>7. Parse(PrintAll(b)) = q
  <2>1. 4 \in Nat
    OBVIOUS
  <2> QED
    BY <1>6, <2>1, ParseUndoesPrint DEF M
<1>8. Len(q) = M /\ \A k \in 1 .. M : /\ q[k].name = b[k].name /\ q[k].depth = C[k].depth - 3
                                      /\ q[k].text = b[k].text
  <2>1. Len(q) = M
    BY <1>3 DEF Moved
  <2>2. ASSUME NEW k \in 1 .. M
        PROVE  q[k].name = b[k].name /\ q[k].depth = C[k].depth - 3 /\ q[k].text = b[k].text
    <3>1. q[k] = Elem(b[k].name, b[k].depth - 4 + 1, b[k].attribute, b[k].text)
      BY DEF Moved
    <3>2. b[k].depth = C[k].depth /\ b[k].depth \in Nat
      BY <1>4, <1>5
    <3>3. q[k].name = b[k].name /\ q[k].depth = b[k].depth - 4 + 1 /\ q[k].text = b[k].text
      BY <3>1 DEF Elem
    <3> HIDE DEF q
    <3>4. b[k].depth - 4 + 1 = b[k].depth - 3
      BY <3>2
    <3> QED
      BY <3>2, <3>3, <3>4
  <2> QED
    BY <2>1, <2>2
<1> HIDE DEF q
<1>9. /\ q[1].name = "Computer" /\ q[1].depth = 1 /\ 1 \in 1 .. M
      /\ \A k \in 2 .. M : q[k].depth > 1
  <2>1. 1 \in 1 .. M
    BY <1>3
  <2>2. \A k \in 2 .. M : k \in 1 .. M /\ k \in 2 .. Len(C)
    BY <1>1, <1>3, <1>4
  <2>3. ASSUME NEW k \in 2 .. M PROVE q[k].depth > 1
    <3>1. C[k].depth > 4 /\ q[k].depth = C[k].depth - 3 /\ C[k].depth \in Nat
      BY <1>2, <1>4, <1>5, <1>8, <2>2
    <3> QED
      BY <3>1
  <2>4. q[1].depth = 4 - 3
    BY <1>2, <1>8, <2>1
  <2> QED
    BY <1>2, <1>8, <2>1, <2>3, <2>4
<1>10. FirstChild(q, {0}, "Computer") = {1}
  <2>1. Children(q, {0}, "Computer")
            = {j \in Below(q, 0) : q[j].depth = DepthOf(q, 0) + 1 /\ q[j].name = "Computer"}
    BY DEF Children
  <2>2. DepthOf(q, 0) + 1 = 1
    BY DEF DepthOf
  <2>3. Below(q, 0) \subseteq 1 .. M
    BY <1>8 DEF Below
  <2>4. 1 \in Below(q, 0)
    <3>1. 1 \in 0 + 1 .. Len(q) /\ \A i \in 0 + 1 .. 1 : q[i].depth > DepthOf(q, 0)
      <4>1. \A i \in 0 + 1 .. 1 : i = 1
        OBVIOUS
      <4>2. q[1].depth > DepthOf(q, 0)
        BY <1>9 DEF DepthOf
      <4>3. 1 \in 0 + 1 .. Len(q)
        BY <1>3, <1>8
      <4> QED
        BY <4>1, <4>2, <4>3
    <3> QED
      BY <3>1 DEF Below
  <2>5. 1 \in Children(q, {0}, "Computer") /\ \A i \in Children(q, {0}, "Computer") : i \in 1 .. M
    BY <1>9, <2>1, <2>2, <2>3, <2>4
  <2>6. Children(q, {0}, "Computer") \subseteq Nat /\ \A i \in Children(q, {0}, "Computer") : 1 <= i
    BY <1>3, <2>5
  <2> QED
    BY <2>5, <2>6, FirstOf
<1>11. Below(q, 1) = 2 .. M
  <2>1. Below(q, 1) = {j \in 1 + 1 .. M : \A i \in 1 + 1 .. j : q[i].depth > 1}
    BY <1>8, <1>9 DEF Below, DepthOf
  <2>2. 1 + 1 = 2
    OBVIOUS
  <2>3. \A j \in 2 .. M : \A i \in 2 .. j : i \in 2 .. M
    BY <1>3
  <2>4. Below(q, 1) = {j \in 2 .. M : \A i \in 2 .. j : q[i].depth > 1}
    BY <2>1, <2>2
  <2> QED
    BY <1>9, <2>3, <2>4
<1>12. \E r \in 0 .. n : \A i \in 1 .. n : i <= r <=> 4 * i - 2 <= W
  <2>1. CASE W = 1
    <3>1. 0 \in 0 .. n /\ \A i \in 1 .. n : i <= 0 <=> 4 * i - 2 <= W
      BY <1>1, <2>1
    <3> QED
      BY <3>1
  <2>2. CASE W >= 2
    <3>0. W \in Nat /\ W >= 2
      BY <1>3, <1>24, <2>2
    <3>1. PICK i \in Nat \ {0}, f \in 0 .. 3 : W = 4 * i - 2 + f
      BY <3>0, Quarter
    <3>2. i \in 0 .. n
      BY <1>1, <1>3, <1>4, <1>24, <3>1
    <3>3. \A j \in 1 .. n : j <= i <=> 4 * j - 2 <= W
      BY <1>1, <3>1
    <3> QED
      BY <3>2, <3>3
  <2> QED
    BY <1>3, <1>24, <2>1, <2>2
<1>13. PICK r \in 0 .. n : \A i \in 1 .. n : i <= r <=> 4 * i - 2 <= W
  BY <1>12
<1>14. \A i \in 1 .. r : i \in 1 .. n /\ 4 * i - 2 \in 2 .. W /\ 4 * i - 2 \in 2 .. M
                         /\ 4 * i - 2 \in 1 .. W /\ 4 * i - 2 \in 1 .. M
  BY <1>1, <1>3, <1>13, <1>24
<1>15. \A i \in 1 .. r : q[4 * i - 2].depth = 2 /\ q[4 * i - 2].name = "Item"
  <2> SUFFICES ASSUME NEW i \in 1 .. r
               PROVE  q[4 * i - 2].depth = 2 /\ q[4 * i - 2].name = "Item"
    OBVIOUS
  <2>1. /\ C[4 * i - 2].name = "Item" /\ C[4 * i - 2].depth = 5
        /\ 4 * i - 2 \in 1 .. M /\ 4 * i - 2 \in 1 .. W
    BY <1>2, <1>14
  <2>2. q[4 * i - 2].depth = 5 - 3
    BY <1>8, <2>1
  <2> QED
    BY <1>8, <1>24, <2>1, <2>2
<1>16. ASSUME NEW i \in 1 .. n, NEW f \in 1 .. 3, 4 * i - 2 + f <= M
       PROVE  /\ 4 * i - 2 + f \in 1 .. M
              /\ q[4 * i - 2 + f].depth = 3
              /\ 4 * i - 2 + f <= W => q[4 * i - 2 + f].name = Fields[f]
  <2>1. /\ 4 * i - 2 + f \in 1 .. M /\ C[4 * i - 2 + f].name = Fields[f]
        /\ C[4 * i - 2 + f].depth = 6
    <3>1. 4 * i - 2 + f \in 1 .. M
      BY <1>1, <1>3, <1>16
    <3> QED
      BY <1>2, <3>1
  <2>2. q[4 * i - 2 + f].depth = 6 - 3
    BY <1>8, <2>1
  <2>3. 4 * i - 2 + f <= W => 4 * i - 2 + f \in 1 .. W
    BY <1>1, <1>3, <1>24
  <2> QED
    BY <1>8, <1>24, <2>1, <2>2, <2>3
<1> DEFINE t == [i \in 1 .. r |-> 4 * i - 2]
           ks == Children(q, {1}, "Item")
<1>17. ks = {t[i] : i \in 1 .. r}
  <2>1. ks = {j \in 2 .. M : q[j].depth = 2 /\ q[j].name = "Item"}
    <3>1. DepthOf(q, 1) + 1 = 2
      BY <1>9 DEF DepthOf
    <3> QED
      BY <1>11, <3>1 DEF Children
  <2>2. ASSUME NEW i \in 1 .. r PROVE t[i] \in ks
    BY <1>14, <1>15, <2>1
  <2>3. ASSUME NEW j \in ks PROVE \E i \in 1 .. r : j = t[i]
    <3>1. j \in 2 .. Len(C) /\ j \in 2 .. M /\ q[j].depth = 2 /\ j <= W
      <4>1. j \in 2 .. Len(C) /\ j \in 2 .. M /\ j \in 1 .. M
        BY <1>1, <1>3, <1>4, <2>1
      <4>2. q[j].depth = 2 /\ q[j].name = "Item"
        BY <2>1
      <4>3. ~(j > W)
        BY <1>8, <1>24, <4>1, <4>2 DEF Damaged
      <4> QED
        BY <1>3, <1>24, <4>1, <4>2, <4>3
    <3>2. PICK i \in 1 .. n, f \in 0 .. 3 : j = 4 * i - 2 + f
      BY <1>2, <3>1
    <3>3. f = 0
      <4>1. f \in 1 .. 3 => 4 * i - 2 + f <= M
        BY <3>1, <3>2
      <4>2. f \in 1 .. 3 => q[j].depth = 3
        BY <1>16, <3>2, <4>1
      <4> QED
        BY <3>1, <4>2
    <3>4. j = 4 * i - 2 /\ 4 * i - 2 <= W
      BY <1>1, <3>1, <3>2, <3>3
    <3>5. i \in 1 .. r
      BY <1>1, <1>13, <3>4
    <3> QED
      BY <3>4, <3>5
  <2> HIDE DEF ks, t
  <2> QED
    BY <2>2, <2>3
<1>18. InOrder(ks) = t
  <2>1. t \in [1 .. r -> Nat] /\ r \in Nat
    BY <1>1, <1>14
  <2>2. Ascends(t, r)
    BY <2>1 DEF Ascends
  <2> HIDE DEF t, ks
  <2> QED
    BY <1>17, <2>1, <2>2, InOrderIs
<1> DEFINE shown == ItemsShown(PrintAll(b))
           S(i) == [f \in DOMAIN Fields |-> child_value(q, 4 * i - 2, Fields[f])]
<1>19. shown = [i \in 1 .. r |-> S(i)]
  <2>1. shown = [i \in DOMAIN t |-> [f \in DOMAIN Fields |-> child_value(q, t[i], Fields[f])]]
    <3> HIDE DEF t, S
    <3> QED
      BY <1>7, <1>10, <1>18 DEF ItemsShown
  <2> QED
    BY <2>1
<1> HIDE DEF ks, t, shown
<1>20. ASSUME NEW i \in 1 .. r, 4 * i + 1 <= M, 4 * i + 1 < M \/ b = C
       PROVE  S(i) = items[i]
  <2> DEFINE j == 4 * i - 2
  <2>1. i \in 1 .. n /\ j \in 1 .. M /\ j \in Nat /\ j # 0 /\ j + 3 = 4 * i + 1
    BY <1>1, <1>14
  <2>2. q[j].depth = 2 /\ \A f \in 1 .. 3 : /\ j + f \in 1 .. M /\ q[j + f].depth = 3
                                            /\ q[j + f].name = Fields[f]
    <3>1. \A f \in 1 .. 3 : 4 * i - 2 + f <= M /\ 4 * i - 2 + f <= W
      BY <1>3, <1>20, <1>24, <2>1
    <3> QED
      BY <1>15, <1>16, <2>1, <3>1
  <2>3. ASSUME j + 4 <= M PROVE q[j + 4].depth = 2
    <3> DEFINE h == i + 1
    <3>4. M <= 4 * n + 1
      BY <1>1, <1>4
    <3>1. h \in 1 .. n /\ 4 * h - 2 = j + 4 /\ 4 * h - 2 <= M /\ 4 * h - 2 \in 1 .. M
      BY <1>1, <1>3, <2>1, <2>3, <3>4
    <3> HIDE DEF h
    <3>2. C[4 * h - 2].depth = 5
      BY <1>2, <3>1
    <3>3. q[4 * h - 2].depth = 5 - 3
      BY <1>8, <3>1, <3>2
    <3> HIDE DEF j
    <3> QED
      BY <3>1, <3>3
  <2> HIDE DEF j
  <2>4. Below(q, j) = j + 1 .. j + 3
    <3>1. Below(q, j) = {h \in j + 1 .. M : \A x \in j + 1 .. h : q[x].depth > 2}
      BY <1>8, <2>1, <2>2 DEF Below, DepthOf
    <3>2. ASSUME NEW h \in j + 1 .. j + 3 PROVE q[h].depth = 3 /\ h \in j + 1 .. M
      <4>1. h - j \in 1 .. 3 /\ j + (h - j) = h
        BY <2>1
      <4>2. q[j + (h - j)].depth = 3 /\ j + (h - j) \in 1 .. M
        BY <2>2, <4>1
      <4> QED
        BY <1>3, <2>1, <4>1, <4>2
    <3>3. ASSUME NEW h \in j + 1 .. j + 3 PROVE h \in Below(q, j)
      <4>1. \A x \in j + 1 .. h : x \in j + 1 .. j + 3
        BY <2>1
      <4> QED
        BY <3>1, <3>2, <4>1
    <3>4. ASSUME NEW h \in Below(q, j) PROVE h \in j + 1 .. j + 3
      <4>1. h \in j + 1 .. M /\ \A x \in j + 1 .. h : q[x].depth > 2
        BY <3>1
      <4>2. h > j + 3 => j + 4 \in j + 1 .. h /\ j + 4 <= M
        BY <1>3, <2>1, <4>1
      <4>3. ~(h > j + 3)
        BY <2>3, <4>1, <4>2
      <4> QED
        BY <1>3, <2>1, <4>1, <4>3
    <3> QED
      BY <3>3, <3>4
  <2>5. ASSUME NEW f \in 1 .. 3 PROVE child_value(q, j, Fields[f]) = items[i][f]
    <3> DEFINE all == Children(q, {j}, Fields[f])
    <3>1. all = {h \in j + 1 .. j + 3 : q[h].depth = 3 /\ q[h].name = Fields[f]}
      <4>1. DepthOf(q, j) + 1 = 3
        BY <2>1, <2>2 DEF DepthOf
      <4> QED
        BY <2>4, <4>1 DEF Children
    <3>2. j + f \in all
      <4>1. j + f \in j + 1 .. j + 3
        BY <2>1
      <4> QED
        BY <2>2, <3>1, <4>1
    <3>3. ASSUME NEW h \in all PROVE h = j + f
      <4>1. h \in j + 1 .. j + 3 /\ q[h].name = Fields[f]
        BY <3>1
      <4>2. h - j \in 1 .. 3 /\ j + (h - j) = h
        BY <2>1, <4>1
      <4>3. q[j + (h - j)].name = Fields[h - j]
        BY <2>2, <4>2
      <4>4. Fields[h - j] = Fields[f]
        BY <4>1, <4>2, <4>3
      <4>5. h - j = f
        BY <4>2, <4>4 DEF Fields
      <4> QED
        BY <4>2, <4>5
    <3> HIDE DEF all
    <3>4. j + f \in Nat
      BY <2>1
    <3>5. FirstChild(q, {j}, Fields[f]) = {j + f}
      <4>1. all \subseteq Nat /\ \A h \in all : j + f <= h
        BY <3>3, <3>4
      <4> QED
        BY <3>2, <4>1, FirstOf DEF all
    <3>6. j + f \in 1 .. M /\ q[j + f].text = b[j + f].text /\ b[j + f].text \in Seq(U)
      BY <1>5, <1>8, <2>2
    <3>7. child_value(q, j, Fields[f]) = q[j + f].text
      <4> DEFINE z == j + f
      <4>1. IsFirst(q, j, Fields[f], z) /\ IsValue(q[z].text, U)
        BY <3>5, <3>6 DEF IsValue, IsFirst
      <4> HIDE DEF z
      <4>2. child_value(q, j, Fields[f]) = q[z].text
        BY <4>1, OneChildValue
      <4> QED
        BY <4>2 DEF z
    <3>8. b[j + f] = C[j + f]
      <4>1. j + f < M \/ b = C
        BY <1>3, <1>20, <2>1
      <4> QED
        BY <1>4, <3>6, <4>1
    <3>9. C[j + f].text = items[i][f]
      BY <1>2, <2>1 DEF j
    <3> QED
      BY <3>6, <3>7, <3>8, <3>9
  <2>6. DOMAIN Fields = 1 .. 3 /\ items[i] \in [1 .. 3 -> Seq(Value)]
    <3>1. DOMAIN Fields = 1 .. 3
      BY DEF Fields
    <3>2. items[i] \in Item
      BY <1>1, <2>1, ElementOfSeq DEF n
    <3> QED
      BY <3>1, <3>2 DEF Item
  <2>7. S(i) = [f \in 1 .. 3 |-> items[i][f]]
    BY <2>5, <2>6 DEF j
  <2> QED
    BY <2>6, <2>7
<1> HIDE DEF S
<1>21. Len(shown) = r /\ r \in Nat /\ r <= n
  BY <1>1, <1>19
<1>22. ASSUME NEW i \in 1 .. (r - 1) PROVE shown[i] = items[i]
  <2>1. i \in 1 .. r /\ i + 1 \in 1 .. r
    BY <1>1
  <2>2. 4 * (i + 1) - 2 \in 2 .. M
    BY <1>14, <2>1
  <2>3. 4 * i + 1 < M /\ 4 * i + 1 <= M
    BY <1>1, <1>3, <2>2
  <2> QED
    BY <1>19, <1>20, <2>1, <2>3
<1>23. ASSUME b = C PROVE shown = items
  <2>1. M = 4 * n + 1
    BY <1>1, <1>23 DEF M
  <2>2. r = n
    <3>1. n >= 1 => n \in 1 .. n /\ 4 * n - 2 <= M
      BY <1>1, <2>1
    <3>2. n >= 1 => n <= r
      BY <1>13, <1>23, <1>24, <3>1
    <3> QED
      BY <1>1, <3>2
  <2>3. \A i \in 1 .. r : shown[i] = items[i]
    <3> SUFFICES ASSUME NEW i \in 1 .. r PROVE shown[i] = items[i]
      OBVIOUS
    <3>1. 4 * i + 1 <= M
      BY <1>1, <2>1, <2>2
    <3> QED
      BY <1>19, <1>20, <1>23, <3>1
  <2>4. DOMAIN items = 1 .. n /\ items = [i \in 1 .. n |-> items[i]]
    BY <1>1, LenProperties DEF n
  <2> QED
    BY <1>19, <2>2, <2>3, <2>4
<1>25. ASSUME r # 0 PROVE b[1] = C[1]
  <2>1. 1 \in 1 .. r
    BY <1>1, <1>25
  <2>2. 4 * 1 - 2 \in 2 .. M
    BY <1>14, <2>1
  <2>3. 1 \in 1 .. M /\ 1 < M
    BY <1>3, <2>2
  <2> QED
    BY <1>4, <2>3
<1> QED
  BY <1>21, <1>22, <1>23, <1>25 DEF shown, C, items, n

\* Where the computers of an upload begin among the elements T of its text.
Starts(s, up, T) ==
    /\ s \in [1 .. (Len(up) + 1) -> Nat] /\ s[1] = 4 /\ s[Len(up) + 1] = Len(T) + 1
    /\ \A c \in 1 .. Len(up) :
          /\ s[c + 1] = s[c] + Len(ComputerNodes(up[c]))
          /\ \A j \in 1 .. Len(ComputerNodes(up[c])) :
                T[s[c] + j - 1] = ComputerNodes(up[c])[j]
    /\ \A k \in 4 .. Len(T) : \E c \in 1 .. Len(up) :
          \E j \in 1 .. Len(ComputerNodes(up[c])) : k = s[c] + j - 1
    /\ \A c, e \in 1 .. Len(up) : c < e => s[c + 1] <= s[e]

\* The elements of an upload's text: three, and then those of its computers.
LEMMA UploadNodesAre ==
    ASSUME NEW up \in Seq(Computer)
    PROVE  LET T == UploadNodes(up) IN
           /\ T \in Seq(Node(ElementNames, Pieces)) /\ Len(T) >= 3
           /\ T[1] = Element("Tacktech", 1, <<>>, <<>>)
           /\ T[2] = Element("Type", 2, <<"UPLOAD">>, <<>>)
           /\ T[3] = Element("Upload", 3, <<>>, <<>>)
           /\ \E s : Starts(s, up, T)
<1> DEFINE E == Node(ElementNames, Pieces)
           m == Len(up)
           e1 == Element("Tacktech", 1, <<>>, <<>>)
           e2 == Element("Type", 2, <<"UPLOAD">>, <<>>)
           e3 == Element("Upload", 3, <<>>, <<>>)
           head == <<e1, e2, e3>>
           ss == [c \in DOMAIN up |-> ComputerNodes(up[c])]
           F == FlattenSeq(ss)
           T == head \o F
<1>1. m \in Nat /\ DOMAIN up = 1 .. m /\ \A c \in 1 .. m : up[c] \in Computer
  BY LenProperties, ElementOfSeq
<1>2. e1 \in E /\ e2 \in E /\ e3 \in E
  <2>1. "Tacktech" \in ElementNames /\ "Type" \in ElementNames /\ "Upload" \in ElementNames
    BY DEF ElementNames
  <2>2. <<>> \in Seq(Pieces) /\ <<"UPLOAD">> \in Seq(Pieces)
    <3>1. "UPLOAD" \in Pieces
      BY DEF Pieces
    <3> QED
      BY <3>1
  <2> QED
    BY <2>1, <2>2, ElementNode
<1>3. \A c \in 1 .. m : ss[c] = ComputerNodes(up[c])
  BY <1>1
<1>4. \A c \in 1 .. m : ComputerNodes(up[c]) \in Seq(E)
  <2> SUFFICES ASSUME NEW c \in 1 .. m PROVE ComputerNodes(up[c]) \in Seq(E)
    OBVIOUS
  <2> QED
    BY <1>1, ComputerNodesAre
<1>5. ss \in Seq(Seq(E)) /\ Len(ss) = m
  <2>1. ss \in [1 .. m -> Seq(E)]
    <3> HIDE DEF E
    <3> QED
      BY <1>1, <1>4
  <2> HIDE DEF ss, E, m
  <2> QED
    BY <1>1, <2>1, FunctionIsSequence
<1>6. F \in Seq(E) /\ \E s : Laid(s, ss, F)
  <2> HIDE DEF ss, E
  <2> QED
    BY <1>5, FlattenLays
<1>7. PICK z : Laid(z, ss, F)
  BY <1>6
<1>8. /\ \A k \in 1 .. Len(F) : \E c \in 1 .. Len(ss) : \E i \in 1 .. Len(ss[c]) : k = z[c] + i
      /\ \A c, e \in 1 .. Len(ss) : c < e => z[c + 1] <= z[e]
  <2> HIDE DEF ss, E, F
  <2> QED
    BY <1>5, <1>7, LaidCovers
<1>9. UploadNodes(up) = T
  BY DEF UploadNodes
<1> HIDE DEF ss, F, m, E, e1, e2, e3
<1>10. head \in Seq(E) /\ Len(head) = 3 /\ head[1] = e1 /\ head[2] = e2 /\ head[3] = e3
  BY <1>2
<1> HIDE DEF head
<1>11. /\ T \in Seq(E) /\ Len(T) = 3 + Len(F) /\ Len(F) \in Nat
       /\ T[1] = e1 /\ T[2] = e2 /\ T[3] = e3
       /\ \A k \in 1 .. Len(F) : T[3 + k] = F[k]
  <2>1. head \in Seq(E) /\ F \in Seq(E) /\ Len(F) \in Nat
    BY <1>6, <1>10, LenProperties
  <2>2. /\ T \in Seq(E) /\ Len(T) = Len(head) + Len(F)
        /\ \A i \in 1 .. Len(head) + Len(F) :
              T[i] = IF i <= Len(head) THEN head[i] ELSE F[i - Len(head)]
    BY <2>1, ConcatProperties
  <2> HIDE DEF T
  <2>3. /\ Len(T) = 3 + Len(F)
        /\ \A i \in 1 .. 3 + Len(F) : T[i] = IF i <= 3 THEN head[i] ELSE F[i - 3]
    BY <1>10, <2>2
  <2>4. T[1] = head[1] /\ T[2] = head[2] /\ T[3] = head[3]
    BY <2>1, <2>3
  <2>5. ASSUME NEW k \in 1 .. Len(F) PROVE T[3 + k] = F[k]
    <3>1. 3 + k \in 1 .. 3 + Len(F) /\ ~(3 + k <= 3) /\ 3 + k - 3 = k
      BY <2>1
    <3> QED
      BY <2>3, <3>1
  <2> QED
    BY <1>10, <2>1, <2>2, <2>3, <2>4, <2>5
<1> HIDE DEF T
<1> DEFINE s == [c \in 1 .. (m + 1) |-> z[c] + 4]
<1>12. \A c \in 1 .. (m + 1) : z[c] \in Nat /\ s[c] = z[c] + 4
  BY <1>5, <1>7 DEF Laid
<1>13. z[1] = 0 /\ z[m + 1] = Len(F)
  BY <1>5, <1>7 DEF Laid
<1>14. \A c \in 1 .. m : /\ Len(ss[c]) \in Nat /\ z[c + 1] = z[c] + Len(ss[c])
                         /\ \A i \in 1 .. Len(ss[c]) : F[z[c] + i] = ss[c][i]
  <2>1. \A c \in 1 .. m : Len(ss[c]) \in Nat
    BY <1>3, <1>4, LenProperties
  <2> QED
    BY <1>5, <1>7, <2>1 DEF Laid
<1>15. \A c \in 1 .. m : c \in 1 .. (m + 1) /\ c + 1 \in 1 .. (m + 1)
  BY <1>1
<1>16. s \in [1 .. (m + 1) -> Nat] /\ s[1] = 4 /\ s[m + 1] = Len(T) + 1
  <2>1. 1 \in 1 .. (m + 1) /\ m + 1 \in 1 .. (m + 1)
    BY <1>1
  <2> QED
    BY <1>11, <1>12, <1>13, <2>1
<1>17. ASSUME NEW c \in 1 .. m
       PROVE  /\ s[c + 1] = s[c] + Len(ComputerNodes(up[c]))
              /\ \A j \in 1 .. Len(ComputerNodes(up[c])) :
                    T[s[c] + j - 1] = ComputerNodes(up[c])[j]
  <2>1. /\ s[c] = z[c] + 4 /\ s[c + 1] = z[c + 1] + 4 /\ z[c] \in Nat /\ z[c + 1] \in Nat
        /\ z[c + 1] = z[c] + Len(ss[c]) /\ Len(ss[c]) \in Nat
    BY <1>12, <1>14, <1>15
  <2>2. ss[c] = ComputerNodes(up[c])
    BY <1>3
  <2> HIDE DEF s
  <2>3. ASSUME NEW j \in 1 .. Len(ss[c]) PROVE T[s[c] + j - 1] = ss[c][j]
    <3>1. z[c + 1] <= Len(F)
      <4>1. CASE c = m
        BY <1>11, <1>13, <4>1
      <4>2. CASE c # m
        <5>1. m \in 1 .. m /\ c < m
          BY <1>1, <4>2
        <5>2. z[c + 1] <= z[m] /\ z[m + 1] = z[m] + Len(ss[m]) /\ z[m] \in Nat /\ Len(ss[m]) \in Nat
          BY <1>5, <1>8, <1>12, <1>14, <1>15, <5>1
        <5> QED
          BY <1>13, <2>1, <5>2
      <4> QED
        BY <4>1, <4>2
    <3>2. z[c] + j \in 1 .. Len(F) /\ 3 + (z[c] + j) = s[c] + j - 1
      <4> DEFINE x == z[c]
                 l == Len(ss[c])
                 f == Len(F)
      <4>1. /\ x \in Nat /\ l \in Nat /\ f \in Nat /\ j \in 1 .. l /\ x + l <= f
            /\ s[c] = x + 4
        BY <1>11, <2>1, <3>1
      <4> HIDE DEF x, l, f
      <4>2. x + j \in 1 .. f /\ 3 + (x + j) = x + 4 + j - 1
        BY <4>1
      <4> QED
        BY <4>1, <4>2 DEF x, f
    <3>3. T[3 + (z[c] + j)] = F[z[c] + j]
      BY <1>11, <3>2
    <3>4. F[z[c] + j] = ss[c][j]
      BY <1>14
    <3> QED
      BY <3>2, <3>3, <3>4
  <2>4. s[c + 1] = s[c] + Len(ss[c])
    BY <2>1
  <2> QED
    BY <2>2, <2>3, <2>4
<1>18. ASSUME NEW k \in 4 .. Len(T)
       PROVE  \E c \in 1 .. m : \E j \in 1 .. Len(ComputerNodes(up[c])) : k = s[c] + j - 1
  <2>1. k - 3 \in 1 .. Len(F)
    BY <1>11
  <2>2. PICK c \in 1 .. m : \E j \in 1 .. Len(ss[c]) : k - 3 = z[c] + j
    BY <1>5, <1>8, <2>1
  <2>3. PICK j \in 1 .. Len(ss[c]) : k - 3 = z[c] + j
    BY <2>2
  <2>4. s[c] = z[c] + 4 /\ z[c] \in Nat
    BY <1>12, <1>15
  <2>5. k = s[c] + j - 1
    <3>1. k \in Int /\ j \in Int
      BY <1>11, <1>14
    <3> HIDE DEF s
    <3>2. s[c] + j - 1 = z[c] + j + 3
      BY <2>4, <3>1
    <3>3. (k - 3) + 3 = k
      BY <3>1
    <3> QED
      BY <2>3, <2>4, <3>1, <3>2, <3>3
  <2> QED
    BY <1>3, <2>5
<1>19. ASSUME NEW c \in 1 .. m, NEW e \in 1 .. m, c < e PROVE s[c + 1] <= s[e]
  <2>1. /\ z[c + 1] <= z[e] /\ s[e] = z[e] + 4 /\ s[c + 1] = z[c + 1] + 4
        /\ z[e] \in Nat /\ z[c + 1] \in Nat
    BY <1>5, <1>8, <1>12, <1>15, <1>19
  <2> HIDE DEF s
  <2> QED
    BY <2>1
<1> HIDE DEF s
<1>20. Starts(s, up, T)
  BY <1>16, <1>17, <1>18, <1>19 DEF Starts, m
<1>21. Len(T) >= 3
  BY <1>11
<1> QED
  BY <1>9, <1>11, <1>20, <1>21 DEF E, e1, e2, e3

\* They are a tree.
LEMMA UploadIsTree ==
    ASSUME NEW up \in Seq(Computer)
    PROVE  /\ IsTree(UploadNodes(up), 1)
           /\ \A k \in 4 .. Len(UploadNodes(up)) : UploadNodes(up)[k].depth > 3
<1> DEFINE T == UploadNodes(up)
           L == Len(T)
<1>1. /\ T \in Seq(Node(ElementNames, Pieces)) /\ L >= 3
      /\ T[1] = Element("Tacktech", 1, <<>>, <<>>)
      /\ T[2] = Element("Type", 2, <<"UPLOAD">>, <<>>)
      /\ T[3] = Element("Upload", 3, <<>>, <<>>)
      /\ \E s : Starts(s, up, T)
  BY UploadNodesAre
<1>2. PICK s : Starts(s, up, T)
  BY <1>1
<1>3. T[1].depth = 1 /\ T[2].depth = 2 /\ T[3].depth = 3
  BY <1>1 DEF Element
<1>4. L \in Nat
  BY <1>1, LenProperties
<1>5. \A c \in 1 .. Len(up) : up[c] \in Computer
  BY ElementOfSeq
<1> HIDE DEF T, L
<1>6. ASSUME NEW k \in 4 .. L
      PROVE  /\ T[k].depth \in Nat /\ T[k].depth > 3
             /\ T[k].depth # 4 => T[k].depth <= T[k - 1].depth + 1
  <2>10. PICK c \in 1 .. Len(up) : \E j \in 1 .. Len(ComputerNodes(up[c])) : k = s[c] + j - 1
    BY <1>2 DEF Starts, L
  <2>1. PICK j \in 1 .. Len(ComputerNodes(up[c])) : k = s[c] + j - 1
    BY <2>10
  <2> DEFINE C == ComputerNodes(up[c])
  <2>2. up[c] \in Computer
    BY <1>5
  <2>3. /\ C[1].depth = 4
        /\ \A h \in 2 .. Len(C) : C[h].depth > 4 /\ C[h].depth <= C[h - 1].depth + 1
    BY <2>2, ComputerShape
  <2>4. C \in Seq(Node(ElementNames, Pieces)) /\ Len(C) \in Nat
    BY <2>2, ComputerNodesAre, LenProperties
  <2>5. \A h \in 1 .. Len(C) : T[s[c] + h - 1] = C[h]
    BY <1>2 DEF Starts
  <2>6. s[c] \in Nat
    <3>1. c \in 1 .. (Len(up) + 1)
      BY LenProperties
    <3> QED
      BY <1>2, <3>1 DEF Starts
  <2> HIDE DEF C
  <2>7. T[k] = C[j] /\ C[j].depth \in Nat
    <3>1. j \in 1 .. Len(C)
      BY DEF C
    <3>2. C[j] \in Node(ElementNames, Pieces)
      BY <2>4, <3>1, ElementOfSeq
    <3> QED
      BY <2>1, <2>5, <3>1, <3>2 DEF Node
  <2>8. CASE j = 1
    BY <2>3, <2>7, <2>8
  <2>9. CASE j # 1
    <3>1. j \in 2 .. Len(C) /\ j - 1 \in 1 .. Len(C)
      BY <2>4, <2>9 DEF C
    <3>2. k - 1 = s[c] + (j - 1) - 1
      BY <2>1, <2>6, <3>1
    <3>3. T[k - 1] = C[j - 1]
      BY <2>5, <3>1, <3>2
    <3>4. C[j].depth > 4 /\ C[j].depth <= C[j - 1].depth + 1
      BY <2>3, <3>1
    <3> QED
      BY <2>7, <3>3, <3>4
  <2> QED
    BY <2>8, <2>9
<1>7. ASSUME NEW k \in 2 .. L PROVE T[k].depth > 1 /\ T[k].depth <= T[k - 1].depth + 1
  <2>1. CASE k = 2
    BY <1>3, <2>1
  <2>2. CASE k = 3
    BY <1>3, <2>2
  <2>3. CASE k >= 4
    <3>1. k \in 4 .. L
      BY <2>3
    <3>2. T[k].depth \in Nat /\ T[k].depth > 3 /\ (T[k].depth # 4 => T[k].depth <= T[k - 1].depth + 1)
      BY <1>6, <3>1
    <3>3. CASE k = 4
      <4>1. T[k - 1].depth = 3
        BY <1>3, <3>3
      <4> QED
        BY <3>2, <4>1
    <3>4. CASE k # 4
      <4>1. k - 1 \in 4 .. L
        BY <1>4, <2>3, <3>1, <3>4
      <4>2. T[k - 1].depth \in Nat /\ T[k - 1].depth > 3
        BY <1>6, <4>1
      <4> QED
        BY <3>2, <4>2
    <3> QED
      BY <3>3, <3>4
  <2> QED
    BY <1>4, <2>1, <2>2, <2>3
<1>8. T # <<>>
  <2>1. Len(T) # 0
    BY <1>1, <1>4 DEF L
  <2> QED
    BY <2>1, EmptySeq
<1>9. IsTree(T, 1)
  BY <1>3, <1>7, <1>8 DEF IsTree, L
<1> QED
  BY <1>6, <1>9 DEF T, L

-----------------------------------------------------------------------------
(* What generate_queries finds. *)

\* The element behind its parent is its first child.
LEMMA NextIsFirst ==
    ASSUME NEW ns, Len(ns) \in Nat, NEW k \in Nat, k + 1 <= Len(ns), DepthOf(ns, k) \in Nat,
           ns[k + 1].depth = DepthOf(ns, k) + 1
    PROVE  FirstChild(ns, {k}, ns[k + 1].name) = {k + 1}
<1> DEFINE m == ns[k + 1].name
           all == Children(ns, {k}, m)
           j == k + 1
<1>1. all = {h \in Below(ns, k) : ns[h].depth = DepthOf(ns, k) + 1 /\ ns[h].name = m}
  BY DEF Children
<1>2. j \in Below(ns, k)
  <2>1. j \in j .. Len(ns) /\ \A i \in j .. j : i = j
    OBVIOUS
  <2>2. ns[j].depth > DepthOf(ns, k)
    OBVIOUS
  <2>3. \A i \in k + 1 .. j : ns[i].depth > DepthOf(ns, k)
    <3>1. \A i \in k + 1 .. j : i = k + 1
      OBVIOUS
    <3> QED
      BY <2>2, <3>1
  <2> QED
    BY <2>1, <2>3 DEF Below
<1>3. \A h \in Below(ns, k) : h \in Nat /\ j <= h
  <2>1. \A h \in Below(ns, k) : h \in j .. Len(ns)
    BY DEF Below
  <2> QED
    BY <2>1
<1>4. j \in all /\ all \subseteq Nat /\ \A h \in all : j <= h
  BY <1>1, <1>2, <1>3
<1> HIDE DEF j, m
<1>5. FirstChild(ns, {k}, m) = {j}
  BY <1>4, FirstOf
<1> QED
  BY <1>5 DEF j, m

\* The same, by the name that is looked for.
LEMMA NamedNextIsFirst ==
    ASSUME NEW ns, Len(ns) \in Nat, NEW k \in Nat, NEW j, k + 1 = j, j <= Len(ns),
           NEW d \in Nat, DepthOf(ns, k) = d, ns[j].depth = d + 1, NEW m, ns[j].name = m
    PROVE  IsFirst(ns, k, m, j)
BY NextIsFirst DEF IsFirst

\* Children are elements of their name.
LEMMA ChildrenAmong ==
    ASSUME NEW ns, Len(ns) \in Nat, NEW ks, ks \subseteq Nat, NEW m
    PROVE  /\ Children(ns, ks, m) \subseteq 1 .. Len(ns)
           /\ \A j \in Children(ns, ks, m) : ns[j].name = m
           /\ FirstChild(ns, ks, m) \subseteq Children(ns, ks, m)
<1>1. \A k \in ks : Below(ns, k) \subseteq 1 .. Len(ns)
  <2> SUFFICES ASSUME NEW k \in ks PROVE Below(ns, k) \subseteq 1 .. Len(ns)
    OBVIOUS
  <2>1. k \in Nat /\ \A h \in k + 1 .. Len(ns) : h \in 1 .. Len(ns)
    OBVIOUS
  <2> QED
    BY <2>1 DEF Below
<1>2. \A j \in Children(ns, ks, m) : \E k \in ks : j \in Below(ns, k) /\ ns[j].name = m
  BY DEF Children
<1>3. FirstChild(ns, ks, m) \subseteq Children(ns, ks, m)
  BY DEF FirstChild
<1> QED
  BY <1>1, <1>2, <1>3

\* How many of ascending numbers are not above another.
LEMMA Threshold ==
    ASSUME NEW m \in Nat, NEW s, \A c \in 1 .. m : s[c] \in Nat,
           \A c, e \in 1 .. m : c < e => s[c] < s[e], NEW L \in Nat
    PROVE  \E p \in 0 .. m : \A c \in 1 .. m : c <= p <=> s[c] <= L
<1> DEFINE Good(n, p) == \A c \in 1 .. n : c <= p <=> s[c] <= L
           S == {n \in Nat : n <= m => \E p \in 0 .. n : Good(n, p)}
<1>1. 0 \in S
  OBVIOUS
<1>2. ASSUME NEW n \in Nat, n \in S PROVE n + 1 \in S
  <2> DEFINE b == n + 1
  <2> SUFFICES ASSUME b <= m PROVE \E p \in 0 .. b : Good(b, p)
    OBVIOUS
  <2>1. b \in 1 .. m /\ \A c \in 1 .. n : c \in 1 .. m /\ c < b
    OBVIOUS
  <2>2. CASE s[b] <= L
    <3>1. \A c \in 1 .. n : s[c] < s[b] /\ s[c] \in Nat /\ s[b] \in Nat
      BY <2>1
    <3>2. \A c \in 1 .. b : c \in 1 .. n \/ c = b
      OBVIOUS
    <3>3. \A c \in 1 .. b : c <= b /\ s[c] <= L
      <4> HIDE DEF b
      <4> SUFFICES ASSUME NEW c \in 1 .. b PROVE c <= b /\ s[c] <= L
        OBVIOUS
      <4>1. CASE c = b
        BY <2>1, <2>2, <4>1
      <4>2. CASE c # b
        BY <2>1, <2>2, <3>1, <3>2, <4>2
      <4> QED
        BY <4>1, <4>2
    <3>4. Good(b, b) /\ b \in 0 .. b
      BY <3>3
    <3> HIDE DEF Good
    <3> QED
      BY <3>4
  <2>3. CASE ~(s[b] <= L)
    <3>1. PICK p \in 0 .. n : Good(n, p)
      BY <1>2, <2>1
    <3>2. ASSUME NEW c \in 1 .. b PROVE c <= p <=> s[c] <= L
      <4>1. CASE c = b
        BY <2>3, <4>1
      <4>2. CASE c # b
        BY <3>1, <4>2
      <4> QED
        BY <4>1, <4>2
    <3>3. Good(b, p) /\ p \in 0 .. b
      BY <3>2
    <3> HIDE DEF Good
    <3> QED
      BY <3>3
  <2> QED
    BY <2>2, <2>3
<1> HIDE DEF S
<1>3. m \in S
  BY <1>1, <1>2, Induction
<1> QED
  BY <1>3 DEF S

\* The elements k to e of the parsed ones are those of a computer, of which
\* the last may not be whole.
Spans(U, ns, k, e, computer) ==
    /\ ns \in Seq(Node(U, U)) /\ computer \in Computer
    /\ k \in Nat /\ k >= 1 /\ e \in Nat /\ k <= e /\ e <= Len(ns)
    /\ e - k + 1 <= Len(ComputerNodes(computer))
    /\ e < Len(ns) => ns[e + 1].depth <= 4
    /\ \A j \in 1 .. (e - k + 1) :
          /\ ns[k + j - 1].name \in {ComputerNodes(computer)[j].name, Damaged}
          /\ ns[k + j - 1].depth = ComputerNodes(computer)[j].depth
          /\ j < e - k + 1 => ns[k + j - 1] = ComputerNodes(computer)[j]
    /\ ns[k].name = "Computer"

\* What is printed of such an element k is what is printed of b.
PrintsPiece(U, ns, k, e, computer) ==
    LET b == SubSeq(ns, k, e) IN
        /\ PrintNode(ns, k) = PrintAll(b)
        /\ b \in Seq(Node(U, U)) /\ b # <<>> /\ Len(b) = e - k + 1
        /\ \A j \in 1 .. (e - k + 1) : b[j] = ns[k + j - 1]
        /\ CutOf(b, ComputerNodes(computer)) /\ b[1].name = "Computer"

\* It is printed with what is below it, and nothing else (xml_node::print).
LEMMA ComputerFound ==
    ASSUME NEW U, NEW ns, NEW k, NEW e, NEW computer, Spans(U, ns, k, e, computer)
    PROVE  PrintsPiece(U, ns, k, e, computer)
<1> DEFINE b == SubSeq(ns, k, e)
           C == ComputerNodes(computer)
           M == e - k + 1
<1>0. /\ ns \in Seq(Node(U, U)) /\ computer \in Computer
      /\ k \in Nat /\ k >= 1 /\ e \in Nat /\ k <= e /\ e <= Len(ns)
      /\ M <= Len(C)
      /\ e < Len(ns) => ns[e + 1].depth <= 4
      /\ \A j \in 1 .. M : /\ ns[k + j - 1].name \in {C[j].name, Damaged}
                           /\ ns[k + j - 1].depth = C[j].depth
                           /\ j < M => ns[k + j - 1] = C[j]
      /\ ns[k].name = "Computer"
  BY DEF Spans
<1>1. M \in Nat /\ M >= 1 /\ Len(ns) \in Nat /\ Len(C) \in Nat
  BY <1>0, ComputerNodesAre, LenProperties
<1>2. /\ b \in Seq(Node(U, U)) /\ Len(b) = M /\ \A j \in 1 .. M : b[j] = ns[k + j - 1]
  <2>1. \A i \in k .. e : i \in 1 .. Len(ns)
    BY <1>0, <1>1
  <2> QED
    BY <1>0, <1>1, <2>1, SubSeqProperties
<1>3. /\ C[1].depth = 4 /\ \A h \in 2 .. Len(C) : C[h].depth > 4
  BY <1>0, ComputerShape
<1>4. \A j \in 1 .. M : /\ ns[k + j - 1].name \in {C[j].name, Damaged}
                        /\ ns[k + j - 1].depth = C[j].depth
                        /\ j < M => ns[k + j - 1] = C[j]
  BY <1>0
<1>5. M <= Len(C) /\ e = k + M - 1
  BY <1>0
<1> HIDE DEF b, C, M
<1>6. CutOf(b, C)
  BY <1>1, <1>2, <1>4, <1>5 DEF CutOf
<1>7. b # <<>> /\ b[1].name = "Computer"
  <2>1. 1 \in 1 .. M /\ k + 1 - 1 = k
    BY <1>0, <1>1
  <2>2. b[1] = ns[k]
    BY <1>2, <2>1
  <2> QED
    BY <1>0, <1>1, <1>2, <2>2, EmptySeq
<1>8. ns[k].depth = 4 /\ DepthOf(ns, k) = 4
  <2>1. 1 \in 1 .. M /\ k + 1 - 1 = k
    BY <1>0, <1>1
  <2>2. ns[k].depth = 4
    BY <1>3, <1>4, <2>1
  <2>3. k # 0
    BY <1>0
  <2> QED
    BY <2>2, <2>3 DEF DepthOf
<1>9. \A h \in k + 1 .. e : ns[h].depth > 4
  <2> SUFFICES ASSUME NEW h \in k + 1 .. e PROVE ns[h].depth > 4
    OBVIOUS
  <2> DEFINE j == h - k + 1
  <2>0. k \in Nat /\ M \in Nat /\ Len(C) \in Nat /\ M <= Len(C) /\ e = k + M - 1
    BY <1>0, <1>1, <1>5
  <2>1. j \in 2 .. Len(C) /\ j \in 1 .. M /\ k + j - 1 = h
    BY <2>0
  <2> HIDE DEF j
  <2> QED
    BY <1>3, <1>4, <2>1
<1>10. Below(ns, k) = k + 1 .. e
  <2>1. Below(ns, k) = {h \in k + 1 .. Len(ns) : \A x \in k + 1 .. h : ns[x].depth > 4}
    BY <1>8 DEF Below
  <2>2. ASSUME NEW h \in k + 1 .. e PROVE h \in Below(ns, k)
    <3>1. h \in k + 1 .. Len(ns) /\ \A x \in k + 1 .. h : x \in k + 1 .. e
      BY <1>0, <1>1
    <3> QED
      BY <1>9, <2>1, <3>1
  <2>3. ASSUME NEW h \in Below(ns, k) PROVE h \in k + 1 .. e
    <3>1. h \in k + 1 .. Len(ns) /\ \A x \in k + 1 .. h : ns[x].depth > 4
      BY <2>1
    <3>2. CASE h > e
      <4>1. e + 1 \in k + 1 .. h /\ e < Len(ns)
        BY <1>0, <1>1, <3>1, <3>2
      <4>2. ns[e + 1].depth > 4 /\ ns[e + 1].depth <= 4 /\ ns[e + 1].depth \in Nat
        <5>1. e + 1 \in 1 .. Len(ns)
          BY <1>0, <1>1, <4>1
        <5>2. ns[e + 1] \in Node(U, U)
          BY <1>0, <5>1, ElementOfSeq
        <5>3. ns[e + 1].depth \in Nat
          BY <5>2 DEF Node
        <5>4. e + 1 \in k + 1 .. h
          BY <4>1
        <5> QED
          BY <1>0, <3>1, <4>1, <5>3, <5>4
      <4> QED
        BY <4>2
    <3>3. CASE ~(h > e)
      BY <1>0, <1>1, <3>1, <3>3
    <3> QED
      BY <3>2, <3>3
  <2> QED
    BY <2>2, <2>3
<1>11. k + Cardinality(Below(ns, k)) = e
  <2> DEFINE a == k + 1
  <2>1. a \in Int /\ e \in Int
    BY <1>0
  <2> HIDE DEF a
  <2>2. Cardinality(a .. e) = IF a > e THEN 0 ELSE e - a + 1
    BY <2>1, FS_Interval
  <2> QED
    BY <1>0, <1>10, <2>2 DEF a
<1>12. PrintNode(ns, k) = PrintAll(b)
  BY <1>11 DEF PrintNode, b
<1> QED
  BY <1>2, <1>6, <1>7, <1>12 DEF b, C, M, PrintsPiece

\* The first L of the elements that are parsed are those of T, of which the
\* last may be damaged if nothing follows; what follows is no part of T's root.
Agrees(ns, L, T) ==
    /\ L \in Nat /\ L <= Len(ns) /\ L <= Len(T)
    /\ \A i \in 1 .. L : /\ ns[i].name \in {T[i].name, Damaged} /\ ns[i].depth = T[i].depth
                         /\ i < L => ns[i] = T[i]
    /\ L < Len(ns) => L = Len(T) /\ ns[L] = T[L] /\ ns[L + 1].depth = 1

\* As many of them have their names.
Named(ns, L, T) == IF L = 0 \/ ns[L].name = T[L].name THEN L ELSE L - 1

\* W of them have their names.
HasNames(ns, L, T, W) ==
    /\ W \in Nat /\ W <= L /\ L <= W + 1 /\ (W < L => L = Len(ns))
    /\ \A i \in 1 .. W : ns[i].name = T[i].name
    /\ \A i \in 1 .. L : i > W => ns[i].name = Damaged

\* All of them are parsed.
AgreesWholly(ns, T) == Len(ns) >= Len(T) /\ \A i \in 1 .. Len(T) : ns[i] = T[i]

\* Only the last can be without its name, and not if all are as they were.
LEMMA NamedAre ==
    ASSUME NEW ns, NEW L, NEW T, Agrees(ns, L, T), Len(ns) \in Nat, Len(T) \in Nat
    PROVE  /\ HasNames(ns, L, T, Named(ns, L, T))
           /\ AgreesWholly(ns, T) => Named(ns, L, T) = L
<1> DEFINE W == Named(ns, L, T)
<1>1. /\ L \in Nat /\ L <= Len(ns) /\ L <= Len(T)
      /\ \A i \in 1 .. L : /\ ns[i].name \in {T[i].name, Damaged}
                           /\ i < L => ns[i] = T[i]
      /\ L < Len(ns) => ns[L] = T[L]
  BY DEF Agrees
<1>2. CASE L = 0 \/ ns[L].name = T[L].name
  <2>1. W = L
    BY <1>2 DEF Named
  <2>2. \A i \in 1 .. L : ns[i].name = T[i].name
    <3> SUFFICES ASSUME NEW i \in 1 .. L PROVE ns[i].name = T[i].name
      OBVIOUS
    <3>1. i < L \/ i = L
      BY <1>1
    <3> QED
      BY <1>1, <1>2, <3>1
  <2>3. \A i \in 1 .. L : ~(i > L)
    BY <1>1
  <2> QED
    BY <1>1, <2>1, <2>2, <2>3 DEF HasNames
<1>3. CASE L # 0 /\ ns[L].name # T[L].name
  <2>1. W = L - 1 /\ L \in 1 .. L /\ W \in Nat /\ L = W + 1
    BY <1>1, <1>3 DEF Named
  <2>2. ns[L].name = Damaged /\ ~(L < Len(ns)) /\ ns[L] # T[L]
    BY <1>1, <1>3, <2>1
  <2>3. \A i \in 1 .. W : i \in 1 .. L /\ i < L
    BY <1>1, <2>1
  <2>4. \A i \in 1 .. L : i > W => i = L
    BY <1>1, <2>1
  <2>5. L \in 1 .. Len(T) /\ L = Len(ns)
    BY <1>1, <2>1, <2>2
  <2>6. ~AgreesWholly(ns, T)
    BY <2>2, <2>5 DEF AgreesWholly
  <2> HIDE DEF W
  <2>7. \A i \in 1 .. W : ns[i].name = T[i].name
    BY <1>1, <2>3
  <2>8. \A i \in 1 .. L : i > W => ns[i].name = Damaged
    BY <2>2, <2>4
  <2>9. W <= L /\ L <= W + 1
    BY <2>1
  <2>10. HasNames(ns, L, T, W)
    BY <2>1, <2>5, <2>7, <2>8, <2>9 DEF HasNames
  <2> QED
    BY <2>6, <2>10 DEF W
<1> QED
  BY <1>2, <1>3

\* Computers begin behind the first three elements, one behind the other.
LEMMA StartsAscend ==
    ASSUME NEW up \in Seq(Computer), NEW T, Len(T) \in Nat, NEW s, Starts(s, up, T)
    PROVE  /\ \A c \in 1 .. Len(up) :
                 /\ Len(ComputerNodes(up[c])) \in Nat /\ Len(ComputerNodes(up[c])) >= 1
                 /\ s[c] \in Nat /\ s[c + 1] \in Nat /\ s[c] >= 4 /\ s[c + 1] <= Len(T) + 1
           /\ \A c, e \in 1 .. Len(up) : c < e => s[c] < s[e]
<1> DEFINE m == Len(up)
<1>1. m \in Nat /\ \A c \in 1 .. m : up[c] \in Computer
  BY LenProperties, ElementOfSeq
<1> HIDE DEF m
<1>2. /\ \A c \in 1 .. (m + 1) : s[c] \in Nat
      /\ s[1] = 4 /\ s[m + 1] = Len(T) + 1
      /\ \A c \in 1 .. m : s[c + 1] = s[c] + Len(ComputerNodes(up[c]))
      /\ \A c, e \in 1 .. m : c < e => s[c + 1] <= s[e]
  BY DEF Starts, m
<1>3. \A c \in 1 .. m : /\ Len(ComputerNodes(up[c])) \in Nat /\ Len(ComputerNodes(up[c])) >= 1
                         /\ s[c] \in Nat /\ s[c + 1] \in Nat
  <2> SUFFICES ASSUME NEW c \in 1 .. m
               PROVE  /\ Len(ComputerNodes(up[c])) \in Nat /\ Len(ComputerNodes(up[c])) >= 1
                      /\ s[c] \in Nat /\ s[c + 1] \in Nat
    OBVIOUS
  <2>1. up[c] \in Computer
    BY <1>1
  <2>2. /\ Len(up[c].items) \in Nat
        /\ Len(ComputerNodes(up[c])) = 4 * Len(up[c].items) + 1
    BY <2>1, ComputerNodesAre
  <2>3. c \in 1 .. (m + 1) /\ c + 1 \in 1 .. (m + 1)
    BY <1>1
  <2> DEFINE n == Len(up[c].items)
             size == Len(ComputerNodes(up[c]))
  <2> HIDE DEF n, size
  <2>4. size \in Nat /\ size >= 1
    BY <2>2 DEF n, size
  <2> QED
    BY <1>2, <2>3, <2>4 DEF size
<1>4. \A c, e \in 1 .. m : c < e => s[c] < s[e]
  <2> SUFFICES ASSUME NEW c \in 1 .. m, NEW e \in 1 .. m, c < e PROVE s[c] < s[e]
    OBVIOUS
  <2> DEFINE size == Len(ComputerNodes(up[c]))
  <2>1. s[c + 1] = s[c] + size /\ s[c + 1] <= s[e]
    BY <1>2
  <2>2. size \in Nat /\ size >= 1 /\ s[c] \in Nat /\ s[c + 1] \in Nat /\ s[e] \in Nat
    BY <1>3
  <2> HIDE DEF size
  <2> QED
    BY <2>1, <2>2
<1>5. \A c \in 1 .. m : s[c] >= 4
  <2> SUFFICES ASSUME NEW c \in 1 .. m PROVE s[c] >= 4
    OBVIOUS
  <2>1. 1 \in 1 .. m /\ (c = 1 \/ 1 < c)
    BY <1>1
  <2>2. c = 1 \/ s[1] < s[c]
    BY <1>4, <2>1
  <2> QED
    BY <1>2, <1>3, <2>2
<1>6. \A c \in 1 .. m : s[c + 1] <= Len(T) + 1
  <2> SUFFICES ASSUME NEW c \in 1 .. m PROVE s[c + 1] <= Len(T) + 1
    OBVIOUS
  <2>1. CASE c = m
    BY <1>2, <2>1
  <2>2. CASE c # m
    <3>1. m \in 1 .. m /\ c < m
      BY <1>1, <2>2
    <3> DEFINE size == Len(ComputerNodes(up[m]))
    <3>2. s[c + 1] <= s[m] /\ s[m + 1] = s[m] + size /\ s[m + 1] = Len(T) + 1
      BY <1>2, <3>1
    <3>3. s[c + 1] \in Nat /\ s[m] \in Nat /\ size \in Nat
      BY <1>3, <3>1
    <3> HIDE DEF size
    <3> QED
      BY <3>2, <3>3
  <2> QED
    BY <2>1, <2>2
<1> QED
  BY <1>3, <1>4, <1>5, <1>6 DEF m

\* The elements whose computers are looked for.
UploadIn(ns) ==
    LET type == FirstChild(ns, FirstChild(ns, {0}, "Tacktech"), "Type")
    IN  {k \in FirstChild(ns, type, "Upload") : \A t \in type : ns[t].attribute = <<"UPLOAD">>}

\* The computers of the upload that begin among the first W elements are the
\* ones that are found.
FindsComputers(ns, up, s, W) ==
    \E p \in 0 .. Len(up) :
       /\ \A c \in 1 .. Len(up) : c <= p <=> s[c] <= W
       /\ ComputersOf(ns, UploadIn(ns)) = [c \in 1 .. p |-> s[c]]

\* The computers among the parsed elements, in their order.
LEMMA ComputersFound ==
    ASSUME NEW up \in Seq(Computer), NEW U, NEW ns \in Seq(Node(U, U)), NEW L,
           Agrees(ns, L, UploadNodes(up)), NEW s, Starts(s, up, UploadNodes(up)),
           NEW W, W >= 3, HasNames(ns, L, UploadNodes(up), W)
    PROVE  FindsComputers(ns, up, s, W)
<1> DEFINE T == UploadNodes(up)
           m == Len(up)
           M == Len(ns)
<1>1. m \in Nat /\ M \in Nat /\ Len(T) \in Nat /\ L \in Nat /\ L <= M /\ L <= Len(T)
  <2>1. T \in Seq(Node(ElementNames, Pieces))
    BY UploadNodesAre
  <2> HIDE DEF T
  <2> QED
    BY <2>1, LenProperties DEF Agrees, T
<1>2. /\ T[1] = Element("Tacktech", 1, <<>>, <<>>)
      /\ T[2] = Element("Type", 2, <<"UPLOAD">>, <<>>)
      /\ T[3] = Element("Upload", 3, <<>>, <<>>)
      /\ \A k \in 4 .. Len(T) : T[k].depth > 3
  BY UploadNodesAre, UploadIsTree
<1>3. \A i \in 1 .. L : /\ ns[i].depth = T[i].depth
                        /\ i < L => ns[i] = T[i]
  BY DEF Agrees
<1>22. /\ W \in Nat /\ W <= L /\ L <= W + 1
       /\ \A i \in 1 .. W : ns[i].name = T[i].name
       /\ \A i \in 1 .. L : i > W => ns[i].name = Damaged
  BY DEF HasNames
<1>4. L < M => L = Len(T) /\ ns[L + 1].depth = 1
  BY DEF Agrees
<1>5. \A c \in 1 .. m : up[c] \in Computer
  BY ElementOfSeq
<1> HIDE DEF T, m, M
<1>6. /\ ns[1].name = "Tacktech" /\ ns[1].depth = 1
      /\ ns[2].name = "Type" /\ ns[2].depth = 2 /\ ns[2].attribute = <<"UPLOAD">>
      /\ ns[3].name = "Upload" /\ ns[3].depth = 3
  <2>1. /\ 1 \in 1 .. L /\ 2 \in 1 .. L /\ 3 \in 1 .. L /\ 2 < L
        /\ 1 \in 1 .. W /\ 2 \in 1 .. W /\ 3 \in 1 .. W
    BY <1>1, <1>22
  <2>2. /\ T[1].name = "Tacktech" /\ T[1].depth = 1
        /\ T[2].name = "Type" /\ T[2].depth = 2 /\ T[2].attribute = <<"UPLOAD">>
        /\ T[3].name = "Upload" /\ T[3].depth = 3
    BY <1>2 DEF Element
  <2>3. ns[1].name = T[1].name /\ ns[2].name = T[2].name /\ ns[3].name = T[3].name
    BY <1>22, <2>1
  <2>4. ns[1].depth = T[1].depth /\ ns[2].depth = T[2].depth /\ ns[3].depth = T[3].depth
    BY <1>3, <2>1
  <2>5. ns[2].attribute = T[2].attribute
    BY <1>3, <2>1
  <2> QED
    BY <2>2, <2>3, <2>4, <2>5
<1> DEFINE root == FirstChild(ns, {0}, "Tacktech")
           type == FirstChild(ns, root, "Type")
           found == FirstChild(ns, type, "Upload")
           sent == {k \in found : \A t \in type : ns[t].attribute = <<"UPLOAD">>}
<1>7. root = {1}
  <2>1. 0 \in Nat /\ 0 + 1 = 1 /\ 1 <= Len(ns) /\ DepthOf(ns, 0) = 0 /\ ns[1].depth = 0 + 1
    BY <1>1, <1>6, <1>22 DEF DepthOf, M
  <2>2. IsFirst(ns, 0, "Tacktech", 1)
    BY <1>1, <1>6, <2>1, NamedNextIsFirst DEF M
  <2> QED
    BY <2>2 DEF IsFirst
<1>8. type = {2}
  <2>1. 1 \in Nat /\ 1 + 1 = 2 /\ 2 <= Len(ns) /\ DepthOf(ns, 1) = 1 /\ ns[2].depth = 1 + 1
    BY <1>1, <1>6, <1>22 DEF DepthOf, M
  <2>2. IsFirst(ns, 1, "Type", 2)
    BY <1>1, <1>6, <2>1, NamedNextIsFirst DEF M
  <2> QED
    BY <1>7, <2>2 DEF IsFirst
<1>9. found = {3}
  <2>1. 2 \in Nat /\ 2 + 1 = 3 /\ 3 <= Len(ns) /\ DepthOf(ns, 2) = 2 /\ ns[3].depth = 2 + 1
    BY <1>1, <1>6, <1>22 DEF DepthOf, M
  <2>2. IsFirst(ns, 2, "Upload", 3)
    BY <1>1, <1>6, <2>1, NamedNextIsFirst DEF M
  <2> QED
    BY <1>8, <2>2 DEF IsFirst
<1> HIDE DEF root, type, found
<1>10. sent = {3}
  BY <1>6, <1>8, <1>9
<1>11. Below(ns, 3) = 4 .. L
  <2>1. Below(ns, 3) = {j \in 3 + 1 .. M : \A i \in 3 + 1 .. j : ns[i].depth > 3}
    BY <1>6 DEF Below, DepthOf, M
  <2>2. 3 + 1 = 4
    OBVIOUS
  <2>3. Below(ns, 3) = {j \in 4 .. M : \A i \in 4 .. j : ns[i].depth > 3}
    BY <2>1, <2>2
  <2>4. \A i \in 4 .. L : ns[i].depth > 3
    <3>1. \A i \in 4 .. L : i \in 1 .. L /\ i \in 4 .. Len(T)
      BY <1>1
    <3> QED
      BY <1>2, <1>3, <3>1
  <2>5. ASSUME NEW j \in 4 .. L PROVE j \in Below(ns, 3)
    <3>1. j \in 4 .. M /\ \A i \in 4 .. j : i \in 4 .. L
      BY <1>1
    <3> QED
      BY <2>3, <2>4, <3>1
  <2>6. ASSUME NEW j \in Below(ns, 3) PROVE j \in 4 .. L
    <3>1. j \in 4 .. M /\ \A i \in 4 .. j : ns[i].depth > 3
      BY <2>3
    <3>2. CASE j > L
      <4>1. L + 1 \in 4 .. j /\ L < M
        BY <1>1, <1>22, <3>1, <3>2
      <4>2. ns[L + 1].depth > 3 /\ ns[L + 1].depth = 1
        BY <1>4, <3>1, <4>1
      <4> QED
        BY <4>2
    <3>3. CASE ~(j > L)
      BY <1>1, <3>1, <3>3
    <3> QED
      BY <3>2, <3>3
  <2> QED
    BY <2>5, <2>6
<1>12. /\ \A c \in 1 .. (m + 1) : s[c] \in Nat
       /\ s[1] = 4
       /\ \A c \in 1 .. m : /\ s[c + 1] = s[c] + Len(ComputerNodes(up[c]))
                            /\ \A j \in 1 .. Len(ComputerNodes(up[c])) :
                                  T[s[c] + j - 1] = ComputerNodes(up[c])[j]
       /\ \A k \in 4 .. Len(T) : \E c \in 1 .. m :
             \E j \in 1 .. Len(ComputerNodes(up[c])) : k = s[c] + j - 1
       /\ \A c, e \in 1 .. m : c < e => s[c + 1] <= s[e]
  BY DEF Starts, T, m
<1>13. \A c \in 1 .. m : /\ Len(ComputerNodes(up[c])) \in Nat /\ Len(ComputerNodes(up[c])) >= 1
                         /\ s[c] \in Nat /\ s[c + 1] \in Nat /\ s[c] >= 4
  <2>1. Starts(s, up, T)
    BY DEF T
  <2> QED
    BY <1>1, <2>1, StartsAscend DEF m
<1>14. \A c, e \in 1 .. m : c < e => s[c] < s[e]
  <2>1. Starts(s, up, T)
    BY DEF T
  <2> QED
    BY <1>1, <2>1, StartsAscend DEF m
<1>15. PICK p \in 0 .. m : \A c \in 1 .. m : c <= p <=> s[c] <= W
  <2>1. \A c \in 1 .. m : s[c] \in Nat
    BY <1>13
  <2> QED
    BY <1>1, <1>14, <1>22, <2>1, Threshold
<1> DEFINE t == [c \in 1 .. p |-> s[c]]
           ks == Children(ns, {3}, "Computer")
<1>16. \A c \in 1 .. p : c \in 1 .. m /\ s[c] \in 4 .. W /\ t[c] = s[c] /\ s[c] \in Nat
  <2> SUFFICES ASSUME NEW c \in 1 .. p PROVE c \in 1 .. m /\ s[c] \in 4 .. W /\ s[c] \in Nat
    OBVIOUS
  <2>1. c \in 1 .. m /\ c <= p
    BY <1>1
  <2>2. s[c] \in Nat /\ s[c] >= 4 /\ s[c] <= W
    BY <1>13, <1>15, <2>1
  <2> QED
    BY <1>1, <1>22, <2>1, <2>2
<1>17. ASSUME NEW c \in 1 .. m, NEW j \in 1 .. Len(ComputerNodes(up[c])), s[c] + j - 1 \in 1 .. L
       PROVE  /\ s[c] + j - 1 \in 1 .. W =>
                     ns[s[c] + j - 1].name = ComputerNodes(up[c])[j].name
              /\ ns[s[c] + j - 1].depth = ComputerNodes(up[c])[j].depth
  BY <1>3, <1>12, <1>17, <1>22
<1>18. ks = {t[c] : c \in 1 .. p}
  <2>1. ks = {j \in 4 .. L : ns[j].depth = 4 /\ ns[j].name = "Computer"}
    <3>1. DepthOf(ns, 3) + 1 = 4
      BY <1>6 DEF DepthOf
    <3> QED
      BY <1>11, <3>1 DEF Children
  <2>2. ASSUME NEW c \in 1 .. p PROVE t[c] \in ks
    <3>1. /\ 1 \in 1 .. Len(ComputerNodes(up[c])) /\ s[c] + 1 - 1 = s[c]
          /\ s[c] \in 1 .. L /\ s[c] \in 4 .. L /\ s[c] \in 1 .. W
      BY <1>1, <1>13, <1>16, <1>22
    <3>2. up[c] \in Computer
      BY <1>5, <1>16
    <3>3. ComputerNodes(up[c])[1].name = "Computer" /\ ComputerNodes(up[c])[1].depth = 4
      BY <3>2, ComputerShape
    <3>4. ns[s[c]].name = "Computer" /\ ns[s[c]].depth = 4
      <4> DEFINE j == 1
      <4>1. /\ c \in 1 .. m /\ j \in 1 .. Len(ComputerNodes(up[c]))
            /\ s[c] + j - 1 \in 1 .. L /\ s[c] + j - 1 \in 1 .. W
        BY <1>16, <3>1
      <4> HIDE DEF j
      <4>2. /\ ns[s[c] + j - 1].name = ComputerNodes(up[c])[j].name
            /\ ns[s[c] + j - 1].depth = ComputerNodes(up[c])[j].depth
        BY <1>17, <4>1
      <4> QED
        BY <3>1, <3>3, <4>2 DEF j
    <3> QED
      BY <1>16, <2>1, <3>1, <3>4
  <2>3. ASSUME NEW k \in ks PROVE \E c \in 1 .. p : k = t[c]
    <3>1. /\ k \in 4 .. L /\ k \in 1 .. L /\ k \in 4 .. Len(T)
          /\ ns[k].depth = 4 /\ ns[k].name = "Computer"
      BY <1>1, <2>1
    <3>10. ~(k > W)
      BY <1>22, <3>1 DEF Damaged
    <3>2. PICK c \in 1 .. m : \E j \in 1 .. Len(ComputerNodes(up[c])) : k = s[c] + j - 1
      BY <1>12, <3>1
    <3>3. PICK j \in 1 .. Len(ComputerNodes(up[c])) : k = s[c] + j - 1
      BY <3>2
    <3>4. up[c] \in Computer
      BY <1>5
    <3>5. \A h \in 2 .. Len(ComputerNodes(up[c])) : ComputerNodes(up[c])[h].depth > 4
      BY <3>4, ComputerShape
    <3>6. ComputerNodes(up[c])[j].depth = 4
      BY <1>17, <3>1, <3>3
    <3>7. j = 1
      <4>1. j \in 2 .. Len(ComputerNodes(up[c])) \/ j = 1
        BY <1>13
      <4> QED
        BY <3>5, <3>6, <4>1
    <3>8. k = s[c] /\ s[c] <= W
      BY <1>1, <1>13, <1>22, <3>1, <3>3, <3>7, <3>10
    <3>9. c \in 1 .. p
      BY <1>1, <1>15, <3>8
    <3> QED
      BY <1>16, <3>8, <3>9
  <2> HIDE DEF ks, t
  <2> QED
    BY <2>2, <2>3
<1>19. InOrder(ks) = t
  <2>1. t \in [1 .. p -> Nat] /\ p \in Nat
    BY <1>1, <1>16
  <2>2. Ascends(t, p)
    BY <1>14, <1>16 DEF Ascends
  <2> HIDE DEF t, ks
  <2> QED
    BY <1>18, <2>1, <2>2, InOrderIs
<1>20. ComputersOf(ns, sent) = t
  BY <1>10, <1>19 DEF ComputersOf
<1> HIDE DEF t, sent
<1>21. \E r \in 0 .. m : /\ \A c \in 1 .. m : c <= r <=> s[c] <= W
                         /\ ComputersOf(ns, sent) = [c \in 1 .. r |-> s[c]]
  BY <1>15, <1>20 DEF t
<1> QED
  BY <1>21 DEF m, sent, found, type, root, FindsComputers, UploadIn

\* Element b and those below it are sent to a computer, as far as they go.
Sends(u, b, computer) ==
    /\ b # <<>> /\ CutOf(b, ComputerNodes(computer)) /\ b[1].name = "Computer"
    /\ u.ip = b[1].attribute /\ u.text = PrintAll(b)

\* What is carried out of an upload whose text was parsed as far as it goes:
\* its first computers, all but the last of them as they were meant
\* (generate_queries).
LEMMA QueriesFound ==
    ASSUME NEW up \in Seq(Computer), NEW U, NEW text, Parse(text) \in Seq(Node(U, U)),
           NEW L, Agrees(Parse(text), L, UploadNodes(up))
    PROVE  LET sent == generate_queries(text) IN
           \E p \in 0 .. Len(up) :
              /\ DOMAIN sent = 1 .. p /\ Len(sent) = p
              /\ \A c \in 1 .. p : \E b \in Seq(Node(U, U)) :
                    /\ Sends(sent[c], b, up[c])
                    /\ c < p => b = ComputerNodes(up[c])
                    /\ AgreesWholly(Parse(text), UploadNodes(up)) => b = ComputerNodes(up[c])
              /\ AgreesWholly(Parse(text), UploadNodes(up)) => p = Len(up)
<1> DEFINE ns == Parse(text)
           T == UploadNodes(up)
           m == Len(up)
           type == FirstChild(ns, FirstChild(ns, {0}, "Tacktech"), "Type")
           found == UploadIn(ns)
           computers == ComputersOf(ns, found)
           sent == generate_queries(text)
           Good(p) == /\ DOMAIN sent = 1 .. p /\ Len(sent) = p
                      /\ \A c \in 1 .. p : \E b \in Seq(Node(U, U)) :
                            /\ Sends(sent[c], b, up[c])
                            /\ c < p => b = ComputerNodes(up[c])
                            /\ AgreesWholly(ns, T) => b = ComputerNodes(up[c])
                      /\ AgreesWholly(ns, T) => p = m
<1>1. sent = [c \in DOMAIN computers |->
                 [ip |-> ns[computers[c]].attribute, text |-> PrintNode(ns, computers[c])]]
  BY DEF generate_queries, UploadIn
<1>2. T \in Seq(Node(ElementNames, Pieces)) /\ Len(T) >= 3 /\ \E s : Starts(s, up, T)
  BY UploadNodesAre
<1>3. /\ T[1] = Element("Tacktech", 1, <<>>, <<>>)
      /\ T[2] = Element("Type", 2, <<"UPLOAD">>, <<>>)
  BY UploadNodesAre
<1>4. ns \in Seq(Node(U, U)) /\ Agrees(ns, L, T)
  OBVIOUS
<1>5. m \in Nat /\ Len(ns) \in Nat /\ Len(T) \in Nat
  <2> HIDE DEF ns, T
  <2> QED
    BY <1>2, <1>4, LenProperties
<1> HIDE DEF ns, T, m, type, found, computers, sent
<1>6. L \in Nat /\ L <= Len(ns) /\ L <= Len(T)
  BY <1>4 DEF Agrees
<1> DEFINE W == Named(ns, L, T)
<1>9. /\ W \in Nat /\ W <= L /\ L <= W + 1 /\ (W < L => L = Len(ns))
      /\ \A i \in 1 .. W : ns[i].name = T[i].name
      /\ \A i \in 1 .. L : i > W => ns[i].name = Damaged
      /\ AgreesWholly(ns, T) => W = L
  BY <1>4, <1>5, NamedAre DEF HasNames
<1>10. HasNames(ns, L, T, W)
  BY <1>9 DEF HasNames
<1>11. L < Len(ns) => L = Len(T) /\ ns[L + 1].depth = 1
  BY <1>4 DEF Agrees
<1> HIDE DEF W
\* The upload itself was not reached.
<1>7. CASE W < 3
  <2>1. L = Len(ns)
    BY <1>2, <1>5, <1>6, <1>7, <1>9, <1>11
  <2>2. \A i \in 1 .. Len(ns) : ns[i].name \in {"Tacktech", "Type", Damaged}
    <3> SUFFICES ASSUME NEW i \in 1 .. Len(ns)
                 PROVE  ns[i].name \in {"Tacktech", "Type", Damaged}
      OBVIOUS
    <3>1. CASE i > W
      BY <1>9, <2>1, <3>1
    <3>2. CASE ~(i > W)
      <4>1. i \in 1 .. W /\ (i = 1 \/ i = 2)
        BY <1>5, <1>7, <1>9, <3>2
      <4>2. ns[i].name = T[i].name
        BY <1>9, <4>1
      <4> QED
        BY <1>3, <4>1, <4>2 DEF Element
    <3> QED
      BY <3>1, <3>2
  <2>3. type \subseteq Nat
    <3> DEFINE root == FirstChild(ns, {0}, "Tacktech")
    <3>1. \A j \in 1 .. Len(ns) : j \in Nat
      OBVIOUS
    <3>2. root \subseteq Nat
      <4>1. {0} \subseteq Nat
        OBVIOUS
      <4>2. /\ Children(ns, {0}, "Tacktech") \subseteq 1 .. Len(ns)
            /\ root \subseteq Children(ns, {0}, "Tacktech")
        BY <1>5, <4>1, ChildrenAmong
      <4> QED
        BY <3>1, <4>2
    <3> HIDE DEF root
    <3>3. FirstChild(ns, root, "Type") \subseteq Nat
      BY <1>5, <3>1, <3>2, ChildrenAmong
    <3> QED
      BY <3>3 DEF type, root
  <2>4. FirstChild(ns, type, "Upload") = {}
    <3>1. /\ Children(ns, type, "Upload") \subseteq 1 .. Len(ns)
          /\ \A j \in Children(ns, type, "Upload") : ns[j].name = "Upload"
          /\ FirstChild(ns, type, "Upload") \subseteq Children(ns, type, "Upload")
      BY <1>5, <2>3, ChildrenAmong
    <3> QED
      BY <2>2, <3>1 DEF Damaged
  <2>5. found = {}
    BY <2>4 DEF found, type, UploadIn
  <2>6. computers = <<>>
    <3>1. Children(ns, {}, "Computer") = {}
      BY DEF Children
    <3>2. InOrder({}) = <<>>
      <4>1. Cardinality({}) = 0
        BY FS_EmptySet
      <4> QED
        BY <4>1 DEF InOrder
    <3> QED
      BY <2>5, <3>1, <3>2 DEF computers, ComputersOf
  <2>7. sent = <<>>
    BY <1>1, <2>6
  <2>8. ~AgreesWholly(ns, T)
    BY <1>2, <1>5, <1>6, <1>7, <1>9, <2>1 DEF AgreesWholly
  <2>9. Good(0) /\ 0 \in 0 .. m
    BY <1>5, <2>7, <2>8
  <2> HIDE DEF Good
  <2>10. \E p \in 0 .. m : Good(p)
    BY <2>9
  <2> QED
    BY <2>10 DEF Good, ns, T, m, sent
<1>8. CASE W >= 3
  <2>1. PICK s : Starts(s, up, T)
    BY <1>2
  <2>2. \E p \in 0 .. m : /\ \A c \in 1 .. m : c <= p <=> s[c] <= W
                          /\ computers = [c \in 1 .. p |-> s[c]]
    <3>1. Starts(s, up, UploadNodes(up)) /\ Agrees(ns, L, UploadNodes(up)) /\ ns \in Seq(Node(U, U))
      BY <1>4, <2>1 DEF T
    <3>2. HasNames(ns, L, UploadNodes(up), W)
      BY <1>10 DEF T
    <3>3. FindsComputers(ns, up, s, W)
      BY <1>8, <3>1, <3>2, ComputersFound
    <3> QED
      BY <3>3 DEF computers, found, m, FindsComputers
  <2>3. PICK p \in 0 .. m : /\ \A c \in 1 .. m : c <= p <=> s[c] <= W
                            /\ computers = [c \in 1 .. p |-> s[c]]
    BY <2>2
  <2>4. sent = [c \in 1 .. p |-> [ip |-> ns[s[c]].attribute, text |-> PrintNode(ns, s[c])]]
    BY <1>1, <2>3
  <2>5. /\ \A c \in 1 .. (m + 1) : s[c] \in Nat
        /\ s[m + 1] = Len(T) + 1
        /\ \A c \in 1 .. m : /\ s[c + 1] = s[c] + Len(ComputerNodes(up[c]))
                             /\ \A j \in 1 .. Len(ComputerNodes(up[c])) :
                                   T[s[c] + j - 1] = ComputerNodes(up[c])[j]
        /\ \A c, e \in 1 .. m : c < e => s[c + 1] <= s[e]
    BY <2>1 DEF Starts, m
  <2>6. \A c \in 1 .. m : up[c] \in Computer
    BY ElementOfSeq DEF m
  <2>7. /\ \A c \in 1 .. m :
              /\ Len(ComputerNodes(up[c])) \in Nat /\ Len(ComputerNodes(up[c])) >= 1
              /\ s[c] \in Nat /\ s[c + 1] \in Nat /\ s[c] >= 4 /\ s[c + 1] <= Len(T) + 1
        /\ \A c, e \in 1 .. m : c < e => s[c] < s[e]
    BY <1>5, <2>1, StartsAscend DEF m
  <2>8. AgreesWholly(ns, T) => L = Len(T) /\ W = L
    BY <1>4, <1>5, <1>6, <1>9 DEF Agrees, AgreesWholly
  <2>9. \A i \in 1 .. L : /\ ns[i].name \in {T[i].name, Damaged} /\ ns[i].depth = T[i].depth
                          /\ i < L => ns[i] = T[i]
                          /\ AgreesWholly(ns, T) => ns[i] = T[i]
    BY <1>4, <1>5, <1>6 DEF Agrees, AgreesWholly
  <2>10. L < Len(ns) => L = Len(T) /\ ns[L + 1].depth = 1
    BY <1>4 DEF Agrees
  <2>11. ASSUME NEW c \in 1 .. p
         PROVE  \E b \in Seq(Node(U, U)) :
                   /\ Sends(sent[c], b, up[c])
                   /\ c < p => b = ComputerNodes(up[c])
                   /\ AgreesWholly(ns, T) => b = ComputerNodes(up[c])
    <3> DEFINE k == s[c]
               C == ComputerNodes(up[c])
               size == Len(C)
               next == s[c + 1]
               e == IF next - 1 <= L THEN next - 1 ELSE L
               M == e - k + 1
               b == SubSeq(ns, k, e)
    <3>1. c \in 1 .. m /\ c <= p
      BY <1>5
    <3>2. /\ k \in Nat /\ k >= 4 /\ next \in Nat /\ size \in Nat /\ size >= 1
          /\ next = k + size /\ next <= Len(T) + 1
      BY <2>5, <2>7, <3>1
    <3>3. k <= W /\ k <= L
      BY <1>6, <1>9, <2>3, <3>1, <3>2
    <3>4. \A j \in 1 .. size : T[k + j - 1] = C[j]
      BY <2>5, <3>1
    <3>5. C \in Seq(Node(ElementNames, Pieces))
      BY <2>6, <3>1, ComputerNodesAre
    <3>6. c < p => next <= L
      <4>1. c < p => c + 1 \in 1 .. m /\ c + 1 <= p
        BY <1>5, <3>1
      <4>2. c < p => next <= W
        BY <2>3, <4>1
      <4> QED
        BY <1>6, <1>9, <3>2, <4>2
    <3>7. next <= L => /\ c + 1 \in 1 .. m
                       /\ T[next].depth = 4
      <4> SUFFICES ASSUME next <= L PROVE c + 1 \in 1 .. m /\ T[next].depth = 4
        OBVIOUS
      <4>1. c # m
        BY <1>5, <1>6, <2>5
      <4>2. c + 1 \in 1 .. m
        BY <1>5, <3>1, <4>1
      <4> DEFINE d == c + 1
      <4>3. ComputerNodes(up[d])[1].depth = 4
        BY <2>6, <4>2, ComputerShape
      <4> HIDE DEF d
      <4>4. /\ \A j \in 1 .. Len(ComputerNodes(up[d])) : T[s[d] + j - 1] = ComputerNodes(up[d])[j]
            /\ Len(ComputerNodes(up[d])) >= 1 /\ Len(ComputerNodes(up[d])) \in Nat /\ s[d] \in Nat
        BY <2>5, <2>7, <4>2 DEF d
      <4>5. T[s[d] + 1 - 1] = ComputerNodes(up[d])[1] /\ s[d] + 1 - 1 = s[d]
        BY <4>4
      <4> QED
        BY <4>2, <4>3, <4>5 DEF d
    <3> HIDE DEF k, C, size, next
    <3>8. /\ e \in Nat /\ k <= e /\ e <= L /\ M \in Nat /\ M >= 1 /\ M <= size
          /\ e = next - 1 \/ e = L
          /\ next - 1 <= L => e = next - 1 /\ M = size
      BY <1>6, <3>2, <3>3
    <3>9. e < Len(ns) => ns[e + 1].depth <= 4
      <4> SUFFICES ASSUME e < Len(ns) PROVE ns[e + 1].depth <= 4
        OBVIOUS
      <4>1. CASE e = L
        BY <2>10, <4>1
      <4>2. CASE e # L
        <5>1. next <= L /\ e + 1 = next
          BY <1>6, <3>2, <3>8, <4>2
        <5>2. next \in 1 .. L /\ T[next].depth = 4
          BY <1>6, <3>2, <3>7, <5>1
        <5>3. ns[next].depth = 4
          BY <2>9, <5>2
        <5> QED
          BY <5>1, <5>3
      <4> QED
        BY <4>1, <4>2
    <3> HIDE DEF e
    <3>10. \A j \in 1 .. M : /\ ns[k + j - 1].name \in {C[j].name, Damaged}
                             /\ ns[k + j - 1].depth = C[j].depth
                             /\ k + j - 1 < L \/ AgreesWholly(ns, T) => ns[k + j - 1] = C[j]
                             /\ j < M => k + j - 1 < L
      <4> SUFFICES ASSUME NEW j \in 1 .. M
                   PROVE  /\ ns[k + j - 1].name \in {C[j].name, Damaged}
                          /\ ns[k + j - 1].depth = C[j].depth
                          /\ k + j - 1 < L \/ AgreesWholly(ns, T) => ns[k + j - 1] = C[j]
                          /\ j < M => k + j - 1 < L
        OBVIOUS
      <4>1. j \in 1 .. size /\ k + j - 1 \in 1 .. L /\ (j < M => k + j - 1 < L)
        BY <1>6, <3>2, <3>8
      <4> DEFINE i == k + j - 1
      <4>2. T[i] = C[j] /\ i \in 1 .. L
        BY <3>4, <4>1
      <4> HIDE DEF i
      <4>3. ns[i].name \in {C[j].name, Damaged} /\ ns[i].depth = C[j].depth
            /\ (i < L \/ AgreesWholly(ns, T) => ns[i] = C[j])
        BY <2>9, <4>2
      <4> QED
        BY <4>1, <4>3 DEF i
    <3>16. ns[k].name = "Computer"
      <4>1. 1 \in 1 .. size /\ k + 1 - 1 = k /\ k \in 1 .. W
        BY <1>9, <3>2, <3>3
      <4>2. T[k] = C[1]
        BY <3>4, <4>1
      <4>3. C[1].name = "Computer"
        BY <2>6, <3>1, ComputerShape DEF C
      <4> QED
        BY <1>9, <4>1, <4>2, <4>3
    <3>11. /\ PrintNode(ns, k) = PrintAll(b) /\ b \in Seq(Node(U, U)) /\ b # <<>> /\ Len(b) = M
           /\ \A j \in 1 .. M : b[j] = ns[k + j - 1]
           /\ CutOf(b, C) /\ b[1].name = "Computer"
      <4>1. up[c] \in Computer
        BY <2>6, <3>1
      <4>2. Spans(U, ns, k, e, up[c])
        <5>1. k >= 1 /\ k <= e /\ e <= Len(ns) /\ e - k + 1 <= Len(ComputerNodes(up[c]))
          BY <1>5, <1>6, <3>2, <3>8 DEF size, C
        <5>2. \A j \in 1 .. (e - k + 1) :
                 /\ ns[k + j - 1].name \in {ComputerNodes(up[c])[j].name, Damaged}
                 /\ ns[k + j - 1].depth = ComputerNodes(up[c])[j].depth
                 /\ j < e - k + 1 => ns[k + j - 1] = ComputerNodes(up[c])[j]
          BY <3>10 DEF C
        <5> QED
          BY <1>4, <3>2, <3>8, <3>9, <3>16, <4>1, <5>1, <5>2 DEF Spans
      <4>3. PrintsPiece(U, ns, k, e, up[c])
        BY <4>2, ComputerFound
      <4> QED
        BY <4>3 DEF C, PrintsPiece
    <3> HIDE DEF b, M
    <3>12. Sends(sent[c], b, up[c])
      <4>1. sent[c].ip = ns[k].attribute /\ sent[c].text = PrintNode(ns, k)
        BY <2>4 DEF k
      <4>2. b[1] = ns[k]
        <5>1. 1 \in 1 .. M /\ k + 1 - 1 = k
          BY <3>2, <3>8
        <5> QED
          BY <3>11, <5>1
      <4> QED
        BY <3>11, <4>1, <4>2 DEF Sends, C
    <3>13. ASSUME next - 1 <= L, next - 1 < L \/ AgreesWholly(ns, T) PROVE b = C
      <4>1. M = size /\ e = next - 1
        BY <3>8, <3>13
      <4>2. \A j \in 1 .. size : b[j] = C[j]
        <5> SUFFICES ASSUME NEW j \in 1 .. size PROVE b[j] = C[j]
          OBVIOUS
        <5>1. k + j - 1 <= next - 1
          BY <3>2
        <5>2. k + j - 1 < L \/ AgreesWholly(ns, T)
          BY <1>6, <3>2, <3>13, <5>1
        <5> QED
          BY <3>10, <3>11, <4>1, <5>2
      <4> QED
        BY <3>5, <3>11, <4>1, <4>2, SeqEqual DEF size
    <3>14. c < p => b = C
      BY <1>6, <3>2, <3>6, <3>13
    <3>15. AgreesWholly(ns, T) => b = C
      BY <1>6, <2>8, <3>2, <3>13
    <3> QED
      BY <3>11, <3>12, <3>14, <3>15 DEF C
  <2>12. AgreesWholly(ns, T) => p = m
    <3> SUFFICES ASSUME AgreesWholly(ns, T), m >= 1 PROVE m <= p
      BY <1>5
    <3>1. m \in 1 .. m
      BY <1>5
    <3>2. s[m] \in Nat /\ s[m + 1] = s[m] + Len(ComputerNodes(up[m]))
          /\ Len(ComputerNodes(up[m])) \in Nat /\ Len(ComputerNodes(up[m])) >= 1
      BY <2>5, <2>7, <3>1
    <3>3. s[m] <= W
      BY <2>5, <2>8, <3>2
    <3> QED
      BY <2>3, <3>1, <3>3
  <2>13. DOMAIN sent = 1 .. p /\ Len(sent) = p
    BY <1>5, <2>4
  <2> HIDE DEF sent
  <2>14. Good(p)
    BY <2>11, <2>12, <2>13
  <2> HIDE DEF Good
  <2>15. \E r \in 0 .. m : Good(r)
    BY <2>14
  <2> QED
    BY <2>15 DEF Good, ns, T, m, sent
<1> QED
  BY <1>7, <1>8, <1>9

-----------------------------------------------------------------------------
(* The texts that the server is handed. *)

\* The elements of a document are where they are.
LEMMA MovedByNone ==
    ASSUME NEW N, NEW V, NEW ts \in Seq(Node(N, V))
    PROVE  Moved(ts, Len(ts), 1) = ts
<1> DEFINE L == Len(ts)
           ms == Moved(ts, L, 1)
<1>1. L \in Nat /\ ts \in [1 .. L -> Node(N, V)]
  BY LenProperties
<1> HIDE DEF L
<1>2. ASSUME NEW k \in 1 .. L
      PROVE  Elem(ts[k].name, ts[k].depth - 1 + 1, ts[k].attribute, ts[k].text) = ts[k]
  <2> DEFINE x == ts[k]
  <2>1. x \in Node(N, V)
    BY <1>1
  <2> HIDE DEF x
  <2>2. x.depth - 1 + 1 = x.depth
    BY <2>1 DEF Node
  <2>3. Elem(x.name, x.depth, x.attribute, x.text) = x
    BY <2>1 DEF Node, Elem
  <2> QED
    BY <2>2, <2>3 DEF x
<1>3. ms = [k \in 1 .. L |-> ts[k]]
  BY <1>2 DEF Moved
<1> QED
  BY <1>1, <1>3 DEF L

\* What the text of an upload is: atoms of its elements, read in full.
LEMMA UploadTextRead ==
    ASSUME NEW up \in Seq(Computer)
    PROVE  /\ UploadNodes(up) \in Seq(Node(ElementNames, Pieces))
           /\ IsTree(UploadNodes(up), 1)
           /\ Moved(UploadNodes(up), Len(UploadNodes(up)), 1) = UploadNodes(up)
           /\ get_xml_upload(up) \in Seq(AtomsOver(ElementNames, Pieces))
           /\ Leads(StartOfText, get_xml_upload(up), State(UploadNodes(up), <<>>, "content"))
<1> DEFINE T == UploadNodes(up)
<1>1. T \in Seq(Node(ElementNames, Pieces)) /\ IsTree(T, 1)
  BY UploadNodesAre, UploadIsTree
<1>2. get_xml_upload(up) = PrintAll(T)
  BY DEF get_xml_upload
<1> HIDE DEF T
<1>3. Moved(T, Len(T), 1) = T
  BY <1>1, MovedByNone
<1>4. Len(T) \in 0 .. Len(T)
  BY <1>1, LenProperties
<1>5. /\ \A n \in 0 .. Len(T) : /\ Printed(T, n) \in Seq(AtomsOver(ElementNames, Pieces))
                                /\ Leads(StartOfText, Printed(T, n), AfterElements(T, 1, n))
      /\ AfterElements(T, 1, Len(T)) = State(Moved(T, Len(T), 1), <<>>, "content")
      /\ PrintAll(T) = Printed(T, Len(T))
  BY <1>1, PrintedRead
<1>6. /\ PrintAll(T) \in Seq(AtomsOver(ElementNames, Pieces))
      /\ Leads(StartOfText, PrintAll(T), State(T, <<>>, "content"))
  BY <1>3, <1>4, <1>5
<1> QED
  BY <1>1, <1>2, <1>3, <1>6 DEF T

\* The parsed elements are those of an upload, as far as they go.
ReadsAs(text, up) ==
    \E U : \E L : Parse(text) \in Seq(Node(U, U)) /\ Agrees(Parse(text), L, UploadNodes(up))

\* A text that was cut is read as far as it goes (async_read_until).
LEMMA CutReadsAs ==
    ASSUME NEW up \in Seq(Computer), NEW D, NEW u \in Seq(D), Begins(u, get_xml_upload(up))
    PROVE  ReadsAs(u, up)
<1> DEFINE T == UploadNodes(up)
           U == ReadOf(ElementNames, Pieces)
           ns == Parse(u)
<1>1. /\ T \in Seq(Node(ElementNames, Pieces)) /\ IsTree(T, 1) /\ Moved(T, Len(T), 1) = T
      /\ get_xml_upload(up) \in Seq(AtomsOver(ElementNames, Pieces))
  BY UploadTextRead
<1>2. get_xml_upload(up) = PrintAll(T)
  BY DEF get_xml_upload
<1>3. u \in Seq(AtomsOver(ElementNames, Pieces)) /\ Begins(u, PrintAll(T))
  <2>1. u \in Seq(AtomsOver(ElementNames, Pieces))
    BY <1>1, BeginsMember
  <2> QED
    BY <1>2, <2>1
<1> HIDE DEF T, U, ns
<1>4. ns \in Seq(Node(U, U)) /\ CutOf(ns, T)
  <2>1. 1 \in Nat
    OBVIOUS
  <2>2. /\ Parse(u) \in Seq(Node(ReadOf(ElementNames, Pieces), ReadOf(ElementNames, Pieces)))
        /\ CutOf(Parse(u), Moved(T, Len(T), 1))
    BY <1>1, <1>3, <2>1, CutRead
  <2> QED
    BY <1>1, <2>2 DEF U, ns
<1>5. Len(ns) \in Nat
  BY <1>4, LenProperties
<1>6. Agrees(ns, Len(ns), T)
  BY <1>4, <1>5 DEF Agrees, CutOf
<1> QED
  BY <1>4, <1>6 DEF ReadsAs, ns, T

\* Whatever follows a whole text, its elements are the first that are read, and
\* nothing is added to them (handle_read).
LEMMA WholeReadsAs ==
    ASSUME NEW up \in Seq(Computer), NEW D, NEW t \in Seq(D)
    PROVE  /\ ReadsAs(get_xml_upload(up) \o t, up)
           /\ AgreesWholly(Parse(get_xml_upload(up) \o t), UploadNodes(up))
<1> DEFINE T == UploadNodes(up)
           A == AtomsOver(ElementNames, Pieces) \cup D
           R == ReadOf(ElementNames, Pieces)
           U == R \cup {a.of : a \in D}
           s == get_xml_upload(up)
           text == s \o t
           ns == Parse(text)
<1>1. /\ T \in Seq(Node(ElementNames, Pieces))
      /\ s \in Seq(AtomsOver(ElementNames, Pieces))
      /\ Leads(StartOfText, s, State(T, <<>>, "content"))
  BY UploadTextRead
<1>2. /\ Damaged \in R
      /\ T \in Seq(Node(R, R))
      /\ \A a \in AtomsOver(ElementNames, Pieces) : a.of \in R
  BY <1>1, ReadOfIs
<1> HIDE DEF R, T, s
<1>3. Damaged \in U /\ \A a \in A : a.of \in U
  BY <1>2
<1>4. R \subseteq U /\ AtomsOver(ElementNames, Pieces) \subseteq A /\ D \subseteq A
  OBVIOUS
<1> HIDE DEF U, A
<1>5. s \in Seq(A) /\ t \in Seq(A)
  BY <1>1, <1>4, SeqMonotonic
<1>6. T \in Seq(Node(U, U))
  <2>1. Seq(R) \subseteq Seq(U)
    BY <1>4, SeqMonotonic
  <2>2. Node(R, R) \subseteq Node(U, U)
    BY <1>4, <2>1 DEF Node
  <2> QED
    BY <1>2, <2>2, SeqMonotonic
<1>7. ns \in Seq(Node(U, U)) /\ Grown(T, ns, <<>>)
  BY <1>1, <1>3, <1>5, <1>6, ReadBeyond
<1> HIDE DEF ns
<1>8. Len(ns) \in Nat /\ Len(T) \in Nat /\ Len(T) \in 1 .. Len(T)
  <2>1. Len(T) >= 3
    BY UploadNodesAre DEF T
  <2> QED
    BY <1>1, <1>7, <2>1, LenProperties
<1>9. Agrees(ns, Len(T), T) /\ AgreesWholly(ns, T)
  BY <1>7, <1>8 DEF Agrees, AgreesWholly, Grown
<1> QED
  BY <1>7, <1>9 DEF ReadsAs, ns, T, s

-----------------------------------------------------------------------------
(* What is carried out. *)

\* A computer gets what was meant for it.
Meant(sent, computer) ==
    sent.ip = computer.ip /\ ItemsShown(sent.text) = computer.items

\* It gets what was meant for it up to the last item it gets, if it gets any.
MeantButForLast(sent, computer) ==
    LET items == ItemsShown(sent.text) IN
        /\ items # <<>> => sent.ip = computer.ip
        /\ Len(items) <= Len(computer.items)
        /\ \A i \in 1 .. Len(items) - 1 : items[i] = computer.items[i]

\* What a display makes of the elements it is sent (handle_upload,
\* handle_recieved_data).
LEMMA SentIsMeant ==
    ASSUME NEW computer \in Computer, NEW U, NEW b \in Seq(Node(U, U)), NEW sent,
           Sends(sent, b, computer)
    PROVE  /\ MeantButForLast(sent, computer)
           /\ b = ComputerNodes(computer) => Meant(sent, computer)
<1>1. b # <<>> /\ CutOf(b, ComputerNodes(computer)) /\ b[1].name = "Computer"
      /\ sent.ip = b[1].attribute /\ sent.text = PrintAll(b)
  BY DEF Sends
<1>2. /\ Len(ItemsShown(PrintAll(b))) <= Len(computer.items)
      /\ \A i \in 1 .. (Len(ItemsShown(PrintAll(b))) - 1) :
            ItemsShown(PrintAll(b))[i] = computer.items[i]
      /\ ItemsShown(PrintAll(b)) # <<>> => b[1] = ComputerNodes(computer)[1]
      /\ b = ComputerNodes(computer) => ItemsShown(PrintAll(b)) = computer.items
  BY <1>1, ItemsOfCut
<1>3. ComputerNodes(computer)[1].attribute = computer.ip
  <2>1. ComputerNodes(computer)[1] = Element("Computer", 4, computer.ip, <<>>)
    BY ComputerNodesAre
  <2> QED
    BY <2>1 DEF Element
<1> QED
  BY <1>1, <1>2, <1>3 DEF MeantButForLast, Meant

\* All computers but the last to get anything get what was meant for them; all
\* get it if the upload was read as a whole (generate_queries).
LEMMA CarriedOut ==
    ASSUME NEW up \in Seq(Computer), NEW text, ReadsAs(text, up)
    PROVE  LET sent == generate_queries(text) IN
           /\ Len(sent) \in Nat /\ DOMAIN sent = 1 .. Len(sent) /\ Len(sent) <= Len(up)
           /\ \A c \in 1 .. Len(sent) : \/ Meant(sent[c], up[c])
                                        \/ c = Len(sent) /\ MeantButForLast(sent[c], up[c])
           /\ AgreesWholly(Parse(text), UploadNodes(up)) =>
                 Len(sent) = Len(up) /\ \A c \in 1 .. Len(up) : Meant(sent[c], up[c])
<1> DEFINE sent == generate_queries(text)
           m == Len(up)
           Whole == AgreesWholly(Parse(text), UploadNodes(up))
<1>1. PICK U : \E L : Parse(text) \in Seq(Node(U, U)) /\ Agrees(Parse(text), L, UploadNodes(up))
  BY DEF ReadsAs
<1>2. PICK L : Parse(text) \in Seq(Node(U, U)) /\ Agrees(Parse(text), L, UploadNodes(up))
  BY <1>1
<1>3. \E p \in 0 .. m :
         /\ DOMAIN sent = 1 .. p /\ Len(sent) = p
         /\ \A c \in 1 .. p : \E b \in Seq(Node(U, U)) :
               /\ Sends(sent[c], b, up[c])
               /\ c < p => b = ComputerNodes(up[c])
               /\ Whole => b = ComputerNodes(up[c])
         /\ Whole => p = m
  BY <1>2, QueriesFound
<1>4. m \in Nat /\ \A c \in 1 .. m : up[c] \in Computer
  BY LenProperties, ElementOfSeq
<1> HIDE DEF sent, m, Whole
<1>5. PICK p \in 0 .. m :
         /\ DOMAIN sent = 1 .. p /\ Len(sent) = p
         /\ \A c \in 1 .. p : \E b \in Seq(Node(U, U)) :
               /\ Sends(sent[c], b, up[c])
               /\ c < p => b = ComputerNodes(up[c])
               /\ Whole => b = ComputerNodes(up[c])
         /\ Whole => p = m
  BY <1>3
<1>6. ASSUME NEW c \in 1 .. p
      PROVE  /\ MeantButForLast(sent[c], up[c])
             /\ c < p \/ Whole => Meant(sent[c], up[c])
  <2>1. PICK b \in Seq(Node(U, U)) :
               /\ Sends(sent[c], b, up[c])
               /\ c < p => b = ComputerNodes(up[c])
               /\ Whole => b = ComputerNodes(up[c])
    BY <1>5
  <2>2. up[c] \in Computer
    BY <1>4
  <2> DEFINE computer == up[c]
  <2> HIDE DEF computer
  <2>3. computer \in Computer /\ Sends(sent[c], b, computer)
    BY <2>1, <2>2 DEF computer
  <2>4. /\ MeantButForLast(sent[c], computer)
        /\ b = ComputerNodes(computer) => Meant(sent[c], computer)
    BY <2>3, SentIsMeant
  <2> QED
    BY <2>1, <2>4 DEF computer
<1>7. p \in Nat /\ p <= m /\ \A c \in 1 .. p : c < p \/ c = p
  BY <1>4
<1> QED
  BY <1>5, <1>6, <1>7 DEF sent, m, Whole

-----------------------------------------------------------------------------
(* Every request. *)

\* What was handed on is what was taken, unless more was read behind the
\* buffer; and what is carried out is what it says.
HandledAsRead ==
    reader = "handled" =>
        /\ ~full => received_xml = Received
        /\ uploads = generate_queries(received_xml)

RequestsInv ==
    /\ FramingInv
    /\ upload \in Uploads /\ request = get_xml_upload(upload)
    /\ HandledAsRead

\* The steps of the manager and of the server's reads leave what was handed on.
LEMMA StepsKeepHandled ==
    ASSUME RequestFramingAssumption, RequestsInv, ManagerStep \/ ReadsSome \/ handle_read_error,
           UNCHANGED <<upload, uploads>>
    PROVE  HandledAsRead' /\ request' = request
<1>1. FramingInv /\ HandledAsRead
  BY DEF RequestsInv
<1>2. CASE ReadsSome \/ handle_read_error
  <2>1. reader' # "handled" /\ request' = request
    BY <1>2 DEF ReadsSome, handle_read_error, senderVars
  <2> QED
    BY <2>1 DEF HandledAsRead
<1>3. CASE ManagerStep
  <2>1. UNCHANGED <<request, taken, full, reader, received_xml>>
    BY <1>3 DEF ManagerStep, send_data_to_server, run_write, run_error, run_disconnect,
           run_end, readerVars
  <2>2. CASE reader = "handled"
    <3>1. taken # 0 /\ sender # "started"
      BY <1>1, <2>2, TextsAreSequences
         DEF FramingInv, HandledIsTaken, DelimiterSeen, WrittenWithDelimiter, Unwritten,
             FramingTypeOK
    <3>2. xml_string' = xml_string
      BY <1>3, <3>1 DEF ManagerStep, send_data_to_server, run_write, run_error,
         run_disconnect, run_end
    <3> QED
      BY <1>1, <2>1, <3>2 DEF HandledAsRead, Received
  <2>3. CASE reader # "handled"
    BY <2>1, <2>3 DEF HandledAsRead
  <2> QED
    BY <2>1, <2>2, <2>3
<1> QED
  BY <1>2, <1>3

\* The strengthening holds throughout.
THEOREM RequestsInvariant ==
    ASSUME RequestFramingAssumption
    PROVE  Spec => []RequestsInv
<1>1. Init => RequestsInv
  <2> SUFFICES ASSUME Init PROVE RequestsInv
    OBVIOUS
  <2>1. FramingInv
    BY FramingInitially DEF Init
  <2>2. reader = "reading"
    BY DEF Init, FramingInit
  <2> QED
    BY <2>1, <2>2 DEF Init, RequestsInv, HandledAsRead
<1>2. ASSUME RequestsInv, [Next]_requestVars
      PROVE  RequestsInv'
  <2>1. FramingInv /\ upload \in Uploads /\ request = get_xml_upload(upload) /\ HandledAsRead
    BY <1>2 DEF RequestsInv
  <2>2. ASSUME NEW text \in HandedOn, handle_request(text)
        PROVE  RequestsInv'
    <3>1. FramingInv'
      BY <2>1, <2>2, FramingServerStep DEF ServerStep, handle_request
    <3>2. /\ received_xml' = text /\ uploads' = generate_queries(text)
          /\ UNCHANGED <<upload, request, xml_string, taken, full>>
      BY <2>2 DEF handle_request, handle_read, senderVars
    <3>3. ~full => text = Received
      BY <2>2 DEF HandedOn
    <3>4. HandledAsRead'
      BY <3>2, <3>3 DEF HandledAsRead, Received
    <3> QED
      BY <2>1, <3>1, <3>2, <3>4 DEF RequestsInv
  <2>3. CASE (ManagerStep \/ ReadsSome \/ handle_read_error) /\ UNCHANGED <<upload, uploads>>
    <3>1. FramingInv'
      BY <2>1, <2>3, FramingManagerStep, FramingServerStep DEF ServerStep
    <3>2. HandledAsRead' /\ request' = request
      BY <1>2, <2>3, StepsKeepHandled
    <3> QED
      BY <2>1, <2>3, <3>1, <3>2 DEF RequestsInv
  <2>4. CASE UNCHANGED requestVars
    <3>1. FramingInv'
      BY <2>1, <2>4
         DEF requestVars, framingVars, senderVars, readerVars, FramingInv, FramingTypeOK,
             WrittenWithDelimiter, Unwritten, HandledIsTaken, DelimiterSeen
    <3>2. HandledAsRead'
      BY <2>1, <2>4 DEF requestVars, framingVars, senderVars, readerVars, HandledAsRead, Received
    <3> QED
      BY <2>1, <2>4, <3>1, <3>2 DEF RequestsInv, requestVars, framingVars, senderVars
  <2> QED
    BY <1>2, <2>2, <2>3, <2>4 DEF Next
<1> QED
  BY <1>1, <1>2, PTL DEF Spec

\* What the server takes from its streambuf begins the text and its delimiter.
LEMMA TakenReadsAs ==
    ASSUME RequestFramingAssumption, RequestsAssumption, RequestsInv, reader = "handled"
    PROVE  /\ upload \in Seq(Computer)
           /\ ReadsAs(Received, upload)
<1>1. /\ FramingInv /\ upload \in Seq(Computer) /\ request = get_xml_upload(upload)
      /\ FramingTypeOK /\ WrittenWithDelimiter /\ HandledIsTaken
  BY DEF RequestsInv, RequestsAssumption, FramingInv
<1>2. /\ request \in Seq(Atom) /\ xml_string \in Seq(Atom) /\ Delimiter \in Atom
      /\ Len(request) \in Nat /\ Len(xml_string) \in Nat
      /\ taken \in 0 .. Len(xml_string)
  <2>1. request \in Seq(Atom) /\ xml_string \in Seq(Atom)
    BY <1>1, TextsAreSequences
  <2>2. Delimiter \in Atom
    BY DEF RequestFramingAssumption
  <2>3. Len(request) \in Nat /\ Len(xml_string) \in Nat
    BY <2>1, LenProperties
  <2>4. delivered \in 0 .. Len(xml_string) /\ taken \in 0 .. delivered
    BY <1>1 DEF FramingTypeOK
  <2> QED
    BY <2>1, <2>2, <2>3, <2>4
<1>3. /\ Received \in Seq(Atom) /\ Len(Received) = taken
      /\ \A i \in 1 .. taken : Received[i] = xml_string[i]
  <2>1. \A i \in 1 .. taken : i \in 1 .. Len(xml_string)
    BY <1>2
  <2> QED
    BY <1>2, <2>1, SubSeqProperties DEF Received
<1>4. \/ xml_string = request
      \/ /\ xml_string = Append(request, Delimiter)
         /\ Len(xml_string) = Len(request) + 1
         /\ \A i \in 1 .. Len(request) : xml_string[i] = request[i]
  BY <1>1, <1>2, AppendProperties DEF FramingTypeOK
<1>5. CASE taken <= Len(request)
  <2>1. Begins(Received, request)
    <3>1. \A i \in 1 .. taken : i \in 1 .. Len(request)
      BY <1>2, <1>5
    <3> QED
      BY <1>3, <1>4, <1>5, <3>1 DEF Begins
  <2> QED
    BY <1>1, <1>3, <2>1, CutReadsAs
<1>6. CASE ~(taken <= Len(request))
  <2>1. xml_string = Append(request, Delimiter) /\ taken = Len(xml_string)
    BY <1>2, <1>4, <1>6
  <2>2. Received = xml_string
    BY <1>2, <1>3, <2>1, SeqEqual
  <2>3. Append(request, Delimiter) = request \o <<Delimiter>>
    BY <1>2, AppendIsConcat
  <2>4. <<Delimiter>> \in Seq(Atom)
    BY <1>2
  <2> DEFINE t == <<Delimiter>>
  <2> HIDE DEF t
  <2>5. ReadsAs(get_xml_upload(upload) \o t, upload)
    BY <1>1, <2>4, WholeReadsAs DEF t
  <2> QED
    BY <1>1, <2>1, <2>2, <2>3, <2>5 DEF t
<1> QED
  BY <1>1, <1>5, <1>6

\* A request without an entity is carried out as a whole, whatever is read
\* behind the buffer (handle_request, generate_queries, handle_recieved_data).
LEMMA InvImpliesCarriedOut ==
    ASSUME RequestFramingAssumption, RequestsAssumption, RequestsInv
    PROVE  PlainRequestsAreCarriedOut
<1> SUFFICES ASSUME reader = "handled", Plain(request)
             PROVE  /\ DOMAIN uploads = DOMAIN upload
                    /\ \A c \in DOMAIN upload : Faithful(c)
  BY DEF PlainRequestsAreCarriedOut
<1>1. /\ FramingInv /\ upload \in Seq(Computer) /\ request = get_xml_upload(upload)
      /\ uploads = generate_queries(received_xml)
  BY DEF RequestsInv, RequestsAssumption, HandledAsRead
<1>2. /\ Len(received_xml) > Len(request)
      /\ SubSeq(received_xml, 1, Len(request) + 1) = Append(request, Delimiter)
  BY <1>1, InvImpliesWhole DEF PlainRequestsAreWhole
<1>3. request \in Seq(Atom) /\ received_xml \in Seq(Atom) /\ Delimiter \in Atom
  BY <1>1, TextsAreSequences DEF FramingInv, FramingTypeOK, RequestFramingAssumption
<1> DEFINE L == Len(request)
           M == Len(received_xml)
           rest == SubSeq(received_xml, L + 1, M)
<1>4. L \in Nat /\ M \in Nat
  BY <1>3, LenProperties
<1>5. \A i \in 1 .. L : received_xml[i] = request[i]
  <2> SUFFICES ASSUME NEW i \in 1 .. L PROVE received_xml[i] = request[i]
    OBVIOUS
  <2> DEFINE start == SubSeq(received_xml, 1, L + 1)
  <2>1. /\ Append(request, Delimiter)[i] = request[i]
    BY <1>3, AppendProperties
  <2>2. start[i] = received_xml[i]
    <3>1. i \in 1 .. (L + 1) /\ L + 1 <= M
      BY <1>2, <1>4
    <3> QED
      BY <1>3, <1>4, <3>1
  <2> QED
    BY <1>2, <2>1, <2>2
<1>6. /\ rest \in Seq(Atom) /\ Len(rest) = M - L
      /\ \A i \in 1 .. (M - L) : rest[i] = received_xml[L + i]
  <2>1. L + 1 \in 1 .. (M + 1) /\ \A i \in L + 1 .. M : i \in 1 .. M
    BY <1>4, <1>2
  <2>2. /\ rest \in Seq(Atom)
        /\ Len(rest) = IF L + 1 <= M THEN M - (L + 1) + 1 ELSE 0
        /\ \A i \in 1 .. (M - (L + 1) + 1) : rest[i] = received_xml[L + 1 + i - 1]
    BY <1>3, <1>4, <2>1, SubSeqProperties
  <2> HIDE DEF rest, L, M
  <2>3. M - (L + 1) + 1 = M - L /\ \A i \in 1 .. (M - L) : L + 1 + i - 1 = L + i
    BY <1>4
  <2>4. L + 1 <= M
    BY <1>2, <1>4 DEF L, M
  <2> QED
    BY <2>2, <2>3, <2>4
<1>7. received_xml = request \o rest
  <2> HIDE DEF rest
  <2> DEFINE c == request \o rest
  <2>1. /\ c \in Seq(Atom) /\ Len(c) = L + Len(rest)
        /\ \A i \in 1 .. (L + Len(rest)) : c[i] = IF i <= L THEN request[i] ELSE rest[i - L]
    BY <1>3, <1>6, ConcatProperties
  <2> HIDE DEF c, L, M
  <2>2. Len(c) = M
    BY <1>4, <1>6, <2>1
  <2>3. ASSUME NEW i \in 1 .. M PROVE received_xml[i] = c[i]
    <3> DEFINE r == Len(rest)
    <3>0. r \in Nat /\ M = L + r
      BY <1>2, <1>4, <1>6 DEF L, M
    <3>1. CASE i <= L
      <4>1. i \in 1 .. L /\ i \in 1 .. (L + r)
        BY <1>4, <3>0, <3>1
      <4>2. c[i] = request[i]
        BY <2>1, <3>1, <4>1
      <4> QED
        BY <1>5, <4>1, <4>2
    <3>2. CASE ~(i <= L)
      <4>1. i - L \in 1 .. (M - L) /\ L + (i - L) = i /\ i \in 1 .. (L + r)
        BY <1>4, <3>0, <3>2
      <4>2. c[i] = rest[i - L]
        BY <2>1, <3>2, <4>1
      <4>3. rest[i - L] = received_xml[L + (i - L)]
        BY <1>6, <4>1
      <4> QED
        BY <4>1, <4>2, <4>3
    <3> QED
      BY <3>1, <3>2
  <2>4. received_xml = c
    BY <1>3, <2>1, <2>2, <2>3, SeqEqual DEF M
  <2> QED
    BY <2>4 DEF c
<1> HIDE DEF rest
<1>8. /\ ReadsAs(received_xml, upload)
      /\ AgreesWholly(Parse(received_xml), UploadNodes(upload))
  BY <1>1, <1>6, <1>7, WholeReadsAs
<1>9. /\ DOMAIN uploads = 1 .. Len(uploads) /\ Len(uploads) = Len(upload)
      /\ \A c \in 1 .. Len(upload) : Meant(uploads[c], upload[c])
  BY <1>1, <1>8, CarriedOut
<1>10. DOMAIN upload = 1 .. Len(upload)
  BY <1>1, LenProperties
<1> QED
  BY <1>9, <1>10 DEF Meant, Faithful

\* A request that was cut is carried out as far as it goes, and only the last
\* item of the last computer can be other than it was meant, or, if it has no
\* items, the address.
LEMMA InvImpliesOnlyTheLast ==
    ASSUME RequestFramingAssumption, RequestsAssumption, RequestsInv
    PROVE  OnlyTheLastIsDamaged
<1> SUFFICES ASSUME reader = "handled", ~full
             PROVE  /\ Len(uploads) <= Len(upload)
                    /\ \A c \in DOMAIN uploads :
                          \/ Faithful(c)
                          \/ c = Len(uploads) /\ MeantButForLast(uploads[c], upload[c])
  BY DEF OnlyTheLastIsDamaged, MeantButForLast
<1>1. uploads = generate_queries(Received)
  BY DEF RequestsInv, HandledAsRead
<1>2. upload \in Seq(Computer) /\ ReadsAs(Received, upload)
  BY TakenReadsAs
<1>3. /\ DOMAIN uploads = 1 .. Len(uploads) /\ Len(uploads) <= Len(upload)
      /\ \A c \in 1 .. Len(uploads) : \/ Meant(uploads[c], upload[c])
                                      \/ c = Len(uploads) /\ MeantButForLast(uploads[c], upload[c])
  BY <1>1, <1>2, CarriedOut
<1> QED
  BY <1>3 DEF Meant, Faithful

\* Whatever is uploaded, in whatever pieces it arrives and whatever lies in the
\* memory behind the buffer: if no value needs an entity, each display shows the
\* items its computer was to get (Send_Data, handle_read, generate_queries,
\* handle_upload, handle_recieved_data).
THEOREM PlainRequestsAreCarriedOutTheorem ==
    ASSUME RequestFramingAssumption, RequestsAssumption
    PROVE  Spec => []PlainRequestsAreCarriedOut
<1>1. RequestsInv => PlainRequestsAreCarriedOut
  BY InvImpliesCarriedOut
<1> QED
  BY <1>1, RequestsInvariant, PTL

\* Whatever is uploaded and wherever it is cut: every computer that is found but
\* the last gets its address and its items as they were meant; the last has its
\* address as well, if it has any item, and every item but its last one
\* (async_read_until, generate_queries, handle_recieved_data).
THEOREM OnlyTheLastIsDamagedTheorem ==
    ASSUME RequestFramingAssumption, RequestsAssumption
    PROVE  Spec => []OnlyTheLastIsDamaged
<1>1. RequestsInv => OnlyTheLastIsDamaged
  BY InvImpliesOnlyTheLast
<1> QED
  BY <1>1, RequestsInvariant, PTL
=============================================================================
