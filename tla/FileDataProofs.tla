--------------------------- MODULE FileDataProofs ---------------------------
(***************************************************************************)
(* Proofs about module FileData, and the codec it is built from (module    *)
(* Base64): the decoder undoes what the encoder has done, in whatever      *)
(* blocks either of them gets its input, and neither overruns its buffers. *)
(*                                                                         *)
(* The coroutines are recursive functions.  Induction is needed of natural *)
(* numbers only: it is taken from the library's theorem about well-founded *)
(* relations, which is stated of sets.                                     *)
(***************************************************************************)
EXTENDS FileData, SequenceTheorems, WellFoundedInduction, TLAPS

-----------------------------------------------------------------------------
(* Recursive functions on 0 .. L: there is one, and its equation has one   *)
(* solution.  Stated of sets and functions, the lemmas can be cited of any *)
(* definition of the form                                                  *)
(*                                                                         *)
(*      f[n \in 0 .. L] == IF n = 0 THEN a ELSE ... f[n - 1] ...           *)

\* Natural induction, for the set of the numbers of which something holds.
LEMMA Induction ==
    ASSUME NEW S, 0 \in S, \A n \in Nat : n \in S => n + 1 \in S
    PROVE  \A n \in Nat : n \in S
<1> DEFINE R == {p \in Nat \X Nat : p[1] < p[2]}
           T == {n \in Nat : n \notin S}
<1>1. IsWellFoundedOn(R, Nat)
  BY NatLessThanWellFounded DEF OpToRel
<1> SUFFICES ASSUME T # {} PROVE FALSE
  OBVIOUS
<1>2. PICK n \in T : \A m \in T : ~ (<<m, n>> \in R)
  <2> HIDE DEF R, T
  <2> T \subseteq Nat
    BY DEF T
  <2> QED
  BY <1>1, WFMin
<1>3. \A m \in Nat : m < n => m \in S
  BY <1>2
<1>4. n # 0 /\ n - 1 \in Nat /\ n - 1 < n
  OBVIOUS
<1>5. n - 1 \in S /\ (n - 1) + 1 = n
  BY <1>3, <1>4
<1> QED
  BY <1>5, <1>4

\* Two functions agree on 0 .. L.
Agree(f, g, L) == \A n \in 0 .. L : f[n] = g[n]

\* They do if they start equal and each step keeps them so.
LEMMA RecursionUnique ==
    ASSUME NEW L \in Nat, NEW f, NEW g, f[0] = g[0],
           \A n \in 1 .. L : f[n - 1] = g[n - 1] => f[n] = g[n]
    PROVE  Agree(f, g, L)
<1> DEFINE S == {n \in Nat : n <= L => f[n] = g[n]}
<1>1. 0 \in S
  OBVIOUS
<1>2. ASSUME NEW n \in Nat, n \in S
      PROVE  n + 1 \in S
  <2>1. CASE n + 1 <= L
    <3>1. n + 1 \in 1 .. L /\ (n + 1) - 1 = n
      BY <2>1
    <3>2. f[n] = g[n]
      BY <1>2, <2>1
    <3>3. f[n + 1] = g[n + 1]
      BY <3>1, <3>2
    <3> QED
      BY <3>3
  <2>2. CASE ~(n + 1 <= L)
    BY <2>2
  <2> QED
    BY <2>1, <2>2
<1> HIDE DEF S
<1>3. \A n \in Nat : n \in S
  BY <1>1, <1>2, Induction
<1> QED
  BY <1>3 DEF S, Agree

\* f is a function on 0 .. L that starts with a and whose value at n is what
\* step[n] makes of that at n - 1.
Iterates(f, L, T, a, step) ==
    /\ f \in [0 .. L -> T]
    /\ f[0] = a
    /\ \A n \in 1 .. L : f[n] = step[n][f[n - 1]]

\* There is one for all steps within a set.
LEMMA RecursionExists ==
    ASSUME NEW L \in Nat, NEW T, NEW a \in T, NEW step \in [1 .. L -> [T -> T]]
    PROVE  \E f : Iterates(f, L, T, a, step)
<1> DEFINE Solves(f, m) == /\ f[0] = a
                           /\ \A n \in 1 .. m : f[n] = step[n][f[n - 1]]
           S == {m \in Nat : m <= L => \E f \in [0 .. m -> T] : Solves(f, m)}
<1>1. 0 \in S
  <2>1. Solves([n \in 0 .. 0 |-> a], 0)
    OBVIOUS
  <2>2. [n \in 0 .. 0 |-> a] \in [0 .. 0 -> T]
    OBVIOUS
  <2> QED
    BY <2>1, <2>2
<1>2. ASSUME NEW m \in Nat, m \in S
      PROVE  m + 1 \in S
  <2> SUFFICES ASSUME m + 1 <= L
               PROVE  \E f \in [0 .. (m + 1) -> T] : Solves(f, m + 1)
    OBVIOUS
  <2>1. PICK f \in [0 .. m -> T] : Solves(f, m)
    BY <1>2
  <2>2. step[m + 1] \in [T -> T] /\ f[m] \in T
    BY <2>1
  <2>3. step[m + 1][f[m]] \in T
    BY <2>2
  <2> DEFINE g == [n \in 0 .. (m + 1) |-> IF n = m + 1 THEN step[m + 1][f[m]] ELSE f[n]]
  <2>4. g \in [0 .. (m + 1) -> T]
    BY <2>1, <2>3
  <2>5. g[0] = a
    BY <2>1
  <2>6. ASSUME NEW n \in 1 .. (m + 1)
        PROVE  g[n] = step[n][g[n - 1]]
    <3>1. g[n - 1] = f[n - 1]
      BY <2>6
    <3>2. CASE n = m + 1
      BY <3>1, <3>2
    <3>3. CASE n # m + 1
      <4>1. n \in 1 .. m /\ g[n] = f[n]
        BY <3>3
      <4> QED
        BY <2>1, <3>1, <4>1
    <3> QED
      BY <3>2, <3>3
  <2> QED
    BY <2>4, <2>5, <2>6
<1> HIDE DEF S
<1>3. L \in S
  BY <1>1, <1>2, Induction
<1> QED
  BY <1>3 DEF S, Iterates

-----------------------------------------------------------------------------
(* The states of the codec, and what it has put out. *)

EncoderState == [step : {"A", "B", "C"}, result : Nat, stepcount : Nat]
DecoderState == [step : {"a", "b", "c", "d"}, plainchar : Nat]

Encoded == [state : EncoderState, out : Seq(Nat)]
Decoded == [state : DecoderState, out : Seq(Nat)]

\* Splitting a byte makes natural numbers, of which the lower one has k values.
LEMMA BitsType ==
    ASSUME NEW b \in Nat
    PROVE  /\ High(b, 4) \in Nat /\ Low(b, 4) \in Nat /\ High(b, 16) \in Nat
           /\ Low(b, 16) \in Nat /\ High(b, 64) \in Nat /\ Low(b, 64) \in Nat
BY DEF High, Low

\* What a byte makes of the encoder's state.
LEMMA EncodeStateIs ==
    ASSUME NEW e \in EncoderState, NEW b \in Nat
    PROVE  /\ EncodeState(e, b) \in EncoderState
           /\ e.step = "A" => EncodeState(e, b).step = "B" /\ EncodeState(e, b).result = Low(b, 4) * 16
           /\ e.step = "B" => EncodeState(e, b).step = "C" /\ EncodeState(e, b).result = Low(b, 16) * 4
           /\ e.step = "C" => EncodeState(e, b).step = "A"
<1>1. Low(b, 4) * 16 \in Nat /\ Low(b, 16) * 4 \in Nat /\ Low(b, 64) \in Nat
  BY BitsType
<1>2. CASE e.step = "A"
  <2> DEFINE r == Low(b, 4) * 16
  <2>1. EncodeState(e, b) = [e EXCEPT !.step = "B", !.result = r] /\ r \in Nat
    BY <1>1, <1>2 DEF EncodeState
  <2> HIDE DEF r
  <2>2. /\ EncodeState(e, b) \in EncoderState
        /\ EncodeState(e, b).step = "B" /\ EncodeState(e, b).result = r
    BY <2>1 DEF EncoderState
  <2> QED
    BY <1>2, <2>2 DEF r
<1>3. CASE e.step = "B"
  <2> DEFINE r == Low(b, 16) * 4
  <2>1. EncodeState(e, b) = [e EXCEPT !.step = "C", !.result = r] /\ r \in Nat
    BY <1>1, <1>3 DEF EncodeState
  <2> HIDE DEF r
  <2>2. /\ EncodeState(e, b) \in EncoderState
        /\ EncodeState(e, b).step = "C" /\ EncodeState(e, b).result = r
    BY <2>1 DEF EncoderState
  <2> QED
    BY <1>3, <2>2 DEF r
<1>4. CASE e.step = "C"
  <2> DEFINE r == Low(b, 64)
             c == IF LineIsFull(e) THEN 0 ELSE e.stepcount + 1
  <2>1. EncodeState(e, b) = [e EXCEPT !.step = "A", !.result = r, !.stepcount = c] /\ r \in Nat
    BY <1>1, <1>4 DEF EncodeState
  <2>2. c \in Nat
    BY DEF EncoderState
  <2> HIDE DEF r, c
  <2>3. EncodeState(e, b) \in EncoderState /\ EncodeState(e, b).step = "A"
    BY <2>1, <2>2 DEF EncoderState
  <2> QED
    BY <1>4, <2>3
<1> QED
  BY <1>2, <1>3, <1>4 DEF EncoderState

\* What a byte, and the end of a line, put out.
LEMMA EncodeOutType ==
    ASSUME NEW e \in EncoderState, NEW b \in Nat
    PROVE  /\ EncodeOut(e, b) \in Seq(Nat)
           /\ (IF LineIsFull(e) THEN <<NewLine>> ELSE <<>>) \in Seq(Nat)
<1>1. EncodeOut(e, b) \in Seq(Nat)
  <2>1. /\ Low(b, 64) \in Nat
        /\ High(b, 4) \in Nat /\ High(b, 16) \in Nat /\ High(b, 64) \in Nat
    BY BitsType
  <2> QED
    BY <2>1 DEF EncodeOut, EncoderState
<1>2. (IF LineIsFull(e) THEN <<NewLine>> ELSE <<>>) \in Seq(Nat)
  BY DEF NewLine
<1> QED
  BY <1>1, <1>2

\* A byte's turn keeps the types.
LEMMA EncodeByteType ==
    ASSUME NEW s \in Encoded, NEW b \in Nat
    PROVE  EncodeByte(s, b) \in Encoded
<1>1. s.state \in EncoderState /\ s.out \in Seq(Nat)
  BY DEF Encoded
<1>2. EncodeState(s.state, b) \in EncoderState
  BY <1>1, EncodeStateIs
<1>3. /\ EncodeOut(s.state, b) \in Seq(Nat)
      /\ (IF LineIsFull(s.state) THEN <<NewLine>> ELSE <<>>) \in Seq(Nat)
  BY <1>1, EncodeOutType
<1> QED
  BY <1>1, <1>2, <1>3 DEF EncodeByte, Encoded

\* What a character makes of the decoder's state, and what it puts out.
LEMMA DecodeStateIs ==
    ASSUME NEW d \in DecoderState, NEW v \in Nat
    PROVE  /\ DecodeState(d, v) \in DecoderState
           /\ DecodeOut(d, v) \in Seq(Nat)
<1>1. High(v, 16) \in Nat /\ High(v, 4) \in Nat /\ Low(v, 16) * 16 \in Nat /\ Low(v, 4) * 64 \in Nat
  BY BitsType
<1>2. CASE Ignored(v)
  BY <1>2 DEF DecodeState, DecodeOut
<1>3. CASE ~Ignored(v)
  <2>1. DecodeState(d, v) \in DecoderState
    BY <1>1, <1>3 DEF DecodeState, DecoderState
  <2>2. DecodeOut(d, v) \in Seq(Nat)
    BY <1>1, <1>3 DEF DecodeOut, DecoderState
  <2> QED
    BY <2>1, <2>2
<1> QED
  BY <1>2, <1>3

\* A character's turn keeps the types.
LEMMA DecodeCharType ==
    ASSUME NEW s \in Decoded, NEW v \in Nat
    PROVE  DecodeChar(s, v) \in Decoded
<1>1. s.state \in DecoderState /\ s.out \in Seq(Nat)
  BY DEF Decoded
<1>2. DecodeState(s.state, v) \in DecoderState /\ DecodeOut(s.state, v) \in Seq(Nat)
  BY <1>1, DecodeStateIs
<1> QED
  BY <1>1, <1>2 DEF DecodeChar, Decoded

-----------------------------------------------------------------------------
(* The coroutines: a block is worked off one byte, or character, at a time. *)

\* What the encoder does to a block is done byte by byte (base64_encode_block).
LEMMA EncodeRun ==
    ASSUME NEW e \in EncoderState, NEW block \in Seq(Nat)
    PROVE  \E done \in [0 .. Len(block) -> Encoded] :
              /\ done[0] = [state |-> e, out |-> <<>>]
              /\ \A n \in 1 .. Len(block) : done[n] = EncodeByte(done[n - 1], block[n])
              /\ base64_encode_block(e, block) = done[Len(block)]
<1> DEFINE M == Len(block)
           a == [state |-> e, out |-> <<>>]
           step == [n \in 1 .. M |-> [s \in Encoded |-> EncodeByte(s, block[n])]]
           Solves(f) == f = [n \in 0 .. M |-> IF n = 0 THEN a ELSE EncodeByte(f[n - 1], block[n])]
           done == CHOOSE f : Solves(f)
<1>1. M \in Nat /\ 0 \in 0 .. M /\ \A n \in 1 .. M : block[n] \in Nat
  BY LenProperties
<1>2. a \in Encoded
  BY DEF Encoded
<1>3. step \in [1 .. M -> [Encoded -> Encoded]]
  BY <1>1, EncodeByteType
<1>4. base64_encode_block(e, block) = done[M]
  BY DEF base64_encode_block
<1> HIDE DEF M, a
<1>5. PICK f : Iterates(f, M, Encoded, a, step)
  <2> HIDE DEF step
  <2> QED
    BY <1>1, <1>2, <1>3, RecursionExists
<1>6. f \in [0 .. M -> Encoded] /\ f[0] = a
  BY <1>5 DEF Iterates
<1>7. ASSUME NEW n \in 1 .. M
      PROVE  f[n] = EncodeByte(f[n - 1], block[n])
  <2>1. n - 1 \in 0 .. M /\ f[n - 1] \in Encoded
    BY <1>1, <1>6
  <2>2. f[n] = step[n][f[n - 1]]
    BY <1>5 DEF Iterates
  <2> QED
    BY <2>1, <2>2
<1>8. Solves(done)
  <2>1. \A n \in 0 .. M : f[n] = IF n = 0 THEN a ELSE EncodeByte(f[n - 1], block[n])
    BY <1>6, <1>7
  <2>2. Solves(f)
    BY <1>6, <2>1
  <2> HIDE DEF Solves
  <2> QED
    BY <2>2
<1>9. \A n \in 0 .. M : done[n] = IF n = 0 THEN a ELSE EncodeByte(done[n - 1], block[n])
  BY <1>8
<1>10. done = f
  <2>1. DOMAIN done = 0 .. M /\ done = [n \in 0 .. M |-> done[n]]
    BY <1>8
  <2> HIDE DEF Solves, done
  <2>2. \A n \in 1 .. M : done[n - 1] = f[n - 1] => done[n] = f[n]
    BY <1>1, <1>7, <1>9
  <2>3. done[0] = f[0]
    BY <1>1, <1>6, <1>9
  <2>4. Agree(done, f, M)
    BY <1>1, <2>2, <2>3, RecursionUnique
  <2> QED
    BY <1>6, <2>1, <2>4 DEF Agree
<1> QED
  BY <1>4, <1>6, <1>7, <1>10 DEF M, a

\* What the decoder does to a block is done character by character
\* (base64_decode_block).
LEMMA DecodeRun ==
    ASSUME NEW e \in DecoderState, NEW block \in Seq(Nat)
    PROVE  \E done \in [0 .. Len(block) -> Decoded] :
              /\ done[0] = [state |-> e, out |-> <<>>]
              /\ \A n \in 1 .. Len(block) : done[n] = DecodeChar(done[n - 1], block[n])
              /\ base64_decode_block(e, block) = done[Len(block)]
<1> DEFINE M == Len(block)
           a == [state |-> e, out |-> <<>>]
           step == [n \in 1 .. M |-> [s \in Decoded |-> DecodeChar(s, block[n])]]
           Solves(f) == f = [n \in 0 .. M |-> IF n = 0 THEN a ELSE DecodeChar(f[n - 1], block[n])]
           done == CHOOSE f : Solves(f)
<1>1. M \in Nat /\ 0 \in 0 .. M /\ \A n \in 1 .. M : block[n] \in Nat
  BY LenProperties
<1>2. a \in Decoded
  BY DEF Decoded
<1>3. step \in [1 .. M -> [Decoded -> Decoded]]
  BY <1>1, DecodeCharType
<1>4. base64_decode_block(e, block) = done[M]
  BY DEF base64_decode_block
<1> HIDE DEF M, a
<1>5. PICK f : Iterates(f, M, Decoded, a, step)
  <2> HIDE DEF step
  <2> QED
    BY <1>1, <1>2, <1>3, RecursionExists
<1>6. f \in [0 .. M -> Decoded] /\ f[0] = a
  BY <1>5 DEF Iterates
<1>7. ASSUME NEW n \in 1 .. M
      PROVE  f[n] = DecodeChar(f[n - 1], block[n])
  <2>1. n - 1 \in 0 .. M /\ f[n - 1] \in Decoded
    BY <1>1, <1>6
  <2>2. f[n] = step[n][f[n - 1]]
    BY <1>5 DEF Iterates
  <2> QED
    BY <2>1, <2>2
<1>8. Solves(done)
  <2>1. \A n \in 0 .. M : f[n] = IF n = 0 THEN a ELSE DecodeChar(f[n - 1], block[n])
    BY <1>6, <1>7
  <2>2. Solves(f)
    BY <1>6, <2>1
  <2> HIDE DEF Solves
  <2> QED
    BY <2>2
<1>9. \A n \in 0 .. M : done[n] = IF n = 0 THEN a ELSE DecodeChar(done[n - 1], block[n])
  BY <1>8
<1>10. done = f
  <2>1. DOMAIN done = 0 .. M /\ done = [n \in 0 .. M |-> done[n]]
    BY <1>8
  <2> HIDE DEF Solves, done
  <2>2. \A n \in 1 .. M : done[n - 1] = f[n - 1] => done[n] = f[n]
    BY <1>1, <1>7, <1>9
  <2>3. done[0] = f[0]
    BY <1>1, <1>6, <1>9
  <2>4. Agree(done, f, M)
    BY <1>1, <2>2, <2>3, RecursionUnique
  <2> QED
    BY <1>6, <2>1, <2>4 DEF Agree
<1> QED
  BY <1>4, <1>6, <1>7, <1>10 DEF M, a

\* What a coroutine has done, had o been put out before.
Behind(o, s) == [state |-> s.state, out |-> o \o s.out]

\* What was put out before does not matter to a byte.
LEMMA EncodeShift ==
    ASSUME NEW s \in Encoded, NEW o \in Seq(Nat), NEW b \in Nat
    PROVE  EncodeByte(Behind(o, s), b) = Behind(o, EncodeByte(s, b))
<1> DEFINE p == s.out
           x == EncodeOut(s.state, b)
           y == IF LineIsFull(s.state) THEN <<NewLine>> ELSE <<>>
<1>1. x \in Seq(Nat) /\ y \in Seq(Nat) /\ p \in Seq(Nat)
  BY EncodeOutType DEF Encoded
<1>3. x \in Seq(Nat) /\ p \in Seq(Nat)
  BY <1>1
<1> HIDE DEF p, x, y
<1>2. o \o p \o x \o y = o \o (p \o x \o y)
  <2>1. p \o x \in Seq(Nat) /\ o \o p \in Seq(Nat)
    BY <1>3, ConcatProperties
  <2>2. (o \o p) \o x = o \o (p \o x)
    BY <1>3, ConcatAssociative
  <2>3. (o \o (p \o x)) \o y = o \o ((p \o x) \o y)
    <3> DEFINE z == p \o x
    <3>1. z \in Seq(Nat) /\ y \in Seq(Nat)
      BY <1>1, <2>1
    <3> HIDE DEF z
    <3>2. (o \o z) \o y = o \o (z \o y)
      BY <3>1, ConcatAssociative
    <3> QED
      BY <3>2 DEF z
  <2> QED
    BY <2>2, <2>3
<1> QED
  BY <1>2 DEF EncodeByte, Behind, p, x, y

\* Encoding block after block encodes as if it were one (encoder::encode).
LEMMA EncodeConcat ==
    ASSUME NEW e \in EncoderState, NEW s \in Seq(Nat), NEW t \in Seq(Nat)
    PROVE  LET first  == base64_encode_block(e, s)
               second == base64_encode_block(first.state, t)
           IN  /\ first \in Encoded /\ second \in Encoded
               /\ base64_encode_block(e, s \o t)
                    = Behind(first.out, second)
<1> DEFINE first == base64_encode_block(e, s)
           second == base64_encode_block(first.state, t)
           whole == base64_encode_block(e, s \o t)
           K == Len(s)
           M == Len(t)
<1>1. PICK f \in [0 .. K -> Encoded] :
          /\ f[0] = [state |-> e, out |-> <<>>]
          /\ \A n \in 1 .. K : f[n] = EncodeByte(f[n - 1], s[n])
          /\ first = f[K]
  BY EncodeRun
<1>2. K \in Nat /\ M \in Nat /\ 0 \in 0 .. K /\ 0 \in 0 .. M /\ K \in 0 .. K /\ M \in 0 .. M
  BY LenProperties
<1>3. first \in Encoded /\ first.state \in EncoderState /\ first.out \in Seq(Nat)
  BY <1>1, <1>2 DEF Encoded
<1> HIDE DEF first
<1>4. PICK g \in [0 .. M -> Encoded] :
          /\ g[0] = [state |-> first.state, out |-> <<>>]
          /\ \A n \in 1 .. M : g[n] = EncodeByte(g[n - 1], t[n])
          /\ second = g[M]
  BY <1>3, EncodeRun
<1>5. /\ s \o t \in Seq(Nat) /\ Len(s \o t) = K + M
      /\ \A i \in 1 .. K : (s \o t)[i] = s[i]
      /\ \A i \in 1 .. M : (s \o t)[K + i] = t[i]
  <2>1. /\ s \o t \in Seq(Nat) /\ Len(s \o t) = K + M
        /\ \A i \in 1 .. K + M : (s \o t)[i] = IF i <= K THEN s[i] ELSE t[i - K]
    BY ConcatProperties
  <2> HIDE DEF K, M
  <2> QED
    BY <1>2, <2>1
<1> HIDE DEF second, K, M
<1>6. PICK h \in [0 .. K + M -> Encoded] :
          /\ h[0] = [state |-> e, out |-> <<>>]
          /\ \A n \in 1 .. K + M : h[n] = EncodeByte(h[n - 1], (s \o t)[n])
          /\ whole = h[K + M]
  BY <1>5, EncodeRun
<1> HIDE DEF whole
<1>7. h[K] = first
  <2>1. ASSUME NEW n \in 1 .. K, h[n - 1] = f[n - 1]
        PROVE  h[n] = f[n]
    <3>1. n \in 1 .. (K + M)
      BY <1>2
    <3> QED
      BY <1>1, <1>5, <1>6, <2>1, <3>1
  <2>2. Agree(h, f, K)
    BY <1>1, <1>2, <1>6, <2>1, RecursionUnique
  <2> QED
    BY <1>1, <1>2, <2>2 DEF Agree
<1> DEFINE u == [n \in 0 .. M |-> h[K + n]]
           w == [n \in 0 .. M |-> Behind(first.out, g[n])]
<1>8. u[0] = w[0]
  <2>1. u[0] = first
    BY <1>2, <1>7
  <2>2. w[0] = [state |-> first.state, out |-> first.out \o <<>>]
    <3>1. g[0].state = first.state /\ g[0].out = <<>>
      BY <1>4
    <3> QED
      BY <1>2, <3>1 DEF Behind
  <2>3. first.out \o <<>> = first.out
    BY <1>3, ConcatEmptySeq
  <2> QED
    BY <1>3, <2>1, <2>2, <2>3 DEF Encoded
<1>9. ASSUME NEW n \in 1 .. M, u[n - 1] = w[n - 1]
      PROVE  u[n] = w[n]
  <2>1. n - 1 \in 0 .. M /\ n \in 0 .. M /\ K + n \in 1 .. (K + M) /\ (K + n) - 1 = K + (n - 1)
    BY <1>2
  <2>2. u[n] = EncodeByte(w[n - 1], t[n])
    BY <1>5, <1>6, <1>9, <2>1
  <2>3. g[n - 1] \in Encoded
    BY <2>1
  <2>6. t[n] \in Nat
    BY DEF M
  <2>4. w[n - 1] = Behind(first.out, g[n - 1])
    BY <2>1
  <2>5. EncodeByte(w[n - 1], t[n]) = Behind(first.out, EncodeByte(g[n - 1], t[n]))
    BY <1>3, <2>3, <2>4, <2>6, EncodeShift
  <2> QED
    BY <1>4, <2>1, <2>2, <2>5
<1>10. Agree(u, w, M)
  <2> HIDE DEF u, w
  <2> QED
    BY <1>2, <1>8, <1>9, RecursionUnique
<1>11. u[M] = w[M]
  <2> HIDE DEF u, w
  <2> QED
    BY <1>2, <1>10 DEF Agree
<1>12. whole = Behind(first.out, second)
  BY <1>2, <1>4, <1>6, <1>11
<1>13. second \in Encoded
  BY <1>2, <1>4
<1> QED
  BY <1>3, <1>12, <1>13 DEF first, second, whole

\* What was put out before does not matter to a character.
LEMMA DecodeShift ==
    ASSUME NEW s \in Decoded, NEW o \in Seq(Nat), NEW b \in Nat
    PROVE  DecodeChar(Behind(o, s), b) = Behind(o, DecodeChar(s, b))
<1> DEFINE p == s.out
           x == DecodeOut(s.state, b)
<1>1. p \in Seq(Nat) /\ x \in Seq(Nat)
  BY DecodeStateIs DEF Decoded
<1> HIDE DEF p, x
<1>2. (o \o p) \o x = o \o (p \o x)
  BY <1>1, ConcatAssociative
<1> QED
  BY <1>2 DEF DecodeChar, Behind, p, x

\* Decoding block after block decodes as if it were one (decoder::decode).
LEMMA DecodeConcat ==
    ASSUME NEW e \in DecoderState, NEW s \in Seq(Nat), NEW t \in Seq(Nat)
    PROVE  LET first  == base64_decode_block(e, s)
               second == base64_decode_block(first.state, t)
           IN  /\ first \in Decoded /\ second \in Decoded
               /\ base64_decode_block(e, s \o t)
                    = Behind(first.out, second)
<1> DEFINE first == base64_decode_block(e, s)
           second == base64_decode_block(first.state, t)
           whole == base64_decode_block(e, s \o t)
           K == Len(s)
           M == Len(t)
<1>1. PICK f \in [0 .. K -> Decoded] :
          /\ f[0] = [state |-> e, out |-> <<>>]
          /\ \A n \in 1 .. K : f[n] = DecodeChar(f[n - 1], s[n])
          /\ first = f[K]
  BY DecodeRun
<1>2. K \in Nat /\ M \in Nat /\ 0 \in 0 .. K /\ 0 \in 0 .. M /\ K \in 0 .. K /\ M \in 0 .. M
  BY LenProperties
<1>3. first \in Decoded /\ first.state \in DecoderState /\ first.out \in Seq(Nat)
  BY <1>1, <1>2 DEF Decoded
<1> HIDE DEF first
<1>4. PICK g \in [0 .. M -> Decoded] :
          /\ g[0] = [state |-> first.state, out |-> <<>>]
          /\ \A n \in 1 .. M : g[n] = DecodeChar(g[n - 1], t[n])
          /\ second = g[M]
  BY <1>3, DecodeRun
<1>5. /\ s \o t \in Seq(Nat) /\ Len(s \o t) = K + M
      /\ \A i \in 1 .. K : (s \o t)[i] = s[i]
      /\ \A i \in 1 .. M : (s \o t)[K + i] = t[i]
  <2>1. /\ s \o t \in Seq(Nat) /\ Len(s \o t) = K + M
        /\ \A i \in 1 .. K + M : (s \o t)[i] = IF i <= K THEN s[i] ELSE t[i - K]
    BY ConcatProperties
  <2> HIDE DEF K, M
  <2> QED
    BY <1>2, <2>1
<1> HIDE DEF second, K, M
<1>6. PICK h \in [0 .. K + M -> Decoded] :
          /\ h[0] = [state |-> e, out |-> <<>>]
          /\ \A n \in 1 .. K + M : h[n] = DecodeChar(h[n - 1], (s \o t)[n])
          /\ whole = h[K + M]
  BY <1>5, DecodeRun
<1> HIDE DEF whole
<1>7. h[K] = first
  <2>1. ASSUME NEW n \in 1 .. K, h[n - 1] = f[n - 1]
        PROVE  h[n] = f[n]
    <3>1. n \in 1 .. (K + M)
      BY <1>2
    <3> QED
      BY <1>1, <1>5, <1>6, <2>1, <3>1
  <2>2. Agree(h, f, K)
    BY <1>1, <1>2, <1>6, <2>1, RecursionUnique
  <2> QED
    BY <1>1, <1>2, <2>2 DEF Agree
<1> DEFINE u == [n \in 0 .. M |-> h[K + n]]
           w == [n \in 0 .. M |-> Behind(first.out, g[n])]
<1>8. u[0] = w[0]
  <2>1. u[0] = first
    BY <1>2, <1>7
  <2>2. w[0] = [state |-> first.state, out |-> first.out \o <<>>]
    <3>1. g[0].state = first.state /\ g[0].out = <<>>
      BY <1>4
    <3> QED
      BY <1>2, <3>1 DEF Behind
  <2>3. first.out \o <<>> = first.out
    BY <1>3, ConcatEmptySeq
  <2> QED
    BY <1>3, <2>1, <2>2, <2>3 DEF Decoded
<1>9. ASSUME NEW n \in 1 .. M, u[n - 1] = w[n - 1]
      PROVE  u[n] = w[n]
  <2>1. n - 1 \in 0 .. M /\ n \in 0 .. M /\ K + n \in 1 .. (K + M) /\ (K + n) - 1 = K + (n - 1)
    BY <1>2
  <2>2. u[n] = DecodeChar(w[n - 1], t[n])
    BY <1>5, <1>6, <1>9, <2>1
  <2>3. g[n - 1] \in Decoded
    BY <2>1
  <2>6. t[n] \in Nat
    BY DEF M
  <2>4. w[n - 1] = Behind(first.out, g[n - 1])
    BY <2>1
  <2>5. DecodeChar(w[n - 1], t[n]) = Behind(first.out, DecodeChar(g[n - 1], t[n]))
    BY <1>3, <2>3, <2>4, <2>6, DecodeShift
  <2> QED
    BY <1>4, <2>1, <2>2, <2>5
<1>10. Agree(u, w, M)
  <2> HIDE DEF u, w
  <2> QED
    BY <1>2, <1>8, <1>9, RecursionUnique
<1>11. u[M] = w[M]
  <2> HIDE DEF u, w
  <2> QED
    BY <1>2, <1>10 DEF Agree
<1>12. whole = Behind(first.out, second)
  BY <1>2, <1>4, <1>6, <1>11
<1>13. second \in Decoded
  BY <1>2, <1>4
<1> QED
  BY <1>3, <1>12, <1>13 DEF first, second, whole

\* A block of nothing does nothing, and one more byte is one more turn.
LEMMA EncodeAppend ==
    ASSUME NEW e \in EncoderState, NEW s \in Seq(Nat), NEW b \in Nat
    PROVE  /\ base64_encode_block(e, <<>>) = [state |-> e, out |-> <<>>]
           /\ base64_encode_block(e, Append(s, b)) = EncodeByte(base64_encode_block(e, s), b)
<1> DEFINE first == base64_encode_block(e, s)
           z == [state |-> first.state, out |-> <<>>]
<1>1. base64_encode_block(e, <<>>) = [state |-> e, out |-> <<>>]
  <2>1. <<>> \in Seq(Nat)
    OBVIOUS
  <2>2. PICK done \in [0 .. Len(<<>>) -> Encoded] :
            /\ done[0] = [state |-> e, out |-> <<>>]
            /\ base64_encode_block(e, <<>>) = done[Len(<<>>)]
    BY <2>1, EncodeRun
  <2> QED
    BY <2>2
<1>2. Append(s, b) = s \o <<b>> /\ <<b>> \in Seq(Nat) /\ Len(<<b>>) = 1 /\ <<b>>[1] = b
  BY AppendIsConcat
<1>3. /\ first \in Encoded
      /\ base64_encode_block(e, s \o <<b>>)
           = Behind(first.out, base64_encode_block(first.state, <<b>>))
  BY <1>2, EncodeConcat
<1>4. first.state \in EncoderState /\ first.out \in Seq(Nat)
  BY <1>3 DEF Encoded
<1>5. first = Behind(first.out, z) /\ z \in Encoded
  <2>1. first.out \o <<>> = first.out
    BY <1>4, ConcatEmptySeq
  <2> QED
    BY <1>3, <1>4, <2>1 DEF Encoded, Behind
<1> HIDE DEF first
<1>6. base64_encode_block(first.state, <<b>>) = EncodeByte(z, b)
  <2>1. PICK done \in [0 .. 1 -> Encoded] :
            /\ done[0] = z
            /\ \A n \in 1 .. 1 : done[n] = EncodeByte(done[n - 1], <<b>>[n])
            /\ base64_encode_block(first.state, <<b>>) = done[1]
    BY <1>2, <1>4, EncodeRun
  <2> QED
    BY <1>2, <2>1
<1> HIDE DEF z
<1>7. EncodeByte(Behind(first.out, z), b) = Behind(first.out, EncodeByte(z, b))
  BY <1>4, <1>5, EncodeShift
<1> QED
  BY <1>1, <1>2, <1>3, <1>5, <1>6, <1>7 DEF first

\* A block of nothing does nothing, and one more character is one more turn.
LEMMA DecodeAppend ==
    ASSUME NEW e \in DecoderState, NEW s \in Seq(Nat), NEW b \in Nat
    PROVE  /\ base64_decode_block(e, <<>>) = [state |-> e, out |-> <<>>]
           /\ base64_decode_block(e, Append(s, b)) = DecodeChar(base64_decode_block(e, s), b)
<1> DEFINE first == base64_decode_block(e, s)
           z == [state |-> first.state, out |-> <<>>]
<1>1. base64_decode_block(e, <<>>) = [state |-> e, out |-> <<>>]
  <2>1. <<>> \in Seq(Nat)
    OBVIOUS
  <2>2. PICK done \in [0 .. Len(<<>>) -> Decoded] :
            /\ done[0] = [state |-> e, out |-> <<>>]
            /\ base64_decode_block(e, <<>>) = done[Len(<<>>)]
    BY <2>1, DecodeRun
  <2> QED
    BY <2>2
<1>2. Append(s, b) = s \o <<b>> /\ <<b>> \in Seq(Nat) /\ Len(<<b>>) = 1 /\ <<b>>[1] = b
  BY AppendIsConcat
<1>3. /\ first \in Decoded
      /\ base64_decode_block(e, s \o <<b>>)
           = Behind(first.out, base64_decode_block(first.state, <<b>>))
  BY <1>2, DecodeConcat
<1>4. first.state \in DecoderState /\ first.out \in Seq(Nat)
  BY <1>3 DEF Decoded
<1>5. first = Behind(first.out, z) /\ z \in Decoded
  <2>1. first.out \o <<>> = first.out
    BY <1>4, ConcatEmptySeq
  <2> QED
    BY <1>3, <1>4, <2>1 DEF Decoded, Behind
<1> HIDE DEF first
<1>6. base64_decode_block(first.state, <<b>>) = DecodeChar(z, b)
  <2>1. PICK done \in [0 .. 1 -> Decoded] :
            /\ done[0] = z
            /\ \A n \in 1 .. 1 : done[n] = DecodeChar(done[n - 1], <<b>>[n])
            /\ base64_decode_block(first.state, <<b>>) = done[1]
    BY <1>2, <1>4, DecodeRun
  <2> QED
    BY <1>2, <2>1
<1> HIDE DEF z
<1>7. DecodeChar(Behind(first.out, z), b) = Behind(first.out, DecodeChar(z, b))
  BY <1>4, <1>5, DecodeShift
<1> QED
  BY <1>1, <1>2, <1>3, <1>5, <1>6, <1>7 DEF first

-----------------------------------------------------------------------------
(* The decoder undoes what the encoder has done. *)

\* The decoder has come to d on the code of p, after which the encoder is in e:
\* it has put out all bytes but the last one, of which it has the high bits and
\* the encoder the low ones, unless the step is the first of four.
Carried(e, d, p) ==
    \/ e.step = "A" /\ d.state.step = "a" /\ p = d.out
    \/ \E b \in Byte :
          /\ e.step = "B" /\ d.state.step = "b" /\ p = Append(d.out, b)
          /\ d.state.plainchar = High(b, 4) * 4 /\ e.result = Low(b, 4) * 16
    \/ \E b \in Byte :
          /\ e.step = "C" /\ d.state.step = "c" /\ p = Append(d.out, b)
          /\ d.state.plainchar = High(b, 16) * 16 /\ e.result = Low(b, 16) * 4

\* The bits of a byte, split after the fourth, sixth or second one, and put
\* together with those of the byte before.
LEMMA BitsOfBytes ==
    ASSUME NEW b \in Byte, NEW c \in Byte
    PROVE  /\ High(b, 4) \in 0 .. 63 /\ High(b, 4) * 4 + Low(b, 4) = b
           /\ High(b, 16) * 16 + Low(b, 16) = b /\ High(b, 64) * 64 + Low(b, 64) = b
           /\ Low(b, 64) \in 0 .. 63
           /\ Low(c, 4) * 16 + High(b, 16) \in 0 .. 63
           /\ High(Low(c, 4) * 16 + High(b, 16), 16) = Low(c, 4)
           /\ Low(Low(c, 4) * 16 + High(b, 16), 16) = High(b, 16)
           /\ Low(c, 16) * 4 + High(b, 64) \in 0 .. 63
           /\ High(Low(c, 16) * 4 + High(b, 64), 4) = Low(c, 16)
           /\ Low(Low(c, 16) * 4 + High(b, 64), 4) = High(b, 64)
BY DEF High, Low, Byte

\* The padding and the line breaks change nothing.
LEMMA IgnoredChar ==
    ASSUME NEW s \in Decoded, NEW v, Ignored(v)
    PROVE  DecodeChar(s, v) = s
<1>1. DecodeOut(s.state, v) = <<>> /\ DecodeState(s.state, v) = s.state
  BY DEF DecodeOut, DecodeState
<1>2. s.out \in Seq(Nat) /\ s.out \o <<>> = s.out
  BY ConcatEmptySeq DEF Decoded
<1> QED
  BY <1>1, <1>2 DEF DecodeChar, Decoded

\* What a character of the code does in each of the four steps.
LEMMA CodeChar ==
    ASSUME NEW s \in Decoded, NEW v \in 0 .. 63
    PROVE  LET t == DecodeChar(s, v) IN
              /\ s.state.step = "a" =>
                    t.state.step = "b" /\ t.state.plainchar = v * 4 /\ t.out = s.out
              /\ s.state.step = "b" =>
                    /\ t.state.step = "c" /\ t.state.plainchar = Low(v, 16) * 16
                    /\ t.out = Append(s.out, s.state.plainchar + High(v, 16))
              /\ s.state.step = "c" =>
                    /\ t.state.step = "d" /\ t.state.plainchar = Low(v, 4) * 64
                    /\ t.out = Append(s.out, s.state.plainchar + High(v, 4))
              /\ s.state.step = "d" =>
                    /\ t.state.step = "a"
                    /\ t.out = Append(s.out, s.state.plainchar + v)
<1>1. ~Ignored(v)
  BY DEF Ignored, Pad, NewLine
<1>2. s.state \in DecoderState /\ s.out \in Seq(Nat) /\ s.out \o <<>> = s.out
  BY ConcatEmptySeq DEF Decoded
<1>3. \A x \in Nat : s.out \o <<x>> = Append(s.out, x)
  BY <1>2, AppendIsConcat
<1>4. v \in Nat /\ High(v, 16) \in Nat /\ High(v, 4) \in Nat /\ s.state.plainchar \in Nat
  <2>1. v \in Nat /\ s.state.plainchar \in Nat
    BY <1>2 DEF DecoderState
  <2> QED
    BY <2>1, BitsType
<1>5. CASE s.state.step = "a"
  BY <1>1, <1>2, <1>5 DEF DecodeChar, DecodeState, DecodeOut
<1>6. CASE s.state.step = "b"
  <2>1. DecodeOut(s.state, v) = <<s.state.plainchar + High(v, 16)>>
    BY <1>1, <1>6 DEF DecodeOut
  <2> QED
    BY <1>1, <1>3, <1>4, <1>6, <2>1 DEF DecodeChar, DecodeState
<1>7. CASE s.state.step = "c"
  <2>1. DecodeOut(s.state, v) = <<s.state.plainchar + High(v, 4)>>
    BY <1>1, <1>7 DEF DecodeOut
  <2> QED
    BY <1>1, <1>3, <1>4, <1>7, <2>1 DEF DecodeChar, DecodeState
<1>8. CASE s.state.step = "d"
  <2>1. DecodeOut(s.state, v) = <<s.state.plainchar + v>>
    BY <1>1, <1>8 DEF DecodeOut
  <2> QED
    BY <1>1, <1>3, <1>4, <1>8, <2>1 DEF DecodeChar, DecodeState
<1> QED
  BY <1>5, <1>6, <1>7, <1>8

\* One more byte: the decoder follows the encoder through its characters and the
\* line break after them, if there is one.
LEMMA CarriedByte ==
    ASSUME NEW s \in Encoded, NEW p \in Seq(Byte), NEW b \in Byte,
           Carried(s.state, base64_decode_block(base64_init_decodestate, s.out), p)
    PROVE  LET t == EncodeByte(s, b) IN
              Carried(t.state, base64_decode_block(base64_init_decodestate, t.out), Append(p, b))
<1> DEFINE e == s.state
           o == s.out
           Dec(code) == base64_decode_block(base64_init_decodestate, code)
           d == Dec(o)
           t == EncodeByte(s, b)
           nl == IF LineIsFull(e) THEN <<NewLine>> ELSE <<>>
<1>1. e \in EncoderState /\ o \in Seq(Nat) /\ b \in Nat
  BY DEF Encoded, Byte
<1>2. base64_init_decodestate \in DecoderState
  BY DEF base64_init_decodestate, DecoderState
<1>3. \A code \in Seq(Nat) : Dec(code) \in Decoded
  <2> SUFFICES ASSUME NEW code \in Seq(Nat) PROVE Dec(code) \in Decoded
    OBVIOUS
  <2>1. <<>> \in Seq(Nat)
    OBVIOUS
  <2> QED
    BY <1>2, <2>1, DecodeConcat
<1>4. \A code \in Seq(Nat), v \in Nat : Dec(Append(code, v)) = DecodeChar(Dec(code), v)
  BY <1>2, DecodeAppend
<1>5. t.state = EncodeState(e, b) /\ t.out = (o \o EncodeOut(e, b)) \o nl
  BY DEF EncodeByte
<1>6. Carried(e, d, p)
  OBVIOUS
<1> HIDE DEF Dec, d, t, nl
<1>7. d \in Decoded
  BY <1>1, <1>3 DEF d
<1>8. d.out \in Seq(Nat)
  BY <1>7 DEF Decoded
<1>9. CASE e.step = "A"
  <2>1. d.state.step = "a" /\ p = d.out
    BY <1>6, <1>9 DEF Carried
  <2> DEFINE v == High(b, 4)
  <2>2. v \in 0 .. 63
    BY BitsOfBytes
  <2>3. t.out = Append(o, v)
    <3>1. EncodeOut(e, b) = <<v>> /\ nl = <<>>
      BY <1>9 DEF EncodeOut, LineIsFull, nl
    <3> HIDE DEF v
    <3>2. o \o <<v>> = Append(o, v) /\ Append(o, v) \in Seq(Nat)
      BY <1>1, <2>2, AppendIsConcat, AppendProperties
    <3>3. Append(o, v) \o <<>> = Append(o, v)
      BY <3>2, ConcatEmptySeq
    <3> QED
      BY <1>5, <3>1, <3>2, <3>3
  <2> HIDE DEF v
  <2>4. Dec(t.out) = DecodeChar(d, v)
    BY <1>1, <1>4, <2>2, <2>3 DEF d
  <2>5. /\ Dec(t.out).state.step = "b" /\ Dec(t.out).state.plainchar = v * 4
        /\ Dec(t.out).out = p
    BY <1>7, <2>1, <2>2, <2>4, CodeChar
  <2>6. t.state.step = "B" /\ t.state.result = Low(b, 4) * 16
    BY <1>1, <1>5, <1>9, EncodeStateIs
  <2> QED
    BY <2>5, <2>6 DEF Carried, Dec, t, v
<1>10. CASE e.step = "B"
  <2>1. PICK c \in Byte :
            /\ d.state.step = "b" /\ p = Append(d.out, c)
            /\ d.state.plainchar = High(c, 4) * 4 /\ e.result = Low(c, 4) * 16
    BY <1>6, <1>10 DEF Carried
  <2> DEFINE v == Low(c, 4) * 16 + High(b, 16)
  <2>2. /\ v \in 0 .. 63 /\ High(v, 16) = Low(c, 4) /\ Low(v, 16) = High(b, 16)
        /\ High(c, 4) * 4 + Low(c, 4) = c
    BY BitsOfBytes
  <2>3. t.out = Append(o, v)
    <3>1. EncodeOut(e, b) = <<v>> /\ nl = <<>>
      BY <1>10, <2>1 DEF EncodeOut, LineIsFull, nl
    <3> HIDE DEF v
    <3>2. o \o <<v>> = Append(o, v) /\ Append(o, v) \in Seq(Nat)
      BY <1>1, <2>2, AppendIsConcat, AppendProperties
    <3>3. Append(o, v) \o <<>> = Append(o, v)
      BY <3>2, ConcatEmptySeq
    <3> QED
      BY <1>5, <3>1, <3>2, <3>3
  <2> HIDE DEF v
  <2>4. Dec(t.out) = DecodeChar(d, v)
    BY <1>1, <1>4, <2>2, <2>3 DEF d
  <2>7. d.state.plainchar + High(v, 16) = c
    BY <2>1, <2>2
  <2>5. /\ Dec(t.out).state.step = "c" /\ Dec(t.out).state.plainchar = High(b, 16) * 16
        /\ Dec(t.out).out = p
    <3>1. /\ DecodeChar(d, v).state.step = "c"
          /\ DecodeChar(d, v).state.plainchar = Low(v, 16) * 16
          /\ DecodeChar(d, v).out = Append(d.out, d.state.plainchar + High(v, 16))
      BY <1>7, <2>1, <2>2, CodeChar
    <3> QED
      BY <2>1, <2>2, <2>4, <2>7, <3>1
  <2>6. t.state.step = "C" /\ t.state.result = Low(b, 16) * 4
    <3>1. /\ EncodeState(e, b).step = "C"
          /\ EncodeState(e, b).result = Low(b, 16) * 4
      BY <1>1, <1>10, EncodeStateIs
    <3> QED
      BY <1>5, <3>1
  <2> QED
    BY <2>5, <2>6 DEF Carried, Dec, t
<1>11. CASE e.step = "C"
  <2>1. PICK c \in Byte :
            /\ d.state.step = "c" /\ p = Append(d.out, c)
            /\ d.state.plainchar = High(c, 16) * 16 /\ e.result = Low(c, 16) * 4
    BY <1>6, <1>11 DEF Carried
  <2> DEFINE v == Low(c, 16) * 4 + High(b, 64)
             w == Low(b, 64)
             two == Append(Append(o, v), w)
  <2>2. /\ v \in 0 .. 63 /\ High(v, 4) = Low(c, 16) /\ Low(v, 4) = High(b, 64)
        /\ w \in 0 .. 63 /\ High(c, 16) * 16 + Low(c, 16) = c
        /\ High(b, 64) * 64 + w = b
    BY BitsOfBytes
  <2>3. EncodeOut(e, b) = <<v, w>>
    BY <1>11, <2>1 DEF EncodeOut
  <2> HIDE DEF v, w
  <2>4. v \in Nat /\ w \in Nat
    BY <2>2
  <2>5. /\ Append(o, v) \in Seq(Nat) /\ two \in Seq(Nat)
        /\ o \o <<v, w>> = two
    BY <1>1, <2>4
  <2>6. Dec(two) = DecodeChar(DecodeChar(d, v), w)
    BY <1>1, <1>4, <2>4, <2>5 DEF d
  <2> HIDE DEF two
  <2>7. Dec(t.out) = Dec(two)
    <3>1. CASE LineIsFull(e)
      <4>2. NewLine \in Nat
        BY DEF NewLine
      <4>3. Append(two, NewLine) = two \o <<NewLine>>
        BY <2>5, <4>2, AppendIsConcat
      <4>1. t.out = Append(two, NewLine) /\ NewLine \in Nat
        BY <1>5, <2>3, <2>5, <3>1, <4>2, <4>3 DEF nl
      <4> QED
        BY <1>3, <1>4, <2>5, <4>1, IgnoredChar DEF Ignored
    <3>2. CASE ~LineIsFull(e)
      <4>1. t.out = two \o <<>>
        BY <1>5, <2>3, <2>5, <3>2 DEF nl
      <4> QED
        BY <2>5, <4>1, ConcatEmptySeq
    <3> QED
      BY <3>1, <3>2
  <2>8. /\ DecodeChar(d, v) \in Decoded
        /\ DecodeChar(d, v).state.step = "d"
        /\ DecodeChar(d, v).state.plainchar = High(b, 64) * 64
        /\ DecodeChar(d, v).out = p
    <3>1. DecodeChar(d, v) \in Decoded
      BY <1>7, <2>4, DecodeCharType
    <3>2. /\ DecodeChar(d, v).state.step = "d"
          /\ DecodeChar(d, v).state.plainchar = Low(v, 4) * 64
          /\ DecodeChar(d, v).out = Append(d.out, d.state.plainchar + High(v, 4))
      BY <1>7, <2>1, <2>2, CodeChar
    <3>3. d.state.plainchar + High(v, 4) = c
      BY <2>1, <2>2
    <3> QED
      BY <2>1, <2>2, <3>1, <3>2, <3>3
  <2>9. Dec(t.out).state.step = "a" /\ Dec(t.out).out = Append(p, b)
    <3> DEFINE m == DecodeChar(d, v)
    <3>1. m \in Decoded /\ m.state.step = "d" /\ m.out = p /\ m.state.plainchar + w = b
      BY <2>2, <2>8
    <3> HIDE DEF m
    <3>2. /\ DecodeChar(m, w).state.step = "a"
          /\ DecodeChar(m, w).out = Append(m.out, m.state.plainchar + w)
      BY <2>2, <3>1, CodeChar
    <3> QED
      BY <2>6, <2>7, <3>1, <3>2 DEF m
  <2>10. t.state.step = "A"
    BY <1>1, <1>5, <1>11, EncodeStateIs
  <2> QED
    BY <2>9, <2>10 DEF Carried, Dec, t
<1> QED
  BY <1>1, <1>9, <1>10, <1>11 DEF EncoderState

\* The decoder follows the encoder through every file.
LEMMA AlwaysCarried ==
    ASSUME NEW p \in Seq(Byte)
    PROVE  LET s == base64_encode_block(base64_init_encodestate, p) IN
              /\ s \in Encoded
              /\ Carried(s.state, base64_decode_block(base64_init_decodestate, s.out), p)
<1> DEFINE Enc(f) == base64_encode_block(base64_init_encodestate, f)
           Dec(code) == base64_decode_block(base64_init_decodestate, code)
           Good(f) == Enc(f) \in Encoded /\ Carried(Enc(f).state, Dec(Enc(f).out), f)
           S == {n \in Nat : \A f \in Seq(Byte) : Len(f) = n => Good(f)}
<1>1. base64_init_encodestate \in EncoderState /\ base64_init_decodestate \in DecoderState
  BY DEF base64_init_encodestate, base64_init_decodestate, EncoderState, DecoderState
<1>2. Good(<<>>)
  <2>1. <<>> \in Seq(Nat) /\ 0 \in Nat
    OBVIOUS
  <2>2. Enc(<<>>) = [state |-> base64_init_encodestate, out |-> <<>>]
    BY <1>1, <2>1, EncodeAppend
  <2>3. Dec(<<>>) = [state |-> base64_init_decodestate, out |-> <<>>]
    BY <1>1, <2>1, DecodeAppend
  <2>4. Enc(<<>>).state.step = "A" /\ Enc(<<>>).out = <<>> /\ Enc(<<>>) \in Encoded
    <3> HIDE DEF Enc
    <3>1. <<>> \in Seq(Nat)
      OBVIOUS
    <3>2. [state |-> base64_init_encodestate, out |-> <<>>] \in Encoded
      BY <1>1, <3>1 DEF Encoded
    <3>3. base64_init_encodestate.step = "A"
      BY DEF base64_init_encodestate
    <3> QED
      BY <2>2, <3>2, <3>3
  <2>5. Dec(<<>>).state.step = "a" /\ Dec(<<>>).out = <<>>
    BY <2>3 DEF base64_init_decodestate
  <2> HIDE DEF Enc, Dec
  <2> QED
    BY <2>4, <2>5 DEF Carried
<1>3. 0 \in S
  <2>1. \A f \in Seq(Byte) : Len(f) = 0 => f = <<>>
    BY EmptySeq
  <2> HIDE DEF Good
  <2> QED
    BY <1>2, <2>1
<1>4. ASSUME NEW f \in Seq(Byte), NEW b \in Byte, Good(f)
      PROVE  Good(Append(f, b))
  <2>1. f \in Seq(Nat) /\ b \in Nat
    <3>1. Byte \subseteq Nat
      BY DEF Byte
    <3> QED
      BY <3>1, SeqMonotonic
  <2>2. Enc(Append(f, b)) = EncodeByte(Enc(f), b)
    BY <1>1, <2>1, EncodeAppend
  <2> DEFINE e == Enc(f)
  <2>3. e \in Encoded /\ Carried(e.state, base64_decode_block(base64_init_decodestate, e.out), f)
    BY <1>4
  <2> HIDE DEF e
  <2>4. /\ EncodeByte(e, b) \in Encoded
        /\ Carried(EncodeByte(e, b).state,
                   base64_decode_block(base64_init_decodestate, EncodeByte(e, b).out), Append(f, b))
    BY <2>1, <2>3, CarriedByte, EncodeByteType
  <2> QED
    BY <2>2, <2>4 DEF e
<1>5. ASSUME NEW n \in Nat, n \in S
      PROVE  n + 1 \in S
  <2> SUFFICES ASSUME NEW f \in Seq(Byte), Len(f) = n + 1
               PROVE  Good(f)
    OBVIOUS
  <2> HIDE DEF Good
  <2>1. f # <<>>
    BY EmptySeq
  <2>2. PICK g \in Seq(Byte), b \in Byte : f = Append(g, b)
    BY <2>1, SequenceEmptyOrAppend
  <2>3. Len(g) = n
    BY <2>2, AppendProperties, LenProperties
  <2> QED
    BY <1>4, <1>5, <2>2, <2>3
<1> HIDE DEF S, Good
<1>6. \A n \in Nat : n \in S
  BY <1>3, <1>5, Induction
<1>7. Len(p) \in Nat
  BY LenProperties
<1>8. Good(p)
  BY <1>6, <1>7 DEF S
<1> QED
  BY <1>8 DEF Good

\* The code of a file, up to its last line break.
Code(f) ==
    LET s == base64_encode_block(base64_init_encodestate, f)
    IN  s.out \o base64_encode_blockend(s.state)

\* Decoding the code of a file gives the file, whatever it holds and however long
\* it is (base64_encode_blockend).
THEOREM RoundTrip ==
    ASSUME NEW f \in Seq(Byte)
    PROVE  /\ Code(f) \in Seq(Nat)
           /\ base64_decode_block(base64_init_decodestate, Code(f)).out = f
<1> DEFINE s == base64_encode_block(base64_init_encodestate, f)
           Dec(code) == base64_decode_block(base64_init_decodestate, code)
           d == Dec(s.out)
           o == s.out
<1>1. s \in Encoded /\ Carried(s.state, d, f)
  BY AlwaysCarried
<1>2. base64_init_decodestate \in DecoderState
  BY DEF base64_init_decodestate, DecoderState
<1>3. \A code \in Seq(Nat), v \in Nat : Dec(Append(code, v)) = DecodeChar(Dec(code), v)
  BY <1>2, DecodeAppend
<1>4. \A code \in Seq(Nat) : Dec(code) \in Decoded
  <2> SUFFICES ASSUME NEW code \in Seq(Nat) PROVE Dec(code) \in Decoded
    OBVIOUS
  <2>1. <<>> \in Seq(Nat)
    OBVIOUS
  <2> QED
    BY <1>2, <2>1, DecodeConcat
<1>5. Code(f) = o \o base64_encode_blockend(s.state)
  BY DEF Code
<1> HIDE DEF s
<1>6. o \in Seq(Nat) /\ s.state \in EncoderState
  BY <1>1 DEF Encoded
<1> HIDE DEF Dec, o
<1>7. d \in Decoded
  BY <1>4, <1>6 DEF o
<1>8. d = Dec(o)
  BY DEF o
<1> HIDE DEF d
\* A character that is ignored changes nothing of the decoder.
<1>9. ASSUME NEW code \in Seq(Nat), NEW v \in {Pad, NewLine}
      PROVE  Append(code, v) \in Seq(Nat) /\ Dec(Append(code, v)) = Dec(code)
  <2>1. v \in Nat /\ Ignored(v)
    BY DEF Pad, NewLine, Ignored
  <2> QED
    BY <1>3, <1>4, <2>1, IgnoredChar, AppendProperties
<1>10. CASE s.state.step = "A"
  <2>1. base64_encode_blockend(s.state) = <<NewLine>>
    BY <1>10 DEF base64_encode_blockend
  <2>2. NewLine \in Nat
    BY DEF NewLine
  <2>3. Code(f) = Append(o, NewLine)
    BY <1>5, <1>6, <2>1, <2>2, AppendIsConcat
  <2>4. f = d.out
    BY <1>1, <1>10 DEF Carried
  <2> QED
    BY <1>6, <1>8, <1>9, <2>3, <2>4 DEF Dec
<1>12. CASE s.state.step = "B"
  <2> DEFINE r == s.state.result
  <2>1. PICK c \in Byte :
            /\ d.state.step = "b" /\ f = Append(d.out, c)
            /\ d.state.plainchar = High(c, 4) * 4 /\ r = Low(c, 4) * 16
    BY <1>1, <1>12 DEF Carried
  <2>2. r \in 0 .. 63 /\ d.state.plainchar + High(r, 16) = c
    BY <2>1 DEF Byte, High, Low
  <2>3. base64_encode_blockend(s.state) = <<r, Pad, Pad, NewLine>>
    BY <1>12 DEF base64_encode_blockend
  <2> HIDE DEF r
  <2>4. DecodeChar(d, r).out = f
    <3>1. DecodeChar(d, r).out = Append(d.out, d.state.plainchar + High(r, 16))
      BY <1>7, <2>1, <2>2, CodeChar
    <3> QED
      BY <2>1, <2>2, <3>1
  <2>5. r \in Nat /\ Pad \in Nat /\ NewLine \in Nat
    BY <2>2 DEF Pad, NewLine
  <2>6. Code(f) = Append(Append(Append(Append(o, r), Pad), Pad), NewLine)
    BY <1>5, <1>6, <2>3, <2>5
  <2>7. Append(o, r) \in Seq(Nat) /\ Dec(Append(o, r)).out = f
    BY <1>3, <1>6, <1>8, <2>4, <2>5, AppendProperties
  <2> DEFINE code1 == Append(o, r)
             code2 == Append(code1, Pad)
             code3 == Append(code2, Pad)
             code4 == Append(code3, NewLine)
  <2>8. code1 \in Seq(Nat) /\ Dec(code1).out = f
    BY <2>7
  <2> HIDE DEF code1
  <2>9. code2 \in Seq(Nat) /\ Dec(code2).out = f
    BY <1>9, <2>8
  <2> HIDE DEF code2
  <2>10. code3 \in Seq(Nat) /\ Dec(code3).out = f
    BY <1>9, <2>9
  <2> HIDE DEF code3
  <2>11. code4 \in Seq(Nat) /\ Dec(code4).out = f
    BY <1>9, <2>10
  <2> QED
    BY <2>6, <2>11 DEF Dec, code1, code2, code3
<1>13. CASE s.state.step = "C"
  <2> DEFINE r == s.state.result
  <2>1. PICK c \in Byte :
            /\ d.state.step = "c" /\ f = Append(d.out, c)
            /\ d.state.plainchar = High(c, 16) * 16 /\ r = Low(c, 16) * 4
    BY <1>1, <1>13 DEF Carried
  <2>2. r \in 0 .. 63 /\ d.state.plainchar + High(r, 4) = c
    BY <2>1 DEF Byte, High, Low
  <2>3. base64_encode_blockend(s.state) = <<r, Pad, NewLine>>
    BY <1>13 DEF base64_encode_blockend
  <2> HIDE DEF r
  <2>4. DecodeChar(d, r).out = f
    <3>1. DecodeChar(d, r).out = Append(d.out, d.state.plainchar + High(r, 4))
      BY <1>7, <2>1, <2>2, CodeChar
    <3> QED
      BY <2>1, <2>2, <3>1
  <2>5. r \in Nat /\ Pad \in Nat /\ NewLine \in Nat
    BY <2>2 DEF Pad, NewLine
  <2>6. Code(f) = Append(Append(Append(o, r), Pad), NewLine)
    BY <1>5, <1>6, <2>3, <2>5
  <2> DEFINE code1 == Append(o, r)
             code2 == Append(code1, Pad)
             code3 == Append(code2, NewLine)
  <2>7. code1 \in Seq(Nat) /\ Dec(code1).out = f
    BY <1>3, <1>6, <1>8, <2>4, <2>5, AppendProperties
  <2> HIDE DEF code1
  <2>8. code2 \in Seq(Nat) /\ Dec(code2).out = f
    BY <1>9, <2>7
  <2> HIDE DEF code2
  <2>9. code3 \in Seq(Nat) /\ Dec(code3).out = f
    BY <1>9, <2>8
  <2> QED
    BY <2>6, <2>9 DEF Dec, code1, code2
<1> QED
  BY <1>6, <1>10, <1>12, <1>13 DEF EncoderState

\* A sequence is a prefix of what prolongs it.
LEMMA PrefixOfConcat ==
    ASSUME NEW s \in Seq(Nat), NEW t \in Seq(Nat)
    PROVE  IsPrefix(s, s \o t)
<1>1. /\ s \o t \in Seq(Nat) /\ Len(s \o t) = Len(s) + Len(t)
      /\ \A i \in 1 .. Len(s) + Len(t) : (s \o t)[i] = IF i <= Len(s) THEN s[i] ELSE t[i - Len(s)]
  BY ConcatProperties
<1>2. Len(s) \in Nat /\ Len(t) \in Nat
  BY LenProperties
<1> DEFINE u == s \o t
<1> HIDE DEF u
<1>3. u \in Seq(Nat) /\ Len(s) <= Len(u) /\ \A i \in 1 .. Len(s) : u[i] = s[i]
  BY <1>1, <1>2 DEF u
<1>4. SubSeq(s, 1, Len(s)) = s
  BY SubSeqFull
<1>5. SubSeq(u, 1, Len(s)) = s
  BY <1>2, <1>3
<1> QED
  BY <1>3, <1>4, <1>5 DEF IsPrefix, u

-----------------------------------------------------------------------------
(* How much the codec makes of a block. *)

\* What the encoder has put out less than its share, in thirds of a character.
EncodeDue(e) == CASE e.step = "A" -> 0 [] e.step = "B" -> 2 [] e.step = "C" -> 4

\* Three bytes make four characters and a line break at most.
LEMMA EncodeByteBound ==
    ASSUME NEW s \in Encoded, NEW b \in Nat
    PROVE  LET t == EncodeByte(s, b) IN
              /\ EncodeDue(s.state) \in 0 .. 4 /\ EncodeDue(t.state) \in 0 .. 4
              /\ 3 * Len(t.out) + EncodeDue(t.state) <= 3 * Len(s.out) + EncodeDue(s.state) + 5
<1> DEFINE e == s.state
           f == EncodeState(e, b)
           x == EncodeOut(e, b)
           y == IF LineIsFull(e) THEN <<NewLine>> ELSE <<>>
           t == EncodeByte(s, b)
<1>1. e \in EncoderState /\ s.out \in Seq(Nat)
  BY DEF Encoded
<1>2. x \in Seq(Nat) /\ y \in Seq(Nat)
  BY <1>1, EncodeOutType
<1>3. t.state = f /\ t.out = (s.out \o x) \o y
  BY DEF EncodeByte
<1>4. \/ e.step = "A" /\ f.step = "B" /\ Len(x) = 1 /\ Len(y) = 0
      \/ e.step = "B" /\ f.step = "C" /\ Len(x) = 1 /\ Len(y) = 0
      \/ e.step = "C" /\ f.step = "A" /\ Len(x) = 2 /\ Len(y) \in {0, 1}
  <2>1. CASE e.step = "A"
    <3>1. f.step = "B"
      BY <1>1, <2>1, EncodeStateIs
    <3>2. Len(x) = 1 /\ Len(y) = 0
      BY <2>1 DEF EncodeOut, LineIsFull
    <3> QED
      BY <2>1, <3>1, <3>2
  <2>2. CASE e.step = "B"
    <3>1. f.step = "C"
      BY <1>1, <2>2, EncodeStateIs
    <3>2. Len(x) = 1 /\ Len(y) = 0
      BY <2>2 DEF EncodeOut, LineIsFull
    <3> QED
      BY <2>2, <3>1, <3>2
  <2>3. CASE e.step = "C"
    <3>1. f.step = "A"
      BY <1>1, <2>3, EncodeStateIs
    <3>2. Len(x) = 2
      BY <2>3 DEF EncodeOut
    <3>3. Len(y) \in {0, 1}
      OBVIOUS
    <3> QED
      BY <2>3, <3>1, <3>2, <3>3
  <2> QED
    BY <1>1, <2>1, <2>2, <2>3 DEF EncoderState
<1> HIDE DEF e, f, x, y, t
<1>5. Len(s.out) \in Nat /\ Len(t.out) = Len(s.out) + Len(x) + Len(y)
  BY <1>1, <1>2, <1>3, ConcatProperties, LenProperties
<1>6. EncodeDue(e) \in 0 .. 4 /\ EncodeDue(f) \in 0 .. 4
  BY <1>4 DEF EncodeDue
<1>7. \/ EncodeDue(e) = 0 /\ EncodeDue(f) = 2 /\ Len(x) = 1 /\ Len(y) = 0
      \/ EncodeDue(e) = 2 /\ EncodeDue(f) = 4 /\ Len(x) = 1 /\ Len(y) = 0
      \/ EncodeDue(e) = 4 /\ EncodeDue(f) = 0 /\ Len(x) = 2 /\ (Len(y) = 0 \/ Len(y) = 1)
  BY <1>4 DEF EncodeDue
<1>9. 3 * Len(t.out) + EncodeDue(f) <= 3 * Len(s.out) + EncodeDue(e) + 5
  <2> DEFINE k == Len(s.out)
             m == Len(t.out)
             i == Len(x)
             j == Len(y)
             p == EncodeDue(e)
             q == EncodeDue(f)
  <2>1. k \in Int /\ m = k + i + j
    BY <1>5
  <2>2. \/ p = 0 /\ q = 2 /\ i = 1 /\ j = 0
        \/ p = 2 /\ q = 4 /\ i = 1 /\ j = 0
        \/ p = 4 /\ q = 0 /\ i = 2 /\ (j = 0 \/ j = 1)
    BY <1>7
  <2> HIDE DEF k, m, i, j, p, q
  <2>3. 3 * m + q <= 3 * k + p + 5
    BY <2>1, <2>2
  <2> QED
    BY <2>3 DEF k, m, p, q
<1> QED
  BY <1>3, <1>6, <1>9 DEF e, t

\* A block that begins with the third byte of a group makes up to 4/3 characters
\* more.
LEMMA EncodeBound ==
    ASSUME NEW e \in EncoderState, NEW block \in Seq(Nat)
    PROVE  3 * Len(base64_encode_block(e, block).out) <= 5 * Len(block) + 4
<1> DEFINE M == Len(block)
<1>1. PICK done \in [0 .. M -> Encoded] :
          /\ done[0] = [state |-> e, out |-> <<>>]
          /\ \A n \in 1 .. M : done[n] = EncodeByte(done[n - 1], block[n])
          /\ base64_encode_block(e, block) = done[M]
  BY EncodeRun
<1> DEFINE cost == [n \in 0 .. M |-> 3 * Len(done[n].out) + EncodeDue(done[n].state)]
           S == {n \in Nat : n <= M => cost[n] <= 5 * n + 4}
<1>2. M \in Nat /\ \A n \in 1 .. M : block[n] \in Nat
  BY LenProperties
<1> HIDE DEF M
<1>3. 0 \in S
  <2>1. 0 \in 0 .. M /\ done[0].state = e /\ Len(done[0].out) = 0
    BY <1>1, <1>2
  <2>2. EncodeDue(e) <= 4
    BY DEF EncodeDue, EncoderState
  <2>4. EncodeDue(e) \in Nat
    BY DEF EncodeDue, EncoderState
  <2>3. cost[0] = EncodeDue(e)
    <3> HIDE DEF S
    <3> QED
    BY <2>1, <2>4
  <2> HIDE DEF cost
  <2> QED
    BY <2>2, <2>3
<1>4. ASSUME NEW n \in Nat, n \in S
      PROVE  n + 1 \in S
  <2> SUFFICES ASSUME n + 1 <= M
               PROVE  cost[n + 1] <= 5 * (n + 1) + 4
    OBVIOUS
  <2>1. n + 1 \in 1 .. M /\ (n + 1) - 1 = n /\ n \in 0 .. M /\ n + 1 \in 0 .. M
    BY <1>2
  <2>2. done[n] \in Encoded /\ block[n + 1] \in Nat /\ done[n + 1] = EncodeByte(done[n], block[n + 1])
    BY <1>1, <1>2, <2>1
  <2>3. cost[n] <= 5 * n + 4
    BY <1>4, <2>1
  <2>4. /\ EncodeDue(done[n].state) \in 0 .. 4 /\ EncodeDue(done[n + 1].state) \in 0 .. 4
        /\ 3 * Len(done[n + 1].out) + EncodeDue(done[n + 1].state)
             <= 3 * Len(done[n].out) + EncodeDue(done[n].state) + 5
    BY <2>2, EncodeByteBound
  <2>5. cost[n + 1] <= cost[n] + 5
    BY <2>1, <2>4
  <2>6. cost[n] \in Nat /\ cost[n + 1] \in Nat
    <3>1. done[n].out \in Seq(Nat) /\ done[n + 1].out \in Seq(Nat)
      BY <2>1 DEF Encoded
    <3>2. Len(done[n].out) \in Nat /\ Len(done[n + 1].out) \in Nat
      BY <3>1, LenProperties
    <3>3. EncodeDue(done[n].state) \in Nat /\ EncodeDue(done[n + 1].state) \in Nat
      BY <2>4
    <3>4. /\ cost[n] = 3 * Len(done[n].out) + EncodeDue(done[n].state)
          /\ cost[n + 1] = 3 * Len(done[n + 1].out) + EncodeDue(done[n + 1].state)
      BY <2>1
    <3>5. \A i, j \in Nat : 3 * i + j \in Nat
      OBVIOUS
    <3> HIDE DEF cost
    <3>6. /\ 3 * Len(done[n].out) + EncodeDue(done[n].state) \in Nat
          /\ 3 * Len(done[n + 1].out) + EncodeDue(done[n + 1].state) \in Nat
      BY <3>2, <3>3, <3>5
    <3> QED
      BY <3>4, <3>6
  <2> HIDE DEF cost
  <2> QED
    BY <2>3, <2>5, <2>6
<1>5. \A n \in Nat : n \in S
  <2> HIDE DEF S
  <2> QED
    BY <1>3, <1>4, Induction
<1>6. M \in 0 .. M /\ cost[M] <= 5 * M + 4
  <2> HIDE DEF cost
  <2> QED
    BY <1>2, <1>5
<1>7. done[M].out \in Seq(Nat) /\ done[M].state \in EncoderState
  BY <1>1, <1>6 DEF Encoded
<1>8. Len(done[M].out) \in Nat /\ EncodeDue(done[M].state) \in Nat
  <2>1. EncodeDue(done[M].state) \in Nat
    BY <1>7 DEF EncodeDue, EncoderState
  <2> QED
    BY <1>7, <2>1, LenProperties
<1>9. 3 * Len(done[M].out) <= 5 * M + 4
  BY <1>2, <1>6, <1>8
<1> QED
  BY <1>1, <1>9 DEF M

\* What the decoder has put out less than its share, in quarters of a byte.
DecodeDue(d) ==
    CASE d.step = "a" -> 0 [] d.step = "b" -> 3 [] d.step = "c" -> 2 [] d.step = "d" -> 1

\* Four characters make three bytes at most.
LEMMA DecodeCharBound ==
    ASSUME NEW s \in Decoded, NEW v \in Nat
    PROVE  LET t == DecodeChar(s, v) IN
              /\ DecodeDue(s.state) \in 0 .. 3 /\ DecodeDue(t.state) \in 0 .. 3
              /\ 4 * Len(t.out) + DecodeDue(t.state) <= 4 * Len(s.out) + DecodeDue(s.state) + 3
<1> DEFINE e == s.state
           f == DecodeState(e, v)
           x == DecodeOut(e, v)
           t == DecodeChar(s, v)
<1>1. e \in DecoderState /\ s.out \in Seq(Nat)
  BY DEF Decoded
<1>2. x \in Seq(Nat)
  BY <1>1, DecodeStateIs
<1>3. t.state = f /\ t.out = s.out \o x
  BY DEF DecodeChar
<1>4. \/ f = e /\ Len(x) = 0
      \/ e.step = "a" /\ f.step = "b" /\ Len(x) = 0
      \/ e.step = "b" /\ f.step = "c" /\ Len(x) = 1
      \/ e.step = "c" /\ f.step = "d" /\ Len(x) = 1
      \/ e.step = "d" /\ f.step = "a" /\ Len(x) = 1
  <2>1. CASE Ignored(v)
    BY <2>1 DEF DecodeOut, DecodeState
  <2>2. CASE ~Ignored(v)
    BY <1>1, <2>2 DEF DecodeOut, DecodeState, DecoderState
  <2> QED
    BY <2>1, <2>2
<1>5. e.step \in {"a", "b", "c", "d"}
  BY <1>1 DEF DecoderState
<1> HIDE DEF e, f, x, t
<1>6. Len(s.out) \in Nat /\ Len(t.out) = Len(s.out) + Len(x) /\ Len(x) \in Nat
  BY <1>1, <1>2, <1>3, ConcatProperties, LenProperties
<1>7. DecodeDue(e) \in 0 .. 3 /\ DecodeDue(f) \in 0 .. 3
  BY <1>4, <1>5 DEF DecodeDue
<1>8. \/ DecodeDue(f) = DecodeDue(e) /\ Len(x) = 0
      \/ DecodeDue(e) = 0 /\ DecodeDue(f) = 3 /\ Len(x) = 0
      \/ DecodeDue(e) = 3 /\ DecodeDue(f) = 2 /\ Len(x) = 1
      \/ DecodeDue(e) = 2 /\ DecodeDue(f) = 1 /\ Len(x) = 1
      \/ DecodeDue(e) = 1 /\ DecodeDue(f) = 0 /\ Len(x) = 1
  BY <1>4 DEF DecodeDue
<1>10. DecodeDue(e) \in Int /\ DecodeDue(f) \in Int
  BY <1>7
<1>9. 4 * Len(t.out) + DecodeDue(f) <= 4 * Len(s.out) + DecodeDue(e) + 3
  <2> DEFINE k == Len(s.out)
             m == Len(t.out)
             i == Len(x)
             p == DecodeDue(e)
             q == DecodeDue(f)
  <2>1. k \in Int /\ m = k + i /\ p \in Int /\ q \in Int
    BY <1>6, <1>10
  <2>2. \/ q = p /\ i = 0
        \/ p = 0 /\ q = 3 /\ i = 0
        \/ p = 3 /\ q = 2 /\ i = 1
        \/ p = 2 /\ q = 1 /\ i = 1
        \/ p = 1 /\ q = 0 /\ i = 1
    BY <1>8
  <2> HIDE DEF k, m, i, p, q
  <2>3. 4 * m + q <= 4 * k + p + 3
    BY <2>1, <2>2
  <2> QED
    BY <2>3 DEF k, m, p, q
<1> QED
  BY <1>3, <1>7, <1>9 DEF e, t

\* A block that begins within a group makes up to 3/4 bytes more.
LEMMA DecodeBound ==
    ASSUME NEW d \in DecoderState, NEW block \in Seq(Nat)
    PROVE  4 * Len(base64_decode_block(d, block).out) <= 3 * Len(block) + 3
<1> DEFINE M == Len(block)
<1>1. PICK done \in [0 .. M -> Decoded] :
          /\ done[0] = [state |-> d, out |-> <<>>]
          /\ \A n \in 1 .. M : done[n] = DecodeChar(done[n - 1], block[n])
          /\ base64_decode_block(d, block) = done[M]
  BY DecodeRun
<1> DEFINE cost == [n \in 0 .. M |-> 4 * Len(done[n].out) + DecodeDue(done[n].state)]
           S == {n \in Nat : n <= M => cost[n] <= 3 * n + 3}
<1>2. M \in Nat /\ \A n \in 1 .. M : block[n] \in Nat
  BY LenProperties
<1> HIDE DEF M
<1>3. 0 \in S
  <2>1. 0 \in 0 .. M /\ done[0].state = d /\ Len(done[0].out) = 0
    BY <1>1, <1>2
  <2>2. DecodeDue(d) <= 3
    BY DEF DecodeDue, DecoderState
  <2>4. DecodeDue(d) \in Nat
    BY DEF DecodeDue, DecoderState
  <2>3. cost[0] = DecodeDue(d)
    <3> HIDE DEF S
    <3> QED
    BY <2>1, <2>4
  <2> HIDE DEF cost
  <2> QED
    BY <2>2, <2>3
<1>4. ASSUME NEW n \in Nat, n \in S
      PROVE  n + 1 \in S
  <2> SUFFICES ASSUME n + 1 <= M
               PROVE  cost[n + 1] <= 3 * (n + 1) + 3
    OBVIOUS
  <2>1. n + 1 \in 1 .. M /\ (n + 1) - 1 = n /\ n \in 0 .. M /\ n + 1 \in 0 .. M
    BY <1>2
  <2>2. done[n] \in Decoded /\ block[n + 1] \in Nat /\ done[n + 1] = DecodeChar(done[n], block[n + 1])
    BY <1>1, <1>2, <2>1
  <2>3. cost[n] <= 3 * n + 3
    BY <1>4, <2>1
  <2>4. /\ DecodeDue(done[n].state) \in 0 .. 3 /\ DecodeDue(done[n + 1].state) \in 0 .. 3
        /\ 4 * Len(done[n + 1].out) + DecodeDue(done[n + 1].state)
             <= 4 * Len(done[n].out) + DecodeDue(done[n].state) + 3
    BY <2>2, DecodeCharBound
  <2>5. cost[n + 1] <= cost[n] + 3
    BY <2>1, <2>4
  <2>6. cost[n] \in Nat /\ cost[n + 1] \in Nat
    <3>1. done[n].out \in Seq(Nat) /\ done[n + 1].out \in Seq(Nat)
      BY <2>1 DEF Decoded
    <3>2. Len(done[n].out) \in Nat /\ Len(done[n + 1].out) \in Nat
      BY <3>1, LenProperties
    <3>3. DecodeDue(done[n].state) \in Nat /\ DecodeDue(done[n + 1].state) \in Nat
      BY <2>4
    <3>4. /\ cost[n] = 4 * Len(done[n].out) + DecodeDue(done[n].state)
          /\ cost[n + 1] = 4 * Len(done[n + 1].out) + DecodeDue(done[n + 1].state)
      BY <2>1
    <3>5. \A i, j \in Nat : 4 * i + j \in Nat
      OBVIOUS
    <3> HIDE DEF cost
    <3>6. /\ 4 * Len(done[n].out) + DecodeDue(done[n].state) \in Nat
          /\ 4 * Len(done[n + 1].out) + DecodeDue(done[n + 1].state) \in Nat
      BY <3>2, <3>3, <3>5
    <3> QED
      BY <3>4, <3>6
  <2> HIDE DEF cost
  <2> QED
    BY <2>3, <2>5, <2>6
<1>5. \A n \in Nat : n \in S
  <2> HIDE DEF S
  <2> QED
    BY <1>3, <1>4, Induction
<1>6. M \in 0 .. M /\ cost[M] <= 3 * M + 3
  <2> HIDE DEF cost
  <2> QED
    BY <1>2, <1>5
<1>7. done[M].out \in Seq(Nat) /\ done[M].state \in DecoderState
  BY <1>1, <1>6 DEF Decoded
<1>8. Len(done[M].out) \in Nat /\ DecodeDue(done[M].state) \in Nat
  <2>1. DecodeDue(done[M].state) \in Nat
    BY <1>7 DEF DecodeDue, DecoderState
  <2> QED
    BY <1>7, <2>1, LenProperties
<1>9. 4 * Len(done[M].out) <= 3 * M + 3
  BY <1>2, <1>6, <1>8
<1> QED
  BY <1>1, <1>9 DEF M

-----------------------------------------------------------------------------
(* The blocks in which a file, and its text, are read. *)

\* Contents s is worked off from the front: n of its values, and what is left.
LEMMA Split ==
    ASSUME NEW D, NEW s \in Seq(D), NEW n \in 0 .. Len(s)
    PROVE  /\ SubSeq(s, 1, n) \in Seq(D) /\ Len(SubSeq(s, 1, n)) = n
           /\ SubSeq(s, n + 1, Len(s)) \in Seq(D)
           /\ Len(SubSeq(s, n + 1, Len(s))) = Len(s) - n
           /\ SubSeq(s, 1, n) \o SubSeq(s, n + 1, Len(s)) = s
<1>1. Len(s) \in Nat /\ \A i \in 1 .. Len(s) : s[i] \in D
  BY LenProperties
<1> DEFINE L == Len(s)
           a == SubSeq(s, 1, n)
           z == SubSeq(s, n + 1, L)
<1>2. a \in Seq(D) /\ Len(a) = n
  <2>1. 1 \in Int /\ n \in Int /\ \A i \in 1 .. n : s[i] \in D
    BY <1>1
  <2>2. SubSeq(s, 1, n) \in Seq(D) /\ Len(SubSeq(s, 1, n)) = IF 1 <= n THEN n - 1 + 1 ELSE 0
    BY <2>1, SubSeqProperties
  <2> HIDE DEF L, z
  <2> QED
    BY <1>1, <2>2
<1>3. z \in Seq(D) /\ Len(z) = L - n
  <2>1. n + 1 \in Int /\ L \in Int /\ \A i \in (n + 1) .. L : s[i] \in D
    BY <1>1
  <2> DEFINE k == n + 1
  <2>2. z = SubSeq(s, k, L)
    OBVIOUS
  <2> HIDE DEF L, a, k, z
  <2>3. SubSeq(s, k, L) \in Seq(D) /\ Len(SubSeq(s, k, L)) = IF k <= L THEN L - k + 1 ELSE 0
    BY <2>1, SubSeqProperties DEF k
  <2> QED
    BY <1>1, <2>2, <2>3 DEF k, L
<1>4. a \o z = s
  <2>1. /\ 1 \in 1 .. Len(s) + 1 /\ n \in 1 - 1 .. Len(s) /\ Len(s) \in n .. Len(s)
    BY <1>1
  <2>2. SubSeq(s, 1, n) \o SubSeq(s, n + 1, Len(s)) = SubSeq(s, 1, Len(s))
    BY <2>1, ConcatAdjacentSubSeq
  <2>3. SubSeq(s, 1, Len(s)) = s
    BY SubSeqFull
  <2> QED
    BY <2>2, <2>3
<1> QED
  BY <1>2, <1>3, <1>4

\* What a turn leaves to be read.
Remainder == SubSeq(rest, Len(Block) + 1, Len(rest))

\* A turn takes N values, or all there are if they are fewer; only then the
\* stream is no longer good (istream::read).
LEMMA BlockIs ==
    ASSUME NEW D, rest \in Seq(D), N \in Nat
    PROVE  /\ Block \in Seq(D) /\ Len(Block) \in Nat /\ Len(Block) <= N
           /\ Remainder \in Seq(D) /\ Block \o Remainder = rest
           /\ ~StreamIsGood => Remainder = <<>>
<1> DEFINE n == IF Len(rest) > N THEN N ELSE Len(rest)
<1>1. Len(rest) \in Nat
  BY LenProperties
<1>2. n \in 0 .. Len(rest) /\ n <= N /\ (~StreamIsGood => n = Len(rest)) /\ n \in Nat
  BY <1>1 DEF StreamIsGood
<1>3. Block = SubSeq(rest, 1, n)
  BY DEF Block
<1> HIDE DEF n
<1>4. /\ SubSeq(rest, 1, n) \in Seq(D) /\ Len(SubSeq(rest, 1, n)) = n
      /\ SubSeq(rest, n + 1, Len(rest)) \in Seq(D)
      /\ Len(SubSeq(rest, n + 1, Len(rest))) = Len(rest) - n
      /\ SubSeq(rest, 1, n) \o SubSeq(rest, n + 1, Len(rest)) = rest
  BY <1>2, Split
<1>5. Remainder = SubSeq(rest, n + 1, Len(rest))
  BY <1>3, <1>4 DEF Remainder
<1>6. ~StreamIsGood => Remainder = <<>>
  <2>1. Len(Remainder) = 0 => Remainder = <<>>
    BY <1>4, <1>5, EmptySeq
  <2>2. ~StreamIsGood => Len(Remainder) = 0
    BY <1>1, <1>2, <1>4, <1>5
  <2> QED
    BY <2>1, <2>2
<1> QED
  BY <1>2, <1>3, <1>4, <1>5, <1>6

-----------------------------------------------------------------------------
(* The inductive invariant. *)

Encode(f) == base64_encode_block(base64_init_encodestate, f)
Decode(code) == base64_decode_block(base64_init_decodestate, code)

\* The text as it should arrive.
WholeText == <<StartTag>> \o Code(FileIn(file)) \o <<EndTag>>

TypeOK ==
    /\ file \in Files /\ N \in Buffersizes /\ bufcapacity \in Capacities
    /\ phase \in {"encode", "encode end", "print", "decode", "stored"}

\* What has been read of the file is encoded, as if it were read at once.
Encoding ==
    /\ rest \in Seq(Byte)
    /\ \E done \in Seq(Byte) :
          /\ FileIn(file) = done \o rest
          /\ state = Encode(done).state /\ text = Encode(done).out
    /\ buffer = <<>>
    /\ length <= 2 * N

\* What is printed, buffered and yet to be written is the whole text.
Printing ==
    /\ text \in Seq(Nat) /\ buffer \in Seq(Nat)
    /\ \/ /\ pieces = <<<<StartTag>>, Code(FileIn(file)), <<EndTag>>>>
          /\ text \o buffer = <<>>
       \/ /\ pieces = <<Code(FileIn(file)), <<EndTag>>>>
          /\ text \o buffer = <<StartTag>>
       \/ /\ pieces = <<<<EndTag>>>>
          /\ text \o buffer = <<StartTag>> \o Code(FileIn(file))
       \/ /\ pieces = <<>>
          /\ text \o buffer = WholeText
    /\ length <= 2 * N
    /\ Len(buffer) <= bufcapacity

\* What has been read of the data is decoded, as if it were read at once; some
\* of the data may be lost, if the text was cut.
Decoding ==
    /\ rest \in Seq(Nat)
    /\ \E done, lost \in Seq(Nat) :
          /\ Code(FileIn(file)) = done \o (rest \o lost)
          /\ state = Decode(done).state /\ plain = Decode(done).out
          /\ ~cut => lost = <<>>
    /\ buffer = <<>>
    /\ length + 1 <= N

IInv ==
    /\ TypeOK
    /\ phase \in {"encode", "encode end"} => Encoding
    /\ phase = "encode end" => rest = <<>>
    /\ phase = "print" => Printing
    /\ phase \in {"encode", "encode end", "print"} => plain = <<>>
    /\ phase \in {"decode", "stored"} => Decoding
    /\ phase = "stored" => rest = <<>>

\* The file with its NUL is bytes, and bytes are numbers.
LEMMA FileBytes ==
    ASSUME file \in Files
    PROVE  /\ FileIn(file) \in Seq(Byte)
           /\ \A s \in Seq(Byte) : s \in Seq(Nat)
<1>1. file \in Seq(Byte) /\ 0 \in Byte
  BY FileDataAssumption DEF Byte
<1>2. Append(file, 0) \in Seq(Byte) /\ <<>> \in Seq(Byte)
  BY <1>1, AppendProperties
<1>3. FileIn(file) \in Seq(Byte)
  BY <1>2 DEF FileIn
<1>4. Byte \subseteq Nat
  BY DEF Byte
<1> QED
  BY <1>3, <1>4, SeqMonotonic

\* The sizes of the buffers are numbers, the codec's at least 4.
LEMMA Sizes ==
    ASSUME TypeOK
    PROVE  N \in Nat /\ N >= 4 /\ bufcapacity \in Nat /\ bufcapacity >= 1
<1>1. N \in Buffersizes /\ bufcapacity \in Capacities
  BY DEF TypeOK
<1>2. N \in Nat \ (0 .. 3) /\ bufcapacity \in Nat \ {0}
  BY <1>1, FileDataAssumption
<1> QED
  BY <1>2

\* The coroutines start in a state of theirs, and have put out nothing.
LEMMA Starts ==
    /\ base64_init_encodestate \in EncoderState /\ base64_init_decodestate \in DecoderState
    /\ Encode(<<>>) = [state |-> base64_init_encodestate, out |-> <<>>]
    /\ Decode(<<>>) = [state |-> base64_init_decodestate, out |-> <<>>]
<1>1. base64_init_encodestate \in EncoderState /\ base64_init_decodestate \in DecoderState
  BY DEF base64_init_encodestate, base64_init_decodestate, EncoderState, DecoderState
<1>2. <<>> \in Seq(Nat) /\ 0 \in Nat
  OBVIOUS
<1>3. Encode(<<>>) = [state |-> base64_init_encodestate, out |-> <<>>]
  BY <1>1, <1>2, EncodeAppend DEF Encode
<1>4. Decode(<<>>) = [state |-> base64_init_decodestate, out |-> <<>>]
  BY <1>1, <1>2, DecodeAppend DEF Decode
<1> QED
  BY <1>1, <1>3, <1>4

\* One more block is encoded as if it had been read with those before.
LEMMA EncodeMore ==
    ASSUME NEW s \in Seq(Nat), NEW t \in Seq(Nat)
    PROVE  LET more == base64_encode_block(Encode(s).state, t) IN
              /\ Encode(s) \in Encoded /\ more \in Encoded
              /\ Encode(s \o t).state = more.state
              /\ Encode(s \o t).out = Encode(s).out \o more.out
<1> DEFINE first == base64_encode_block(base64_init_encodestate, s)
           more == base64_encode_block(first.state, t)
<1>1. /\ first \in Encoded /\ more \in Encoded
      /\ base64_encode_block(base64_init_encodestate, s \o t) = Behind(first.out, more)
  BY Starts, EncodeConcat
<1> DEFINE whole == base64_encode_block(base64_init_encodestate, s \o t)
<1>2. Encode(s) = first /\ Encode(s \o t) = whole
  BY DEF Encode
<1>4. whole = Behind(first.out, more)
  BY <1>1
<1> HIDE DEF first, more, whole
<1>3. whole.state = more.state /\ whole.out = first.out \o more.out
  BY <1>4 DEF Behind
<1> QED
  BY <1>1, <1>2, <1>3 DEF more

\* One more block is decoded as if it had been read with those before.
LEMMA DecodeMore ==
    ASSUME NEW s \in Seq(Nat), NEW t \in Seq(Nat)
    PROVE  LET more == base64_decode_block(Decode(s).state, t) IN
              /\ Decode(s) \in Decoded /\ more \in Decoded
              /\ Decode(s \o t).state = more.state
              /\ Decode(s \o t).out = Decode(s).out \o more.out
<1> DEFINE first == base64_decode_block(base64_init_decodestate, s)
           more == base64_decode_block(first.state, t)
<1>1. /\ first \in Decoded /\ more \in Decoded
      /\ base64_decode_block(base64_init_decodestate, s \o t) = Behind(first.out, more)
  BY Starts, DecodeConcat
<1> DEFINE whole == base64_decode_block(base64_init_decodestate, s \o t)
<1>2. Decode(s) = first /\ Decode(s \o t) = whole
  BY DEF Decode
<1>4. whole = Behind(first.out, more)
  BY <1>1
<1> HIDE DEF first, more, whole
<1>3. whole.state = more.state /\ whole.out = first.out \o more.out
  BY <1>4 DEF Behind
<1> QED
  BY <1>1, <1>2, <1>3 DEF more

\* The first block is yet to be read.
LEMMA Initially == Init => IInv
<1> SUFFICES ASSUME Init PROVE IInv
  OBVIOUS
<1>1. TypeOK
  BY DEF Init, TypeOK
<1>2. FileIn(file) \in Seq(Byte)
  BY <1>1, FileBytes DEF TypeOK
<1>3. Encoding
  <2>1. <<>> \in Seq(Byte) /\ FileIn(file) = <<>> \o FileIn(file)
    BY <1>2, ConcatEmptySeq
  <2>2. state = Encode(<<>>).state /\ text = Encode(<<>>).out
    BY Starts DEF Init
  <2>3. length <= 2 * N
    BY <1>1, Sizes DEF Init
  <2>4. rest = FileIn(file) /\ buffer = <<>>
    BY DEF Init
  <2> QED
    BY <1>2, <2>1, <2>2, <2>3, <2>4 DEF Encoding
<1> QED
  BY <1>1, <1>3 DEF IInv, Init

\* A turn of encoder::encode.
LEMMA EncodeKeeps ==
    ASSUME IInv, encode
    PROVE  IInv'
<1>1. TypeOK /\ Encoding /\ plain = <<>>
  BY DEF IInv, encode
<1>2. TypeOK'
  BY <1>1 DEF TypeOK, encode, setup
<1>3. N \in Nat /\ N >= 4 /\ bufcapacity \in Nat
  BY <1>1, Sizes
<1>4. PICK done \in Seq(Byte) :
          /\ FileIn(file) = done \o rest
          /\ state = Encode(done).state /\ text = Encode(done).out
  BY <1>1 DEF Encoding
<1>5. /\ Block \in Seq(Byte) /\ Len(Block) \in Nat /\ Len(Block) <= N
      /\ Remainder \in Seq(Byte) /\ Block \o Remainder = rest
      /\ ~StreamIsGood => Remainder = <<>>
  BY <1>1, <1>3, BlockIs DEF Encoding
<1>6. rest' = Remainder /\ phase' = (IF StreamIsGood THEN phase ELSE "encode end")
  BY DEF encode, Remainder
<1>7. done \in Seq(Nat) /\ Block \in Seq(Nat)
  BY <1>1, <1>4, <1>5, FileBytes DEF TypeOK
<1> DEFINE block == base64_encode_block(state, Block)
<1>8. state' = block.state /\ length' = Len(block.out) /\ text' = text \o block.out
  BY DEF encode
<1>9. /\ Encode(done) \in Encoded /\ block \in Encoded
      /\ Encode(done \o Block).state = block.state
      /\ Encode(done \o Block).out = Encode(done).out \o block.out
  BY <1>4, <1>7, EncodeMore
<1>10. done \o Block \in Seq(Byte) /\ FileIn(file) = (done \o Block) \o Remainder
  <2>1. done \o Block \in Seq(Byte)
    BY <1>5, ConcatProperties
  <2> DEFINE a == Block
             z == Remainder
  <2>2. a \in Seq(Byte) /\ z \in Seq(Byte) /\ FileIn(file) = done \o (a \o z)
    BY <1>4, <1>5
  <2> HIDE DEF a, z
  <2>3. (done \o a) \o z = done \o (a \o z)
    BY <2>2, ConcatAssociative
  <2> QED
    BY <2>1, <2>2, <2>3 DEF a, z
<1>11. 3 * Len(block.out) <= 5 * Len(Block) + 4
  <2>1. state \in EncoderState
    BY <1>4, <1>9 DEF Encoded
  <2> QED
    BY <1>7, <2>1, EncodeBound
<1> HIDE DEF block
<1>12. length' <= 2 * N
  <2> DEFINE k == Len(block.out)
             m == Len(Block)
  <2>1. block.out \in Seq(Nat)
    BY <1>9 DEF Encoded
  <2>2. k \in Nat /\ m \in Nat /\ 3 * k <= 5 * m + 4 /\ m <= N
    BY <1>5, <1>11, <2>1, LenProperties
  <2> HIDE DEF k, m
  <2>3. k <= 2 * N
    BY <1>3, <2>2
  <2> QED
    BY <1>8, <2>3 DEF k
<1>13. N' = N /\ file' = file /\ buffer' = <<>> /\ plain' = <<>>
  BY <1>1 DEF encode, setup, Encoding
<1>14. Encoding'
  <2>1. FileIn(file') = (done \o Block) \o rest'
    BY <1>6, <1>10, <1>13
  <2>2. state' = Encode(done \o Block).state /\ text' = Encode(done \o Block).out
    BY <1>4, <1>8, <1>9
  <2>3. rest' \in Seq(Byte) /\ length' <= 2 * N'
    BY <1>5, <1>6, <1>12, <1>13
  <2> QED
    BY <1>10, <1>13, <2>1, <2>2, <2>3 DEF Encoding
<1>15. phase' = "encode" \/ (phase' = "encode end" /\ rest' = <<>>)
  <2>1. CASE StreamIsGood
    BY <1>6, <2>1 DEF encode
  <2>2. CASE ~StreamIsGood
    BY <1>5, <1>6, <2>2
  <2> QED
    BY <2>1, <2>2
<1> QED
  BY <1>2, <1>13, <1>14, <1>15 DEF IInv

\* The end of encoder::encode: the text is made.
LEMMA EncodeEndKeeps ==
    ASSUME IInv, encode_end
    PROVE  IInv'
<1>1. TypeOK /\ Encoding /\ plain = <<>> /\ rest = <<>>
  BY DEF IInv, encode_end
<1>2. TypeOK'
  BY <1>1 DEF TypeOK, encode_end, setup
<1>3. N \in Nat /\ N >= 4 /\ bufcapacity \in Nat
  BY <1>1, Sizes
<1>4. PICK done \in Seq(Byte) :
          /\ FileIn(file) = done \o rest
          /\ state = Encode(done).state /\ text = Encode(done).out
  BY <1>1 DEF Encoding
<1>5. FileIn(file) = done
  <2>1. done \o <<>> = done
    BY ConcatEmptySeq
  <2> QED
    BY <1>1, <1>4, <2>1
<1>6. text \o base64_encode_blockend(state) = Code(FileIn(file))
  BY <1>4, <1>5 DEF Code, Encode
<1>7. /\ pieces' = <<<<StartTag>>, Code(FileIn(file)), <<EndTag>>>>
      /\ text' = <<>> /\ buffer' = <<>> /\ plain' = <<>> /\ N' = N /\ file' = file
      /\ phase' = "print" /\ bufcapacity' = bufcapacity
  BY <1>1, <1>6 DEF encode_end, setup, Encoding
<1>8. length' <= 2 * N
  <2>1. done \in Seq(Nat) /\ <<>> \in Seq(Nat)
    <3>1. done \in Seq(Nat)
      BY <1>1, FileBytes DEF TypeOK
    <3>2. <<>> \in Seq(Nat)
      OBVIOUS
    <3> QED
      BY <3>1, <3>2
  <2>2. state \in EncoderState
    BY <1>4, <2>1, EncodeMore DEF Encoded
  <2>3. Len(base64_encode_blockend(state)) \in {1, 4, 3}
    BY <2>2 DEF base64_encode_blockend, EncoderState
  <2>4. length' \in {1, 4, 3}
    BY <2>3 DEF encode_end
  <2> QED
    BY <1>3, <2>4
<1>9. <<>> \in Seq(Nat) /\ <<>> \o <<>> = <<>> /\ Len(<<>>) = 0
  OBVIOUS
<1>10. Printing'
  BY <1>3, <1>7, <1>8, <1>9 DEF Printing
<1> QED
  BY <1>2, <1>7, <1>10 DEF IInv

\* Pieces of text may be put together in any order.
LEMMA Regroup ==
    ASSUME NEW s \in Seq(Nat), NEW t \in Seq(Nat), NEW u \in Seq(Nat)
    PROVE  (s \o t) \o u = s \o (t \o u)
BY ConcatAssociative

\* xml_buffered_writer::write: whichever way the piece takes, the printed text and
\* the buffer together grow by it.
LEMMA WriteGrows ==
    ASSUME write, text \in Seq(Nat), buffer \in Seq(Nat), bufcapacity \in Nat,
           Head(pieces) \in Seq(Nat), Len(buffer) <= bufcapacity
    PROVE  /\ text' \in Seq(Nat) /\ buffer' \in Seq(Nat) /\ Len(buffer') <= bufcapacity
           /\ text' \o buffer' = (text \o buffer) \o Head(pieces)
<1> DEFINE piece == Head(pieces)
<1>1. \/ Fits(piece) /\ buffer' = buffer \o piece /\ text' = text
      \/ Len(piece) <= bufcapacity /\ buffer' = piece /\ text' = text \o buffer
      \/ buffer' = <<>> /\ text' = text \o buffer \o piece
  BY DEF write
<1>2. piece \in Seq(Nat)
  OBVIOUS
<1> HIDE DEF piece
<1>3. text \o buffer \in Seq(Nat) /\ (text \o buffer) \o piece \in Seq(Nat)
  <2>1. text \o buffer \in Seq(Nat)
    BY ConcatProperties
  <2> QED
    BY <1>2, <2>1, ConcatProperties
<1>4. CASE Fits(piece) /\ buffer' = buffer \o piece /\ text' = text
  <2>1. buffer \o piece \in Seq(Nat) /\ Len(buffer \o piece) = Len(buffer) + Len(piece)
    BY <1>2, ConcatProperties
  <2>2. text \o (buffer \o piece) = (text \o buffer) \o piece
    <3>1. text \in Seq(Nat) /\ buffer \in Seq(Nat)
      OBVIOUS
    <3> QED
      BY <1>2, <3>1, Regroup
  <2>3. Len(buffer') <= bufcapacity
    BY <1>4, <2>1 DEF Fits
  <2> QED
    BY <1>4, <2>1, <2>2, <2>3 DEF piece
<1>5. CASE Len(piece) <= bufcapacity /\ buffer' = piece /\ text' = text \o buffer
  BY <1>2, <1>3, <1>5 DEF piece
<1>6. CASE buffer' = <<>> /\ text' = text \o buffer \o piece
  <2>1. <<>> \in Seq(Nat) /\ Len(<<>>) = 0
    OBVIOUS
  <2>2. ((text \o buffer) \o piece) \o <<>> = (text \o buffer) \o piece
    <3> DEFINE u == (text \o buffer) \o piece
    <3>1. u \in Seq(Nat)
      BY <1>3
    <3> HIDE DEF u
    <3>2. u \o <<>> = u
      BY <3>1, ConcatEmptySeq
    <3> QED
      BY <3>2 DEF u
  <2>3. text' \o buffer' = (text \o buffer) \o piece
    BY <1>6, <2>2
  <2>4. Len(buffer') <= bufcapacity
    BY <1>6, <2>1
  <2> QED
    BY <1>3, <1>6, <2>1, <2>3, <2>4 DEF piece
<1> QED
  BY <1>1, <1>4, <1>5, <1>6

\* One more piece is written.
LEMMA WriteKeeps ==
    ASSUME IInv, write
    PROVE  IInv'
<1>1. TypeOK /\ Printing /\ plain = <<>>
  BY DEF IInv, write
<1>2. TypeOK'
  BY <1>1 DEF TypeOK, write, setup
<1>3. bufcapacity \in Nat
  BY <1>1, Sizes
<1> DEFINE S == <<StartTag>>
           E == <<EndTag>>
           C == Code(FileIn(file))
<1>4. S \in Seq(Nat) /\ E \in Seq(Nat) /\ C \in Seq(Nat)
  <2>1. S \in Seq(Nat) /\ E \in Seq(Nat)
    BY DEF StartTag, EndTag
  <2>2. C \in Seq(Nat)
    BY <1>1, FileBytes, RoundTrip DEF TypeOK
  <2> QED
    BY <2>1, <2>2
<1> HIDE DEF S, E, C
<1>5. /\ text \in Seq(Nat) /\ buffer \in Seq(Nat) /\ Len(buffer) <= bufcapacity
      /\ length <= 2 * N
      /\ \/ pieces = <<S, C, E>> /\ text \o buffer = <<>>
         \/ pieces = <<C, E>> /\ text \o buffer = S
         \/ pieces = <<E>> /\ text \o buffer = S \o C
  <2>1. pieces # <<>>
    BY DEF write
  <2> QED
    BY <1>1, <2>1 DEF Printing, S, E, C
<1>6. Head(pieces) \in Seq(Nat)
  BY <1>4, <1>5
<1>7. /\ text' \in Seq(Nat) /\ buffer' \in Seq(Nat) /\ Len(buffer') <= bufcapacity
      /\ text' \o buffer' = (text \o buffer) \o Head(pieces)
  BY <1>3, <1>5, <1>6, WriteGrows
<1>8. /\ pieces' = Tail(pieces) /\ phase' = "print" /\ plain' = <<>> /\ length' = length
      /\ N' = N /\ file' = file /\ bufcapacity' = bufcapacity
  BY <1>1 DEF write, setup
<1>9. \/ pieces' = <<C, E>> /\ text' \o buffer' = S
      \/ pieces' = <<E>> /\ text' \o buffer' = S \o C
      \/ pieces' = <<>> /\ text' \o buffer' = (S \o C) \o E
  <2>1. CASE pieces = <<S, C, E>> /\ text \o buffer = <<>>
    <3>1. Head(pieces) = S /\ Tail(pieces) = <<C, E>>
      BY <2>1
    <3>2. <<>> \o S = S
      BY <1>4, ConcatEmptySeq
    <3>3. text' \o buffer' = S
      BY <1>7, <2>1, <3>1, <3>2
    <3> QED
      BY <1>8, <3>1, <3>3
  <2>2. CASE pieces = <<C, E>> /\ text \o buffer = S
    <3>1. Head(pieces) = C /\ Tail(pieces) = <<E>>
      BY <2>2
    <3> QED
      BY <1>7, <1>8, <2>2, <3>1
  <2>3. CASE pieces = <<E>> /\ text \o buffer = S \o C
    <3>1. Head(pieces) = E /\ Tail(pieces) = <<>>
      BY <2>3
    <3> QED
      BY <1>7, <1>8, <2>3, <3>1
  <2> QED
    BY <1>5, <2>1, <2>2, <2>3
<1>10. Printing'
  <2>1. C' = C /\ S' = S /\ E' = E
    BY <1>8 DEF C, S, E
  <2>2. WholeText' = (S \o C) \o E
    BY <1>8 DEF WholeText, S, C, E
  <2> QED
    BY <1>5, <1>7, <1>8, <1>9, <2>2 DEF Printing, S, C, E
<1> QED
  BY <1>2, <1>8, <1>10 DEF IInv

\* What lies between the tags, as far as the text arrived.
LEMMA BetweenTags ==
    ASSUME NEW D, NEW c \in Seq(D), NEW x \in D, NEW y \in D,
           NEW n \in 1 .. Len(<<x>> \o c \o <<y>>) - 1
    PROVE  /\ Len(<<x>> \o c \o <<y>>) - 1 = Len(c) + 1
           /\ SubSeq(<<x>> \o c \o <<y>>, 2, n) = SubSeq(c, 1, n - 1)
<1> DEFINE w == <<x>> \o c \o <<y>>
           L == Len(c)
<1>1. /\ w \in Seq(D) /\ Len(w) = L + 2 /\ L \in Nat
      /\ \A i \in 1 .. L : w[i + 1] = c[i] /\ c[i] \in D
  OBVIOUS
<1> HIDE DEF w
<1>2. n \in 1 .. (L + 1)
  BY <1>1 DEF w
<1> HIDE DEF L
<1>3. \A i \in 2 .. n : w[i] \in D
  <2> SUFFICES ASSUME NEW i \in 2 .. n PROVE w[i] \in D
    OBVIOUS
  <2>1. i - 1 \in 1 .. L /\ (i - 1) + 1 = i
    BY <1>1, <1>2
  <2> QED
    BY <1>1, <2>1
<1>4. \A i \in 1 .. (n - 1) : c[i] \in D
  <2> SUFFICES ASSUME NEW i \in 1 .. (n - 1) PROVE c[i] \in D
    OBVIOUS
  <2>1. i \in 1 .. L
    BY <1>1, <1>2
  <2> QED
    BY <1>1, <2>1
<1> DEFINE m == n - 1
<1>5. m \in Nat /\ n \in Int /\ m \in Int /\ 1 \in Int /\ 2 \in Int /\ n = m + 1
  BY <1>1, <1>2
<1>6. \A i \in 1 .. m : c[i] \in D
  BY <1>4
<1> HIDE DEF m
<1>7. /\ SubSeq(w, 2, n) \in Seq(D) /\ Len(SubSeq(w, 2, n)) = IF 2 <= n THEN n - 2 + 1 ELSE 0
      /\ \A i \in 1 .. n - 2 + 1 : SubSeq(w, 2, n)[i] = w[2 + i - 1]
  BY <1>3, <1>5, SubSeqProperties
<1>8. /\ SubSeq(c, 1, m) \in Seq(D) /\ Len(SubSeq(c, 1, m)) = IF 1 <= m THEN m - 1 + 1 ELSE 0
      /\ \A i \in 1 .. m - 1 + 1 : SubSeq(c, 1, m)[i] = c[1 + i - 1]
  BY <1>5, <1>6, SubSeqProperties
<1>9. Len(SubSeq(w, 2, n)) = m /\ Len(SubSeq(c, 1, m)) = m
  BY <1>5, <1>7, <1>8
<1>10. ASSUME NEW i \in 1 .. m
       PROVE  SubSeq(w, 2, n)[i] = SubSeq(c, 1, m)[i]
  <2>1. /\ i \in 1 .. n - 2 + 1 /\ i \in 1 .. m - 1 + 1 /\ 2 + i - 1 = i + 1 /\ 1 + i - 1 = i
        /\ i \in 1 .. L
    BY <1>1, <1>2, <1>5
  <2>2. SubSeq(w, 2, n)[i] = w[i + 1] /\ SubSeq(c, 1, m)[i] = c[i]
    BY <1>7, <1>8, <2>1
  <2> QED
    BY <1>1, <2>1, <2>2
<1>11. SubSeq(w, 2, n) = SubSeq(c, 1, m)
  BY <1>7, <1>8, <1>9, <1>10, SeqEqual
<1>12. Len(w) - 1 = L + 1
  BY <1>1
<1> QED
  BY <1>11, <1>12 DEF w, m, L

\* The text arrives, up to some character.
LEMMA ArriveKeeps ==
    ASSUME IInv, arrive
    PROVE  IInv'
<1>1. TypeOK /\ Printing /\ plain = <<>> /\ pieces = <<>>
  BY DEF IInv, arrive
<1>2. TypeOK'
  BY <1>1 DEF TypeOK, arrive, setup
<1>3. N \in Nat /\ N >= 4
  BY <1>1, Sizes
<1> DEFINE C == Code(FileIn(file))
<1>4. StartTag \in Nat /\ EndTag \in Nat /\ C \in Seq(Nat)
  <2>1. StartTag \in Nat /\ EndTag \in Nat
    BY DEF StartTag, EndTag
  <2>2. C \in Seq(Nat)
    BY <1>1, FileBytes, RoundTrip DEF TypeOK
  <2> QED
    BY <2>1, <2>2
<1>5. text' = <<StartTag>> \o C \o <<EndTag>>
  <2> DEFINE S == <<StartTag>>
             E == <<EndTag>>
  <2>1. <<S, C, E>> # <<>> /\ <<C, E>> # <<>> /\ <<E>> # <<>>
    OBVIOUS
  <2>2. \/ pieces = <<S, C, E>> \/ pieces = <<C, E>> \/ pieces = <<E>>
        \/ text \o buffer = WholeText
    BY <1>1 DEF Printing
  <2> HIDE DEF C, S, E
  <2>3. text \o buffer = WholeText
    BY <1>1, <2>1, <2>2
  <2>4. WholeText = S \o C \o E
    BY DEF WholeText, S, C, E
  <2>5. text' = text \o buffer
    BY DEF arrive
  <2> QED
    BY <2>3, <2>4, <2>5 DEF S, E
<1>6. PICK n \in 1 .. Len(text') - 1 :
          rest' = SubSeq(text', 2, n) /\ cut' = (n < Len(text') - 1)
  BY DEF arrive
<1> HIDE DEF C
<1>7. Len(text') - 1 = Len(C) + 1 /\ SubSeq(text', 2, n) = SubSeq(C, 1, n - 1)
  BY <1>4, <1>5, <1>6, BetweenTags
<1>8. Len(C) \in Nat /\ n \in 1 .. (Len(C) + 1)
  BY <1>4, <1>6, <1>7, LenProperties
<1>9. n - 1 \in 0 .. Len(C) /\ n = (n - 1) + 1
  BY <1>8
<1> DEFINE lost == SubSeq(C, (n - 1) + 1, Len(C))
<1>10. /\ rest' \in Seq(Nat) /\ lost \in Seq(Nat) /\ rest' \o lost = C
       /\ Len(lost) = Len(C) - (n - 1)
  BY <1>4, <1>6, <1>7, <1>9, Split
<1>11. ~cut' => lost = <<>>
  <2>3. ~cut' => ~(n < Len(text') - 1)
    BY <1>6
  <2>4. ~(n < Len(C) + 1) => n - 1 = Len(C)
    BY <1>8
  <2>1. ~cut' => n - 1 = Len(C)
    BY <1>7, <2>3, <2>4
  <2> HIDE DEF lost
  <2>2. ~cut' => Len(lost) = 0
    BY <1>8, <1>10, <2>1
  <2> QED
    BY <1>10, <2>2, EmptySeq
<1>12. /\ state' = base64_init_decodestate /\ plain' = <<>> /\ length' = 0 /\ buffer' = <<>>
       /\ phase' = "decode" /\ N' = N /\ file' = file
  BY <1>1 DEF arrive, setup
<1>13. Decoding'
  <2> HIDE DEF lost
  <2>1. <<>> \in Seq(Nat) /\ C = <<>> \o (rest' \o lost)
    BY <1>4, <1>10, ConcatEmptySeq
  <2>2. state' = Decode(<<>>).state /\ plain' = Decode(<<>>).out
    BY <1>12, Starts
  <2>3. Code(FileIn(file')) = <<>> \o (rest' \o lost)
    BY <1>12, <2>1 DEF C
  <2>4. length' + 1 <= N'
    BY <1>3, <1>12
  <2> QED
    BY <1>10, <1>11, <1>12, <2>1, <2>2, <2>3, <2>4 DEF Decoding
<1> QED
  BY <1>2, <1>12, <1>13 DEF IInv

\* A turn of decoder::decode.
LEMMA DecodeKeeps ==
    ASSUME IInv, decode
    PROVE  IInv'
<1>1. TypeOK /\ Decoding
  BY DEF IInv, decode
<1>2. TypeOK'
  BY <1>1 DEF TypeOK, decode, setup
<1>3. N \in Nat /\ N >= 4
  BY <1>1, Sizes
<1>4. PICK done \in Seq(Nat), lost \in Seq(Nat) :
          /\ Code(FileIn(file)) = done \o (rest \o lost)
          /\ state = Decode(done).state /\ plain = Decode(done).out
          /\ ~cut => lost = <<>>
  BY <1>1 DEF Decoding
<1>5. /\ Block \in Seq(Nat) /\ Len(Block) \in Nat /\ Len(Block) <= N
      /\ Remainder \in Seq(Nat) /\ Block \o Remainder = rest
      /\ ~StreamIsGood => Remainder = <<>>
  BY <1>1, <1>3, BlockIs DEF Decoding
<1>6. rest' = Remainder /\ phase' = (IF StreamIsGood THEN phase ELSE "stored")
  BY DEF decode, Remainder
<1> DEFINE block == base64_decode_block(state, Block)
<1>7. state' = block.state /\ length' = Len(block.out) /\ plain' = plain \o block.out
  BY DEF decode
<1>8. /\ Decode(done) \in Decoded /\ block \in Decoded
      /\ Decode(done \o Block).state = block.state
      /\ Decode(done \o Block).out = Decode(done).out \o block.out
  BY <1>4, <1>5, DecodeMore
<1>9. 4 * Len(block.out) <= 3 * Len(Block) + 3
  <2>1. state \in DecoderState
    BY <1>4, <1>8 DEF Decoded
  <2> QED
    BY <1>5, <2>1, DecodeBound
<1> HIDE DEF block
<1>10. length' + 1 <= N
  <2> DEFINE k == Len(block.out)
             m == Len(Block)
  <2>1. block.out \in Seq(Nat)
    BY <1>8 DEF Decoded
  <2>2. k \in Nat /\ m \in Nat /\ 4 * k <= 3 * m + 3 /\ m <= N
    BY <1>5, <1>9, <2>1, LenProperties
  <2> HIDE DEF k, m
  <2>3. k + 1 <= N
    BY <1>3, <2>2
  <2> QED
    BY <1>7, <2>3 DEF k
<1>11. /\ done \o Block \in Seq(Nat)
       /\ Code(FileIn(file)) = (done \o Block) \o (Remainder \o lost)
  <2>1. done \o Block \in Seq(Nat)
    BY <1>5, ConcatProperties
  <2> DEFINE a == Block
             z == Remainder
  <2>2. /\ a \in Seq(Nat) /\ z \in Seq(Nat) /\ Code(FileIn(file)) = done \o ((a \o z) \o lost)
        /\ z \o lost \in Seq(Nat)
    BY <1>4, <1>5, ConcatProperties
  <2> HIDE DEF a, z
  <2>4. (a \o z) \o lost = a \o (z \o lost)
    BY <1>4, <2>2, Regroup
  <2> DEFINE y == z \o lost
  <2>5. y \in Seq(Nat) /\ Code(FileIn(file)) = done \o (a \o y)
    BY <2>2, <2>4
  <2> HIDE DEF y
  <2>6. (done \o a) \o y = done \o (a \o y)
    BY <2>2, <2>5, Regroup
  <2> QED
    BY <2>1, <2>5, <2>6 DEF a, y, z
<1>12. /\ N' = N /\ file' = file /\ buffer' = <<>> /\ cut' = cut
  BY <1>1 DEF decode, setup, Decoding
<1>13. Decoding'
  <2>1. Code(FileIn(file')) = (done \o Block) \o (rest' \o lost)
    BY <1>6, <1>11, <1>12
  <2>2. state' = Decode(done \o Block).state /\ plain' = Decode(done \o Block).out
    BY <1>4, <1>7, <1>8
  <2>3. ~cut' => lost = <<>>
    BY <1>4, <1>12
  <2>4. rest' \in Seq(Nat) /\ length' + 1 <= N'
    BY <1>5, <1>6, <1>10, <1>12
  <2> QED
    BY <1>4, <1>11, <1>12, <2>1, <2>2, <2>3, <2>4 DEF Decoding
<1>14. phase' = "decode" \/ (phase' = "stored" /\ rest' = <<>>)
  <2>1. CASE StreamIsGood
    BY <1>6, <2>1 DEF decode
  <2>2. CASE ~StreamIsGood
    BY <1>5, <1>6, <2>2
  <2> QED
    BY <2>1, <2>2
<1> QED
  BY <1>2, <1>13, <1>14 DEF IInv

\* A step that changes nothing.
LEMMA StutterKeeps ==
    ASSUME IInv, UNCHANGED dataVars
    PROVE  IInv'
BY DEF IInv, dataVars, setup, TypeOK, Encoding, Printing, Decoding, WholeText

\* The inductive invariant holds throughout.
LEMMA Invariance == Spec => []IInv
<1>1. IInv /\ [Next]_dataVars => IInv'
  BY EncodeKeeps, EncodeEndKeeps, WriteKeeps, ArriveKeeps, DecodeKeeps, StutterKeeps DEF Next
<1> QED
  BY Initially, <1>1, PTL DEF Spec

\* However long the file, whatever its bytes, whatever the sizes of the buffers
\* and wherever the text ends: what the display stores is the file's beginning,
\* and all of it and its NUL if the data arrived whole (decoder::decode).
THEOREM WhatIsStoredIsTheFile == Spec => []FileArrives
<1>1. ASSUME IInv
      PROVE  FileArrives
  <2>1. TypeOK
    BY <1>1 DEF IInv
  <2>2. FileIn(file) \in Seq(Byte) /\ FileIn(file) \in Seq(Nat)
    BY <2>1, FileBytes DEF TypeOK
  <2>3. CASE phase \in {"encode", "encode end", "print"}
    <3>1. plain = <<>> /\ phase # "stored"
      BY <1>1, <2>3 DEF IInv
    <3>2. <<>> \in Seq(Nat) /\ <<>> \o FileIn(file) = FileIn(file)
      BY <2>2, ConcatEmptySeq
    <3>3. IsPrefix(<<>>, FileIn(file))
      BY <2>2, <3>2, PrefixOfConcat
    <3> QED
      BY <3>1, <3>3 DEF FileArrives
  <2>4. CASE phase \in {"decode", "stored"}
    <3>1. Decoding /\ (phase = "stored" => rest = <<>>)
      BY <1>1, <2>4 DEF IInv
    <3>2. PICK done \in Seq(Nat), lost \in Seq(Nat) :
              /\ Code(FileIn(file)) = done \o (rest \o lost)
              /\ plain = Decode(done).out
              /\ ~cut => lost = <<>>
      BY <3>1 DEF Decoding
    <3> DEFINE z == rest \o lost
               more == base64_decode_block(Decode(done).state, z)
    <3>3. z \in Seq(Nat)
      BY <3>1, <3>2, ConcatProperties DEF Decoding
    <3>4. Decode(Code(FileIn(file))).out = FileIn(file)
      BY <2>2, RoundTrip DEF Decode
    <3>5. Code(FileIn(file)) = done \o z
      BY <3>2
    <3>6. phase = "stored" /\ ~cut => z = <<>>
      <4>1. <<>> \o <<>> = <<>>
        OBVIOUS
      <4> QED
        BY <3>1, <3>2, <4>1
    <3> HIDE DEF z
    <3>7. /\ Decode(done) \in Decoded /\ more \in Decoded
          /\ Decode(done \o z).out = Decode(done).out \o more.out
      BY <3>2, <3>3, DecodeMore
    <3>8. plain \in Seq(Nat) /\ more.out \in Seq(Nat) /\ FileIn(file) = plain \o more.out
      BY <3>2, <3>4, <3>5, <3>7 DEF Decoded
    <3>9. IsPrefix(plain, FileIn(file))
      BY <3>8, PrefixOfConcat
    <3>10. phase = "stored" /\ ~cut => plain = FileIn(file)
      <4>1. done \o <<>> = done
        BY ConcatEmptySeq
      <4> QED
        BY <3>2, <3>4, <3>5, <3>6, <4>1
    <3> QED
      BY <3>9, <3>10 DEF FileArrives
  <2> QED
    BY <2>1, <2>3, <2>4 DEF TypeOK
<1> QED
  BY Invariance, <1>1, PTL

\* Whatever the sizes of the buffers, neither the codec's blocks nor the writer's
\* pieces overrun them (encoder::encode, decoder::decode, xml_buffered_writer).
THEOREM NoBufferOverruns == Spec => []WithinBuffers
<1>1. ASSUME IInv
      PROVE  WithinBuffers
  <2>1. TypeOK /\ bufcapacity \in Nat
    BY <1>1, Sizes DEF IInv
  <2>2. buffer = <<>> => Len(buffer) <= bufcapacity
    <3>1. buffer = <<>> => Len(buffer) = 0
      OBVIOUS
    <3> QED
      BY <2>1, <3>1
  <2>3. CASE phase \in {"encode", "encode end"}
    <3>1. buffer = <<>> /\ length <= 2 * N
      BY <1>1, <2>3 DEF IInv, Encoding
    <3> QED
      BY <2>2, <2>3, <3>1 DEF WithinBuffers
  <2>4. CASE phase = "print"
    <3>1. Len(buffer) <= bufcapacity /\ length <= 2 * N
      BY <1>1, <2>4 DEF IInv, Printing
    <3> QED
      BY <2>4, <3>1 DEF WithinBuffers
  <2>5. CASE phase \in {"decode", "stored"}
    <3>1. buffer = <<>> /\ length + 1 <= N
      BY <1>1, <2>5 DEF IInv, Decoding
    <3> QED
      BY <2>2, <2>5, <3>1 DEF WithinBuffers
  <2> QED
    BY <2>1, <2>3, <2>4, <2>5 DEF TypeOK
<1> QED
  BY Invariance, <1>1, PTL
=============================================================================
