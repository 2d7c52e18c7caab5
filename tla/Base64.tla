------------------------------- MODULE Base64 -------------------------------
(***************************************************************************)
(* libb64's encoder and decoder: coroutines that take a block at a time    *)
(* and keep their step, and the bits they have not put out, between blocks. *)
(*                                                                         *)
(* A character of the code is the value it stands for, 0 to 63, the        *)
(* padding or the line break.                                              *)
(***************************************************************************)
EXTENDS Integers, Sequences

CONSTANT CharsPerLine       \* CHARS_PER_LINE, a multiple of 4

ASSUME Base64Assumption == CharsPerLine \in Nat /\ CharsPerLine >= 4

Byte == 0 .. 255
Pad == 64
NewLine == 65

\* The operators (b & mask) >> k and << k on bytes.
High(b, k) == b \div k
Low(b, k) == b % k

-----------------------------------------------------------------------------
base64_init_encodestate == [step |-> "A", result |-> 0, stepcount |-> 0]

\* The values one byte puts out.
EncodeOut(e, b) ==
    CASE e.step = "A" -> <<High(b, 4)>>
      [] e.step = "B" -> <<e.result + High(b, 16)>>
      [] e.step = "C" -> <<e.result + High(b, 64), Low(b, 64)>>

LineIsFull(e) == e.step = "C" /\ e.stepcount + 1 = CharsPerLine \div 4

EncodeState(e, b) ==
    CASE e.step = "A" -> [e EXCEPT !.step = "B", !.result = Low(b, 4) * 16]
      [] e.step = "B" -> [e EXCEPT !.step = "C", !.result = Low(b, 16) * 4]
      [] e.step = "C" -> [e EXCEPT !.step = "A", !.result = Low(b, 64),
                                   !.stepcount = IF LineIsFull(e) THEN 0 ELSE @ + 1]

EncodeByte(s, b) ==
    [state |-> EncodeState(s.state, b),
     out   |-> s.out \o EncodeOut(s.state, b)
                     \o (IF LineIsFull(s.state) THEN <<NewLine>> ELSE <<>>)]

base64_encode_block(e, block) ==
    LET done[n \in 0 .. Len(block)] ==
            IF n = 0 THEN [state |-> e, out |-> <<>>]
            ELSE EncodeByte(done[n - 1], block[n])
    IN  done[Len(block)]

base64_encode_blockend(e) ==
    CASE e.step = "A" -> <<NewLine>>
      [] e.step = "B" -> <<e.result, Pad, Pad, NewLine>>
      [] e.step = "C" -> <<e.result, Pad, NewLine>>

-----------------------------------------------------------------------------
base64_init_decodestate == [step |-> "a", plainchar |-> 0]

Ignored(v) == v \in {Pad, NewLine}

DecodeOut(d, v) ==
    CASE Ignored(v) \/ d.step = "a" -> <<>>
      [] ~Ignored(v) /\ d.step = "b" -> <<d.plainchar + High(v, 16)>>
      [] ~Ignored(v) /\ d.step = "c" -> <<d.plainchar + High(v, 4)>>
      [] ~Ignored(v) /\ d.step = "d" -> <<d.plainchar + v>>

DecodeState(d, v) ==
    CASE Ignored(v) -> d
      [] ~Ignored(v) /\ d.step = "a" -> [step |-> "b", plainchar |-> v * 4]
      [] ~Ignored(v) /\ d.step = "b" -> [step |-> "c", plainchar |-> Low(v, 16) * 16]
      [] ~Ignored(v) /\ d.step = "c" -> [step |-> "d", plainchar |-> Low(v, 4) * 64]
      [] ~Ignored(v) /\ d.step = "d" -> [step |-> "a", plainchar |-> 0]

DecodeChar(s, v) ==
    [state |-> DecodeState(s.state, v),
     out   |-> s.out \o DecodeOut(s.state, v)]

\* Before it, a decoder that forgets the bits of the last block.
base64_decode_block_anew(d, block) ==
    LET done[n \in 0 .. Len(block)] ==
            IF n = 0 THEN [state |-> [d EXCEPT !.plainchar = 0], out |-> <<>>]
            ELSE DecodeChar(done[n - 1], block[n])
    IN  done[Len(block)]
base64_decode_block(d, block) ==
    LET done[n \in 0 .. Len(block)] ==
            IF n = 0 THEN [state |-> d, out |-> <<>>]
            ELSE DecodeChar(done[n - 1], block[n])
    IN  done[Len(block)]
=============================================================================
