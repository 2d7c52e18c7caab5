------------------------------ MODULE FileData ------------------------------
(***************************************************************************)
(* The data of a file on its way: get_binary_file of the manager, which    *)
(* encodes it block by block, xml_buffered_writer, through which the       *)
(* server prints it, and the display, which decodes it block by block.     *)
(* One action per turn of a loop.                                          *)
(*                                                                         *)
(* The text may end anywhere (module Requests); of its tags only that they *)
(* come before and after the data is kept.                                 *)
(***************************************************************************)
EXTENDS Base64, SequencesExt

CONSTANTS
    Files,          \* the contents a file may have
    Buffersizes,    \* the sizes _buffersize of the codec's buffers
    Capacities      \* the sizes bufcapacity of the writer's buffer

ASSUME FileDataAssumption ==
    /\ Files \subseteq Seq(Byte)
    /\ Buffersizes \subseteq Nat \ (0 .. 3)
    /\ Capacities \subseteq Nat \ {0}

StartTag == 70
EndTag == 71

VARIABLES
    file,           \* the file's contents
    N, bufcapacity, \* the sizes of the buffers
    phase,          \* "encode", "print", "decode" or "stored"
    rest,           \* what the stream has yet to yield
    state,          \* the codec's state
    length,         \* codelength or plainlength of the last block
    text,           \* what was encoded, or printed
    pieces,         \* what the writer is yet to be given
    buffer,         \* the writer's buffer
    plain,          \* what was decoded
    cut             \* the text ended within the data

setup == <<file, N, bufcapacity>>
dataVars == <<setup, phase, rest, state, length, text, pieces, buffer, plain, cut>>

\* The stringstream of get_binary_file ends in the NUL of std::ends; that of an
\* empty file has failed by then and holds nothing.
FileIn(f) == IF f = <<>> THEN <<>> ELSE Append(f, 0)

Init ==
    /\ file \in Files /\ N \in Buffersizes /\ bufcapacity \in Capacities
    /\ phase = "encode"
    /\ rest = FileIn(file)
    /\ state = base64_init_encodestate
    /\ length = 0
    /\ text = <<>> /\ pieces = <<>> /\ buffer = <<>> /\ plain = <<>>
    /\ cut = FALSE

\* istream::read; before it, one that takes a character too many.
BlockTooLong == SubSeq(rest, 1, IF Len(rest) > N THEN N + 1 ELSE Len(rest))
Block == SubSeq(rest, 1, IF Len(rest) > N THEN N ELSE Len(rest))
StreamIsGood == Len(rest) >= N

-----------------------------------------------------------------------------
encode ==
    /\ phase = "encode"
    /\ LET block == base64_encode_block(state, Block) IN
          /\ state' = block.state
          /\ length' = Len(block.out)
          /\ text' = text \o block.out
    /\ rest' = SubSeq(rest, Len(Block) + 1, Len(rest))
    /\ phase' = (IF StreamIsGood THEN phase ELSE "encode end")
    /\ UNCHANGED <<setup, pieces, buffer, plain, cut>>

encode_end ==
    /\ phase = "encode end"
    /\ length' = Len(base64_encode_blockend(state))
    /\ pieces' = <<<<StartTag>>, text \o base64_encode_blockend(state), <<EndTag>>>>
    /\ text' = <<>>
    /\ phase' = "print"
    /\ UNCHANGED <<setup, rest, state, buffer, plain, cut>>

-----------------------------------------------------------------------------
Fits(piece) == Len(buffer) + Len(piece) <= bufcapacity

\* A piece that fits is buffered; otherwise the buffer is flushed first, and a
\* piece that is larger than the buffer passes by it.
write ==
    /\ phase = "print" /\ pieces # <<>>
    /\ LET piece == Head(pieces) IN
          \/ /\ Fits(piece) /\ buffer' = buffer \o piece /\ text' = text
          \/ /\ ~Fits(piece) /\ Len(piece) <= bufcapacity
             /\ buffer' = piece /\ text' = text \o buffer
          \/ /\ Len(piece) > bufcapacity
             /\ buffer' = <<>> /\ text' = text \o buffer \o piece
    /\ pieces' = Tail(pieces)
    /\ UNCHANGED <<setup, phase, rest, state, length, plain, cut>>

\* The writer's destructor flushes it.  The text arrives up to its n-th
\* character, and the display takes the data between its tags.
arrive ==
    /\ phase = "print" /\ pieces = <<>>
    /\ text' = text \o buffer
    /\ buffer' = <<>>
    /\ \E n \in 1 .. Len(text') - 1 :
          /\ rest' = SubSeq(text', 2, n)
          /\ cut' = (n < Len(text') - 1)
    /\ state' = base64_init_decodestate
    /\ length' = 0
    /\ phase' = "decode"
    /\ UNCHANGED <<setup, pieces, plain>>

-----------------------------------------------------------------------------
decode ==
    /\ phase = "decode"
    /\ LET block == base64_decode_block(state, Block) IN
          /\ state' = block.state
          /\ length' = Len(block.out)
          /\ plain' = plain \o block.out
    /\ rest' = SubSeq(rest, Len(Block) + 1, Len(rest))
    /\ phase' = (IF StreamIsGood THEN phase ELSE "stored")
    /\ UNCHANGED <<setup, text, pieces, buffer, cut>>

Next == encode \/ encode_end \/ write \/ arrive \/ decode

Spec == Init /\ [][Next]_dataVars

-----------------------------------------------------------------------------
\* However the file and its text are cut into blocks, and wherever the text
\* ends, what the display stores is the file's beginning; it is all of the file
\* and its NUL if the data arrived whole.
FileArrives ==
    /\ IsPrefix(plain, FileIn(file))
    /\ phase = "stored" /\ ~cut => plain = FileIn(file)

\* No block overruns the buffers of the C++ wrappers: 2 * N characters of code,
\* N bytes of plain text, of which the decoder also uses the byte behind its last
\* one; nor does a piece overrun the writer's buffer, which must not hold a file's
\* data (encoder::encode, decoder::decode, xml_buffered_writer::write).
WithinBuffers ==
    /\ phase \in {"encode", "encode end", "print"} => length <= 2 * N
    /\ phase \in {"decode", "stored"} => length + 1 <= N
    /\ Len(buffer) <= bufcapacity
=============================================================================
