---------------------------- MODULE MCFileData ----------------------------
(* Small files, with bytes of all and of no bits among them; the longer   *)
(* ones fill a line of code, and several blocks.                          *)
EXTENDS FileData

Bytes == {0, 165, 255}
MCFiles ==
    UNION {[1 .. n -> Bytes] : n \in 0 .. 4}
        \cup {[i \in 1 .. n |-> (37 * i) % 256] : n \in 5 .. 12}
=============================================================================
