----------------------------- MODULE MCDisplay -----------------------------
(* Small instances of a whole display. *)
EXTENDS Display

CONSTANTS c1, c2, f1, f2, f3, f4

It(f, p) == [file |-> f, pause |-> p]

\* Two items per upload, one of them with a pause.
MCPairs ==
    [c \in Conn |-> IF c = c1 THEN <<It(f1, "zero"), It(f2, "positive")>>
                              ELSE <<It(f3, "absent"), It(f4, "zero")>>]
=============================================================================
