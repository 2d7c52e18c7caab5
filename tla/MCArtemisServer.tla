-------------------------- MODULE MCArtemisServer --------------------------
(* Small instances of the server. *)
EXTENDS ArtemisServer

CONSTANTS c1, c2, d1, d2, d3

\* Two requests that come to a display that may hang (d2), one of them after a
\* display that does not, the other before an address that may not resolve (d3).
MCComputers == [c \in Conn |-> IF c = c1 THEN <<d1, d2>> ELSE <<d2, d3>>]
=============================================================================
