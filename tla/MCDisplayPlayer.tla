--------------------------- MODULE MCDisplayPlayer -------------------------
(* Small instances of playback on a display. *)
EXTENDS DisplayPlayer

CONSTANTS f1, f2, f3

It(f, p) == [file |-> f, pause |-> p]

\* Uploads of one and two items, with and without a pause, a file that comes
\* again in another upload, and a message without items.
MCMessages ==
    { <<>>,
      <<It(f1, "absent")>>,
      <<It(f2, "positive"), It(f1, "zero")>> }

\* The same, a file that cannot be stored in the instances, and a message with
\* a pause that is no integer in its middle.
MCMessagesBad ==
    MCMessages \cup { <<It(f3, "zero")>>,
                      <<It(f1, "zero"), It(f2, "malformed"), It(f3, "zero")>> }
=============================================================================
