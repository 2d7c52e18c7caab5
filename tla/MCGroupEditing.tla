--------------------------- MODULE MCGroupEditing ---------------------------
(* A small instance of the group dialogs: two groups and two computers.     *)
EXTENDS GroupEditing
=============================================================================
