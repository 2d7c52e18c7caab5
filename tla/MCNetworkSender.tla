-------------------------- MODULE MCNetworkSender --------------------------
(* A small instance of one upload: three addresses, three writes. *)
EXTENDS NetworkSender
=============================================================================
