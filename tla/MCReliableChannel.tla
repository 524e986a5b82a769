-------------------------- MODULE MCReliableChannel --------------------------
(***************************************************************************)
(* ReliableChannel for TLC.                                                *)
(***************************************************************************)
EXTENDS ReliableChannel

CONSTANTS a1, a2
MCAddr == {a1, a2}
=============================================================================
