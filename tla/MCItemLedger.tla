---------------------------- MODULE MCItemLedger ----------------------------
(***************************************************************************)
(* ItemLedger for TLC, against a client that may send any packet.          *)
(***************************************************************************)
EXTENDS ItemLedger

CONSTANTS p1, x1, x2
MCPlayer == {p1}
MCPayload == {x1, x2}
MCMalformed == {x2}
MCItemOnly == {"item"}
MCItemTrade == {"item", "trade"}
=============================================================================
