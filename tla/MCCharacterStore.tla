--------------------------- MODULE MCCharacterStore ---------------------------
(***************************************************************************)
(* CharacterStore for TLC.                                                 *)
(***************************************************************************)
EXTENDS CharacterStore
===============================================================================
