------------------------------ MODULE MCTiering ------------------------------
(* Instances of Tiering for TLC. *)
EXTENDS Tiering
==============================================================================
