------------------------------ MODULE MCTerminal ------------------------------
(* Three sessions of one sandbox, a hung-up one included, and two WebSocket  *)
(* names for each.                                                           *)
EXTENDS Terminal
=============================================================================
