------------------------------- MODULE MCHealth -------------------------------
(* The health pill of the header and the gauges of the overview tab watch one
   sandbox; two entry objects, so that one that was reset or removed and the
   current one exist at once. *)
EXTENDS Health, TLC
=============================================================================
