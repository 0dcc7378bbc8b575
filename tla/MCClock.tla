------------------------------- MODULE MCClock -------------------------------
(* The clock with a few tasks calling it at once.                          *)
EXTENDS Clock, TLC
=============================================================================
