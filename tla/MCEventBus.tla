------------------------------ MODULE MCEventBus ------------------------------
(* Two emitters and two streams over a channel that keeps two events.      *)
EXTENDS EventBus, TLC
=============================================================================
