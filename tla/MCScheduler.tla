----------------------------- MODULE MCScheduler -----------------------------
(* Two poll loops over one store, as the JobStore contract allows: a flaky *)
(* job with two attempts and a job that always fails, allowed no retry.    *)
EXTENDS Scheduler, TLC

CONSTANTS flaky, fails

MCMaxAttempts == flaky :> 2 @@ fails :> 0
MCBackoff == flaky :> <<1>> @@ fails :> <<>>
MCOutcomes == flaky :> BOOLEAN @@ fails :> {FALSE}
=============================================================================
