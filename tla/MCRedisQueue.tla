---------------------------- MODULE MCRedisQueue ----------------------------
(* Two processes, a job with two attempts and a backoff, one that may fail  *)
(* once and has no backoff.                                                 *)
EXTENDS RedisQueue, TLC

CONSTANTS retried, bare

MCMaxAttempts == retried :> 2 @@ bare :> 1
MCOutcomes == retried :> BOOLEAN @@ bare :> {FALSE}
=============================================================================
