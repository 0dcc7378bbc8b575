---------------------------- MODULE JobLifecycle ----------------------------
(***************************************************************************)
(* What the job queue promises whoever enqueues a job, with no store, no   *)
(* clock and no poll loop: a job is attempted at most MaxAttempts times    *)
(* (and at least once), one attempt at a time, is dead-lettered only when  *)
(* its attempts are used up, and once succeeded or dead never moves again. *)
(* Scheduler is shown to implement it.                                     *)
(***************************************************************************)
EXTENDS Naturals

CONSTANTS Jobs,        \* the ids of the jobs that may be enqueued
          MaxAttempts  \* [Jobs -> Nat]: Job::max_attempts, 0 included

VARIABLES phase,       \* [Jobs -> Phases]
          attempts     \* [Jobs -> Nat]: attempts begun so far

lifecycleVars == <<phase, attempts>>

Terminal == {"succeeded", "dead"}
Phases == {"absent", "scheduled", "running"} \cup Terminal

LifecycleInit ==
  /\ phase = [j \in Jobs |-> "absent"]
  /\ attempts = [j \in Jobs |-> 0]

Enqueued(j) ==
  /\ phase[j] = "absent"
  /\ phase' = [phase EXCEPT ![j] = "scheduled"]
  /\ UNCHANGED attempts

\* One poll may begin an attempt of several jobs at once.
Begun(S) ==
  /\ \A j \in S : phase[j] = "scheduled"
  /\ phase' = [j \in Jobs |-> IF j \in S THEN "running" ELSE phase[j]]
  /\ attempts' = [j \in Jobs |-> IF j \in S THEN attempts[j] + 1 ELSE attempts[j]]

Ended(j, to) ==
  /\ phase[j] = "running"
  /\ to = "scheduled" => attempts[j] < MaxAttempts[j]
  /\ to = "dead" => attempts[j] >= MaxAttempts[j]
  /\ phase' = [phase EXCEPT ![j] = to]
  /\ UNCHANGED attempts

LifecycleNext ==
  \/ \E j \in Jobs : Enqueued(j)
  \/ \E S \in SUBSET Jobs : Begun(S)
  \/ \E j \in Jobs, to \in Terminal \cup {"scheduled"} : Ended(j, to)

LifecycleSpec == LifecycleInit /\ [][LifecycleNext]_lifecycleVars
=============================================================================
