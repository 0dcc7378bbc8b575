----------------------------- MODULE MCWebhooks -----------------------------
(* Two deliveries: one to the sender's own inbox, where the post of an      *)
(* attempt that timed out may still arrive, and one elsewhere, failed once  *)
(* by fail_first and retried on the default ladder.  A caller posts to a    *)
(* second endpoint of the inbox.                                            *)
EXTENDS Webhooks, TLC

CONSTANTS own, away, inbox1, inbox2, caller

MCTarget == own :> inbox1 @@ away :> Elsewhere
MCBackoffMs == own :> <<0>> @@ away :> <<>>
MCDefaultBackoff == <<1>>
MCFailFirst == own :> 0 @@ away :> 1
MCCallerTarget == caller :> inbox2
=============================================================================
