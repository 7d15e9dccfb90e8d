-------------------------- MODULE MCBillingWebhook --------------------------
(***************************************************************************)
(* Instances of BillingWebhook: events and requests are interchangeable.   *)
(***************************************************************************)
EXTENDS BillingWebhook, TLC

EventSymmetry == Permutations(Events) \cup Permutations(Handlers)
=============================================================================
