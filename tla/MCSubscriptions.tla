-------------------------- MODULE MCSubscriptions --------------------------
(***************************************************************************)
(* Instances of Subscriptions: tenants and requests are interchangeable.   *)
(***************************************************************************)
EXTENDS Subscriptions, TLC

Interchangeable == Permutations(Tenants) \cup Permutations(Requests)
=============================================================================
