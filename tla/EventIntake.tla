---------------------------- MODULE EventIntake ----------------------------
(***************************************************************************)
(* What the webhook promises about each event of Stripe, without requests, *)
(* deliveries or rows: it is decided once, and for ever, whether the event *)
(* takes effect.                                                           *)
(***************************************************************************)
CONSTANT Events
VARIABLE fate   \* fate[e]: "pending", "applied" or "dropped"

Fates == {"pending", "applied", "dropped"}

Init == fate = [e \in Events |-> "pending"]

Decide(e, f) ==
    /\ fate[e] = "pending"
    /\ fate' = [fate EXCEPT ![e] = f]

Apply(e) == Decide(e, "applied")
Drop(e)  == Decide(e, "dropped")

Next == \E e \in Events : Apply(e) \/ Drop(e)

Spec == Init /\ [][Next]_fate
=============================================================================
