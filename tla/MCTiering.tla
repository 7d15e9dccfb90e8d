----------------------------- MODULE MCTiering -----------------------------
(***************************************************************************)
(* Instances of Tiering: two events, e1 before e2.                         *)
(***************************************************************************)
EXTENDS Tiering, TLC

CONSTANTS e1, e2

MCEvents == {e1, e2}
MCOccurredAt == (e1 :> 0) @@ (e2 :> 1)
=============================================================================
