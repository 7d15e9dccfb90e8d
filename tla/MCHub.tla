------------------------------- MODULE MCHub -------------------------------
(***************************************************************************)
(* Instances of Hub: two clients of two tenants.                           *)
(***************************************************************************)
EXTENDS Hub, TLC

CONSTANTS c1, c2, t1, t2

MCTenantOf == (c1 :> t1) @@ (c2 :> t2)
=============================================================================
