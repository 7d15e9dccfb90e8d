------------------------------ MODULE MCFlags ------------------------------
(***************************************************************************)
(* Instances of Flags.                                                     *)
(***************************************************************************)
EXTENDS Flags
=============================================================================
