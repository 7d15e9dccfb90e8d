----------------------------- MODULE MCRealtime -----------------------------
(***************************************************************************)
(* Instances of Realtime: pods and clients are interchangeable.            *)
(***************************************************************************)
EXTENDS Realtime, TLC

PodSymmetry == Permutations(Pods) \cup Permutations(Clients)
=============================================================================
