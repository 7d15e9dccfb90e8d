----------------------------- MODULE MCCredentials -----------------------------
(***************************************************************************)
(* Who is let in by auth, with Credentials and with SigningKeys: two       *)
(* callers, two codes sent to one phone, one key, one agent with two       *)
(* permissions of which the table refuses one, two requests at once; and   *)
(* three signing keys, two of them by one name, on two replicas, rotated   *)
(* in their order.                                                         *)
(*                                                                         *)
(* SigningKeys, the TOTP secrets and the rest of Credentials share no      *)
(* state, so that an invariant of one of them that holds while the others  *)
(* rest holds when they run side by side.                                  *)
(***************************************************************************)
EXTENDS Credentials, SigningKeys, TLC

MCKidOf == <<"v1", "v2", "v1">>

MCInit == CredInit /\ SigningInit /\ deployed = 1

\* What rests has not left its initial state.
SigningRests == deployed = 1 /\ tokens = {} /\ \A a \in Replicas : signing[a] = 1
TOTPRests == totp = [c \in Callers |-> "none"]
OthersRest == attempts = <<>> /\ \A k \in KeyIds : maker[k] = Nobody
                              /\ \A a \in AgentIds : wanted[a].owner = Nobody

MCNext ==
  \/ SigningRests /\ CredNext /\ (TOTPRests' \/ OthersRest') /\ UNCHANGED signingVars
  \/ TOTPRests /\ OthersRest /\ SigningNext /\ UNCHANGED credVars /\ deployed' >= deployed

MCSpec == MCInit /\ [][MCNext]_<<credVars, signingVars>>

Interchangeable ==
  Permutations(Callers) \cup Permutations(Codes) \cup Permutations(Handlers)

=============================================================================
