-------------------------------- MODULE MCEdge --------------------------------
(***************************************************************************)
(* Three events, one client of the health service, and a buffer of one     *)
(* worker and batches of two rows, which the third event finds full when   *)
(* the worker is behind. Requests that have not begun are alike: the       *)
(* lowest number goes first.                                               *)
(***************************************************************************)
EXTENDS Edge

InOrder ==
    \A d, e \in Rows :
        d < e /\ handler[d] = "none" => handler'[e] = handler[e]

MCSpec ==
    /\ Init /\ [][Next /\ InOrder]_vars
    /\ \A e \in Rows : WF_vars(Handle(e)) /\ WF_vars(SendFeatureEvent(e))
    /\ \A w \in Workers : WF_vars(Worker(w))
    /\ \A c \in Clients : WF_vars(EndCall(c, "check"))
    /\ WF_vars(Stop)
=============================================================================
