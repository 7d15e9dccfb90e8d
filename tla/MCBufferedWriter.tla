-------------------------- MODULE MCBufferedWriter --------------------------
(***************************************************************************)
(* Instances of BufferedWriter.  Enqueue calls that have not begun are     *)
(* alike, and so are those between their two selects, so rows may be       *)
(* numbered: MCSpec lets the lowest go first at either select, and loses   *)
(* only behaviours that differ from one of its own in the names of rows.   *)
(***************************************************************************)
EXTENDS BufferedWriter

InOrder ==
    \A q, r \in Rows :
        q < r /\ caller[q] = caller[r] /\ caller[r] \in {"idle", "checked"}
        => caller'[r] = caller[r]

MCSpec ==
    /\ BufferInit /\ [][BufferNext /\ InOrder]_bufferVars
    /\ \A r \in Rows : WF_bufferVars(EnqueueSend(r) \/ EnqueueRefuse(r))
    /\ \A w \in Workers : WF_bufferVars(runWorker(w))
    /\ WF_bufferVars(CloseReturn)
=============================================================================
