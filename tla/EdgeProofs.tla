------------------------------ MODULE EdgeProofs ------------------------------
(***************************************************************************)
(* Proofs about BufferedWriter and about Edge, the pod around it, for any  *)
(* rows and clients, any number of workers and any batch size: a row is    *)
(* never lost track of or taken twice, Close leaves behind only rows that  *)
(* were being enqueued when it started, and a pod stops its parts in the   *)
(* order in which they use each other.                                     *)
(***************************************************************************)
EXTENDS Edge, FiniteSetTheorems, TLAPS

-----------------------------------------------------------------------------
(* Sequences without duplicates, as queues.                                *)

\* Sending puts the row in and nothing else.
LEMMA AppendQueue ==
    ASSUME NEW S, NEW s \in Seq(S), NEW x \in S
    PROVE  /\ Append(s, x) \in Seq(S)
           /\ Len(Append(s, x)) = Len(s) + 1
           /\ Range(Append(s, x)) = Range(s) \cup {x}
           /\ IsInjective(s) /\ x \notin Range(s) => IsInjective(Append(s, x))
<1>1. /\ Append(s, x) \in Seq(S)
      /\ Len(Append(s, x)) = Len(s) + 1
      /\ DOMAIN Append(s, x) = DOMAIN s \cup {Len(s) + 1}
      /\ \A i \in DOMAIN s : Append(s, x)[i] = s[i]
      /\ Append(s, x)[Len(s) + 1] = x
    OBVIOUS
<1>2. Range(Append(s, x)) = Range(s) \cup {x}
    BY <1>1 DEF Range
<1>3. ASSUME IsInjective(s), x \notin Range(s) PROVE IsInjective(Append(s, x))
    BY <1>1, <1>3 DEF IsInjective, Range
<1> QED
    BY <1>1, <1>2, <1>3

\* Receiving takes the first row out and nothing else.
LEMMA TailQueue ==
    ASSUME NEW S, NEW s \in Seq(S), s # <<>>
    PROVE  /\ Tail(s) \in Seq(S)
           /\ Len(Tail(s)) = Len(s) - 1
           /\ Head(s) \in S
           /\ Range(s) = {Head(s)} \cup Range(Tail(s))
           /\ IsInjective(s) => IsInjective(Tail(s)) /\ Head(s) \notin Range(Tail(s))
<1>1. /\ Tail(s) \in Seq(S)
      /\ Len(Tail(s)) = Len(s) - 1
      /\ Head(s) = s[1]
      /\ Len(s) \in Nat \ {0}
      /\ DOMAIN s = 1 .. Len(s)
      /\ DOMAIN Tail(s) = 1 .. (Len(s) - 1)
      /\ \A i \in 1 .. (Len(s) - 1) : Tail(s)[i] = s[i + 1]
    OBVIOUS
<1>2. Head(s) \in S
    BY <1>1
<1>3. Range(s) = {Head(s)} \cup Range(Tail(s))
  <2>1. ASSUME NEW x \in Range(s) PROVE x \in {Head(s)} \cup Range(Tail(s))
    <3>1. PICK i \in 1 .. Len(s) : x = s[i]
      BY <1>1 DEF Range
    <3>2. CASE i = 1
      BY <1>1, <3>1, <3>2
    <3>3. CASE i # 1
      <4>1. i - 1 \in 1 .. (Len(s) - 1) /\ Tail(s)[i - 1] = x
        BY <1>1, <3>1, <3>3
      <4> QED
        BY <1>1, <4>1 DEF Range
    <3> QED
      BY <3>2, <3>3
  <2>2. ASSUME NEW x \in {Head(s)} \cup Range(Tail(s)) PROVE x \in Range(s)
    BY <1>1 DEF Range
  <2> QED
    BY <2>1, <2>2
<1>4. ASSUME IsInjective(s) PROVE IsInjective(Tail(s)) /\ Head(s) \notin Range(Tail(s))
  <2>1. \A i, j \in 1 .. Len(s) : s[i] = s[j] => i = j
    BY <1>1, <1>4 DEF IsInjective
  <2> QED
    BY <1>1, <2>1 DEF IsInjective, Range
<1> QED
    BY <1>1, <1>2, <1>3, <1>4

\* The channel's capacity is a number.
LEMMA CapacityIsNat == Capacity \in Nat
<1>1. Cardinality(Workers) \in Nat
    BY BufferAssumption, FS_CardinalityType
<1> QED
    BY <1>1, BufferAssumption DEF Capacity

-----------------------------------------------------------------------------
(* The inductive invariant of BufferedWriter.                              *)

\* How far a shutdown has come, and what that means for the channel: once a
\* worker has found it empty after done was closed, only Enqueues that had
\* passed their first select before can fill it again.
Shutdown ==
    /\ done <=> closer # "open"
    /\ done => \A r \in Rows : caller[r] = "checked" => r \in raced
    /\ \A w \in Workers : pc[w] \in {"drain", "final", "stopped"} => done
    /\ (\E w \in Workers : pc[w] \in {"final", "stopped"}) => Range(ch) \subseteq raced
    /\ \A w \in Workers : pc[w] = "stopped" => batch[w] = {}
    /\ closer = "returned" => \A w \in Workers : pc[w] = "stopped"

BufferInv == BufferTypeOK /\ NoRowVanishes /\ NoRowTwice /\ Shutdown

LEMMA BufferInitInv == BufferInit => BufferInv
<1> SUFFICES ASSUME BufferInit PROVE BufferInv
    OBVIOUS
<1>1. BufferTypeOK
  <2>1. ch \in Seq(Rows) /\ Len(ch) <= Capacity
    BY CapacityIsNat DEF BufferInit
  <2>2. /\ caller \in [Rows -> {"idle", "checked", "accepted", "refused"}]
        /\ pc \in [Workers -> {"select", "write", "drain", "final", "stopped"}]
        /\ batch \in [Workers -> SUBSET Rows]
    BY DEF BufferInit
  <2> QED
    BY <2>1, <2>2 DEF BufferInit, BufferTypeOK
<1>2. Range(ch) = {} /\ IsInjective(ch)
    BY DEF BufferInit, Range, IsInjective
<1>3. Held = {} /\ Accepted = {} /\ stored = {} /\ failed = {}
    BY DEF BufferInit, Held, Accepted
<1>4. NoRowVanishes /\ NoRowTwice
    BY <1>2, <1>3 DEF BufferInit, NoRowVanishes, NoRowTwice
<1>5. Shutdown
    BY <1>2 DEF BufferInit, Shutdown
<1> QED
    BY <1>1, <1>4, <1>5 DEF BufferInv

LEMMA BufferTypeStep == BufferTypeOK /\ [BufferNext]_bufferVars => BufferTypeOK'
<1> SUFFICES ASSUME BufferTypeOK, [BufferNext]_bufferVars PROVE BufferTypeOK'
    OBVIOUS
<1> USE DEF BufferTypeOK, Go, Return
<1>1. ASSUME NEW r \in Rows, Enqueue(r) PROVE BufferTypeOK'
  <2>1. ch' \in Seq(Rows) /\ Len(ch') <= Capacity
    BY <1>1, AppendQueue, CapacityIsNat
       DEF Enqueue, EnqueueCheck, EnqueueSend, EnqueueRefuse
  <2> QED
    BY <1>1, <2>1 DEF Enqueue, EnqueueCheck, EnqueueSend, EnqueueRefuse
<1>2. ASSUME NEW w \in Workers, Receive(w) \/ DrainReceive(w) PROVE BufferTypeOK'
  <2>1. /\ ch # <<>>
        /\ ch' = Tail(ch)
        /\ batch' = [batch EXCEPT ![w] = @ \cup {Head(ch)}]
    BY <1>2 DEF Receive, DrainReceive
  <2>2. ch' \in Seq(Rows) /\ Len(ch') <= Capacity /\ Head(ch) \in Rows
    BY <2>1, TailQueue, CapacityIsNat
  <2>3. batch' \in [Workers -> SUBSET Rows]
    BY <2>1, <2>2
  <2> QED
    BY <1>2, <2>2, <2>3 DEF Receive, DrainReceive
<1>3. ASSUME NEW w \in Workers, Flush(w) \/ FinalFlush(w) PROVE BufferTypeOK'
    BY <1>3 DEF Flush, FinalFlush, WriteBatch
<1>4. ASSUME NEW w \in Workers, Interval(w) \/ SeeDone(w) \/ DrainEmpty(w) PROVE BufferTypeOK'
    BY <1>4 DEF Interval, SeeDone, DrainEmpty
<1>5. CASE CloseDone \/ CloseReturn
    BY <1>5 DEF CloseDone, CloseReturn
<1>6. CASE UNCHANGED bufferVars
    BY <1>6 DEF bufferVars
<1> QED
    BY <1>1, <1>2, <1>3, <1>4, <1>5, <1>6 DEF BufferNext, runWorker

\* Rows move from callers to the channel, from there to one batch, and from the
\* batch to ClickHouse or to the failed rows.
LEMMA MoveStep == BufferInv /\ [BufferNext]_bufferVars => NoRowVanishes' /\ NoRowTwice'
<1> SUFFICES ASSUME BufferInv, [BufferNext]_bufferVars PROVE NoRowVanishes' /\ NoRowTwice'
    OBVIOUS
<1> USE DEF BufferInv
<1>1. ASSUME UNCHANGED <<caller, ch, batch, stored, failed>>
      PROVE  NoRowVanishes' /\ NoRowTwice'
    BY <1>1 DEF NoRowVanishes, NoRowTwice, Accepted, Held
<1>2. ASSUME NEW r \in Rows, Enqueue(r) PROVE NoRowVanishes' /\ NoRowTwice'
  <2>1. CASE EnqueueSend(r)
    <3>1. /\ r \notin Accepted
          /\ Accepted' = Accepted \cup {r}
          /\ ch' = Append(ch, r)
          /\ UNCHANGED <<batch, stored, failed>>
      BY <2>1 DEF EnqueueSend, Return, Accepted, BufferTypeOK
    <3>2. r \notin Range(ch) /\ r \notin Held /\ r \notin stored /\ r \notin failed
      BY <3>1 DEF NoRowVanishes
    <3>3. Range(ch') = Range(ch) \cup {r} /\ IsInjective(ch')
      BY <3>1, <3>2, AppendQueue DEF NoRowTwice, BufferTypeOK
    <3>4. Held' = Held
      BY <3>1 DEF Held
    <3> QED
      BY <3>1, <3>2, <3>3, <3>4 DEF NoRowVanishes, NoRowTwice
  <2>2. CASE EnqueueCheck(r) \/ EnqueueRefuse(r)
    <3>1. Accepted' = Accepted /\ UNCHANGED <<ch, batch, stored, failed>>
      BY <2>2 DEF EnqueueCheck, EnqueueRefuse, Return, Accepted, BufferTypeOK
    <3> QED
      BY <3>1 DEF NoRowVanishes, NoRowTwice, Held
  <2> QED
    BY <1>2, <2>1, <2>2 DEF Enqueue
<1>3. ASSUME NEW w \in Workers, Receive(w) \/ DrainReceive(w)
      PROVE  NoRowVanishes' /\ NoRowTwice'
  <2>1. /\ ch # <<>>
        /\ ch' = Tail(ch)
        /\ batch' = [batch EXCEPT ![w] = @ \cup {Head(ch)}]
        /\ UNCHANGED <<caller, stored, failed>>
    BY <1>3 DEF Receive, DrainReceive
  <2>2. /\ Range(ch) = {Head(ch)} \cup Range(ch')
        /\ IsInjective(ch') /\ Head(ch) \notin Range(ch')
    BY <2>1, TailQueue DEF NoRowTwice, BufferTypeOK
  <2>3. Held' = Held \cup {Head(ch)}
    BY <2>1 DEF Held, BufferTypeOK
  <2>4. \A v, u \in Workers : v # u => batch'[v] \cap batch'[u] = {}
    BY <2>1, <2>2 DEF NoRowTwice, Held, BufferTypeOK
  <2> QED
    BY <2>1, <2>2, <2>3, <2>4 DEF NoRowVanishes, NoRowTwice, Accepted
<1>4. ASSUME NEW w \in Workers, Flush(w) \/ FinalFlush(w)
      PROVE  NoRowVanishes' /\ NoRowTwice'
  <2>1. /\ batch' = [batch EXCEPT ![w] = {}]
        /\ UNCHANGED <<caller, ch>>
        /\ \/ stored' = stored \cup batch[w] /\ failed' = failed
           \/ failed' = failed \cup batch[w] /\ stored' = stored
    BY <1>4 DEF Flush, FinalFlush, WriteBatch
  <2>2. Held = Held' \cup batch[w]
    BY <2>1 DEF Held, BufferTypeOK
  <2>3. Held' \cap batch[w] = {}
    BY <2>1 DEF Held, NoRowTwice, BufferTypeOK
  <2>4. \A v, u \in Workers : v # u => batch'[v] \cap batch'[u] = {}
    BY <2>1 DEF NoRowTwice, BufferTypeOK
  <2> QED
    BY <2>1, <2>2, <2>3, <2>4 DEF NoRowVanishes, NoRowTwice, Accepted
<1>5. ASSUME NEW w \in Workers, Interval(w) \/ SeeDone(w) \/ DrainEmpty(w)
      PROVE  NoRowVanishes' /\ NoRowTwice'
    BY <1>1, <1>5 DEF Interval, SeeDone, DrainEmpty
<1>6. CASE CloseDone \/ CloseReturn
    BY <1>1, <1>6 DEF CloseDone, CloseReturn
<1>7. CASE UNCHANGED bufferVars
    BY <1>1, <1>7 DEF bufferVars
<1> QED
    BY <1>2, <1>3, <1>4, <1>5, <1>6, <1>7 DEF BufferNext, runWorker

\* Close and the workers' drain loops keep the shutdown in order.
LEMMA ShutdownStep == BufferInv /\ [BufferNext]_bufferVars => Shutdown'
<1> SUFFICES ASSUME BufferInv, [BufferNext]_bufferVars PROVE Shutdown'
    OBVIOUS
<1> USE DEF BufferInv
<1>1. BufferTypeOK'
    BY BufferTypeStep
<1>2. ASSUME NEW r \in Rows, Enqueue(r) PROVE Shutdown'
  <2>1. UNCHANGED <<done, closer, pc, batch, raced>>
    BY <1>2 DEF Enqueue, EnqueueCheck, EnqueueSend, EnqueueRefuse
  <2>2. done => \A q \in Rows : caller'[q] = "checked" => q \in raced
    BY <1>2 DEF Enqueue, EnqueueCheck, EnqueueSend, EnqueueRefuse, Return, BufferTypeOK, Shutdown
  <2>3. Range(ch') \subseteq Range(ch) \cup raced \/ ~done
    <3>1. CASE EnqueueSend(r)
      BY <3>1, AppendQueue DEF EnqueueSend, BufferTypeOK, Shutdown
    <3>2. CASE ~EnqueueSend(r)
      BY <1>2, <3>2 DEF Enqueue, EnqueueCheck, EnqueueRefuse
    <3> QED
      BY <3>1, <3>2
  <2> QED
    BY <2>1, <2>2, <2>3 DEF Shutdown
<1>3. ASSUME NEW w \in Workers, Receive(w) \/ DrainReceive(w) PROVE Shutdown'
  <2>1. Range(ch') \subseteq Range(ch)
    BY <1>3, TailQueue DEF Receive, DrainReceive, BufferTypeOK
  <2>2. UNCHANGED <<caller, done, closer, raced>>
    BY <1>3 DEF Receive, DrainReceive
  <2>3. /\ pc[w] \in {"select", "drain"}
        /\ pc'[w] \in {"select", "write", "drain"}
        /\ pc'[w] = "drain" => pc[w] = "drain"
        /\ \A v \in Workers \ {w} : pc'[v] = pc[v] /\ batch'[v] = batch[v]
    BY <1>3 DEF Receive, DrainReceive, Go, BufferTypeOK
  <2> QED
    BY <2>1, <2>2, <2>3 DEF Shutdown
<1>4. ASSUME NEW w \in Workers, Flush(w) \/ FinalFlush(w) PROVE Shutdown'
  <2>1. UNCHANGED <<caller, ch, done, closer, raced>>
    BY <1>4 DEF Flush, FinalFlush
  <2>2. /\ batch'[w] = {}
        /\ \A v \in Workers \ {w} : pc'[v] = pc[v] /\ batch'[v] = batch[v]
        /\ \/ pc[w] = "write" /\ pc'[w] = "select"
           \/ pc[w] = "final" /\ pc'[w] = "stopped"
    BY <1>4 DEF Flush, FinalFlush, WriteBatch, Go, BufferTypeOK
  <2> QED
    BY <2>1, <2>2 DEF Shutdown
<1>5. ASSUME NEW w \in Workers, Interval(w) \/ SeeDone(w) \/ DrainEmpty(w) PROVE Shutdown'
  <2>1. UNCHANGED <<caller, ch, done, closer, batch, raced>>
    BY <1>5 DEF Interval, SeeDone, DrainEmpty
  <2>2. /\ \A v \in Workers \ {w} : pc'[v] = pc[v]
        /\ \/ pc[w] = "select" /\ pc'[w] = "write"
           \/ pc[w] = "select" /\ pc'[w] = "drain" /\ done
           \/ pc[w] = "drain" /\ pc'[w] = "final" /\ ch = <<>>
    BY <1>5 DEF Interval, SeeDone, DrainEmpty, Go, BufferTypeOK
  <2>3. ch = <<>> => Range(ch) = {}
    BY DEF Range
  <2> QED
    BY <2>1, <2>2, <2>3 DEF Shutdown
<1>6. CASE CloseDone
    BY <1>6 DEF CloseDone, Shutdown, BufferTypeOK
<1>7. CASE CloseReturn
    BY <1>7 DEF CloseReturn, Shutdown, BufferTypeOK
<1>8. CASE UNCHANGED bufferVars
    BY <1>8 DEF bufferVars, Shutdown
<1> QED
    BY <1>2, <1>3, <1>4, <1>5, <1>6, <1>7, <1>8 DEF BufferNext, runWorker

LEMMA BufferInvariance == BufferSpec => []BufferInv
<1>1. BufferInit => BufferInv
    BY BufferInitInv
<1>2. BufferInv /\ [BufferNext]_bufferVars => BufferInv'
    BY BufferTypeStep, MoveStep, ShutdownStep DEF BufferInv
<1> QED
    BY <1>1, <1>2, PTL DEF BufferSpec

-----------------------------------------------------------------------------
(* The theorems about BufferedWriter.                                      *)

\* Callers, channel, workers and batches keep their types.
THEOREM BufferTyped == BufferSpec => []BufferTypeOK
<1>1. BufferInv => BufferTypeOK
    BY DEF BufferInv
<1> QED
    BY <1>1, BufferInvariance, PTL

\* Every row for which Enqueue returned true is accounted for, in exactly one
\* place, however callers, workers and Close interleave.
THEOREM EveryRowOnce == BufferSpec => []RowsConserved
<1>1. BufferInv => RowsConserved
    BY DEF BufferInv, RowsConserved
<1> QED
    BY <1>1, BufferInvariance, PTL

\* A shutdown leaves no accepted row in a batch, and on the channel only rows
\* whose Enqueue had begun before done was closed.
THEOREM CloseLeaves == BufferSpec => []CloseLeavesOnlyRaced
<1>1. BufferInv => CloseLeavesOnlyRaced
    BY BufferAssumption DEF BufferInv, Shutdown, CloseLeavesOnlyRaced, Held
<1> QED
    BY <1>1, BufferInvariance, PTL

\* ClickHouse sees no write after Close has returned, so the connection may be
\* closed next.
THEOREM NoLateWrite == BufferSpec => NoWriteAfterClose
<1>1. BufferInv /\ [BufferNext]_bufferVars =>
        [closer = "returned" => UNCHANGED <<stored, failed>>]_bufferVars
  <2> SUFFICES ASSUME BufferInv, [BufferNext]_bufferVars, closer = "returned"
               PROVE  UNCHANGED <<stored, failed>>
      OBVIOUS
  <2>1. \A w \in Workers : pc[w] = "stopped"
      BY DEF BufferInv, Shutdown
  <2> QED
      BY <2>1 DEF BufferNext, bufferVars, runWorker, Enqueue, EnqueueCheck, EnqueueSend, EnqueueRefuse,
             Receive, Interval, Flush, SeeDone, DrainReceive, DrainEmpty, FinalFlush,
             CloseDone, CloseReturn
<1> QED
    BY <1>1, BufferInvariance, PTL DEF BufferSpec, NoWriteAfterClose

-----------------------------------------------------------------------------
(* Edge. Whatever the pod does, its buffer takes a step of BufferedWriter  *)
(* or none.                                                                *)

LEMMA BufferStep == [Next]_vars => [BufferNext]_bufferVars
    BY DEF Next, vars, BufferNext, Admit, Handle, EnqueueRow, Answer, SendFeatureEvent,
           Worker, Call, EndCall, Terminate, Stop, GracefulStop, ShutdownHTTP,
           CloseProducer, CloseBuffer, AwaitBuffer, CloseConn, Kill

\* How far main is, and what that means for the parts: until the producer is
\* closed the buffer is open, and after that no handler runs that Shutdown did
\* not give up on.
PhaseInv ==
    /\ phase \in {"serving", "grpc", "http"} => producer /\ ~done
    /\ ~forced /\ (phase \in {"producer", "buffer", "conn", "exited"} \/ ~producer \/ done) =>
          Running = {}
    /\ phase \in {"serving", "grpc", "http", "producer", "buffer", "conn"} => conn = hot
    /\ phase = "conn" => hot
    /\ phase \in {"conn", "exited"} /\ hot => closer = "returned"
    /\ hot /\ ~conn => closer = "returned"

\* A handler that is in Enqueue runs, and one that has answered had left it;
\* so no row races Close unless Shutdown gave up on its handler.
HandlerInv ==
    /\ \A e \in Rows : caller[e] # "idle" => hot
    /\ \A e \in Rows : caller[e] = "checked" => handler[e] = "running"
    /\ \A e \in Rows : handler[e] = "answered" /\ hot => caller[e] \in {"accepted", "refused"}
    /\ ~done \/ ~forced => raced = {}

EdgeInv == TypeOK /\ BufferInv /\ PhaseInv /\ HandlerInv

LEMMA EdgeInitInv == Init => EdgeInv
<1> SUFFICES ASSUME Init PROVE EdgeInv
    OBVIOUS
<1>1. BufferInv
    BY BufferInitInv DEF Init
<1>2. TypeOK
    BY <1>1 DEF Init, TypeOK, Phases, BufferInv
<1>3. PhaseInv /\ HandlerInv
    BY DEF Init, BufferInit, PhaseInv, HandlerInv, Running
<1> QED
    BY <1>1, <1>2, <1>3 DEF EdgeInv

LEMMA EdgeTypeStep == TypeOK /\ [Next]_vars => TypeOK'
<1> SUFFICES ASSUME TypeOK, [Next]_vars PROVE TypeOK'
    OBVIOUS
<1>1. BufferTypeOK'
    BY BufferStep, BufferTypeStep DEF TypeOK
<1> USE <1>1 DEF TypeOK, Phases
<1>2. ASSUME NEW e \in Rows, Admit(e) \/ Handle(e) \/ SendFeatureEvent(e) PROVE TypeOK'
    BY <1>2 DEF Admit, Handle, EnqueueRow, Answer, SendFeatureEvent, edgeVars
<1>3. ASSUME NEW w \in Workers, Worker(w) PROVE TypeOK'
    BY <1>3 DEF Worker, edgeVars
<1>4. ASSUME NEW c \in Clients, NEW kind \in {"check", "watch"},
             Call(c, kind) \/ EndCall(c, kind)
      PROVE  TypeOK'
    BY <1>4 DEF Call, EndCall
<1>5. CASE Terminate \/ Kill \/ GracefulStop \/ ShutdownHTTP \/ CloseProducer
    BY <1>5 DEF Terminate, Kill, GracefulStop, ShutdownHTTP, CloseProducer
<1>6. CASE CloseBuffer \/ AwaitBuffer \/ CloseConn
    BY <1>6 DEF CloseBuffer, AwaitBuffer, CloseConn, edgeVars
<1>7. CASE UNCHANGED vars
    BY <1>7 DEF vars, edgeVars
<1> QED
    BY <1>2, <1>3, <1>4, <1>5, <1>6, <1>7 DEF Next, Stop

\* Handlers come and go in their phases, and main waits for them, its buffer
\* and its workers in their order.
LEMMA EdgeStep == EdgeInv /\ [Next]_vars => EdgeInv'
<1> SUFFICES ASSUME EdgeInv, [Next]_vars PROVE EdgeInv'
    OBVIOUS
<1>1. TypeOK'
    BY EdgeTypeStep DEF EdgeInv
<1>2. BufferInv'
    BY BufferStep, BufferTypeStep, MoveStep, ShutdownStep DEF EdgeInv, BufferInv
<1>3. SUFFICES PhaseInv' /\ HandlerInv'
    BY <1>1, <1>2 DEF EdgeInv
<1>4. TypeOK /\ PhaseInv /\ HandlerInv
    BY DEF EdgeInv
<1>5. ASSUME NEW e \in Rows, Admit(e) PROVE PhaseInv' /\ HandlerInv'
  <2>1. PhaseInv'
    BY <1>4, <1>5 DEF Admit, PhaseInv, bufferVars
  <2>2. HandlerInv'
    BY <1>4, <1>5 DEF Admit, HandlerInv, TypeOK, BufferTypeOK, bufferVars
  <2> QED
    BY <2>1, <2>2
<1>6. ASSUME NEW e \in Rows, EnqueueRow(e) PROVE PhaseInv' /\ HandlerInv'
  <2>1. /\ UNCHANGED <<edgeVars, done, closer, raced>>
        /\ hot /\ handler[e] = "running"
        /\ \E result \in {"checked", "accepted", "refused"} :
              caller' = [caller EXCEPT ![e] = result]
    BY <1>6 DEF EnqueueRow, Enqueue, EnqueueCheck, EnqueueSend, EnqueueRefuse, Return
  <2>2. PhaseInv'
    BY <1>4, <2>1 DEF edgeVars, PhaseInv, Running
  <2>3. HandlerInv'
    BY <1>4, <2>1 DEF edgeVars, HandlerInv, TypeOK, BufferTypeOK
  <2> QED
    BY <2>2, <2>3
<1>7. ASSUME NEW e \in Rows, Answer(e) PROVE PhaseInv' /\ HandlerInv'
  <2>1. PhaseInv'
    BY <1>4, <1>7 DEF Answer, PhaseInv, bufferVars, Running, TypeOK
  <2>2. HandlerInv'
    BY <1>4, <1>7 DEF Answer, HandlerInv, TypeOK, BufferTypeOK, bufferVars
  <2> QED
    BY <2>1, <2>2
<1>8. ASSUME NEW w \in Workers, Worker(w) PROVE PhaseInv' /\ HandlerInv'
  <2>1. UNCHANGED <<edgeVars, caller, done, closer, raced>>
    BY <1>8 DEF Worker, runWorker, Receive, Interval, Flush, SeeDone, DrainReceive,
           DrainEmpty, FinalFlush
  <2> QED
    BY <1>4, <2>1 DEF PhaseInv, HandlerInv, edgeVars, Running
<1>9. CASE Terminate \/ Kill \/ GracefulStop \/ CloseProducer
    BY <1>4, <1>9 DEF Terminate, Kill, GracefulStop, CloseProducer, bufferVars, Up, PhaseInv,
           HandlerInv, Running
<1>10. CASE ShutdownHTTP
    BY <1>4, <1>10 DEF ShutdownHTTP, bufferVars, PhaseInv, HandlerInv, Running, TypeOK
<1>11. CASE CloseBuffer
  <2>1. PhaseInv'
    BY <1>4, <1>11 DEF CloseBuffer, CloseDone, edgeVars, PhaseInv, Running, TypeOK
  <2>2. ~forced => {r \in Rows : caller[r] = "checked"} = {}
    BY <1>4, <1>11 DEF CloseBuffer, PhaseInv, HandlerInv, Running
  <2>3. HandlerInv'
    BY <1>4, <1>11, <2>2 DEF CloseBuffer, CloseDone, edgeVars, HandlerInv
  <2> QED
    BY <2>1, <2>3
<1>12. CASE AwaitBuffer \/ CloseConn
    BY <1>4, <1>12 DEF AwaitBuffer, CloseReturn, CloseConn, bufferVars, PhaseInv, HandlerInv,
           Running, TypeOK
<1>13. ASSUME NEW e \in Rows, SendFeatureEvent(e) PROVE PhaseInv' /\ HandlerInv'
    BY <1>4, <1>13 DEF SendFeatureEvent, bufferVars, PhaseInv, HandlerInv, Running
<1>14. ASSUME NEW c \in Clients, NEW kind \in {"check", "watch"},
              Call(c, kind) \/ EndCall(c, kind)
       PROVE  PhaseInv' /\ HandlerInv'
    BY <1>4, <1>14 DEF Call, EndCall, bufferVars, PhaseInv, HandlerInv, Running
<1>15. CASE UNCHANGED vars
    BY <1>4, <1>15 DEF vars, edgeVars, bufferVars, PhaseInv, HandlerInv, Running
<1> QED
    BY <1>5, <1>6, <1>7, <1>8, <1>9, <1>10, <1>11, <1>12, <1>13, <1>14, <1>15
       DEF Next, Handle, Stop

LEMMA EdgeInvariance == Spec => []EdgeInv
    BY EdgeInitInv, EdgeStep, PTL DEF Spec

-----------------------------------------------------------------------------
(* The theorems about Edge.                                                *)

\* The parts of the pod keep their types.
THEOREM EdgeTyped == Spec => []TypeOK
<1>1. EdgeInv => TypeOK
    BY DEF EdgeInv
<1> QED
    BY <1>1, EdgeInvariance, PTL

\* The buffer of a pod behaves as BufferedWriter does, so that what is proved
\* of that, rows in one place and no write after Close, holds in the pod.
THEOREM PodUsesBuffer == Spec => BufferSpec
<1>1. Init => BufferInit
    BY DEF Init
<1> QED
    BY <1>1, BufferStep, PTL DEF Spec, BufferSpec

\* The producer and the buffer are closed after the handlers that use them have
\* ended, unless Shutdown gave up on one, and the connection to ClickHouse after
\* the workers have stopped: for any number of requests, workers and clients.
THEOREM PartsStopInOrder == Spec => []StopsInOrder
<1>1. EdgeInv => StopsInOrder
    BY DEF EdgeInv, PhaseInv, BufferInv, Shutdown, StopsInOrder
<1> QED
    BY <1>1, EdgeInvariance, PTL

\* A pod that exits by itself has written, or counted as refused or failed, the
\* row of every event that it answered, unless Shutdown gave up on a handler.
THEOREM NothingIsLeftBehind == Spec => []NothingLeftBehind
<1>1. ASSUME EdgeInv, phase = "exited", hot, ~forced,
             NEW e \in Rows, handler[e] = "answered"
      PROVE  caller[e] = "refused" \/ e \in stored \cup failed
  <2>1. closer = "returned" /\ raced = {} /\ caller[e] \in {"accepted", "refused"}
    BY <1>1 DEF EdgeInv, PhaseInv, HandlerInv
  <2>2. Held = {} /\ Range(ch) = {}
    BY <1>1, <2>1, BufferAssumption DEF EdgeInv, BufferInv, Shutdown, Held
  <2> QED
    BY <1>1, <2>1, <2>2 DEF EdgeInv, BufferInv, NoRowVanishes, Accepted
<1>2. EdgeInv => NothingLeftBehind
    BY <1>1 DEF NothingLeftBehind
<1> QED
    BY <1>2, EdgeInvariance, PTL
=============================================================================
