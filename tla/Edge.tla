-------------------------------- MODULE Edge --------------------------------
(***************************************************************************)
(* A pod of the ingestion service around its buffer: HTTP requests that    *)
(* bring events, the goroutines that send them on to Redpanda, the gRPC    *)
(* health service, and the main goroutine's shutdown.  The buffer is       *)
(* BufferedWriter, whose steps are taken here by the handlers, by its own  *)
(* workers, and by main when it returns; an event is named by its row, and *)
(* has a handler of its own.                                               *)
(*                                                                         *)
(*   src/services/ingestion/cmd/server/main.go                             *)
(*   src/services/ingestion/internal/kafka/feature_producer.go             *)
(*                                                                         *)
(* A request that is refused (method, rate limit, no tenant) changes       *)
(* nothing that is kept.  What /readyz answers, and the tenant that a      *)
(* middleware sets on some connection of the pool of Postgres, are left    *)
(* out: nothing here reads them.                                           *)
(***************************************************************************)
EXTENDS BufferedWriter

CONSTANT Clients   \* callers of the gRPC health service

VARIABLES
    phase,     \* where main is
    hot,       \* ClickHouse was there at the start: bufWriter is not nil
    handler,   \* handler[e]: none, running, answered
    feature,   \* feature[e]: the goroutine that sends e to Redpanda
    rpc,       \* rpc[c]: the call of c that is under way
    producer,  \* the Kafka client is open
    conn,      \* the connection to ClickHouse is open
    forced     \* history: Shutdown gave up on handlers that were running

edgeVars == <<phase, hot, handler, feature, rpc, producer, conn, forced>>
vars == <<edgeVars, bufferVars>>

\* In this order, unless the process is killed.
Phases == {"serving", "grpc", "http", "producer", "buffer", "conn", "exited", "killed"}

TypeOK ==
    /\ phase \in Phases
    /\ {hot, producer, conn, forced} \subseteq BOOLEAN
    /\ handler \in [Rows -> {"none", "running", "answered"}]
    /\ feature \in [Rows -> {"none", "sending", "published", "failed"}]
    /\ rpc \in [Clients -> {"none", "check", "watch"}]
    /\ BufferTypeOK

\* Start: without ClickHouse the hot store is disabled, and all else goes on.
Init ==
    /\ phase = "serving"
    /\ hot \in BOOLEAN
    /\ handler = [e \in Rows |-> "none"]
    /\ feature = [e \in Rows |-> "none"]
    /\ rpc = [c \in Clients |-> "none"]
    /\ producer = TRUE
    /\ conn = hot
    /\ forced = FALSE
    /\ BufferInit

Up == phase \notin {"exited", "killed"}
Running == {e \in Rows : handler[e] = "running"}

-----------------------------------------------------------------------------
(* POST /v1/events.                                                        *)

\* The listener is open until Shutdown; the request passes the checks.
Admit(e) ==
    /\ phase \in {"serving", "grpc"}
    /\ handler[e] = "none"
    /\ handler' = [handler EXCEPT ![e] = "running"]
    /\ UNCHANGED <<phase, hot, feature, rpc, producer, conn, forced, bufferVars>>

\* With a hot store the row is put in the buffer, which may refuse it.
EnqueueRow(e) ==
    /\ Up /\ hot /\ handler[e] = "running"
    /\ Enqueue(e)
    /\ UNCHANGED edgeVars

\* Then a goroutine is started for the feature event, and the client is told
\* that its event was accepted, whatever the buffer said.
Answer(e) ==
    /\ Up /\ handler[e] = "running"
    /\ hot => caller[e] \in {"accepted", "refused"}
    /\ handler' = [handler EXCEPT ![e] = "answered"]
    /\ feature' = [feature EXCEPT ![e] = "sending"]
    /\ UNCHANGED <<phase, hot, rpc, producer, conn, forced, bufferVars>>

\* SendFeatureEvent ends within two seconds, in time or with an error, which
\* is logged; a client that was closed returns an error at once.
SendFeatureEvent(e) ==
    /\ Up /\ feature[e] = "sending"
    /\ \/ producer /\ feature' = [feature EXCEPT ![e] = "published"]
       \/ feature' = [feature EXCEPT ![e] = "failed"]
    /\ UNCHANGED <<phase, hot, handler, rpc, producer, conn, forced, bufferVars>>

-----------------------------------------------------------------------------
(* The gRPC server: the health service. A call to Check passes the unary   *)
(* interceptors; Watch is a stream, which no interceptor sees, and lasts   *)
(* until its client ends it.                                               *)

Call(c, kind) ==
    /\ phase = "serving"
    /\ rpc[c] = "none"
    /\ rpc' = [rpc EXCEPT ![c] = kind]
    /\ UNCHANGED <<phase, hot, handler, feature, producer, conn, forced, bufferVars>>

EndCall(c, kind) ==
    /\ Up /\ rpc[c] = kind
    /\ rpc' = [rpc EXCEPT ![c] = "none"]
    /\ UNCHANGED <<phase, hot, handler, feature, producer, conn, forced, bufferVars>>

-----------------------------------------------------------------------------
(* Shutdown.                                                               *)

\* SIGTERM: the tiering job is told to stop, and GracefulStop is called.
Terminate ==
    /\ phase = "serving"
    /\ phase' = "grpc"
    /\ UNCHANGED <<hot, handler, feature, rpc, producer, conn, forced, bufferVars>>

\* Mutant of GracefulStop: the HTTP server is not shut down.
GracefulStopThenClose ==
    /\ phase = "grpc"
    /\ \A c \in Clients : rpc[c] = "none"
    /\ phase' = "producer"
    /\ UNCHANGED <<hot, handler, feature, rpc, producer, conn, forced, bufferVars>>

\* It returns when no call is left; the status of the service was changed,
\* which ends no stream.
GracefulStop ==
    /\ phase = "grpc"
    /\ \A c \in Clients : rpc[c] = "none"
    /\ phase' = "http"
    /\ UNCHANGED <<hot, handler, feature, rpc, producer, conn, forced, bufferVars>>

\* httpServer.Shutdown returns when no handler runs, or after thirty seconds.
ShutdownHTTP ==
    /\ phase = "http"
    /\ phase' = "producer"
    /\ forced' = (Running # {})
    /\ UNCHANGED <<hot, handler, feature, rpc, producer, conn, bufferVars>>

\* Mutant of CloseProducer: what opened first is closed first.
CloseProducerAndConn ==
    /\ phase = "producer"
    /\ phase' = "buffer"
    /\ producer' = FALSE
    /\ conn' = FALSE
    /\ UNCHANGED <<hot, handler, feature, rpc, forced, bufferVars>>

CloseProducer ==
    /\ phase = "producer"
    /\ phase' = "buffer"
    /\ producer' = FALSE
    /\ UNCHANGED <<hot, handler, feature, rpc, conn, forced, bufferVars>>

\* main returns, and what it deferred runs, the latest first: the buffer ...
CloseBuffer ==
    /\ phase = "buffer" /\ hot
    /\ CloseDone
    /\ UNCHANGED edgeVars

AwaitBuffer ==
    /\ phase = "buffer" /\ hot
    /\ CloseReturn
    /\ phase' = "conn"
    /\ UNCHANGED <<hot, handler, feature, rpc, producer, conn, forced>>

\* Mutant of CloseConn: a pod without a hot store waits for its buffer.
CloseConnOfNil ==
    /\ phase = "conn"
    /\ phase' = "exited"
    /\ conn' = FALSE
    /\ UNCHANGED <<hot, handler, feature, rpc, producer, forced, bufferVars>>

\* ... and then its connection. A pod without a hot store deferred neither.
CloseConn ==
    /\ \/ phase = "conn"
       \/ phase = "buffer" /\ ~hot
    /\ phase' = "exited"
    /\ conn' = FALSE
    /\ UNCHANGED <<hot, handler, feature, rpc, producer, forced, bufferVars>>

\* The kubelet's patience ends, or the pod dies of something else.
Kill ==
    /\ Up
    /\ phase' = "killed"
    /\ UNCHANGED <<hot, handler, feature, rpc, producer, conn, forced, bufferVars>>

-----------------------------------------------------------------------------
Worker(w) == Up /\ hot /\ runWorker(w) /\ UNCHANGED edgeVars

Handle(e) == EnqueueRow(e) \/ Answer(e)

Stop == GracefulStop \/ ShutdownHTTP \/ CloseProducer \/ CloseBuffer \/ AwaitBuffer \/ CloseConn

Next ==
    \/ \E e \in Rows : Admit(e) \/ Handle(e) \/ SendFeatureEvent(e)
    \/ \E w \in Workers : Worker(w)
    \/ \E c \in Clients, kind \in {"check", "watch"} : Call(c, kind) \/ EndCall(c, kind)
    \/ Terminate \/ Stop \/ Kill

Spec == Init /\ [][Next]_vars

(* Goroutines that can go on do, and a call to Check is answered.  Nobody  *)
(* has to end a stream, to stop the pod or to kill it.                     *)
FairSpec ==
    /\ Spec
    /\ \A e \in Rows : WF_vars(Handle(e)) /\ WF_vars(SendFeatureEvent(e))
    /\ \A w \in Workers : WF_vars(Worker(w))
    /\ \A c \in Clients : WF_vars(EndCall(c, "check"))
    /\ WF_vars(Stop)

-----------------------------------------------------------------------------
(* Properties.                                                             *)

\* Parts stop in the order in which they use each other: while handlers may
\* still come to the producer or to the buffer these are not closed, unless
\* Shutdown gave up on a handler; and the workers of the buffer have stopped
\* before the connection that they write to is closed.
StopsInOrder ==
    /\ (~producer \/ done) /\ ~forced => Running = {}
    /\ hot /\ ~conn => \A w \in Workers : pc[w] = "stopped"

\* A pod that exits by itself, and did not give up on a handler, leaves no
\* event behind that its client was told had been accepted: with a hot store
\* the event was dropped by a full buffer, and counted, or its batch was
\* written to ClickHouse or refused by it, whatever the order of the last
\* requests, the steps of the workers and those of the shutdown.
NothingLeftBehind ==
    phase = "exited" /\ hot /\ ~forced =>
        \A e \in Rows : handler[e] = "answered" =>
            caller[e] = "refused" \/ e \in stored \cup failed

\* A pod that is told to stop does, once nobody watches its health any more;
\* a client that never ends its stream keeps it from draining its buffer.
StopsIfUnwatched ==
    <>[](\A c \in Clients : rpc[c] # "watch") =>
        (phase # "serving" ~> ~Up)

=============================================================================
