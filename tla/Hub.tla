-------------------------------- MODULE Hub --------------------------------
(***************************************************************************)
(* The realtime service's hub (internal/hub/hub.go) in one pod: the        *)
(* goroutine of Run, one WebSocket handler and one write pump per client   *)
(* (cmd/server/main.go), and the Kafka consumer that calls Broadcast.      *)
(* They meet on the channels register, unregister, broadcast and every     *)
(* client's send.  Run's select takes any of the channels that are ready,  *)
(* so what was put on two channels in one order may be taken in another.   *)
(*                                                                         *)
(* A client connects once: a reconnection is a new client.  Messages are   *)
(* numbered in the order in which they are broadcast.                      *)
(***************************************************************************)
EXTENDS Naturals, Sequences, FiniteSets

CONSTANTS
    Connections,  \* WebSocket connections
    Tenants,      \* tenants
    TenantOf,     \* TenantOf[c]: the tenant in the JWT of client c
    Channels,     \* channel names other than "*"
    QueueSize,    \* capacity of register and of unregister
    BacklogSize,  \* capacity of broadcast
    SendSize,     \* capacity of a client's send
    MaxMessages   \* bound: messages broadcast in a run

ASSUME HubAssumption ==
    /\ TenantOf \in [Connections -> Tenants]
    /\ "*" \notin Channels
    /\ {QueueSize, BacklogSize, SendSize, MaxMessages} \subseteq Nat \ {0}

VARIABLES
    handler,      \* handler[c]: where the WebSocket handler of c stands
    subs,         \* subs[c]: Client.Channels
    register,     \* the channel of clients to register
    unregister,   \* the channel of clients to unregister
    broadcast,    \* the channel of messages to deliver
    sent,         \* messages Broadcast was called with
    clients,      \* the clients in Hub.tenants
    send,         \* send[c]: the messages on the channel c.send
    closed,       \* clients whose send channel has been closed
    pump,         \* pump[c]: the write pump of c: off, on, done
    received,     \* received[c]: the messages (no replies) written to the WebSocket
    panicked,     \* Run has panicked, and the process with it
    overtaken     \* history: clients unregistered before they were registered

hubVars == <<handler, subs, register, unregister, broadcast, sent, clients,
             send, closed, pump, received, panicked, overtaken>>

conn   == <<handler, subs>>
output == <<send, closed, pump, received>>
run    == <<clients, panicked, overtaken>>

Messages == [num : 1..MaxMessages, tenant : Tenants, channel : Channels]

\* What a handler itself sends its client: the welcome, or a "subscribed".
Reply(c) == [num |-> 0, tenant |-> TenantOf[c], channel |-> "*"]

Sendable == Messages \cup {Reply(c) : c \in Connections}

HubTypeOK ==
    /\ handler \in [Connections -> {"new", "replying", "reading", "leaving", "gone"}]
    /\ subs \in [Connections -> SUBSET (Channels \cup {"*"})]
    /\ register \in Seq(Connections) /\ Len(register) <= QueueSize
    /\ unregister \in Seq(Connections) /\ Len(unregister) <= QueueSize
    /\ broadcast \in Seq(Messages) /\ Len(broadcast) <= BacklogSize
    /\ sent \in 0..MaxMessages
    /\ clients \in SUBSET Connections
    /\ send \in [Connections -> Seq(Sendable)]
    /\ \A c \in Connections : Len(send[c]) <= SendSize
    /\ closed \in SUBSET Connections
    /\ pump \in [Connections -> {"off", "on", "done"}]
    /\ received \in [Connections -> Seq(Messages)]
    /\ panicked \in BOOLEAN
    /\ overtaken \in SUBSET Connections

HubInit ==
    /\ handler = [c \in Connections |-> "new"]
    /\ subs = [c \in Connections |-> {}]
    /\ register = <<>>
    /\ unregister = <<>>
    /\ broadcast = <<>>
    /\ sent = 0
    /\ clients = {}
    /\ send = [c \in Connections |-> <<>>]
    /\ closed = {}
    /\ pump = [c \in Connections |-> "off"]
    /\ received = [c \in Connections |-> <<>>]
    /\ panicked = FALSE
    /\ overtaken = {}

-----------------------------------------------------------------------------
(* The WebSocket handler of a client.                                      *)

\* RegisterClient: waits for room on register, then starts the write pump; the
\* handler's next step is the welcome.
RegisterClient(c) ==
    /\ handler[c] = "new"
    /\ Len(register) < QueueSize
    /\ register' = Append(register, c)
    /\ pump' = [pump EXCEPT ![c] = "on"]
    /\ handler' = [handler EXCEPT ![c] = "replying"]
    /\ UNCHANGED <<subs, unregister, broadcast, sent, run, send, closed, received>>

\* SendToClient: a full buffer is an error nobody minds; a closed one panics.
SendToClient(c) ==
    /\ send' = IF Len(send[c]) < SendSize THEN [send EXCEPT ![c] = Append(@, Reply(c))]
                                          ELSE send
    /\ panicked' = (c \in closed)

SendReply(c) ==
    /\ handler[c] = "replying"
    /\ SendToClient(c)
    /\ handler' = [handler EXCEPT ![c] = "reading"]
    /\ UNCHANGED <<subs, register, unregister, broadcast, sent, clients, overtaken,
                   closed, pump, received>>

\* The read loop takes a subscribe or an unsubscribe request, whether or not
\* Run has seen the client yet.
Subscribe(c, ch) ==
    /\ handler[c] = "reading"
    /\ subs' = [subs EXCEPT ![c] = @ \cup {ch}]
    /\ handler' = [handler EXCEPT ![c] = "replying"]
    /\ UNCHANGED <<register, unregister, broadcast, sent, run, output>>

Unsubscribe(c, ch) ==
    /\ handler[c] = "reading"
    /\ subs' = [subs EXCEPT ![c] = @ \ {ch}]
    /\ UNCHANGED <<handler, register, unregister, broadcast, sent, run, output>>

\* The connection ends: Read returns an error.
Disconnect(c) ==
    /\ handler[c] = "reading"
    /\ handler' = [handler EXCEPT ![c] = "leaving"]
    /\ UNCHANGED <<subs, register, unregister, broadcast, sent, run, output>>

\* The deferred UnregisterClient waits for room on unregister.
UnregisterClient(c) ==
    /\ handler[c] = "leaving"
    /\ Len(unregister) < QueueSize
    /\ unregister' = Append(unregister, c)
    /\ handler' = [handler EXCEPT ![c] = "gone"]
    /\ UNCHANGED <<subs, register, broadcast, sent, run, output>>

\* The write pump writes what is next on send, or ends: a write fails, its
\* context is cancelled, or send is closed.
Pump(c) ==
    /\ pump[c] = "on"
    /\ \/ /\ send[c] # <<>>
          /\ send' = [send EXCEPT ![c] = Tail(@)]
          /\ received' = IF Head(send[c]) = Reply(c) THEN received
                         ELSE [received EXCEPT ![c] = Append(@, Head(send[c]))]
          /\ UNCHANGED pump
       \/ /\ pump' = [pump EXCEPT ![c] = "done"]
          /\ UNCHANGED <<send, received>>
    /\ UNCHANGED <<conn, register, unregister, broadcast, sent, run, closed>>

-----------------------------------------------------------------------------
(* Broadcast, called by the Kafka consumer: a full backlog drops.          *)

Broadcast(t, ch) ==
    /\ sent < MaxMessages
    /\ sent' = sent + 1
    /\ broadcast' =
          IF Len(broadcast) < BacklogSize
          THEN Append(broadcast, [num |-> sent + 1, tenant |-> t, channel |-> ch])
          ELSE broadcast
    /\ UNCHANGED <<conn, register, unregister, run, output>>

-----------------------------------------------------------------------------
(* Run.                                                                    *)

HandleRegister ==
    /\ register # <<>>
    /\ clients' = clients \cup {Head(register)}
    /\ register' = Tail(register)
    /\ UNCHANGED <<conn, unregister, broadcast, sent, output, panicked, overtaken>>

\* Mutants of HandleUnregister: the client stays in its tenant's map; only a
\* client that is in the map has its channel closed.
HandleUnregisterKeeps ==
    /\ unregister # <<>>
    /\ closed' = closed \cup {Head(unregister)}
    /\ panicked' = (Head(unregister) \in closed)
    /\ unregister' = Tail(unregister)
    /\ UNCHANGED <<conn, register, broadcast, sent, send, pump, received, clients, overtaken>>

HandleUnregisterKnown ==
    /\ unregister # <<>>
    /\ closed' = closed \cup (clients \cap {Head(unregister)})
    /\ clients' = clients \ {Head(unregister)}
    /\ unregister' = Tail(unregister)
    /\ UNCHANGED <<conn, register, broadcast, sent, send, pump, received, panicked, overtaken>>

\* delete does nothing for a client that is not there; send is closed anyway.
HandleUnregister ==
    /\ unregister # <<>>
    /\ LET c == Head(unregister) IN
          /\ clients' = clients \ {c}
          /\ closed' = closed \cup {c}
          /\ overtaken' = IF c \in clients THEN overtaken ELSE overtaken \cup {c}
          /\ panicked' = (c \in closed)
    /\ unregister' = Tail(unregister)
    /\ UNCHANGED <<conn, register, broadcast, sent, send, pump, received>>

IsSubscribed(c, ch) == subs[c] \cap {"*", ch} # {}

\* The clients deliverMessage sends to.
Addressees(msg) == {c \in clients : TenantOf[c] = msg.tenant /\ IsSubscribed(c, msg.channel)}

\* Mutant of HandleBroadcast: a message that finds a full buffer goes back to
\* the end of the backlog.
HandleBroadcastRetries ==
    /\ broadcast # <<>>
    /\ LET msg == Head(broadcast)
           to  == Addressees(msg) \ closed
       IN  /\ send' = [c \in Connections |->
                          IF c \in to /\ Len(send[c]) < SendSize
                          THEN Append(send[c], msg) ELSE send[c]]
           /\ broadcast' = IF \E c \in to : Len(send[c]) = SendSize
                           THEN Append(Tail(broadcast), msg) ELSE Tail(broadcast)
    /\ UNCHANGED <<conn, register, unregister, sent, run, closed, pump, received>>

\* A message is skipped for a client whose buffer is full; to send on a closed
\* channel panics, and the process dies wherever in its loop deliverMessage is.
HandleBroadcast ==
    /\ broadcast # <<>>
    /\ LET msg == Head(broadcast)
           to  == Addressees(msg)
       IN  /\ panicked' = (to \cap closed # {})
           /\ send' = [c \in Connections |->
                          IF c \in to \ closed /\ Len(send[c]) < SendSize
                          THEN Append(send[c], msg) ELSE send[c]]
    /\ broadcast' = Tail(broadcast)
    /\ UNCHANGED <<conn, register, unregister, sent, clients, closed, pump, received, overtaken>>

RunHub == HandleRegister \/ HandleUnregister \/ HandleBroadcast

Handler(c) ==
    \/ RegisterClient(c) \/ SendReply(c) \/ Disconnect(c) \/ UnregisterClient(c)
    \/ \E ch \in Channels \cup {"*"} : Subscribe(c, ch) \/ Unsubscribe(c, ch)

\* A panic anywhere ends the process.
HubNext ==
    /\ ~panicked
    /\ \/ RunHub
       \/ \E c \in Connections : Handler(c) \/ Pump(c)
       \/ \E t \in Tenants, ch \in Channels : Broadcast(t, ch)

HubSpec == HubInit /\ [][HubNext]_hubVars

(* Run is scheduled for ever, and a handler that is leaving goes on; the    *)
(* write pumps may be as slow as their clients.                            *)
HubFairSpec ==
    /\ HubSpec
    /\ WF_hubVars(~panicked /\ RunHub)
    /\ \A c \in Connections : WF_hubVars(~panicked /\ UnregisterClient(c))

-----------------------------------------------------------------------------
(* Properties.                                                             *)

\* A client sees the messages of its own tenant only, in the order of Broadcast
\* and each at most once: slow clients lose messages, but never see them out of
\* order.
DeliveredInOrder ==
    \A c \in Connections :
        LET seen     == received[c] \o send[c]
            messages == {i \in DOMAIN seen : seen[i] # Reply(c)}
        IN  /\ \A i \in messages : seen[i].tenant = TenantOf[c]
            /\ \A i, j \in messages : i < j => seen[i].num < seen[j].num

\* The hub sends on a closed channel only to a client whose unregistration it
\* took before its registration; no channel is closed twice.
PanicOnlyIfOvertaken == panicked => overtaken \cap clients # {}

\* A connection that ended has its channel closed, so its write pump ends.
LeaversAreClosed ==
    \A c \in Connections : handler[c] = "leaving" ~> (c \in closed \/ panicked)

=============================================================================
