------------------------------- MODULE ScHub -------------------------------
(***************************************************************************)
(* BACnet/SC in bacnet-transport: the hub (hub.rs) with one handler task   *)
(* and one outbound task per WebSocket connection and a registry of nodes  *)
(* keyed by virtual MAC, and the nodes (node.rs) that connect() to it.     *)
(*                                                                         *)
(* A connection is one connect() call.  The channels between a node's      *)
(* caller and its WebSocket and the WebSocket itself are FIFO, so each     *)
(* direction of a connection is one queue, up (to the hub) and down (to    *)
(* the node); the hub's own channel to a connection's outbound task is a   *)
(* queue of its own, because routing drops frames when it is full.         *)
(*                                                                         *)
(* The tasks of the hub run on the worker threads of one runtime.  A task  *)
(* that awaits gives its thread back; insert and remove of the registry do *)
(* not await but block the thread until the shard of the address is free.  *)
(***************************************************************************)
EXTENDS Naturals, Sequences, FiniteSets

CONSTANTS
  Conns,       \* connections, one per connect() call
  Callers,     \* tasks that call send_to_vmac
  Vmacs,       \* virtual MAC addresses
  Address,     \* the addresses each connection may be opened with
  None,        \* no connection
  Shard,       \* the shard of the registry each address is in
  Workers,     \* worker threads of the runtime the hub's tasks run on
  HubCapacity, \* capacity of a connection's channel in the hub
  WireCapacity,\* frames in transit before a direction blocks
  MaxFrames,   \* bound: frames nodes and callers send in a behaviour
  MaxBreaks    \* bound: connections that break in a behaviour

ASSUME ConstantsAssumption ==
  /\ None \notin Conns \cup Callers \cup Vmacs
  /\ Conns \cap Callers = {}
  /\ IsFiniteSet(Conns \cup Callers)
  /\ Address \in [Conns -> SUBSET Vmacs]
  /\ Shard \in [Vmacs -> Nat]
  /\ Workers \in Nat \ {0}
  /\ HubCapacity \in Nat \ {0}
  /\ WireCapacity \in Nat \ {0}
  /\ MaxFrames \in Nat
  /\ MaxBreaks \in Nat

VARIABLES
  vmac,    \* the address each connection is opened with
  node,    \* state of each connection at the node
  hub,     \* state of its handle_connection task
  writer,  \* state of its outbound task
  nodes,   \* the registry: the connection registered for each address
  q,       \* the channel from the registry's handle to the outbound task
  up,      \* frames from the node to the hub
  down,    \* frames from the hub to the node
  wire,    \* is the WebSocket open?
  waiting, \* what each send_to_vmac call waits to send, if it waits
  sent     \* number of frames nodes and callers have sent so far

vars == <<vmac, node, hub, writer, nodes, q, up, down, wire, waiting, sent>>

Frames ==
  [fn : {"ConnectRequest", "ConnectAccept", "Npdu", "Heartbeat", "HeartbeatAck"},
   dst : Vmacs \cup {None}, src : Conns \cup Callers, id : 0..MaxFrames]

Control(fn, c) == [fn |-> fn, dst |-> None, src |-> c, id |-> 0]

Npdu(v, c) == [fn |-> "Npdu", dst |-> v, src |-> c, id |-> sent + 1]

\* The handlers that block a worker thread in insert or remove.
Blocked == {c \in Conns : hub[c] \in {"inserting", "removing"}}

WorkerFree == Cardinality(Blocked) < Workers

\* The calls that wait for room in the channel of connection d.
Waiters(d) == {k \in Callers : waiting[k] # None /\ waiting[k].conn = d}

\* send_to_vmac keeps its reference into the registry while it waits, and
\* with it a shared lock of the shard of v: readers and other calls get in,
\* insert and remove do not.
RegistryFree(v) ==
  \A d \in Conns : Waiters(d) # {} => Shard[vmac[d]] # Shard[v]

\* A channel can be sent on while the outbound task that reads it lives.
CanSend(d) == writer[d] = "running" /\ Len(q[d]) < HubCapacity

\* The channel hands freed room to the calls that wait for it first.
Room(d) == CanSend(d) /\ Cardinality(Waiters(d)) < HubCapacity - Len(q[d])

\* Faults (here and below): forms of a definition with a bug the code could
\* plausibly have, against which the properties are tried.
TrySend_Unbounded(v, f) ==
  q' = IF nodes[v] # None /\ writer[nodes[v]] = "running"
         THEN [q EXCEPT ![nodes[v]] = Append(@, f)] ELSE q

TrySend_Flood(v, f) ==
  q' = [d \in Conns |-> IF Room(d) THEN Append(q[d], f) ELSE q[d]]

\* try_send to the connection registered for v: the frame is dropped when
\* nobody is registered, the channel is full, or its reader has ended.
TrySend(v, f) ==
  q' = IF nodes[v] # None /\ Room(nodes[v])
         THEN [q EXCEPT ![nodes[v]] = Append(@, f)] ELSE q

-----------------------------------------------------------------------------
(* The hub's handler task of connection c.                                 *)

\* The node is registered, and served, before ConnectAccept goes out.
HubAccept_RegisterFirst(c) ==
  /\ WorkerFree /\ hub[c] = "handshake" /\ up[c] # <<>>
  /\ up' = [up EXCEPT ![c] = Tail(@)]
  /\ hub' = [hub EXCEPT ![c] = "accepted"]
  /\ nodes' = [nodes EXCEPT ![vmac[c]] = c]
  /\ writer' = [writer EXCEPT ![c] = "running"]
  /\ UNCHANGED <<vmac, node, q, down, wire, waiting, sent>>

\* The handshake: ConnectAccept goes out before the node is registered.
HubAccept(c) ==
  /\ WorkerFree /\ hub[c] = "handshake" /\ up[c] # <<>>
  /\ up' = [up EXCEPT ![c] = Tail(@)]
  /\ IF Head(up[c]).fn # "ConnectRequest" THEN UNCHANGED <<hub, down>>
     ELSE IF wire[c] = "open"
       THEN /\ hub' = [hub EXCEPT ![c] = "accepted"]
            /\ down' = [down EXCEPT ![c] = Append(@, Control("ConnectAccept", c))]
       ELSE hub' = [hub EXCEPT ![c] = "done"] /\ UNCHANGED down
  /\ UNCHANGED <<vmac, node, writer, nodes, q, wire, waiting, sent>>

\* The connection closes before the handshake.
HubAbandon(c) ==
  /\ WorkerFree /\ hub[c] = "handshake" /\ up[c] = <<>> /\ wire[c] = "closed"
  /\ hub' = [hub EXCEPT ![c] = "done"]
  /\ UNCHANGED <<vmac, node, writer, nodes, q, up, down, wire, waiting, sent>>

\* insert and remove block the handler's thread while the shard is locked.
HubBlock(c) ==
  /\ WorkerFree /\ hub[c] \in {"accepted", "cleanup"}
  /\ ~RegistryFree(vmac[c])
  /\ hub' = [hub EXCEPT ![c] = IF @ = "accepted" THEN "inserting" ELSE "removing"]
  /\ UNCHANGED <<vmac, node, writer, nodes, q, up, down, wire, waiting, sent>>

\* insert replaces the handle of an earlier connection of the same address,
\* which drops that connection's only sender.
HubRegister(c) ==
  /\ hub[c] = "inserting" \/ (hub[c] = "accepted" /\ WorkerFree)
  /\ RegistryFree(vmac[c])
  /\ nodes' = [nodes EXCEPT ![vmac[c]] = c]
  /\ hub' = [hub EXCEPT ![c] = "serving"]
  /\ writer' = [writer EXCEPT ![c] = "running"]
  /\ UNCHANGED <<vmac, node, q, up, down, wire, waiting, sent>>

\* An inbound NPDU is routed by destination, a heartbeat is acknowledged
\* through whatever connection its address is registered with by now, and
\* any other frame is ignored.
HubRoute(c) ==
  /\ WorkerFree /\ hub[c] = "serving" /\ up[c] # <<>>
  /\ up' = [up EXCEPT ![c] = Tail(@)]
  /\ LET f == Head(up[c]) IN
       CASE f.fn = "Npdu"      -> TrySend(f.dst, f)
         [] f.fn = "Heartbeat" -> TrySend(vmac[c], Control("HeartbeatAck", c))
         [] OTHER              -> UNCHANGED q
  /\ UNCHANGED <<vmac, node, hub, writer, nodes, down, wire, waiting, sent>>

HubClose_SkipCleanup(c) ==
  /\ WorkerFree /\ hub[c] = "serving" /\ up[c] = <<>> /\ wire[c] = "closed"
  /\ hub' = [hub EXCEPT ![c] = "done"]
  /\ UNCHANGED <<vmac, node, writer, nodes, q, up, down, wire, waiting, sent>>

HubClose(c) ==
  /\ WorkerFree /\ hub[c] = "serving" /\ up[c] = <<>> /\ wire[c] = "closed"
  /\ hub' = [hub EXCEPT ![c] = "cleanup"]
  /\ UNCHANGED <<vmac, node, writer, nodes, q, up, down, wire, waiting, sent>>

HubCleanup_KeepEntry(c) ==
  /\ hub[c] = "removing" \/ (hub[c] = "cleanup" /\ WorkerFree)
  /\ RegistryFree(vmac[c])
  /\ writer' = [writer EXCEPT ![c] = "ended"]
  /\ q' = [q EXCEPT ![c] = <<>>]
  /\ hub' = [hub EXCEPT ![c] = "done"]
  /\ UNCHANGED <<vmac, node, nodes, up, down, wire, waiting, sent>>

\* remove takes out whatever is registered for the address; then the
\* outbound task is aborted.
HubCleanup(c) ==
  /\ hub[c] = "removing" \/ (hub[c] = "cleanup" /\ WorkerFree)
  /\ RegistryFree(vmac[c])
  /\ nodes' = [nodes EXCEPT ![vmac[c]] = None]
  /\ writer' = [writer EXCEPT ![c] = "ended"]
  /\ q' = [q EXCEPT ![c] = <<>>]
  /\ hub' = [hub EXCEPT ![c] = "done"]
  /\ UNCHANGED <<vmac, node, up, down, wire, waiting, sent>>

-----------------------------------------------------------------------------
(* The outbound task of connection c.                                      *)

\* It writes queued frames to the WebSocket, and ends on a write error.
Outbound(c) ==
  /\ WorkerFree /\ writer[c] = "running" /\ q[c] # <<>>
  /\ \/ /\ wire[c] = "open" /\ Len(down[c]) < WireCapacity
        /\ down' = [down EXCEPT ![c] = Append(@, Head(q[c]))]
        /\ q' = [q EXCEPT ![c] = Tail(@)]
        /\ UNCHANGED writer
     \/ /\ wire[c] = "closed"
        /\ writer' = [writer EXCEPT ![c] = "ended"]
        /\ q' = [q EXCEPT ![c] = <<>>]
        /\ UNCHANGED down
  /\ UNCHANGED <<vmac, node, hub, nodes, up, wire, waiting, sent>>

\* It also ends when the channel is drained and its sender is gone.
OutboundEnd(c) ==
  /\ WorkerFree /\ writer[c] = "running" /\ q[c] = <<>>
  /\ nodes[vmac[c]] # c
  /\ writer' = [writer EXCEPT ![c] = "ended"]
  /\ UNCHANGED <<vmac, node, hub, nodes, q, up, down, wire, waiting, sent>>

-----------------------------------------------------------------------------
(* Callers of the hub: send_to_vmac.  A caller need not run on one of the  *)
(* worker threads.                                                         *)

HubSend(k, v) ==
  /\ waiting[k] = None /\ sent < MaxFrames
  /\ nodes[v] # None /\ writer[nodes[v]] = "running"
  /\ IF Room(nodes[v])
       THEN /\ q' = [q EXCEPT ![nodes[v]] = Append(@, Npdu(v, k))]
            /\ UNCHANGED waiting
       ELSE /\ waiting' = [waiting EXCEPT ![k] =
                            [conn |-> nodes[v], frame |-> Npdu(v, k)]]
            /\ UNCHANGED q
  /\ sent' = sent + 1
  /\ UNCHANGED <<vmac, node, hub, writer, nodes, up, down, wire>>

HubSendResume_IgnoreEnd(k) ==
  /\ waiting[k] # None
  /\ CanSend(waiting[k].conn)
  /\ q' = [q EXCEPT ![waiting[k].conn] = Append(@, waiting[k].frame)]
  /\ waiting' = [waiting EXCEPT ![k] = None]
  /\ UNCHANGED <<vmac, node, hub, writer, nodes, up, down, wire, sent>>

\* The wait ends when there is room, or with an error when the reader ends.
HubSendResume(k) ==
  /\ waiting[k] # None
  /\ \/ /\ CanSend(waiting[k].conn)
        /\ q' = [q EXCEPT ![waiting[k].conn] = Append(@, waiting[k].frame)]
     \/ /\ writer[waiting[k].conn] = "ended"
        /\ UNCHANGED q
  /\ waiting' = [waiting EXCEPT ![k] = None]
  /\ UNCHANGED <<vmac, node, hub, writer, nodes, up, down, wire, sent>>

-----------------------------------------------------------------------------
(* The node's side of connection c.                                        *)

\* connect() opens the WebSocket and sends ConnectRequest; the hub's accept
\* loop spawns the handler.
Connect(c, v) ==
  /\ node[c] = "idle" /\ v \in Address[c]
  /\ vmac' = [vmac EXCEPT ![c] = v]
  /\ node' = [node EXCEPT ![c] = "connecting"]
  /\ hub' = [hub EXCEPT ![c] = "handshake"]
  /\ wire' = [wire EXCEPT ![c] = "open"]
  /\ up' = [up EXCEPT ![c] = <<Control("ConnectRequest", c)>>]
  /\ UNCHANGED <<writer, nodes, q, down, waiting, sent>>

\* connect() waits for ConnectAccept and discards any other frame.
NodeAwaitAccept(c) ==
  /\ node[c] = "connecting" /\ down[c] # <<>>
  /\ node' = [node EXCEPT ![c] =
                IF Head(down[c]).fn = "ConnectAccept" THEN "connected" ELSE @]
  /\ down' = [down EXCEPT ![c] = Tail(@)]
  /\ UNCHANGED <<vmac, hub, writer, nodes, q, up, wire, waiting, sent>>

\* connect() fails, or run_node_loop ends, once the WebSocket is closed.
NodeClosed(c) ==
  /\ node[c] \in {"connecting", "connected"}
  /\ down[c] = <<>> /\ wire[c] = "closed"
  /\ node' = [node EXCEPT ![c] = IF @ = "connecting" THEN "failed" ELSE "closed"]
  /\ UNCHANGED <<vmac, hub, writer, nodes, q, up, down, wire, waiting, sent>>

\* The caller sends an NPDU, or a heartbeat, through the handle.
NodeSend(c) ==
  /\ node[c] = "connected" /\ wire[c] = "open"
  /\ sent < MaxFrames /\ Len(up[c]) < WireCapacity
  /\ \E f \in {Npdu(v, c) : v \in Vmacs} \cup {Control("Heartbeat", c)} :
       up' = [up EXCEPT ![c] = Append(@, f)]
  /\ sent' = sent + 1
  /\ UNCHANGED <<vmac, node, hub, writer, nodes, q, down, wire, waiting>>

\* The caller receives the next frame.
NodeReceive(c) ==
  /\ node[c] = "connected" /\ down[c] # <<>>
  /\ down' = [down EXCEPT ![c] = Tail(@)]
  /\ UNCHANGED <<vmac, node, hub, writer, nodes, q, up, wire, waiting, sent>>

\* The WebSocket breaks; each side gets a prefix of what was on its way.
Break(c) ==
  /\ wire[c] = "open"
  /\ Cardinality({d \in Conns : wire[d] = "closed"}) < MaxBreaks
  /\ wire' = [wire EXCEPT ![c] = "closed"]
  /\ \E i \in 0..Len(up[c]) : up' = [up EXCEPT ![c] = SubSeq(@, 1, i)]
  /\ \E i \in 0..Len(down[c]) : down' = [down EXCEPT ![c] = SubSeq(@, 1, i)]
  /\ UNCHANGED <<vmac, node, hub, writer, nodes, q, waiting, sent>>

-----------------------------------------------------------------------------
Init ==
  /\ vmac = [c \in Conns |-> None]
  /\ node = [c \in Conns |-> "idle"]
  /\ hub = [c \in Conns |-> "none"]
  /\ writer = [c \in Conns |-> "none"]
  /\ nodes = [v \in Vmacs |-> None]
  /\ q = [c \in Conns |-> <<>>]
  /\ up = [c \in Conns |-> <<>>]
  /\ down = [c \in Conns |-> <<>>]
  /\ wire = [c \in Conns |-> "none"]
  /\ waiting = [k \in Callers |-> None]
  /\ sent = 0

Handler(c) == HubAccept(c) \/ HubAbandon(c) \/ HubBlock(c) \/ HubRegister(c)
                \/ HubRoute(c) \/ HubClose(c) \/ HubCleanup(c)

Next ==
  \/ \E k \in Callers : HubSendResume(k)
  \/ \E k \in Callers, v \in Vmacs : HubSend(k, v)
  \/ \E c \in Conns : HubAccept(c)
  \/ \E c \in Conns : HubAbandon(c)
  \/ \E c \in Conns : HubBlock(c)
  \/ \E c \in Conns : HubRegister(c)
  \/ \E c \in Conns : HubRoute(c)
  \/ \E c \in Conns : HubClose(c)
  \/ \E c \in Conns : HubCleanup(c)
  \/ \E c \in Conns : Outbound(c)
  \/ \E c \in Conns : OutboundEnd(c)
  \/ \E c \in Conns, v \in Vmacs : Connect(c, v)
  \/ \E c \in Conns : NodeAwaitAccept(c)
  \/ \E c \in Conns : NodeClosed(c)
  \/ \E c \in Conns : NodeSend(c)
  \/ \E c \in Conns : NodeReceive(c)
  \/ \E c \in Conns : Break(c)

Spec == Init /\ [][Next]_vars

\* A handler runs while a worker thread is free; so does a call that waits,
\* wherever it runs.  The outbound task a handler has woken may sit in the
\* slot of that handler's thread that no other thread takes tasks from, so it
\* is sure to run only while no thread is blocked.  A peer need not read what
\* it is sent, and nobody has to connect, to send or to break a connection.
Fairness ==
  /\ \A k \in Callers : WF_vars(WorkerFree /\ HubSendResume(k))
  /\ \A c \in Conns :
       /\ WF_vars(Handler(c))
       /\ WF_vars(Blocked = {} /\ (Outbound(c) \/ OutboundEnd(c)))

FairSpec == Spec /\ Fairness

-----------------------------------------------------------------------------
(* Properties.                                                             *)

TypeOK ==
  /\ vmac \in [Conns -> Vmacs \cup {None}]
  /\ node \in [Conns -> {"idle", "connecting", "connected", "failed", "closed"}]
  /\ hub \in [Conns -> {"none", "handshake", "accepted", "inserting", "serving",
                    "cleanup", "removing", "done"}]
  /\ writer \in [Conns -> {"none", "running", "ended"}]
  /\ nodes \in [Vmacs -> Conns \cup {None}]
  /\ q \in [Conns -> Seq(Frames)] /\ \A c \in Conns : Len(q[c]) <= HubCapacity
  /\ up \in [Conns -> Seq(Frames)]
  /\ down \in [Conns -> Seq(Frames)]
  /\ wire \in [Conns -> {"none", "open", "closed"}]
  /\ waiting \in [Callers -> [conn : Conns, frame : Frames] \cup {None}]
  /\ sent \in 0..MaxFrames

\* The registry never holds a stale entry: a registered connection has a
\* handler that still serves it and will clean it up (handle_connection).
NoStaleEntry ==
  \A v \in Vmacs : nodes[v] # None =>
    vmac[nodes[v]] = v /\ hub[nodes[v]] \in {"serving", "cleanup", "removing"}

\* What is on its way from the hub to a node, in the order it will arrive.
Pipeline(c) == down[c] \o q[c]

\* An NPDU is only ever on its way to the address it is for, and two NPDUs
\* of one source arrive in the order they were sent, none of them twice,
\* however connections of the same address replace each other.
RoutedInOrder ==
  \A c \in Conns : \A i, j \in 1..Len(Pipeline(c)) :
    LET f == Pipeline(c)[i]
        g == Pipeline(c)[j]
    IN f.fn = "Npdu" =>
         /\ f.dst = vmac[c]
         /\ i < j /\ g.fn = "Npdu" /\ g.src = f.src => f.id < g.id

\* A node that waits for ConnectAccept never discards an NPDU: the accept
\* is the first frame the hub sends on a connection (connect()).
AcceptComesFirst ==
  \A c \in Conns : node[c] = "connecting" /\ wire[c] = "open" =>
    \A i \in 1..Len(Pipeline(c)) :
      (Pipeline(c)[i].fn = "ConnectAccept") <=> (i = 1)

\* The peer of c does not read what the hub has sent it.
Unread(c) == wire[c] = "open" /\ Len(down[c]) >= WireCapacity

\* A send_to_vmac call returns, with the frame queued or with an error, unless
\* from some time on every worker thread is blocked, or the outbound task it
\* waits for lives and either its peer does not read, or a thread is blocked.
SendReturns ==
  \A k \in Callers :
    \/ []<>(waiting[k] = None)
    \/ <>[](\/ ~WorkerFree
            \/ \E c \in Conns : /\ k \in Waiters(c) /\ writer[c] = "running"
                                /\ Unread(c) \/ Blocked # {})

\* A closed connection stays in the registry only while calls wait with the
\* lock of its shard, or handlers that such calls block hold every thread.
ClosedIsUnlisted ==
  \A c \in Conns, v \in Vmacs :
    <>[](wire[c] = "closed" /\ nodes[v] = c)
      => []<>(~WorkerFree \/ ~RegistryFree(v))

\* connected_nodes() "Returns the node IDs of all currently connected nodes":
\* an address with a connection the hub serves is in the registry.
ServedIsListed ==
  \A c \in Conns : hub[c] = "serving" => nodes[vmac[c]] # None
=============================================================================
