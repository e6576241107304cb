---------------------------- MODULE ScHubProofs ----------------------------
(***************************************************************************)
(* Proofs about the BACnet/SC hub, for every set of connections, callers   *)
(* and addresses and every capacity of its channels.                       *)
(***************************************************************************)
EXTENDS ScHub, TLAPS

-----------------------------------------------------------------------------
(* Types.                                                                  *)

\* The frames the hub and the nodes build are frames.
LEMMA FrameTypes ==
  ASSUME sent \in 0..MaxFrames
  PROVE  /\ \A c \in Conns :
              /\ Control("ConnectRequest", c) \in Frames
              /\ Control("ConnectAccept", c) \in Frames
              /\ Control("Heartbeat", c) \in Frames
              /\ Control("HeartbeatAck", c) \in Frames
         /\ sent < MaxFrames => \A v \in Vmacs, s \in Conns \cup Callers : Npdu(v, s) \in Frames
<1>1. 0 \in 0..MaxFrames /\ MaxFrames \in Nat
  BY ConstantsAssumption
<1>2. sent < MaxFrames => sent + 1 \in 0..MaxFrames
  BY <1>1
<1> QED BY <1>1, <1>2 DEF Frames, Control, Npdu

\* A channel takes one more frame when it has room.
LEMMA AppendType ==
  ASSUME q \in [Conns -> Seq(Frames)], \A c \in Conns : Len(q[c]) <= HubCapacity,
         NEW d, Len(q[d]) < HubCapacity, NEW f \in Frames
  PROVE  /\ [q EXCEPT ![d] = Append(@, f)] \in [Conns -> Seq(Frames)]
         /\ \A c \in Conns : Len([q EXCEPT ![d] = Append(@, f)][c]) <= HubCapacity
<1> DEFINE p == [q EXCEPT ![d] = Append(@, f)]
<1>1. ASSUME NEW c \in Conns PROVE p[c] \in Seq(Frames) /\ Len(p[c]) <= HubCapacity
  BY ConstantsAssumption
<1> QED BY <1>1

\* try_send keeps the channels within their capacity.
LEMMA TrySendType ==
  ASSUME TypeOK, NEW v, NEW f \in Frames, TrySend(v, f)
  PROVE  q' \in [Conns -> Seq(Frames)] /\ \A c \in Conns : Len(q'[c]) <= HubCapacity
<1>1. CASE nodes[v] # None /\ Room(nodes[v])
  <2>1. q' = [q EXCEPT ![nodes[v]] = Append(@, f)] /\ Len(q[nodes[v]]) < HubCapacity
    BY <1>1 DEF TrySend, Room, CanSend
  <2> QED BY <2>1, AppendType DEF TypeOK
<1>2. CASE ~ (nodes[v] # None /\ Room(nodes[v]))
  BY <1>2 DEF TrySend, TypeOK
<1> QED BY <1>1, <1>2

LEMMA TypeInit == Init => TypeOK
<1> SUFFICES ASSUME Init PROVE TypeOK
  OBVIOUS
<1>1. q \in [Conns -> Seq(Frames)] /\ \A c \in Conns : Len(q[c]) <= HubCapacity
  BY ConstantsAssumption DEF Init
<1>2. up \in [Conns -> Seq(Frames)] /\ down \in [Conns -> Seq(Frames)]
  BY DEF Init
<1>3. sent \in 0..MaxFrames
  BY ConstantsAssumption DEF Init
<1>4. waiting \in [Callers -> [conn : Conns, frame : Frames] \cup {None}]
  BY DEF Init
<1> QED BY <1>1, <1>2, <1>3, <1>4 DEF Init, TypeOK

LEMMA TypeStep == TypeOK /\ [Next]_vars => TypeOK'
<1> SUFFICES ASSUME TypeOK, [Next]_vars PROVE TypeOK'
  OBVIOUS
<1>0. /\ q \in [Conns -> Seq(Frames)] /\ (\A c \in Conns : Len(q[c]) <= HubCapacity)
      /\ up \in [Conns -> Seq(Frames)] /\ down \in [Conns -> Seq(Frames)]
      /\ sent \in 0..MaxFrames
      /\ waiting \in [Callers -> [conn : Conns, frame : Frames] \cup {None}]
  BY DEF TypeOK
<1>1. ASSUME NEW k \in Callers, HubSendResume(k) PROVE TypeOK'
  <2> DEFINE d == waiting[k].conn
             f == waiting[k].frame
  <2>1. d \in Conns /\ f \in Frames
    BY <1>0, <1>1 DEF HubSendResume
  <2>2. q' \in [Conns -> Seq(Frames)] /\ \A c \in Conns : Len(q'[c]) <= HubCapacity
    <3>1. \/ q' = q
          \/ Len(q[d]) < HubCapacity /\ q' = [q EXCEPT ![d] = Append(@, f)]
      BY <1>1 DEF HubSendResume, CanSend
    <3> HIDE DEF d, f
    <3>2. CASE q' = q
      BY <1>0, <3>2
    <3>3. CASE Len(q[d]) < HubCapacity /\ q' = [q EXCEPT ![d] = Append(@, f)]
      BY <1>0, <2>1, <3>3, AppendType
    <3> QED BY <3>1, <3>2, <3>3
  <2>3. waiting' \in [Callers -> [conn : Conns, frame : Frames] \cup {None}]
    BY <1>0, <1>1 DEF HubSendResume
  <2> QED BY <1>1, <2>2, <2>3 DEF HubSendResume, TypeOK
<1>2. ASSUME NEW k \in Callers, NEW v \in Vmacs, HubSend(k, v) PROVE TypeOK'
  <2>1. nodes[v] \in Conns /\ Npdu(v, k) \in Frames
    BY <1>2, FrameTypes DEF HubSend, TypeOK
  <2>2. q' \in [Conns -> Seq(Frames)] /\ \A c \in Conns : Len(q'[c]) <= HubCapacity
    <3>1. \/ q' = q
          \/ /\ Len(q[nodes[v]]) < HubCapacity
             /\ q' = [q EXCEPT ![nodes[v]] = Append(@, Npdu(v, k))]
      BY <1>2 DEF HubSend, Room, CanSend
    <3>2. CASE q' = q
      BY <1>0, <3>2
    <3>3. CASE /\ Len(q[nodes[v]]) < HubCapacity
               /\ q' = [q EXCEPT ![nodes[v]] = Append(@, Npdu(v, k))]
      BY <1>0, <2>1, <3>3, AppendType
    <3> QED BY <3>1, <3>2, <3>3
  <2>3. waiting' \in [Callers -> [conn : Conns, frame : Frames] \cup {None}]
    <3> DEFINE w == [conn |-> nodes[v], frame |-> Npdu(v, k)]
    <3>1. w \in [conn : Conns, frame : Frames]
      BY <2>1
    <3>2. waiting' = waiting \/ waiting' = [waiting EXCEPT ![k] = w]
      BY <1>2 DEF HubSend
    <3> HIDE DEF w
    <3> QED BY <1>0, <3>1, <3>2
  <2>4. sent' \in 0..MaxFrames
    BY <1>0, <1>2, ConstantsAssumption DEF HubSend
  <2> QED BY <1>2, <2>2, <2>3, <2>4 DEF HubSend, TypeOK
<1>3. ASSUME NEW c \in Conns, HubAccept(c) PROVE TypeOK'
  <2>1. up' \in [Conns -> Seq(Frames)]
    BY <1>0, <1>3 DEF HubAccept
  <2>2. down' \in [Conns -> Seq(Frames)]
    <3>1. Append(down[c], Control("ConnectAccept", c)) \in Seq(Frames)
      BY <1>0, FrameTypes
    <3>2. \/ down' = down
          \/ down' = [down EXCEPT ![c] = Append(down[c], Control("ConnectAccept", c))]
      BY <1>3 DEF HubAccept
    <3> QED BY <1>0, <3>1, <3>2
  <2>3. hub' \in [Conns -> {"none", "handshake", "accepted", "inserting", "serving",
                        "cleanup", "removing", "done"}]
    <3>1. \E s \in {"accepted", "done"} : hub' = hub \/ hub' = [hub EXCEPT ![c] = s]
      BY <1>3 DEF HubAccept
    <3>2. hub \in [Conns -> {"none", "handshake", "accepted", "inserting", "serving",
                        "cleanup", "removing", "done"}]
      BY DEF TypeOK
    <3> QED BY <3>1, <3>2
  <2> QED BY <1>3, <2>1, <2>2, <2>3 DEF HubAccept, TypeOK
<1>4. ASSUME NEW c \in Conns, HubAbandon(c) PROVE TypeOK'
  BY <1>4 DEF HubAbandon, TypeOK
<1>5. ASSUME NEW c \in Conns, HubRegister(c) PROVE TypeOK'
  BY <1>5 DEF HubRegister, TypeOK
<1>6. ASSUME NEW c \in Conns, HubRoute(c) PROVE TypeOK'
  <2>1. up' \in [Conns -> Seq(Frames)] /\ Head(up[c]) \in Frames
    BY <1>0, <1>6 DEF HubRoute
  <2>2. q' \in [Conns -> Seq(Frames)] /\ \A d \in Conns : Len(q'[d]) <= HubCapacity
    BY <1>0, <1>6, <2>1, FrameTypes, TrySendType DEF HubRoute
  <2> QED BY <1>6, <2>1, <2>2 DEF HubRoute, TypeOK
<1>7. ASSUME NEW c \in Conns, HubClose(c) PROVE TypeOK'
  BY <1>7 DEF HubClose, TypeOK
<1>8. ASSUME NEW c \in Conns, HubCleanup(c) PROVE TypeOK'
  <2>1. q' \in [Conns -> Seq(Frames)] /\ \A d \in Conns : Len(q'[d]) <= HubCapacity
    BY <1>0, <1>8, ConstantsAssumption DEF HubCleanup
  <2> QED BY <1>8, <2>1 DEF HubCleanup, TypeOK
<1>9. ASSUME NEW c \in Conns, Outbound(c) PROVE TypeOK'
  <2>1. q[c] \in Seq(Frames) /\ q[c] # <<>> /\ Len(q[c]) <= HubCapacity
    BY <1>0, <1>9 DEF Outbound
  <2>2. /\ Head(q[c]) \in Frames /\ Tail(q[c]) \in Seq(Frames)
        /\ Len(Tail(q[c])) <= HubCapacity
    BY <2>1, ConstantsAssumption
  <2>3. q' \in [Conns -> Seq(Frames)] /\ \A d \in Conns : Len(q'[d]) <= HubCapacity
    <3>1. <<>> \in Seq(Frames) /\ Len(<<>>) <= HubCapacity
      BY ConstantsAssumption
    <3>2. q' = [q EXCEPT ![c] = Tail(q[c])] \/ q' = [q EXCEPT ![c] = <<>>]
      BY <1>9 DEF Outbound
    <3> QED BY <1>0, <2>2, <3>1, <3>2
  <2>4. down' \in [Conns -> Seq(Frames)]
    <3>1. Append(down[c], Head(q[c])) \in Seq(Frames)
      BY <1>0, <2>2
    <3>2. down' = down \/ down' = [down EXCEPT ![c] = Append(down[c], Head(q[c]))]
      BY <1>9 DEF Outbound
    <3> QED BY <1>0, <3>1, <3>2
  <2>5. writer' \in [Conns -> {"none", "running", "ended"}]
    <3>1. writer' = writer \/ writer' = [writer EXCEPT ![c] = "ended"]
      BY <1>9 DEF Outbound
    <3>2. writer \in [Conns -> {"none", "running", "ended"}]
      BY DEF TypeOK
    <3> QED BY <3>1, <3>2
  <2> QED BY <1>9, <2>3, <2>4, <2>5 DEF Outbound, TypeOK
<1>10. ASSUME NEW c \in Conns, OutboundEnd(c) PROVE TypeOK'
  BY <1>10 DEF OutboundEnd, TypeOK
<1>11. ASSUME NEW c \in Conns, NEW v \in Vmacs, Connect(c, v) PROVE TypeOK'
  <2>1. up' \in [Conns -> Seq(Frames)]
    BY <1>0, <1>11, FrameTypes DEF Connect
  <2> QED BY <1>11, <2>1 DEF Connect, TypeOK
<1>12. ASSUME NEW c \in Conns, NodeAwaitAccept(c) PROVE TypeOK'
  <2>1. down' \in [Conns -> Seq(Frames)]
    BY <1>0, <1>12 DEF NodeAwaitAccept
  <2>2. node' \in [Conns -> {"idle", "connecting", "connected", "failed", "closed"}]
    BY <1>12 DEF NodeAwaitAccept, TypeOK
  <2> QED BY <1>12, <2>1, <2>2 DEF NodeAwaitAccept, TypeOK
<1>13. ASSUME NEW c \in Conns, NodeClosed(c) PROVE TypeOK'
  BY <1>13 DEF NodeClosed, TypeOK
<1>14. ASSUME NEW c \in Conns, NodeSend(c) PROVE TypeOK'
  <2>1. PICK f \in {Npdu(v, c) : v \in Vmacs} \cup {Control("Heartbeat", c)} :
          up' = [up EXCEPT ![c] = Append(@, f)]
    BY <1>14 DEF NodeSend
  <2>2. f \in Frames
    BY <1>0, <1>14, FrameTypes DEF NodeSend
  <2>3. up' \in [Conns -> Seq(Frames)]
    BY <1>0, <2>1, <2>2
  <2>4. sent' \in 0..MaxFrames
    BY <1>0, <1>14, ConstantsAssumption DEF NodeSend
  <2> QED BY <1>14, <2>3, <2>4 DEF NodeSend, TypeOK
<1>15. ASSUME NEW c \in Conns, NodeReceive(c) PROVE TypeOK'
  <2>1. down' \in [Conns -> Seq(Frames)]
    BY <1>0, <1>15 DEF NodeReceive
  <2> QED BY <1>15, <2>1 DEF NodeReceive, TypeOK
<1>16. ASSUME NEW c \in Conns, Break(c) PROVE TypeOK'
  <2>1. up' \in [Conns -> Seq(Frames)]
    BY <1>0, <1>16 DEF Break
  <2>2. down' \in [Conns -> Seq(Frames)]
    BY <1>0, <1>16 DEF Break
  <2> QED BY <1>16, <2>1, <2>2 DEF Break, TypeOK
<1>17. ASSUME NEW c \in Conns, HubBlock(c) PROVE TypeOK'
  BY <1>17 DEF HubBlock, TypeOK
<1>18. CASE UNCHANGED vars
  BY <1>18 DEF vars, TypeOK
<1> QED
  BY <1>1, <1>2, <1>3, <1>4, <1>5, <1>6, <1>7, <1>8, <1>9, <1>10, <1>11, <1>12, <1>13,
     <1>14, <1>15, <1>16, <1>17, <1>18 DEF Next

\* Every variable of the hub and the nodes keeps its type, and no channel to
\* an outbound task ever holds more than its capacity, whoever sends on it
\* (handle_connection, send_to_vmac).
THEOREM HubTypes == Spec => []TypeOK
BY TypeInit, TypeStep, PTL DEF Spec

-----------------------------------------------------------------------------
(* The life of a connection and the registry.                              *)

\* What the states of the tasks of a connection say of each other and of its
\* channels.
Lifecycle(c) ==
  /\ node[c] = "idle" => hub[c] = "none" /\ wire[c] = "none"
  /\ hub[c] \in {"none", "handshake"} => down[c] = <<>>
  /\ hub[c] \in {"none", "handshake", "accepted", "inserting"} => writer[c] = "none"
  /\ writer[c] = "none" => q[c] = <<>>
  /\ hub[c] \in {"cleanup", "removing", "done"} => wire[c] # "open"

LifeInv == \A c \in Conns : Lifecycle(c)

\* What try_send does to each channel.
LEMMA TrySendEffect ==
  ASSUME TypeOK, NEW v, NEW f, TrySend(v, f), NEW d \in Conns
  PROVE  \/ q'[d] = q[d]
         \/ /\ nodes[v] = d /\ writer[d] = "running"
            /\ q'[d] = Append(q[d], f)
BY DEF TrySend, Room, CanSend, TypeOK

\* What send_to_vmac does to each channel, at once or when it resumes, and to
\* the calls that wait.
LEMMA HubSendEffect ==
  ASSUME TypeOK, NEW k \in Callers, NEW v \in Vmacs, HubSend(k, v)
  PROVE  /\ \A d \in Conns :
              \/ q'[d] = q[d]
              \/ /\ nodes[v] = d /\ writer[d] = "running"
                 /\ q'[d] = Append(q[d], Npdu(v, k))
         /\ nodes[v] \in Conns /\ writer[nodes[v]] = "running"
         /\ \/ waiting' = waiting
            \/ /\ q' = q
               /\ \A j \in Callers :
                    waiting'[j] = IF j = k THEN [conn |-> nodes[v], frame |-> Npdu(v, k)]
                                  ELSE waiting[j]
<1>1. nodes[v] \in Conns /\ writer[nodes[v]] = "running"
  BY DEF HubSend, TypeOK
<1>2. \/ waiting' = waiting
      \/ /\ q' = q
         /\ waiting' = [waiting EXCEPT ![k] = [conn |-> nodes[v], frame |-> Npdu(v, k)]]
  BY DEF HubSend
<1>3. q' = q \/ q' = [q EXCEPT ![nodes[v]] = Append(@, Npdu(v, k))]
  BY DEF HubSend
<1> QED BY <1>1, <1>2, <1>3 DEF TypeOK

LEMMA ResumeEffect ==
  ASSUME TypeOK, NEW k \in Callers, HubSendResume(k)
  PROVE  /\ waiting[k] # None /\ waiting[k].conn \in Conns /\ waiting[k].frame \in Frames
         /\ \A d \in Conns :
              \/ q'[d] = q[d]
              \/ /\ waiting[k].conn = d /\ writer[d] = "running"
                 /\ q'[d] = Append(q[d], waiting[k].frame)
         /\ \A j \in Callers : waiting'[j] = IF j = k THEN None ELSE waiting[j]
<1>1. waiting[k] # None /\ waiting[k].conn \in Conns /\ waiting[k].frame \in Frames
  BY DEF HubSendResume, TypeOK
<1>2. \/ q' = q
      \/ /\ writer[waiting[k].conn] = "running"
         /\ q' = [q EXCEPT ![waiting[k].conn] = Append(@, waiting[k].frame)]
  BY DEF HubSendResume, CanSend
<1>3. waiting' = [waiting EXCEPT ![k] = None]
  BY DEF HubSendResume
<1> QED BY <1>1, <1>2, <1>3 DEF TypeOK

LEMMA LifeInit == Init => LifeInv
BY DEF Init, LifeInv, Lifecycle

LEMMA LifeStep == TypeOK /\ LifeInv /\ [Next]_vars => LifeInv'
<1> SUFFICES ASSUME TypeOK, LifeInv, [Next]_vars, NEW d \in Conns PROVE Lifecycle(d)'
  BY DEF LifeInv
<1>0. Lifecycle(d)
  BY DEF LifeInv
<1>1. ASSUME NEW k \in Callers, HubSendResume(k) PROVE Lifecycle(d)'
  BY <1>0, <1>1, ResumeEffect DEF HubSendResume, Lifecycle
<1>2. ASSUME NEW k \in Callers, NEW v \in Vmacs, HubSend(k, v) PROVE Lifecycle(d)'
  BY <1>0, <1>2, HubSendEffect DEF HubSend, Lifecycle
<1>3. ASSUME NEW c \in Conns, HubAccept(c) PROVE Lifecycle(d)'
  BY <1>0, <1>3 DEF HubAccept, Lifecycle, TypeOK
<1>4. ASSUME NEW c \in Conns, HubAbandon(c) PROVE Lifecycle(d)'
  BY <1>0, <1>4 DEF HubAbandon, Lifecycle, TypeOK
<1>5. ASSUME NEW c \in Conns, HubRegister(c) PROVE Lifecycle(d)'
  BY <1>0, <1>5 DEF HubRegister, Lifecycle, TypeOK
<1>6. ASSUME NEW c \in Conns, HubRoute(c) PROVE Lifecycle(d)'
  <2>1. q'[d] = q[d] \/ writer[d] = "running"
    BY <1>6, TrySendEffect DEF HubRoute
  <2> QED BY <1>0, <1>6, <2>1 DEF HubRoute, Lifecycle
<1>7. ASSUME NEW c \in Conns, HubClose(c) PROVE Lifecycle(d)'
  BY <1>0, <1>7 DEF HubClose, Lifecycle, TypeOK
<1>8. ASSUME NEW c \in Conns, HubCleanup(c) PROVE Lifecycle(d)'
  BY <1>0, <1>8 DEF HubCleanup, Lifecycle, TypeOK
<1>9. ASSUME NEW c \in Conns, Outbound(c) PROVE Lifecycle(d)'
  BY <1>0, <1>9 DEF Outbound, Lifecycle, TypeOK
<1>10. ASSUME NEW c \in Conns, OutboundEnd(c) PROVE Lifecycle(d)'
  BY <1>0, <1>10 DEF OutboundEnd, Lifecycle, TypeOK
<1>11. ASSUME NEW c \in Conns, NEW v \in Vmacs, Connect(c, v) PROVE Lifecycle(d)'
  BY <1>0, <1>11 DEF Connect, Lifecycle, TypeOK
<1>12. ASSUME NEW c \in Conns, NodeAwaitAccept(c) PROVE Lifecycle(d)'
  BY <1>0, <1>12 DEF NodeAwaitAccept, Lifecycle, TypeOK
<1>13. ASSUME NEW c \in Conns, NodeClosed(c) PROVE Lifecycle(d)'
  BY <1>0, <1>13 DEF NodeClosed, Lifecycle, TypeOK
<1>14. ASSUME NEW c \in Conns, NodeSend(c) PROVE Lifecycle(d)'
  BY <1>0, <1>14 DEF NodeSend, Lifecycle, TypeOK
<1>15. ASSUME NEW c \in Conns, NodeReceive(c) PROVE Lifecycle(d)'
  BY <1>0, <1>15 DEF NodeReceive, Lifecycle, TypeOK
<1>16. ASSUME NEW c \in Conns, Break(c) PROVE Lifecycle(d)'
  <2>1. down[d] = <<>> => down'[d] = <<>>
    BY <1>16 DEF Break, TypeOK
  <2> QED BY <1>0, <1>16, <2>1 DEF Break, Lifecycle, TypeOK
<1>17. ASSUME NEW c \in Conns, HubBlock(c) PROVE Lifecycle(d)'
  BY <1>0, <1>17 DEF HubBlock, Lifecycle, TypeOK
<1>18. CASE UNCHANGED vars
  BY <1>0, <1>18 DEF vars, Lifecycle
<1> QED
  BY <1>1, <1>2, <1>3, <1>4, <1>5, <1>6, <1>7, <1>8, <1>9, <1>10, <1>11, <1>12, <1>13,
     <1>14, <1>15, <1>16, <1>17, <1>18 DEF Next

LEMMA StaleInit == Init => NoStaleEntry
BY DEF Init, NoStaleEntry

LEMMA StaleStep == TypeOK /\ LifeInv /\ NoStaleEntry /\ [Next]_vars => NoStaleEntry'
<1> SUFFICES ASSUME TypeOK, LifeInv, NoStaleEntry, [Next]_vars,
                    NEW v \in Vmacs, nodes'[v] # None
             PROVE  vmac'[nodes'[v]] = v /\ hub'[nodes'[v]] \in {"serving", "cleanup", "removing"}
  BY DEF NoStaleEntry
<1>0. nodes[v] # None =>
        /\ nodes[v] \in Conns /\ vmac[nodes[v]] = v
        /\ hub[nodes[v]] \in {"serving", "cleanup", "removing"}
  BY DEF NoStaleEntry, TypeOK
<1>1. CASE UNCHANGED <<vmac, hub, nodes>>
  BY <1>0, <1>1
<1>3. ASSUME NEW c \in Conns, HubAccept(c)
      PROVE  vmac'[nodes'[v]] = v /\ hub'[nodes'[v]] \in {"serving", "cleanup", "removing"}
  BY <1>0, <1>3 DEF HubAccept, TypeOK
<1>4. ASSUME NEW c \in Conns, HubAbandon(c)
      PROVE  vmac'[nodes'[v]] = v /\ hub'[nodes'[v]] \in {"serving", "cleanup", "removing"}
  BY <1>0, <1>4 DEF HubAbandon, TypeOK
<1>5. ASSUME NEW c \in Conns, HubRegister(c)
      PROVE  vmac'[nodes'[v]] = v /\ hub'[nodes'[v]] \in {"serving", "cleanup", "removing"}
  BY <1>0, <1>5 DEF HubRegister, TypeOK
<1>7. ASSUME NEW c \in Conns, HubClose(c)
      PROVE  vmac'[nodes'[v]] = v /\ hub'[nodes'[v]] \in {"serving", "cleanup", "removing"}
  BY <1>0, <1>7 DEF HubClose, TypeOK
<1>8. ASSUME NEW c \in Conns, HubCleanup(c)
      PROVE  vmac'[nodes'[v]] = v /\ hub'[nodes'[v]] \in {"serving", "cleanup", "removing"}
  BY <1>0, <1>8 DEF HubCleanup, TypeOK
<1>11. ASSUME NEW c \in Conns, NEW w \in Vmacs, Connect(c, w)
       PROVE  vmac'[nodes'[v]] = v /\ hub'[nodes'[v]] \in {"serving", "cleanup", "removing"}
  BY <1>0, <1>11 DEF Connect, LifeInv, Lifecycle, TypeOK
<1>12. ASSUME NEW c \in Conns, HubBlock(c)
       PROVE  vmac'[nodes'[v]] = v /\ hub'[nodes'[v]] \in {"serving", "cleanup", "removing"}
  BY <1>0, <1>12 DEF HubBlock, TypeOK
<1> QED
  BY <1>1, <1>3, <1>4, <1>5, <1>7, <1>8, <1>11, <1>12
  DEF Next, HubSendResume, HubSend, HubRoute, Outbound, OutboundEnd, NodeAwaitAccept,
      NodeClosed, NodeSend, NodeReceive, Break, vars

\* The registry never holds a stale entry: whatever connections of the same
\* address replace each other, a registered connection has a handler that
\* still serves it or is about to remove it (handle_connection).
THEOREM RegistryIsFresh == Spec => []NoStaleEntry
<1>1. Init => TypeOK /\ LifeInv /\ NoStaleEntry
  BY TypeInit, LifeInit, StaleInit
<1>2. TypeOK /\ LifeInv /\ NoStaleEntry /\ [Next]_vars => (TypeOK /\ LifeInv /\ NoStaleEntry)'
  BY TypeStep, LifeStep, StaleStep
<1> QED BY <1>1, <1>2, PTL DEF Spec

-----------------------------------------------------------------------------
(* ConnectAccept is the first frame a connecting node receives.            *)

\* No frame of s is a ConnectAccept.
NoAccept(s) == \A i \in 1..Len(s) : s[i].fn # "ConnectAccept"

\* While a node waits, the accept is on its way, first, from the moment the
\* hub has sent it.
AcceptFirst(c) ==
  node[c] = "connecting" /\ wire[c] = "open" =>
    /\ hub[c] \in {"accepted", "inserting", "serving"} => down[c] # <<>>
    /\ \A i \in 1..Len(down[c]) : (down[c][i].fn = "ConnectAccept") <=> (i = 1)

AcceptInv ==
  /\ \A c \in Conns : AcceptFirst(c) /\ NoAccept(q[c]) /\ NoAccept(up[c])
  /\ \A k \in Callers : waiting[k] # None => waiting[k].frame.fn # "ConnectAccept"

LEMMA AcceptInit == Init => AcceptInv
BY DEF Init, AcceptInv, AcceptFirst, NoAccept

LEMMA NoAcceptSeq ==
  ASSUME NEW s \in Seq(Frames), NoAccept(s)
  PROVE  /\ NoAccept(<<>>)
         /\ s # <<>> => NoAccept(Tail(s)) /\ Head(s).fn # "ConnectAccept"
         /\ \A i \in 0..Len(s) : NoAccept(SubSeq(s, 1, i))
         /\ \A f \in Frames : f.fn # "ConnectAccept" => NoAccept(Append(s, f))
<1>1. s # <<>> => NoAccept(Tail(s)) /\ Head(s).fn # "ConnectAccept"
  BY DEF NoAccept
<1>2. \A i \in 0..Len(s) : NoAccept(SubSeq(s, 1, i))
  BY DEF NoAccept
<1>3. \A f \in Frames : f.fn # "ConnectAccept" => NoAccept(Append(s, f))
  BY DEF NoAccept
<1> QED BY <1>1, <1>2, <1>3 DEF NoAccept

LEMMA NoAcceptStep ==
  ASSUME TypeOK, AcceptInv, [Next]_vars
  PROVE  /\ \A d \in Conns : NoAccept(q'[d]) /\ NoAccept(up'[d])
         /\ \A k \in Callers : waiting'[k] # None => waiting'[k].frame.fn # "ConnectAccept"
<1>0. /\ \A d \in Conns : /\ q[d] \in Seq(Frames) /\ up[d] \in Seq(Frames)
                          /\ NoAccept(q[d]) /\ NoAccept(up[d])
      /\ \A k \in Callers : waiting[k] # None => waiting[k].frame.fn # "ConnectAccept"
  BY DEF TypeOK, AcceptInv
<1>1. ASSUME NEW j \in Callers, HubSendResume(j)
      PROVE  /\ \A d \in Conns : NoAccept(q'[d]) /\ NoAccept(up'[d])
             /\ \A k \in Callers : waiting'[k] # None => waiting'[k].frame.fn # "ConnectAccept"
  <2>1. waiting[j].frame \in Frames /\ waiting[j].frame.fn # "ConnectAccept"
    BY <1>0, <1>1, ResumeEffect
  <2>2. ASSUME NEW d \in Conns PROVE NoAccept(q'[d])
    <3>1. q'[d] = q[d] \/ q'[d] = Append(q[d], waiting[j].frame)
      BY <1>1, ResumeEffect
    <3>2. NoAccept(q[d]) /\ NoAccept(Append(q[d], waiting[j].frame))
      BY <1>0, <2>1, NoAcceptSeq
    <3> QED BY <3>1, <3>2
  <2>3. \A k \in Callers : waiting'[k] # None => waiting'[k] = waiting[k]
    BY <1>1, ResumeEffect
  <2> QED BY <1>0, <1>1, <2>2, <2>3 DEF HubSendResume
<1>2. ASSUME NEW j \in Callers, NEW v \in Vmacs, HubSend(j, v)
      PROVE  /\ \A d \in Conns : NoAccept(q'[d]) /\ NoAccept(up'[d])
             /\ \A k \in Callers : waiting'[k] # None => waiting'[k].frame.fn # "ConnectAccept"
  <2>1. Npdu(v, j) \in Frames /\ Npdu(v, j).fn # "ConnectAccept"
    BY <1>2, FrameTypes DEF HubSend, TypeOK, Npdu
  <2>2. ASSUME NEW d \in Conns PROVE NoAccept(q'[d])
    <3>1. q'[d] = q[d] \/ q'[d] = Append(q[d], Npdu(v, j))
      BY <1>2, HubSendEffect
    <3>2. NoAccept(q[d]) /\ NoAccept(Append(q[d], Npdu(v, j)))
      BY <1>0, <2>1, NoAcceptSeq
    <3> QED BY <3>1, <3>2
  <2>3. \A k \in Callers :
          waiting'[k] = waiting[k] \/ waiting'[k] = [conn |-> nodes[v], frame |-> Npdu(v, j)]
    BY <1>2, HubSendEffect
  <2>4. \A k \in Callers : waiting'[k] # None => waiting'[k].frame.fn # "ConnectAccept"
    BY <1>0, <2>1, <2>3
  <2> QED BY <1>0, <1>2, <2>2, <2>4 DEF HubSend
<1>3. ASSUME NEW c \in Conns, HubAccept(c)
      PROVE  /\ \A d \in Conns : NoAccept(q'[d]) /\ NoAccept(up'[d])
             /\ \A k \in Callers : waiting'[k] # None => waiting'[k].frame.fn # "ConnectAccept"
  <2>1. \A d \in Conns : up'[d] = up[d] \/ (up[d] # <<>> /\ up'[d] = Tail(up[d]))
    BY <1>3 DEF HubAccept, TypeOK
  <2> QED BY <1>0, <1>3, <2>1, NoAcceptSeq DEF HubAccept
<1>4. ASSUME NEW c \in Conns, HubRoute(c)
      PROVE  /\ \A d \in Conns : NoAccept(q'[d]) /\ NoAccept(up'[d])
             /\ \A k \in Callers : waiting'[k] # None => waiting'[k].frame.fn # "ConnectAccept"
  <2>1. \A d \in Conns : up'[d] = up[d] \/ (up[d] # <<>> /\ up'[d] = Tail(up[d]))
    BY <1>4 DEF HubRoute, TypeOK
  <2>2. /\ Head(up[c]) \in Frames /\ Head(up[c]).fn # "ConnectAccept"
        /\ Control("HeartbeatAck", c) \in Frames
        /\ Control("HeartbeatAck", c).fn # "ConnectAccept"
    <3>1. up[c] # <<>>
      BY <1>4 DEF HubRoute
    <3>2. Head(up[c]) \in Frames /\ Head(up[c]).fn # "ConnectAccept"
      BY <1>0, <3>1, NoAcceptSeq
    <3>3. Control("HeartbeatAck", c) \in Frames
      BY FrameTypes DEF TypeOK
    <3> QED BY <3>2, <3>3 DEF Control
  <2>3. \A d \in Conns : \/ q'[d] = q[d]
                         \/ q'[d] = Append(q[d], Head(up[c]))
                         \/ q'[d] = Append(q[d], Control("HeartbeatAck", c))
    BY <1>4, TrySendEffect DEF HubRoute
  <2> QED BY <1>0, <1>4, <2>1, <2>2, <2>3, NoAcceptSeq DEF HubRoute
<1>5. ASSUME NEW c \in Conns, HubCleanup(c)
      PROVE  /\ \A d \in Conns : NoAccept(q'[d]) /\ NoAccept(up'[d])
             /\ \A k \in Callers : waiting'[k] # None => waiting'[k].frame.fn # "ConnectAccept"
  BY <1>0, <1>5, NoAcceptSeq DEF HubCleanup, TypeOK
<1>6. ASSUME NEW c \in Conns, Outbound(c)
      PROVE  /\ \A d \in Conns : NoAccept(q'[d]) /\ NoAccept(up'[d])
             /\ \A k \in Callers : waiting'[k] # None => waiting'[k].frame.fn # "ConnectAccept"
  <2>1. \A d \in Conns : \/ q'[d] = q[d] \/ q'[d] = <<>>
                         \/ q[d] # <<>> /\ q'[d] = Tail(q[d])
    BY <1>6 DEF Outbound, TypeOK
  <2> QED BY <1>0, <1>6, <2>1, NoAcceptSeq DEF Outbound
<1>7. ASSUME NEW c \in Conns, NEW v \in Vmacs, Connect(c, v)
      PROVE  /\ \A d \in Conns : NoAccept(q'[d]) /\ NoAccept(up'[d])
             /\ \A k \in Callers : waiting'[k] # None => waiting'[k].frame.fn # "ConnectAccept"
  <2>1. NoAccept(<<Control("ConnectRequest", c)>>)
    BY DEF NoAccept, Control
  <2>2. \A d \in Conns : up'[d] = up[d] \/ up'[d] = <<Control("ConnectRequest", c)>>
    BY <1>7 DEF Connect, TypeOK
  <2> QED BY <1>0, <1>7, <2>1, <2>2 DEF Connect
<1>8. ASSUME NEW c \in Conns, NodeSend(c)
      PROVE  /\ \A d \in Conns : NoAccept(q'[d]) /\ NoAccept(up'[d])
             /\ \A k \in Callers : waiting'[k] # None => waiting'[k].frame.fn # "ConnectAccept"
  <2>1. PICK f \in {Npdu(v, c) : v \in Vmacs} \cup {Control("Heartbeat", c)} :
          up' = [up EXCEPT ![c] = Append(@, f)]
    BY <1>8 DEF NodeSend
  <2>2. f \in Frames /\ f.fn # "ConnectAccept"
    <3>1. sent \in 0..MaxFrames /\ sent < MaxFrames
      BY <1>8 DEF NodeSend, TypeOK
    <3>2. f \in Frames
      BY <3>1, FrameTypes
    <3>3. f.fn # "ConnectAccept"
      BY DEF Npdu, Control
    <3> QED BY <3>2, <3>3
  <2>3. \A d \in Conns : up'[d] = up[d] \/ up'[d] = Append(up[d], f)
    BY <2>1 DEF TypeOK
  <2> QED BY <1>0, <1>8, <2>2, <2>3, NoAcceptSeq DEF NodeSend
<1>9. ASSUME NEW c \in Conns, Break(c)
      PROVE  /\ \A d \in Conns : NoAccept(q'[d]) /\ NoAccept(up'[d])
             /\ \A k \in Callers : waiting'[k] # None => waiting'[k].frame.fn # "ConnectAccept"
  <2>1. \A d \in Conns : \/ up'[d] = up[d]
                         \/ \E i \in 0..Len(up[d]) : up'[d] = SubSeq(up[d], 1, i)
    BY <1>9 DEF Break, TypeOK
  <2> QED BY <1>0, <1>9, <2>1, NoAcceptSeq DEF Break
<1>10. CASE UNCHANGED <<q, up, waiting>>
  BY <1>0, <1>10
<1> QED
  BY <1>1, <1>2, <1>3, <1>4, <1>5, <1>6, <1>7, <1>8, <1>9, <1>10
  DEF Next, HubAbandon, HubBlock, HubRegister, HubClose, OutboundEnd, NodeAwaitAccept,
      NodeClosed, NodeReceive, vars

LEMMA AcceptFirstStep ==
  ASSUME TypeOK, LifeInv, AcceptInv, [Next]_vars, NEW d \in Conns
  PROVE  AcceptFirst(d)'
<1>0. /\ Lifecycle(d) /\ AcceptFirst(d) /\ NoAccept(q[d])
      /\ q[d] \in Seq(Frames) /\ down[d] \in Seq(Frames)
  BY DEF LifeInv, AcceptInv, TypeOK
<1>1. ASSUME NEW c \in Conns, HubAccept(c) PROVE AcceptFirst(d)'
  <2>1. CASE down'[d] = down[d] /\ hub'[d] = hub[d]
    BY <1>0, <1>1, <2>1 DEF HubAccept, AcceptFirst
  <2>2. CASE down'[d] = down[d] /\ hub'[d] = "done"
    BY <1>0, <1>1, <2>2 DEF HubAccept, AcceptFirst
  <2>3. CASE d = c /\ down'[d] = Append(down[d], Control("ConnectAccept", c))
    <3>1. down[d] = <<>>
      BY <1>0, <1>1, <2>3 DEF HubAccept, Lifecycle
    <3>2. Len(down'[d]) = 1 /\ down'[d][1].fn = "ConnectAccept" /\ down'[d] # <<>>
      BY <2>3, <3>1 DEF Control
    <3> QED BY <3>2 DEF AcceptFirst
  <2> QED BY <1>1, <2>1, <2>2, <2>3 DEF HubAccept, TypeOK
<1>2. ASSUME NEW c \in Conns, HubAbandon(c) PROVE AcceptFirst(d)'
  BY <1>0, <1>2 DEF HubAbandon, AcceptFirst, TypeOK
<1>3. ASSUME NEW c \in Conns, HubRegister(c) PROVE AcceptFirst(d)'
  BY <1>0, <1>3 DEF HubRegister, AcceptFirst, TypeOK
<1>4. ASSUME NEW c \in Conns, HubClose(c) PROVE AcceptFirst(d)'
  BY <1>0, <1>4 DEF HubClose, AcceptFirst, TypeOK
<1>5. ASSUME NEW c \in Conns, HubCleanup(c) PROVE AcceptFirst(d)'
  BY <1>0, <1>5 DEF HubCleanup, AcceptFirst, TypeOK
<1>6. ASSUME NEW c \in Conns, Outbound(c) PROVE AcceptFirst(d)'
  <2>1. CASE down'[d] = down[d]
    BY <1>0, <1>6, <2>1 DEF Outbound, AcceptFirst
  <2>2. CASE d = c /\ wire[d] = "open" /\ down'[d] = Append(down[d], Head(q[d]))
    <3>1. hub[d] \in {"serving", "cleanup", "removing", "done"} /\ hub[d] = "serving"
      BY <1>0, <1>6, <2>2 DEF Outbound, Lifecycle, TypeOK
    <3>2. Head(q[d]) \in Frames /\ Head(q[d]).fn # "ConnectAccept"
      BY <1>0, <1>6, <2>2, NoAcceptSeq DEF Outbound
    <3>3. node[d] = "connecting" =>
            /\ Len(down[d]) >= 1
            /\ \A i \in 1..Len(down[d]) : (down[d][i].fn = "ConnectAccept") <=> (i = 1)
      BY <1>0, <2>2, <3>1 DEF AcceptFirst
    <3>4. /\ Len(down'[d]) = Len(down[d]) + 1
          /\ \A i \in 1..Len(down[d]) : down'[d][i] = down[d][i]
          /\ down'[d][Len(down[d]) + 1] = Head(q[d])
      BY <1>0, <2>2, <3>2
    <3>5. ASSUME node[d] = "connecting"
          PROVE  /\ down'[d] # <<>>
                 /\ \A i \in 1..Len(down'[d]) :
                      (down'[d][i].fn = "ConnectAccept") <=> (i = 1)
      <4>1. Len(down[d]) \in Nat /\ Len(down[d]) >= 1
        BY <1>0, <3>3, <3>5
      <4>2. down'[d] # <<>>
        BY <3>4, <4>1
      <4>3. \A i \in 1..Len(down[d]) : (down'[d][i].fn = "ConnectAccept") <=> (i = 1)
        BY <3>3, <3>4, <3>5
      <4>4. down'[d][Len(down[d]) + 1].fn # "ConnectAccept" /\ Len(down[d]) + 1 # 1
        BY <3>2, <3>4, <4>1
      <4>5. \A i \in 1..Len(down'[d]) : i \in 1..Len(down[d]) \/ i = Len(down[d]) + 1
        BY <3>4, <4>1
      <4> QED BY <4>2, <4>3, <4>4, <4>5
    <3> QED BY <1>6, <3>5 DEF AcceptFirst, Outbound
  <2> QED BY <1>6, <2>1, <2>2 DEF Outbound, TypeOK
<1>7. ASSUME NEW c \in Conns, NEW v \in Vmacs, Connect(c, v) PROVE AcceptFirst(d)'
  <2>1. CASE d = c
    <3>1. down'[d] = <<>> /\ hub'[d] = "handshake"
      BY <1>0, <1>7, <2>1 DEF Connect, Lifecycle, TypeOK
    <3> QED BY <3>1 DEF AcceptFirst
  <2>2. CASE d # c
    BY <1>0, <1>7, <2>2 DEF Connect, AcceptFirst, TypeOK
  <2> QED BY <2>1, <2>2
<1>8. ASSUME NEW c \in Conns, NodeAwaitAccept(c) PROVE AcceptFirst(d)'
  <2>1. CASE d = c
    <3>1. node'[d] = "connecting" => Head(down[d]).fn # "ConnectAccept"
      BY <1>8, <2>1 DEF NodeAwaitAccept, TypeOK
    <3>2. down[d] # <<>> /\ node[d] = "connecting" /\ wire'[d] = wire[d]
      BY <1>8, <2>1 DEF NodeAwaitAccept
    <3>3. wire[d] = "open" => Head(down[d]).fn = "ConnectAccept"
      BY <1>0, <3>2 DEF AcceptFirst
    <3> QED BY <3>1, <3>2, <3>3 DEF AcceptFirst
  <2>2. CASE d # c
    BY <1>0, <1>8, <2>2 DEF NodeAwaitAccept, AcceptFirst, TypeOK
  <2> QED BY <2>1, <2>2
<1>9. ASSUME NEW c \in Conns, NodeClosed(c) PROVE AcceptFirst(d)'
  BY <1>0, <1>9 DEF NodeClosed, AcceptFirst, TypeOK
<1>10. ASSUME NEW c \in Conns, NodeReceive(c) PROVE AcceptFirst(d)'
  <2>1. down'[d] = down[d] \/ node[d] = "connected"
    BY <1>10 DEF NodeReceive, TypeOK
  <2> QED BY <1>0, <1>10, <2>1 DEF NodeReceive, AcceptFirst
<1>11. ASSUME NEW c \in Conns, Break(c) PROVE AcceptFirst(d)'
  <2>1. wire'[d] = "closed" \/ (wire'[d] = wire[d] /\ down'[d] = down[d])
    BY <1>11 DEF Break, TypeOK
  <2> QED BY <1>0, <1>11, <2>1 DEF Break, AcceptFirst
<1>12. ASSUME NEW c \in Conns, HubBlock(c) PROVE AcceptFirst(d)'
  BY <1>0, <1>12 DEF HubBlock, AcceptFirst, TypeOK
<1>13. CASE UNCHANGED <<node, wire, hub, down>>
  BY <1>0, <1>13 DEF AcceptFirst
<1> QED
  BY <1>1, <1>2, <1>3, <1>4, <1>5, <1>6, <1>7, <1>8, <1>9, <1>10, <1>11, <1>12, <1>13
  DEF Next, HubSendResume, HubSend, HubRoute, OutboundEnd, NodeSend, vars

\* A frame of a concatenation is a frame of one of its parts.
LEMMA ConcatFrame ==
  ASSUME NEW s \in Seq(Frames), NEW t \in Seq(Frames), NEW i \in 1..Len(s \o t)
  PROVE  \/ i \in 1..Len(s) /\ (s \o t)[i] = s[i]
         \/ /\ i > Len(s) /\ i - Len(s) \in 1..Len(t)
            /\ (s \o t)[i] = t[i - Len(s)]
<1>1. Len(s \o t) = Len(s) + Len(t) /\ Len(s) \in Nat /\ Len(t) \in Nat
  OBVIOUS
<1>2. i \in Nat /\ 1 <= i /\ i <= Len(s) + Len(t)
  BY <1>1
<1>3. (s \o t)[i] = IF i <= Len(s) THEN s[i] ELSE t[i - Len(s)]
  BY <1>1, <1>2
<1> QED BY <1>1, <1>2, <1>3

\* The accept on its way is the first frame of the whole pipeline: nothing
\* else is queued before it is sent, and no other accept follows.
LEMMA AcceptImplies == TypeOK /\ LifeInv /\ AcceptInv => AcceptComesFirst
<1> SUFFICES ASSUME TypeOK, LifeInv, AcceptInv, NEW c \in Conns,
                    node[c] = "connecting", wire[c] = "open",
                    NEW i \in 1..Len(Pipeline(c))
             PROVE  (Pipeline(c)[i].fn = "ConnectAccept") <=> (i = 1)
  BY DEF AcceptComesFirst
<1>1. /\ down[c] \in Seq(Frames) /\ q[c] \in Seq(Frames) /\ Lifecycle(c)
      /\ AcceptFirst(c) /\ NoAccept(q[c])
      /\ hub[c] \in {"none", "handshake", "accepted", "inserting", "serving",
                        "cleanup", "removing", "done"}
  BY DEF TypeOK, LifeInv, AcceptInv
<1>2. CASE hub[c] \in {"none", "handshake"}
  <2>1. down[c] = <<>> /\ q[c] = <<>>
    BY <1>1, <1>2 DEF Lifecycle
  <2>2. Len(Pipeline(c)) = 0
    BY <2>1 DEF Pipeline
  <2> QED BY <2>2
<1>3. CASE hub[c] \in {"accepted", "inserting", "serving"}
  <2>1. /\ Len(down[c]) >= 1
        /\ \A j \in 1..Len(down[c]) : (down[c][j].fn = "ConnectAccept") <=> (j = 1)
    BY <1>1, <1>3 DEF AcceptFirst
  <2>2. CASE i \in 1..Len(down[c]) /\ Pipeline(c)[i] = down[c][i]
    BY <2>1, <2>2
  <2>3. CASE /\ i > Len(down[c]) /\ i - Len(down[c]) \in 1..Len(q[c])
             /\ Pipeline(c)[i] = q[c][i - Len(down[c])]
    BY <1>1, <2>1, <2>3 DEF NoAccept
  <2> QED BY <1>1, <2>2, <2>3, ConcatFrame DEF Pipeline
<1> QED BY <1>1, <1>2, <1>3 DEF Lifecycle

\* A node that waits in connect() never discards an NPDU: the first frame the
\* hub sends on a connection is its ConnectAccept, and the only one.
THEOREM AcceptIsFirst == Spec => []AcceptComesFirst
<1> DEFINE Inv == TypeOK /\ LifeInv /\ AcceptInv
<1>1. Init => Inv
  BY TypeInit, LifeInit, AcceptInit
<1>2. Inv /\ [Next]_vars => Inv'
  <2> SUFFICES ASSUME Inv, [Next]_vars PROVE Inv'
    OBVIOUS
  <2>1. AcceptInv'
    BY NoAcceptStep, AcceptFirstStep DEF AcceptInv
  <2> QED BY <2>1, TypeStep, LifeStep
<1>3. Inv => AcceptComesFirst
  BY AcceptImplies
<1> QED BY <1>1, <1>2, <1>3, PTL DEF Spec

-----------------------------------------------------------------------------
(* NPDUs go to the address they are for, and those of one source in order. *)

\* The NPDUs in a queue.
Npdus(s) == {f \in Frames : f.fn = "Npdu" /\ \E i \in 1..Len(s) : s[i] = f}

\* The NPDUs of one source are in s in the order they were sent.
Ordered(s) ==
  \A i, j \in 1..Len(s) :
    i < j /\ s[i].fn = "Npdu" /\ s[j].fn = "Npdu" /\ s[i].src = s[j].src => s[i].id < s[j].id

\* Of one source, the frames of S were sent before the frames of T.
Before(S, T) == \A f \in S, g \in T : f.src = g.src => f.id < g.id

\* All that is on its way to the node of d.
ToNode(d) == Npdus(down[d]) \cup Npdus(q[d])

\* Whose NPDUs are where.
PlaceInv ==
  /\ \A c \in Conns :
       /\ \A f \in Npdus(up[c]) : f.src = c /\ f.dst \in Vmacs /\ f.id <= sent
       /\ \A f \in ToNode(c) : f.dst = vmac[c] /\ f.id <= sent
  /\ \A k \in Callers : waiting[k] # None =>
       /\ waiting[k].frame.fn = "Npdu" /\ waiting[k].frame.src = k
       /\ waiting[k].frame.id <= sent /\ waiting[k].frame.dst = vmac[waiting[k].conn]
       /\ writer[waiting[k].conn] # "none"

\* What was routed was sent before what its node has still to send, and what
\* a waiting send_to_vmac holds was sent after its caller's other frames.
OrderInv ==
  /\ \A c \in Conns :
       /\ Ordered(up[c]) /\ Ordered(q[c]) /\ Ordered(down[c])
       /\ Before(Npdus(down[c]), Npdus(q[c]))
  /\ \A c, d \in Conns : Before(ToNode(d), Npdus(up[c]))
  /\ \A k \in Callers, d \in Conns :
       waiting[k] # None => Before(ToNode(d), {waiting[k].frame})

\* s holds no NPDU that t does not hold, and in no other order.
Shrinks(s, t) == Npdus(s) \subseteq Npdus(t) /\ (Ordered(t) => Ordered(s))

LEMMA NpdusAppend ==
  ASSUME NEW s \in Seq(Frames), NEW f \in Frames
  PROVE  /\ f.fn = "Npdu" => Npdus(Append(s, f)) = Npdus(s) \cup {f}
         /\ f.fn # "Npdu" => Npdus(Append(s, f)) = Npdus(s)
<1> DEFINE t == Append(s, f)
<1>1. /\ Len(t) = Len(s) + 1 /\ Len(s) \in Nat
      /\ \A i \in 1..Len(s) : t[i] = s[i]
      /\ t[Len(s) + 1] = f
  OBVIOUS
<1> HIDE DEF t
<1>2. \A g : (\E i \in 1..Len(t) : t[i] = g) <=> (g = f \/ \E i \in 1..Len(s) : s[i] = g)
  BY <1>1
<1>3. \A g : g \in Npdus(t) <=> g \in Npdus(s) \/ (g = f /\ f.fn = "Npdu")
  BY <1>2 DEF Npdus
<1> QED BY <1>3 DEF t

\* An NPDU that was sent after those of its source in s may be appended.
LEMMA OrderedAppend ==
  ASSUME NEW s \in Seq(Frames), NEW f \in Frames, Ordered(s),
         f.fn = "Npdu" => Before(Npdus(s), {f})
  PROVE  Ordered(Append(s, f))
<1> DEFINE t == Append(s, f)
<1>1. /\ Len(t) = Len(s) + 1 /\ Len(s) \in Nat
      /\ \A i \in 1..Len(s) : t[i] = s[i] /\ s[i] \in Frames
      /\ t[Len(s) + 1] = f
  OBVIOUS
<1> HIDE DEF t
<1> SUFFICES ASSUME NEW i \in 1..Len(t), NEW j \in 1..Len(t), i < j, t[i].fn = "Npdu",
                    t[j].fn = "Npdu", t[i].src = t[j].src
             PROVE  t[i].id < t[j].id
  BY DEF Ordered, t
<1>2. i \in 1..Len(s)
  BY <1>1
<1>3. CASE j \in 1..Len(s)
  BY <1>1, <1>2, <1>3 DEF Ordered
<1>4. CASE j = Len(s) + 1
  <2>1. s[i] \in Npdus(s)
    BY <1>1, <1>2 DEF Npdus
  <2> QED BY <1>1, <1>2, <1>4, <2>1 DEF Before
<1> QED BY <1>1, <1>3, <1>4

LEMMA ShrinkSeq ==
  ASSUME NEW s \in Seq(Frames)
  PROVE  /\ Shrinks(s, s) /\ Shrinks(<<>>, s)
         /\ s # <<>> => Shrinks(Tail(s), s)
         /\ \A i \in 0..Len(s) : Shrinks(SubSeq(s, 1, i), s)
         /\ \A f \in Frames : f.fn # "Npdu" => Shrinks(Append(s, f), s)
<1>1. Shrinks(s, s) /\ Shrinks(<<>>, s)
  BY DEF Shrinks, Ordered, Npdus
<1>2. ASSUME s # <<>> PROVE Shrinks(Tail(s), s)
  <2> DEFINE t == Tail(s)
  <2>1. /\ Len(s) \in Nat /\ Len(t) = Len(s) - 1
        /\ \A i \in 1..Len(t) : t[i] = s[i + 1] /\ i + 1 \in 1..Len(s)
    BY <1>2
  <2> HIDE DEF t
  <2>2. Npdus(t) \subseteq Npdus(s)
    BY <2>1 DEF Npdus
  <2>3. \A i, j \in 1..Len(t) : i < j => i + 1 < j + 1
    OBVIOUS
  <2>4. Ordered(s) => Ordered(t)
    BY <2>1, <2>3 DEF Ordered
  <2> QED BY <2>2, <2>4 DEF Shrinks, t
<1>3. ASSUME NEW k \in 0..Len(s) PROVE Shrinks(SubSeq(s, 1, k), s)
  <2> DEFINE t == SubSeq(s, 1, k)
  <2>1. Len(t) = k /\ \A i \in 1..k : t[i] = s[i] /\ i \in 1..Len(s)
    BY <1>3
  <2> HIDE DEF t
  <2> QED BY <2>1 DEF Shrinks, Npdus, Ordered, t
<1>4. ASSUME NEW f \in Frames, f.fn # "Npdu" PROVE Shrinks(Append(s, f), s)
  BY <1>4, NpdusAppend, OrderedAppend DEF Shrinks
<1> QED BY <1>1, <1>2, <1>3, <1>4

\* Of one source, the first NPDU of an ordered queue is the oldest.
LEMMA HeadIsOldest ==
  ASSUME NEW s \in Seq(Frames), s # <<>>, Ordered(s), Head(s).fn = "Npdu"
  PROVE  Head(s) \in Npdus(s) /\ Before({Head(s)}, Npdus(Tail(s)))
<1> DEFINE t == Tail(s)
<1>1. /\ Len(s) \in Nat /\ 1 \in 1..Len(s) /\ Head(s) = s[1] /\ s[1] \in Frames
      /\ \A i \in 1..Len(t) : t[i] = s[i + 1] /\ i + 1 \in 1..Len(s) /\ 1 < i + 1
  OBVIOUS
<1> HIDE DEF t
<1>2. Head(s) \in Npdus(s)
  BY <1>1 DEF Npdus
<1>3. ASSUME NEW g \in Npdus(t), s[1].src = g.src PROVE s[1].id < g.id
  <2>1. PICK i \in 1..Len(t) : t[i] = g
    BY DEF Npdus
  <2>2. g.fn = "Npdu" /\ g = s[i + 1]
    BY <1>1, <2>1 DEF Npdus
  <2> QED BY <1>1, <1>3, <2>1, <2>2 DEF Ordered
<1> QED BY <1>1, <1>2, <1>3 DEF Before, t

\* A step that adds no NPDU keeps them in place and in order.
LEMMA ShrinkStep ==
  ASSUME TypeOK, PlaceInv, OrderInv,
         \A c \in Conns : /\ Shrinks(up'[c], up[c])
                          /\ Shrinks(q'[c], q[c]) /\ Shrinks(down'[c], down[c]),
         \A c \in Conns : \/ vmac'[c] = vmac[c]
                          \/ writer[c] = "none" /\ Npdus(down[c]) = {} /\ Npdus(q[c]) = {},
         \A c \in Conns : writer'[c] = "none" => writer[c] = "none",
         \A k \in Callers : waiting'[k] # None => waiting'[k] = waiting[k],
         sent' \in Nat, sent <= sent'
  PROVE  PlaceInv' /\ OrderInv'
<1>1. ASSUME NEW c \in Conns
      PROVE  /\ Npdus(up'[c]) \subseteq Npdus(up[c]) /\ Npdus(q'[c]) \subseteq Npdus(q[c])
             /\ Npdus(down'[c]) \subseteq Npdus(down[c])
             /\ Ordered(up'[c]) /\ Ordered(q'[c]) /\ Ordered(down'[c])
  BY DEF Shrinks, OrderInv
<1>2. \A c \in Conns : ToNode(c)' \subseteq ToNode(c)
  BY <1>1 DEF ToNode
<1>3. \A f \in Frames : f.id \in Nat
  BY DEF Frames
<1>4. \A k \in Callers : waiting[k] # None =>
        waiting[k].conn \in Conns /\ waiting[k].frame \in Frames
  BY DEF TypeOK
<1>5. ASSUME NEW c \in Conns
      PROVE  /\ \A f \in Npdus(up'[c]) : f.src = c /\ f.dst \in Vmacs /\ f.id <= sent'
             /\ \A f \in ToNode(c)' : f.dst = vmac'[c] /\ f.id <= sent'
  <2>1. sent \in Nat /\ \A f \in Npdus(up[c]) \cup ToNode(c) : f \in Frames
    BY DEF TypeOK, Npdus, ToNode
  <2>2. \A f \in Npdus(up[c]) \cup ToNode(c) : f.id <= sent'
    BY <1>3, <2>1 DEF PlaceInv
  <2>3. vmac'[c] = vmac[c] \/ ToNode(c) = {}
    BY DEF ToNode
  <2> QED BY <1>1, <1>2, <2>2, <2>3 DEF PlaceInv
<1>6. ASSUME NEW k \in Callers, waiting'[k] # None
      PROVE  /\ waiting'[k].frame.fn = "Npdu" /\ waiting'[k].frame.src = k
             /\ waiting'[k].frame.id <= sent'
             /\ waiting'[k].frame.dst = vmac'[waiting'[k].conn]
             /\ writer'[waiting'[k].conn] # "none"
  <2>1. waiting'[k] = waiting[k] /\ waiting[k] # None /\ sent \in Nat
    BY <1>6 DEF TypeOK
  <2>2. waiting[k].frame.id <= sent'
    BY <1>3, <1>4, <2>1 DEF PlaceInv
  <2> QED BY <1>4, <2>1, <2>2 DEF PlaceInv
<1>7. PlaceInv'
  BY <1>5, <1>6 DEF PlaceInv
<1>8. OrderInv'
  BY <1>1, <1>2 DEF OrderInv, Before
<1> QED BY <1>7, <1>8

\* A step that puts NPDU f in the channel of d, or drops it, when f is younger
\* than all on its way to d, and older than all that may still be.
LEMMA RouteStep ==
  ASSUME TypeOK, PlaceInv, OrderInv,
         NEW d \in Conns, NEW f \in Frames, f.fn = "Npdu", f.dst = vmac[d], f.id <= sent',
         Before(ToNode(d), {f}),
         \A c \in Conns : Before({f}, Npdus(up'[c])),
         \A k \in Callers : waiting'[k] # None => waiting'[k] = waiting[k] /\ f.src # k,
         \A c \in Conns : Shrinks(up'[c], up[c]),
         \A c \in Conns : q'[c] = q[c] \/ (c = d /\ q'[c] = Append(q[c], f)),
         UNCHANGED <<vmac, writer, down>>,
         sent' \in Nat, sent <= sent'
  PROVE  PlaceInv' /\ OrderInv'
<1>1. ASSUME NEW c \in Conns
      PROVE  /\ Npdus(up'[c]) \subseteq Npdus(up[c]) /\ Ordered(up'[c])
             /\ Npdus(q'[c]) \subseteq Npdus(q[c]) \cup {f}
             /\ c # d => Npdus(q'[c]) = Npdus(q[c])
             /\ Ordered(q'[c])
  <2>1. q[c] \in Seq(Frames) /\ Ordered(q[c]) /\ Ordered(up[c])
    BY DEF TypeOK, OrderInv
  <2>2. Before(Npdus(q[d]), {f})
    BY DEF Before, ToNode
  <2>3. Npdus(up'[c]) \subseteq Npdus(up[c]) /\ Ordered(up'[c])
    BY <2>1 DEF Shrinks
  <2>4. CASE q'[c] = q[c]
    BY <2>1, <2>3, <2>4
  <2>5. CASE c = d /\ q'[c] = Append(q[c], f)
    <3>1. Npdus(q'[c]) = Npdus(q[c]) \cup {f}
      BY <2>1, <2>5, NpdusAppend
    <3>2. Ordered(q'[c])
      BY <2>1, <2>2, <2>5, OrderedAppend
    <3> QED BY <2>3, <2>5, <3>1, <3>2
  <2> QED BY <2>4, <2>5
<1>2. /\ \A c \in Conns : ToNode(c)' \subseteq ToNode(c) \cup {f}
      /\ \A c \in Conns : c # d => ToNode(c)' \subseteq ToNode(c)
  BY <1>1 DEF ToNode
<1>3. \A g \in Frames : g.id \in Nat
  BY DEF Frames
<1>4. \A k \in Callers : waiting[k] # None =>
        waiting[k].conn \in Conns /\ waiting[k].frame \in Frames
  BY DEF TypeOK
<1>5. ASSUME NEW c \in Conns
      PROVE  /\ \A g \in Npdus(up'[c]) : g.src = c /\ g.dst \in Vmacs /\ g.id <= sent'
             /\ \A g \in ToNode(c)' : g.dst = vmac'[c] /\ g.id <= sent'
  <2>1. sent \in Nat /\ \A g \in Npdus(up[c]) \cup ToNode(c) : g \in Frames
    BY DEF TypeOK, Npdus, ToNode
  <2>2. \A g \in Npdus(up[c]) \cup ToNode(c) : g.id <= sent'
    BY <1>3, <2>1 DEF PlaceInv
  <2>3. \A g \in Npdus(up'[c]) : g.src = c /\ g.dst \in Vmacs /\ g.id <= sent'
    BY <1>1, <2>2 DEF PlaceInv
  <2>4. \A g \in ToNode(c) : g.dst = vmac'[c] /\ g.id <= sent'
    BY <2>2 DEF PlaceInv
  <2>5. ASSUME NEW g \in ToNode(c)' PROVE g.dst = vmac'[c] /\ g.id <= sent'
    BY <1>2, <2>4
  <2> QED BY <2>3, <2>5
<1>6. ASSUME NEW k \in Callers, waiting'[k] # None
      PROVE  /\ waiting'[k].frame.fn = "Npdu" /\ waiting'[k].frame.src = k
             /\ waiting'[k].frame.id <= sent'
             /\ waiting'[k].frame.dst = vmac'[waiting'[k].conn]
             /\ writer'[waiting'[k].conn] # "none"
  <2>1. waiting'[k] = waiting[k] /\ waiting[k] # None /\ sent \in Nat
    BY <1>6 DEF TypeOK
  <2>2. waiting[k].frame.id <= sent'
    BY <1>3, <1>4, <2>1 DEF PlaceInv
  <2> QED BY <2>1, <2>2 DEF PlaceInv
<1>7. PlaceInv'
  BY <1>5, <1>6 DEF PlaceInv
<1>8. ASSUME NEW c \in Conns PROVE Before(Npdus(down'[c]), Npdus(q'[c]))
  BY <1>1 DEF OrderInv, Before, ToNode
<1>9. ASSUME NEW c \in Conns, NEW e \in Conns PROVE Before(ToNode(e)', Npdus(up'[c]))
  BY <1>1, <1>2 DEF OrderInv, Before
<1>10. ASSUME NEW k \in Callers, waiting'[k] # None, NEW e \in Conns
       PROVE  Before(ToNode(e)', {waiting'[k].frame})
  BY <1>2, <1>6, <1>10 DEF OrderInv, Before
<1>11. OrderInv'
  BY <1>1, <1>8, <1>9, <1>10 DEF OrderInv
<1> QED BY <1>7, <1>11

LEMMA OrderInit == Init => PlaceInv /\ OrderInv
<1> SUFFICES ASSUME Init PROVE PlaceInv /\ OrderInv
  OBVIOUS
<1>1. Npdus(<<>>) = {} /\ Ordered(<<>>)
  BY DEF Npdus, Ordered
<1>2. /\ \A c \in Conns : up[c] = <<>> /\ q[c] = <<>> /\ down[c] = <<>>
      /\ \A k \in Callers : waiting[k] = None
  BY DEF Init
<1>3. \A c \in Conns : ToNode(c) = {}
  BY <1>1, <1>2 DEF ToNode
<1> QED BY <1>1, <1>2, <1>3 DEF PlaceInv, OrderInv, Before

LEMMA OrderStep ==
  ASSUME TypeOK, LifeInv, NoStaleEntry, PlaceInv, OrderInv, [Next]_vars
  PROVE  PlaceInv' /\ OrderInv'
<1>0. /\ \A c \in Conns : /\ up[c] \in Seq(Frames) /\ q[c] \in Seq(Frames)
                          /\ down[c] \in Seq(Frames)
      /\ sent \in Nat /\ sent <= MaxFrames
      /\ \A k \in Callers : k \notin Conns
  BY ConstantsAssumption DEF TypeOK
<1>s. \A s \in Seq(Frames) : Shrinks(s, s)
  BY ShrinkSeq
<1>i. \A f \in Frames : f.id \in Nat
  BY DEF Frames
<1>n. ASSUME NEW c \in Conns
      PROVE  /\ \A f \in Npdus(up[c]) : f.id <= sent /\ f \in Frames
             /\ \A f \in ToNode(c) : f.id <= sent /\ f \in Frames
  BY DEF PlaceInv, ToNode, Npdus
<1>1. ASSUME NEW k \in Callers, HubSendResume(k) PROVE PlaceInv' /\ OrderInv'
  <2> DEFINE d == waiting[k].conn
             f == waiting[k].frame
  <2>1. /\ d \in Conns /\ f \in Frames /\ waiting[k] # None
        /\ \A j \in Callers : waiting'[j] = IF j = k THEN None ELSE waiting[j]
        /\ \A c \in Conns : q'[c] = q[c] \/ (c = d /\ q'[c] = Append(q[c], f))
    BY <1>1, ResumeEffect
  <2>2. UNCHANGED <<vmac, writer, down, up, sent>>
    BY <1>1 DEF HubSendResume
  <2>3. f.fn = "Npdu" /\ f.src = k /\ f.id <= sent' /\ f.dst = vmac[d]
    BY <2>1, <2>2 DEF PlaceInv
  <2>4. Before(ToNode(d), {f})
    BY <2>1 DEF OrderInv
  <2> HIDE DEF d, f
  <2>5. \A c \in Conns : Before({f}, Npdus(up'[c])) /\ Shrinks(up'[c], up[c])
    BY <1>0, <1>s, <2>2, <2>3 DEF Before, PlaceInv
  <2>6. sent' \in Nat /\ sent <= sent'
    BY <1>0, <2>2
  <2>7. \A j \in Callers : waiting'[j] # None => waiting'[j] = waiting[j] /\ f.src # j
    BY <2>1, <2>3
  <2> QED BY <2>1, <2>2, <2>3, <2>4, <2>5, <2>6, <2>7, RouteStep
<1>2. ASSUME NEW k \in Callers, NEW v \in Vmacs, HubSend(k, v) PROVE PlaceInv' /\ OrderInv'
  <2> DEFINE d == nodes[v]
             f == Npdu(v, k)
  <2>1. /\ waiting[k] = None /\ sent < MaxFrames /\ sent' = sent + 1
        /\ UNCHANGED <<vmac, writer, down, up, nodes>>
    BY <1>2 DEF HubSend
  <2>2. /\ d \in Conns /\ f \in Frames /\ writer[d] = "running" /\ vmac[d] = v
    BY <1>2, <2>1, FrameTypes, HubSendEffect DEF TypeOK, NoStaleEntry, HubSend
  <2>3. f.fn = "Npdu" /\ f.src = k /\ f.id = sent + 1 /\ f.dst = vmac[d]
    BY <2>2 DEF Npdu
  <2>4. /\ \A c \in Conns : q'[c] = q[c] \/ (c = d /\ q'[c] = Append(q[c], f))
        /\ \/ waiting' = waiting
           \/ /\ q' = q
              /\ \A j \in Callers : waiting'[j] = IF j = k THEN [conn |-> d, frame |-> f]
                                                 ELSE waiting[j]
    BY <1>2, <2>1, HubSendEffect
  <2> HIDE DEF d, f
  <2>5. \A c \in Conns : Before(ToNode(c), {f})
    BY <1>0, <1>i, <1>n, <2>3 DEF Before
  <2>6. \A c \in Conns : Before({f}, Npdus(up'[c])) /\ Shrinks(up'[c], up[c])
    BY <1>0, <1>s, <2>1, <2>3 DEF Before, PlaceInv
  <2>7. f.id <= sent' /\ sent' \in Nat /\ sent <= sent'
    BY <1>0, <2>1, <2>3
  <2>8. CASE waiting' = waiting
    <3>1. \A j \in Callers : waiting'[j] # None => waiting'[j] = waiting[j] /\ f.src # j
      BY <2>1, <2>3, <2>8
    <3> QED BY <2>1, <2>2, <2>3, <2>4, <2>5, <2>6, <2>7, <3>1, RouteStep
  <2>9. CASE /\ q' = q
             /\ \A j \in Callers : waiting'[j] = IF j = k THEN [conn |-> d, frame |-> f]
                                                ELSE waiting[j]
    <3>1. waiting'[k].conn = d /\ waiting'[k].frame = f
      BY <2>9
    <3>2. \A c \in Conns : ToNode(c)' = ToNode(c)
      BY <2>1, <2>9 DEF ToNode
    <3>3. ASSUME NEW c \in Conns
          PROVE  /\ \A g \in Npdus(up'[c]) : g.src = c /\ g.dst \in Vmacs /\ g.id <= sent'
                 /\ \A g \in ToNode(c)' : g.dst = vmac'[c] /\ g.id <= sent'
      <4>1. \A g \in Npdus(up[c]) \cup ToNode(c) : g.id <= sent'
        BY <1>0, <1>i, <1>n, <2>7
      <4> QED BY <2>1, <3>2, <4>1 DEF PlaceInv
    <3>4. ASSUME NEW j \in Callers, waiting'[j] # None
          PROVE  /\ waiting'[j].frame.fn = "Npdu" /\ waiting'[j].frame.src = j
                 /\ waiting'[j].frame.id <= sent'
                 /\ waiting'[j].frame.dst = vmac'[waiting'[j].conn]
                 /\ writer'[waiting'[j].conn] # "none"
                 /\ \A e \in Conns : Before(ToNode(e)', {waiting'[j].frame})
      <4>1. CASE j = k
        BY <2>1, <2>2, <2>3, <2>5, <2>7, <3>1, <3>2, <4>1
      <4>2. CASE j # k
        <5>1. waiting'[j] = waiting[j] /\ waiting[j] # None /\ waiting[j].frame \in Frames
          BY <2>9, <3>4, <4>2 DEF TypeOK
        <5>2. waiting[j].frame.id <= sent'
          BY <1>0, <1>i, <2>7, <5>1 DEF PlaceInv
        <5> QED BY <2>1, <3>2, <5>1, <5>2 DEF PlaceInv, OrderInv
      <4> QED BY <4>1, <4>2
    <3>5. PlaceInv'
      BY <3>3, <3>4 DEF PlaceInv
    <3>6. OrderInv'
      BY <2>1, <2>9, <3>2, <3>4 DEF OrderInv
    <3> QED BY <3>5, <3>6
  <2> QED BY <2>4, <2>8, <2>9
<1>3. ASSUME NEW c \in Conns, HubAccept(c) PROVE PlaceInv' /\ OrderInv'
  <2>1. Control("ConnectAccept", c) \in Frames /\ Control("ConnectAccept", c).fn # "Npdu"
    <3>1. Control("ConnectAccept", c) \in Frames
      BY FrameTypes DEF TypeOK
    <3> QED BY <3>1 DEF Control
  <2>2. \A d \in Conns :
          /\ up'[d] = up[d] \/ (up[d] # <<>> /\ up'[d] = Tail(up[d]))
          /\ down'[d] = down[d] \/ down'[d] = Append(down[d], Control("ConnectAccept", c))
    BY <1>3 DEF HubAccept, TypeOK
  <2>3. \A d \in Conns : Shrinks(up'[d], up[d]) /\ Shrinks(down'[d], down[d])
    BY <1>0, <2>1, <2>2, ShrinkSeq
  <2> QED BY <1>0, <1>3, <1>s, <2>3, ShrinkStep DEF HubAccept
<1>4. ASSUME NEW c \in Conns, HubRoute(c) PROVE PlaceInv' /\ OrderInv'
  <2> DEFINE f == Head(up[c])
  <2>1. /\ up[c] # <<>> /\ f \in Frames
        /\ UNCHANGED <<vmac, writer, nodes, down, waiting, sent>>
    BY <1>0, <1>4 DEF HubRoute
  <2>2. \A d \in Conns : up'[d] = IF d = c THEN Tail(up[c]) ELSE up[d]
    BY <1>4 DEF HubRoute, TypeOK
  <2>3. \A d \in Conns : Shrinks(up'[d], up[d])
    BY <1>0, <2>1, <2>2, ShrinkSeq
  <2>4. CASE f.fn = "Npdu" /\ nodes[f.dst] # None
    <3> DEFINE d == nodes[f.dst]
    <3>1. /\ f \in Npdus(up[c]) /\ Before({f}, Npdus(Tail(up[c])))
      BY <1>0, <2>1, <2>4, HeadIsOldest DEF OrderInv
    <3>2. f.src = c /\ f.dst \in Vmacs /\ f.id <= sent
      BY <3>1 DEF PlaceInv
    <3>3. d \in Conns /\ vmac[d] = f.dst
      BY <2>4, <3>2 DEF TypeOK, NoStaleEntry
    <3>4. \A e \in Conns : q'[e] = q[e] \/ (e = d /\ q'[e] = Append(q[e], f))
      BY <1>4, <2>4, TrySendEffect DEF HubRoute
    <3>5. Before(ToNode(d), {f})
      BY <3>1, <3>3 DEF OrderInv, Before
    <3>6. ASSUME NEW e \in Conns PROVE Before({f}, Npdus(up'[e]))
      BY <2>2, <3>1, <3>2 DEF Before, PlaceInv
    <3>7. /\ f.fn = "Npdu" /\ f.id <= sent' /\ f.dst = vmac[d]
          /\ \A k \in Callers : f.src # k
      BY <1>0, <2>1, <2>4, <3>2, <3>3
    <3>8. sent' \in Nat /\ sent <= sent'
      BY <1>0, <2>1
    <3>9. f \in Frames
      BY <2>1
    <3> HIDE DEF d, f
    <3> QED BY <2>1, <2>3, <3>3, <3>4, <3>5, <3>6, <3>7, <3>8, <3>9, RouteStep
  <2>5. CASE f.fn = "Npdu" /\ nodes[f.dst] = None
    <3>1. \A d \in Conns : q'[d] = q[d]
      BY <1>4, <2>5 DEF HubRoute, TrySend
    <3> QED BY <1>0, <1>s, <2>1, <2>3, <3>1, ShrinkStep
  <2>6. CASE f.fn # "Npdu"
    <3>1. Control("HeartbeatAck", c) \in Frames
      BY FrameTypes DEF TypeOK
    <3>2. Control("HeartbeatAck", c).fn # "Npdu"
      BY DEF Control
    <3>3. \A d \in Conns : \/ q'[d] = q[d]
                           \/ q'[d] = Append(q[d], Control("HeartbeatAck", c))
      BY <1>4, <2>6, TrySendEffect DEF HubRoute
    <3>4. \A d \in Conns : Shrinks(q'[d], q[d])
      BY <1>0, <3>1, <3>2, <3>3, ShrinkSeq
    <3> QED BY <1>0, <1>s, <2>1, <2>3, <3>4, ShrinkStep
  <2> QED BY <2>4, <2>5, <2>6
<1>5. ASSUME NEW c \in Conns, Outbound(c) PROVE PlaceInv' /\ OrderInv'
  <2> DEFINE f == Head(q[c])
  <2>1. /\ q[c] # <<>> /\ f \in Frames /\ writer[c] = "running"
        /\ UNCHANGED <<vmac, nodes, up, waiting, sent>>
    BY <1>0, <1>5 DEF Outbound
  <2>2. CASE wire[c] # "open" \/ f.fn # "Npdu"
    <3>1. \A d \in Conns :
            /\ q'[d] = q[d] \/ q'[d] = <<>> \/ (q[d] # <<>> /\ q'[d] = Tail(q[d]))
            /\ down'[d] = down[d] \/ (f.fn # "Npdu" /\ down'[d] = Append(down[d], f))
            /\ writer'[d] = "none" => writer[d] = "none"
      BY <1>5, <2>2 DEF Outbound, TypeOK
    <3>2. \A d \in Conns : Shrinks(q'[d], q[d]) /\ Shrinks(down'[d], down[d])
      BY <1>0, <2>1, <3>1, ShrinkSeq
    <3> QED BY <1>0, <1>s, <2>1, <3>1, <3>2, ShrinkStep
  <2>3. CASE wire[c] = "open" /\ f.fn = "Npdu"
    <3>1. /\ \A d \in Conns : q'[d] = IF d = c THEN Tail(q[c]) ELSE q[d]
          /\ \A d \in Conns : down'[d] = IF d = c THEN Append(down[c], f) ELSE down[d]
          /\ writer' = writer
      BY <1>5, <2>3 DEF Outbound, TypeOK
    <3>2. /\ f \in Npdus(q[c]) /\ Before({f}, Npdus(Tail(q[c])))
          /\ Shrinks(Tail(q[c]), q[c])
      BY <1>0, <2>1, <2>3, HeadIsOldest, ShrinkSeq DEF OrderInv
    <3>3. Npdus(Append(down[c], f)) = Npdus(down[c]) \cup {f}
      BY <1>0, <2>1, <2>3, NpdusAppend
    <3>4. Before(Npdus(down[c]), {f})
      BY <3>2 DEF OrderInv, Before
    <3>5. Ordered(Append(down[c], f))
      BY <1>0, <2>1, <3>4, OrderedAppend DEF OrderInv
    <3> HIDE DEF f
    <3>6. \A d \in Conns : ToNode(d)' \subseteq ToNode(d)
      BY <3>1, <3>2, <3>3 DEF ToNode, Shrinks
    <3>7. PlaceInv'
      BY <2>1, <3>1, <3>6 DEF PlaceInv
    <3>8. ASSUME NEW d \in Conns
          PROVE  /\ Ordered(up'[d]) /\ Ordered(q'[d]) /\ Ordered(down'[d])
                 /\ Before(Npdus(down'[d]), Npdus(q'[d]))
      <4>1. CASE d = c
        <5>1. Before(Npdus(down[c]) \cup {f}, Npdus(Tail(q[c])))
          BY <3>2 DEF OrderInv, Before, Shrinks
        <5> QED BY <2>1, <3>1, <3>2, <3>3, <3>5, <4>1, <5>1 DEF OrderInv, Shrinks
      <4>2. CASE d # c
        BY <2>1, <3>1, <4>2 DEF OrderInv
      <4> QED BY <4>1, <4>2
    <3>9. OrderInv'
      BY <2>1, <3>6, <3>8 DEF OrderInv, Before
    <3> QED BY <3>7, <3>9
  <2> QED BY <2>2, <2>3
<1>6. ASSUME NEW c \in Conns, NodeSend(c) PROVE PlaceInv' /\ OrderInv'
  <2>1. PICK f \in {Npdu(v, c) : v \in Vmacs} \cup {Control("Heartbeat", c)} :
          up' = [up EXCEPT ![c] = Append(@, f)]
    BY <1>6 DEF NodeSend
  <2>2. f \in Frames
    BY <1>6, FrameTypes DEF NodeSend, TypeOK
  <2>3. /\ \A d \in Conns : up'[d] = IF d = c THEN Append(up[c], f) ELSE up[d]
        /\ UNCHANGED <<vmac, node, hub, writer, nodes, q, down, wire, waiting>>
        /\ sent' = sent + 1
    BY <1>6, <2>1 DEF NodeSend, TypeOK
  <2>4. sent' \in Nat /\ sent <= sent'
    BY <1>0, <2>3
  <2>5. CASE f = Control("Heartbeat", c)
    <3>1. f.fn # "Npdu"
      BY <2>5 DEF Control
    <3>2. \A d \in Conns : Shrinks(up'[d], up[d])
      BY <1>0, <1>s, <2>2, <2>3, <3>1, ShrinkSeq
    <3> QED BY <1>0, <1>s, <2>3, <2>4, <3>2, ShrinkStep
  <2>6. CASE \E v \in Vmacs : f = Npdu(v, c)
    <3>1. f.fn = "Npdu" /\ f.src = c /\ f.id = sent + 1 /\ f.dst \in Vmacs
      BY <2>6 DEF Npdu
    <3>2. Npdus(Append(up[c], f)) = Npdus(up[c]) \cup {f}
      BY <1>0, <2>2, <3>1, NpdusAppend
    <3>3. Before(Npdus(up[c]), {f})
      BY <1>0, <1>i, <1>n, <3>1 DEF Before
    <3>4. Ordered(Append(up[c], f))
      BY <1>0, <2>2, <3>3, OrderedAppend DEF OrderInv
    <3>5. \A d \in Conns : ToNode(d)' = ToNode(d)
      BY <2>3 DEF ToNode
    <3>6. \A d \in Conns : Before(ToNode(d), {f})
      BY <1>0, <1>i, <1>n, <3>1 DEF Before
    <3>7. ASSUME NEW d \in Conns
          PROVE  /\ \A g \in Npdus(up'[d]) : g.src = d /\ g.dst \in Vmacs /\ g.id <= sent'
                 /\ \A g \in ToNode(d)' : g.dst = vmac'[d] /\ g.id <= sent'
      <4>1. \A g \in Npdus(up[d]) \cup ToNode(d) : g.id <= sent'
        BY <1>0, <1>i, <1>n, <2>3
      <4>2. f.id <= sent'
        BY <1>0, <2>3, <3>1
      <4> QED BY <2>3, <3>1, <3>2, <3>5, <4>1, <4>2 DEF PlaceInv
    <3>8. ASSUME NEW k \in Callers, waiting[k] # None
          PROVE  waiting[k].frame.id <= sent' /\ waiting[k].frame \in Frames
      <4>1. waiting[k].frame \in Frames /\ waiting[k].frame.id <= sent
        BY <3>8 DEF TypeOK, PlaceInv
      <4> QED BY <1>0, <1>i, <2>3, <4>1
    <3>9. PlaceInv'
      BY <2>3, <3>7, <3>8 DEF PlaceInv
    <3>10. ASSUME NEW d \in Conns, NEW e \in Conns PROVE Before(ToNode(d)', Npdus(up'[e]))
      BY <2>3, <3>2, <3>5, <3>6 DEF OrderInv, Before
    <3>11. OrderInv'
      BY <2>3, <3>4, <3>5, <3>10 DEF OrderInv
    <3> QED BY <3>9, <3>11
  <2> QED BY <2>5, <2>6
<1>7. ASSUME NEW c \in Conns, NEW v \in Vmacs, Connect(c, v) PROVE PlaceInv' /\ OrderInv'
  <2>1. Lifecycle(c)
    BY DEF LifeInv
  <2>2. writer[c] = "none" /\ q[c] = <<>> /\ down[c] = <<>>
    BY <1>7, <2>1 DEF Connect, Lifecycle
  <2>3. Npdus(q[c]) = {} /\ Npdus(down[c]) = {}
    BY <2>2 DEF Npdus
  <2>4. \A d \in Conns : vmac'[d] = vmac[d] \/ d = c
    BY <1>7 DEF Connect, TypeOK
  <2>5. /\ Npdus(<<Control("ConnectRequest", c)>>) = {}
        /\ Ordered(<<Control("ConnectRequest", c)>>)
    BY DEF Npdus, Ordered, Control
  <2>6. \A d \in Conns : up'[d] = up[d] \/ up'[d] = <<Control("ConnectRequest", c)>>
    BY <1>7 DEF Connect, TypeOK
  <2>7. \A d \in Conns : Shrinks(up'[d], up[d])
    BY <1>0, <1>s, <2>5, <2>6 DEF Shrinks
  <2> QED BY <1>0, <1>7, <1>s, <2>2, <2>3, <2>4, <2>7, ShrinkStep DEF Connect
<1>8. ASSUME NEW c \in Conns,
             HubCleanup(c) \/ NodeAwaitAccept(c) \/ NodeReceive(c) \/ Break(c)
      PROVE PlaceInv' /\ OrderInv'
  <2>1. \A d \in Conns : q'[d] = q[d] \/ q'[d] = <<>>
    BY <1>8 DEF HubCleanup, NodeAwaitAccept, NodeReceive, Break, TypeOK
  <2>2. \A d \in Conns : \/ down'[d] = down[d] \/ (down[d] # <<>> /\ down'[d] = Tail(down[d]))
                         \/ \E i \in 0..Len(down[d]) : down'[d] = SubSeq(down[d], 1, i)
    <3>1. CASE Break(c)
      BY <3>1 DEF Break, TypeOK
    <3>2. CASE HubCleanup(c) \/ NodeAwaitAccept(c) \/ NodeReceive(c)
      BY <3>2 DEF HubCleanup, NodeAwaitAccept, NodeReceive, TypeOK
    <3> QED BY <1>8, <3>1, <3>2
  <2>3. \A d \in Conns : \/ up'[d] = up[d]
                         \/ \E i \in 0..Len(up[d]) : up'[d] = SubSeq(up[d], 1, i)
    <3>1. CASE Break(c)
      BY <3>1 DEF Break, TypeOK
    <3>2. CASE HubCleanup(c) \/ NodeAwaitAccept(c) \/ NodeReceive(c)
      BY <3>2 DEF HubCleanup, NodeAwaitAccept, NodeReceive
    <3> QED BY <1>8, <3>1, <3>2
  <2>4. \A d \in Conns : /\ Shrinks(q'[d], q[d]) /\ Shrinks(down'[d], down[d])
                         /\ Shrinks(up'[d], up[d])
    BY <1>0, <2>1, <2>2, <2>3, ShrinkSeq
  <2>5. \A d \in Conns : writer'[d] = "none" => writer[d] = "none"
    BY <1>8 DEF HubCleanup, NodeAwaitAccept, NodeReceive, Break, TypeOK
  <2>6. UNCHANGED <<vmac, waiting, sent>>
    BY <1>8 DEF HubCleanup, NodeAwaitAccept, NodeReceive, Break
  <2> QED BY <1>0, <2>4, <2>5, <2>6, ShrinkStep
<1>9. CASE /\ UNCHANGED <<vmac, q, up, down, waiting, sent>>
           /\ \A d \in Conns : writer'[d] = "none" => writer[d] = "none"
  BY <1>0, <1>9, <1>s, ShrinkStep
<1> QED
  BY <1>1, <1>2, <1>3, <1>4, <1>5, <1>6, <1>7, <1>8, <1>9
  DEF Next, HubAbandon, HubBlock, HubRegister, HubClose, OutboundEnd, NodeClosed, vars, TypeOK

LEMMA OrderImplies == TypeOK /\ PlaceInv /\ OrderInv => RoutedInOrder
<1> SUFFICES ASSUME TypeOK, PlaceInv, OrderInv, NEW c \in Conns,
                    NEW i \in 1..Len(Pipeline(c)), NEW j \in 1..Len(Pipeline(c)),
                    Pipeline(c)[i].fn = "Npdu"
             PROVE  /\ Pipeline(c)[i].dst = vmac[c]
                    /\ i < j /\ Pipeline(c)[j].fn = "Npdu"
                         /\ Pipeline(c)[j].src = Pipeline(c)[i].src
                       => Pipeline(c)[i].id < Pipeline(c)[j].id
  BY DEF RoutedInOrder
<1> DEFINE f == Pipeline(c)[i]
           g == Pipeline(c)[j]
           m == Len(down[c])
<1>1. /\ down[c] \in Seq(Frames) /\ q[c] \in Seq(Frames) /\ m \in Nat
      /\ Ordered(down[c]) /\ Ordered(q[c]) /\ Before(Npdus(down[c]), Npdus(q[c]))
  BY DEF TypeOK, OrderInv
<1>2. \/ i \in 1..m /\ f = down[c][i]
      \/ i > m /\ i - m \in 1..Len(q[c]) /\ f = q[c][i - m]
  BY <1>1, ConcatFrame DEF Pipeline
<1>3. \/ j \in 1..m /\ g = down[c][j]
      \/ j > m /\ j - m \in 1..Len(q[c]) /\ g = q[c][j - m]
  BY <1>1, ConcatFrame DEF Pipeline
<1>4. f.fn = "Npdu"
  OBVIOUS
<1> HIDE DEF f, g, m
<1>5. /\ i \in 1..m => f \in Npdus(down[c])
      /\ i > m => f \in Npdus(q[c])
  BY <1>1, <1>2, <1>4 DEF Npdus, m
<1>6. f.dst = vmac[c]
  BY <1>2, <1>5 DEF PlaceInv, ToNode
<1>7. i \in Nat /\ j \in Nat
  OBVIOUS
<1>8. ASSUME i < j, g.fn = "Npdu", g.src = f.src PROVE f.id < g.id
  <2>1. /\ j \in 1..m => g \in Npdus(down[c])
        /\ j > m => g \in Npdus(q[c])
    BY <1>1, <1>3, <1>8 DEF Npdus, m
  <2>2. CASE i \in 1..m /\ j \in 1..m
    BY <1>1, <1>2, <1>3, <1>4, <1>8, <2>2 DEF Ordered, m
  <2>3. CASE i \in 1..m /\ j > m
    BY <1>1, <1>5, <1>8, <2>1, <2>3 DEF Before
  <2>4. CASE i > m /\ j > m
    <3>1. /\ i - m \in 1..Len(q[c]) /\ f = q[c][i - m]
          /\ j - m \in 1..Len(q[c]) /\ g = q[c][j - m]
      BY <1>1, <1>2, <1>3, <1>7, <2>4
    <3>2. i - m < j - m
      BY <1>1, <1>8, <1>7
    <3> QED BY <1>1, <1>4, <1>8, <3>1, <3>2 DEF Ordered
  <2> QED BY <1>1, <1>2, <1>3, <1>8, <1>7, <2>2, <2>3, <2>4
<1> QED BY <1>6, <1>8 DEF f, g

\* An NPDU is only ever on its way to the address it is for, and the NPDUs of
\* one source arrive in the order they were sent and none of them twice,
\* whatever connections come, break and replace each other (HubRoute,
\* send_to_vmac and the outbound tasks).
THEOREM RoutingIsOrdered == Spec => []RoutedInOrder
<1> DEFINE Inv == TypeOK /\ LifeInv /\ NoStaleEntry /\ PlaceInv /\ OrderInv
<1>1. Init => Inv
  BY TypeInit, LifeInit, StaleInit, OrderInit
<1>2. Inv /\ [Next]_vars => Inv'
  <2> SUFFICES ASSUME Inv, [Next]_vars PROVE Inv'
    OBVIOUS
  <2>1. PlaceInv' /\ OrderInv'
    BY OrderStep
  <2> QED BY <2>1, TypeStep, LifeStep, StaleStep
<1>3. Inv => RoutedInOrder
  BY OrderImplies
<1> QED BY <1>1, <1>2, <1>3, PTL DEF Spec
=============================================================================
