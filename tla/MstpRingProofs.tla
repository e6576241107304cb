--------------------------- MODULE MstpRingProofs ---------------------------
(***************************************************************************)
(* Proofs about the MS/TP token ring, for every set of masters, every      *)
(* max_master and every capacity of the bus and of the outbound queues.    *)
(***************************************************************************)
EXTENDS MstpRing, FiniteSetTheorems, TLAPS

\* What putting frame f on the bus does to the frames it holds: they move
\* towards the front by one when the channel is full, and f comes last.
LEMMA PushFacts ==
  ASSUME bus \in Seq(Frames), NEW f \in Frames, BusCapacity \in Nat \ {0}
  PROVE  /\ Push(f) \in Seq(Frames)
         /\ Len(Push(f)) = IF Len(bus) < BusCapacity THEN Len(bus) + 1 ELSE Len(bus)
         /\ Push(f)[Len(Push(f))] = f
         /\ \A i \in 1..Len(Push(f)) - 1 :
              Push(f)[i] = bus[IF Len(bus) < BusCapacity THEN i ELSE i + 1]
<1>1. CASE Len(bus) < BusCapacity
  BY <1>1 DEF Push
<1>2. CASE ~(Len(bus) < BusCapacity)
  <2>1. bus # <<>> /\ Len(bus) \in Nat \ {0}
    BY <1>2
  <2>2. /\ Tail(bus) \in Seq(Frames)
        /\ Len(Tail(bus)) = Len(bus) - 1
        /\ \A i \in 1..Len(bus) - 1 : Tail(bus)[i] = bus[i + 1]
    BY <2>1
  <2>3. Push(f) = Append(Tail(bus), f)
    BY <1>2 DEF Push
  <2> QED BY <1>2, <2>1, <2>2, <2>3
<1> QED BY <1>1, <1>2

\* The frames a send builds are frames, and the unread counts it leaves stay
\* within the channel.
LEMMA SendType ==
  ASSUME TypeOK, NEW f \in Frames, NEW r \in [Masters -> Nat],
         \A m \in Masters : r[m] <= unread[m], Send(f, r)
  PROVE  /\ bus' \in Seq(Frames) /\ Len(bus') <= BusCapacity
         /\ unread' \in [Masters -> Nat]
         /\ \A m \in Masters : unread'[m] <= Len(bus')
<1>1. /\ bus' \in Seq(Frames)
      /\ Len(bus') = IF Len(bus) < BusCapacity THEN Len(bus) + 1 ELSE Len(bus)
  BY PushFacts, ConstantsAssumption DEF TypeOK, Send
<1>2. unread' \in [Masters -> Nat]
  BY ConstantsAssumption DEF Send, Deliver
<1>3. ASSUME NEW m \in Masters PROVE unread'[m] <= Len(bus')
  <2>1. r[m] <= Len(bus) /\ r[m] \in Nat /\ unread[m] \in Nat
    BY DEF TypeOK
  <2>2. unread'[m] = IF pc[m] = "absent" THEN 0
                     ELSE IF r[m] < BusCapacity THEN r[m] + 1 ELSE BusCapacity
    BY DEF Send, Deliver
  <2> QED BY <1>1, <2>1, <2>2, ConstantsAssumption DEF TypeOK
<1>4. Len(bus') <= BusCapacity
  BY <1>1, ConstantsAssumption DEF TypeOK
<1> QED BY <1>1, <1>2, <1>3, <1>4

LEMMA FrameTypes ==
  /\ \A d, s \in 0..MaxMaster + 1 : Token(d, s) \in Frames
  /\ \A d, s \in 0..MaxMaster + 1 :
       [type |-> "PollForMaster", dst |-> d, src |-> s, id |-> 0] \in Frames
  /\ \A d, s \in 0..MaxMaster + 1 :
       [type |-> "ReplyToPollForMaster", dst |-> d, src |-> s, id |-> 0] \in Frames
  /\ \A m \in Masters, p \in Npdus : Data(m, p) \in Frames
<1>1. \A d, s \in 0..MaxMaster + 1 : Token(d, s) \in Frames
  BY ConstantsAssumption DEF Frames, Token
<1>2. \A d, s \in 0..MaxMaster + 1 :
        /\ [type |-> "PollForMaster", dst |-> d, src |-> s, id |-> 0] \in Frames
        /\ [type |-> "ReplyToPollForMaster", dst |-> d, src |-> s, id |-> 0] \in Frames
  BY ConstantsAssumption DEF Frames
<1>3. ASSUME NEW m \in Masters, NEW p \in Npdus PROVE Data(m, p) \in Frames
  <2>1. p.dst \in Dests /\ p.id \in 1..MaxData
    BY DEF Npdus
  <2>2. p.dst \in 0..MaxMaster /\ m \in 0..MaxMaster /\ MaxMaster \in Nat
    BY <2>1, ConstantsAssumption, Zenon
  <2>3. p.id \in 0..MaxData
    BY <2>1, ConstantsAssumption
  <2>4. p.dst \in 0..MaxMaster + 1 /\ m \in 0..MaxMaster + 1
    BY <2>2
  <2> QED BY <2>3, <2>4 DEF Frames, Data
<1> QED BY <1>1, <1>2, <1>3

LEMMA NextStationType == \A m \in Masters : NextStation(m) \in 0..MaxMaster
BY ConstantsAssumption DEF NextStation

\* The frame a receiving master reads next is on the bus.
LEMMA NextFrameType ==
  ASSUME TypeOK, NEW m \in Masters, Receiving(m)
  PROVE  /\ Len(bus) - unread[m] + 1 \in 1..Len(bus)
         /\ NextFrame(m) \in Frames
         /\ NextFrame(m).dst \in 0..MaxMaster + 1 /\ NextFrame(m).src \in 0..MaxMaster + 1
         /\ Received(m) \in [Masters -> Nat]
         /\ \A n \in Masters : Received(m)[n] <= unread[n]
<1>1. unread[m] \in Nat /\ unread[m] > 0 /\ unread[m] <= Len(bus)
  BY DEF TypeOK, Receiving
<1>2. Len(bus) - unread[m] + 1 \in 1..Len(bus) /\ bus \in Seq(Frames)
  BY <1>1 DEF TypeOK
<1>3. NextFrame(m) \in Frames
  BY <1>2 DEF NextFrame
<1>4. NextFrame(m).dst \in 0..MaxMaster + 1 /\ NextFrame(m).src \in 0..MaxMaster + 1
  BY <1>3 DEF Frames
<1>5. Received(m) \in [Masters -> Nat] /\ \A n \in Masters : Received(m)[n] <= unread[n]
  BY <1>1 DEF TypeOK, Received
<1> QED BY <1>2, <1>3, <1>4, <1>5

\* A state change of one master keeps pc well typed.
LEMMA PcType ==
  ASSUME TypeOK, NEW m \in Masters,
         NEW s \in {"absent", "bootstrap", "waiting", "useToken", "passToken"}
  PROVE  [pc EXCEPT ![m] = s] \in
           [Masters -> {"absent", "bootstrap", "waiting", "useToken", "passToken"}]
BY DEF TypeOK

\* Every variable keeps its type; the bus never holds more than its capacity,
\* no master has more to receive than the bus holds, and no outbound queue
\* outgrows its channel (virtual_link.rs, join(), run()).
THEOREM TypeCorrect == Spec => []TypeOK
<1>1. Init => TypeOK
  <2> SUFFICES ASSUME Init PROVE TypeOK
    OBVIOUS
  <2>1. bus \in Seq(Frames) /\ Len(bus) <= BusCapacity
    BY ConstantsAssumption DEF Init
  <2>2. unread \in [Masters -> Nat] /\ \A m \in Masters : unread[m] <= Len(bus)
    BY DEF Init
  <2>3. pending \in [Masters -> Seq(Npdus)]
        /\ \A m \in Masters : Len(pending[m]) <= QueueCapacity
    BY ConstantsAssumption DEF Init
  <2>4. queued \in 0..MaxData /\ polls \in 0..MaxPolls
    BY ConstantsAssumption DEF Init
  <2>5. early \in BOOLEAN /\ lastUser \in Masters \cup {NoToken}
    BY DEF Init
  <2>6. pc \in [Masters -> {"absent", "bootstrap", "waiting", "useToken", "passToken"}]
    BY DEF Init
  <2> QED BY <2>1, <2>2, <2>3, <2>4, <2>5, <2>6 DEF TypeOK
<1>2. TypeOK /\ [Next]_vars => TypeOK'
  <2> SUFFICES ASSUME TypeOK, [Next]_vars PROVE TypeOK'
    OBVIOUS
  <2>0. unread \in [Masters -> Nat] /\ \A m \in Masters : unread[m] <= unread[m]
    BY DEF TypeOK
  <2>1. CASE Bootstrap
    <3>1. Token(0, 0) \in Frames
      BY FrameTypes, ConstantsAssumption
    <3>2. pc' \in [Masters -> {"absent", "bootstrap", "waiting", "useToken", "passToken"}]
      BY <2>1, PcType DEF Bootstrap
    <3> QED BY <2>0, <2>1, <3>1, <3>2, SendType DEF TypeOK, Bootstrap
  <2>2. CASE Restart
    <3>1. Token(0, 0) \in Frames
      BY FrameTypes, ConstantsAssumption
    <3>2. early' \in BOOLEAN
      BY <2>2 DEF Restart
    <3> QED BY <2>0, <2>2, <3>1, <3>2, SendType DEF TypeOK, Restart
  <2>3. ASSUME NEW m \in Masters, Join(m) PROVE TypeOK'
    BY <2>3, PcType DEF TypeOK, Join
  <2>4. ASSUME NEW m \in Masters, ReceiveToken(m) PROVE TypeOK'
    BY <2>4, PcType, NextFrameType DEF TypeOK, ReceiveToken
  <2>5. ASSUME NEW m \in Masters, ReceivePoll(m) PROVE TypeOK'
    <3>1. m \in 0..MaxMaster + 1
      BY ConstantsAssumption
    <3>2. Receiving(m)
      BY <2>5 DEF ReceivePoll
    <3>3. [type |-> "ReplyToPollForMaster", dst |-> NextFrame(m).src,
           src |-> m, id |-> 0] \in Frames
      BY <3>1, <3>2, NextFrameType, FrameTypes
    <3>4. Send([type |-> "ReplyToPollForMaster", dst |-> NextFrame(m).src,
                src |-> m, id |-> 0], Received(m))
      BY <2>5 DEF ReceivePoll
    <3>5. /\ bus' \in Seq(Frames) /\ Len(bus') <= BusCapacity
          /\ unread' \in [Masters -> Nat]
          /\ \A n \in Masters : unread'[n] <= Len(bus')
      BY <3>2, <3>3, <3>4, NextFrameType, SendType
    <3> QED BY <2>5, <3>5 DEF TypeOK, ReceivePoll
  <2>6. ASSUME NEW m \in Masters, ReceiveOther(m) PROVE TypeOK'
    <3>1. /\ Receiving(m) /\ unread' = Received(m)
          /\ UNCHANGED <<bus, pc, pending, early, lastUser, queued, polls>>
      BY <2>6 DEF ReceiveOther
    <3>2. Received(m) \in [Masters -> Nat] /\ \A n \in Masters : Received(m)[n] <= unread[n]
      BY <3>1, NextFrameType
    <3>3. \A n \in Masters : unread'[n] <= Len(bus')
      <4>1. \A n \in Masters : unread[n] \in Nat /\ unread[n] <= Len(bus) /\ Len(bus) \in Nat
        BY DEF TypeOK
      <4> QED BY <3>1, <3>2, <4>1
    <3> QED BY <3>1, <3>2, <3>3 DEF TypeOK
  <2>7. ASSUME NEW m \in Masters, UseToken(m) PROVE TypeOK'
    <3>1. pc' \in [Masters -> {"absent", "bootstrap", "waiting", "useToken", "passToken"}]
      BY <2>7, PcType DEF UseToken
    <3>2. CASE pending[m] = <<>>
      BY <2>7, <3>1, <3>2 DEF TypeOK, UseToken
    <3>3. CASE pending[m] # <<>>
      <4>1. pending[m] \in Seq(Npdus) /\ Len(pending[m]) <= QueueCapacity
        BY DEF TypeOK
      <4>2. Head(pending[m]) \in Npdus /\ Tail(pending[m]) \in Seq(Npdus)
            /\ Len(Tail(pending[m])) <= QueueCapacity
        BY <3>3, <4>1, ConstantsAssumption
      <4>3. Data(m, Head(pending[m])) \in Frames
        BY <4>2, FrameTypes
      <4>4. pending' \in [Masters -> Seq(Npdus)]
            /\ \A n \in Masters : Len(pending'[n]) <= QueueCapacity
        BY <2>7, <3>3, <4>2 DEF TypeOK, UseToken, SendPending
      <4> QED BY <2>0, <2>7, <3>1, <3>3, <4>3, <4>4, SendType DEF TypeOK, UseToken, SendPending
    <3> QED BY <3>2, <3>3
  <2>8. ASSUME NEW m \in Masters, PassToken(m) PROVE TypeOK'
    <3>1. Token(NextStation(m), m) \in Frames
      BY FrameTypes, NextStationType, ConstantsAssumption
    <3>2. pc' \in [Masters -> {"absent", "bootstrap", "waiting", "useToken", "passToken"}]
      BY <2>8, PcType DEF PassToken
    <3> QED BY <2>0, <2>8, <3>1, <3>2, SendType DEF TypeOK, PassToken
  <2>9. ASSUME NEW m \in Masters, NEW d \in Dests, Enqueue(m, d) PROVE TypeOK'
    <3>1. [dst |-> d, id |-> queued + 1] \in Npdus /\ queued' \in 0..MaxData
      BY <2>9, ConstantsAssumption DEF TypeOK, Enqueue, Npdus
    <3>2. pending' \in [Masters -> Seq(Npdus)]
          /\ \A n \in Masters : Len(pending'[n]) <= QueueCapacity
      BY <2>9, <3>1, ConstantsAssumption DEF TypeOK, Enqueue
    <3> QED BY <2>9, <3>1, <3>2 DEF TypeOK, Enqueue
  <2>10. ASSUME NEW m \in Masters, Poll(m) PROVE TypeOK'
    <3>1. [type |-> "PollForMaster", dst |-> m, src |-> Foreign, id |-> 0] \in Frames
      BY FrameTypes, ConstantsAssumption DEF Foreign
    <3>2. polls' \in 0..MaxPolls
      BY <2>10, ConstantsAssumption DEF TypeOK, Poll
    <3> QED BY <2>0, <2>10, <3>1, <3>2, SendType DEF TypeOK, Poll
  <2>11. CASE UNCHANGED vars
    BY <2>11 DEF TypeOK, vars
  <2> QED
    BY <2>1, <2>2, <2>3, <2>4, <2>5, <2>6, <2>7, <2>8, <2>9, <2>10, <2>11 DEF Next
<1> QED BY <1>1, <1>2, PTL DEF Spec

-----------------------------------------------------------------------------
\* What a send does to the bus: every frame that stays moves towards the
\* front by k, which is 1 when the channel is full, and f comes last.
LEMMA SendShift ==
  ASSUME TypeOK, NEW f \in Frames, NEW r, Send(f, r)
  PROVE  \E k \in {0, 1} :
           /\ bus' \in Seq(Frames) /\ Len(bus') \in Nat
           /\ Len(bus') = Len(bus) + 1 - k
           /\ bus'[Len(bus')] = f
           /\ \A i \in 1..Len(bus') - 1 : bus'[i] = bus[i + k]
<1> DEFINE k == IF Len(bus) < BusCapacity THEN 0 ELSE 1
<1>0. bus \in Seq(Frames) /\ Len(bus) \in Nat /\ Len(bus) <= BusCapacity
  BY DEF TypeOK
<1>1. bus' = Push(f) /\ BusCapacity \in Nat \ {0}
  BY ConstantsAssumption DEF Send
<1>2. /\ bus' \in Seq(Frames)
      /\ Len(bus') = IF Len(bus) < BusCapacity THEN Len(bus) + 1 ELSE Len(bus)
      /\ bus'[Len(bus')] = f
      /\ \A i \in 1..Len(bus') - 1 :
           bus'[i] = bus[IF Len(bus) < BusCapacity THEN i ELSE i + 1]
  BY <1>0, <1>1, PushFacts
<1>3. CASE Len(bus) < BusCapacity
  <2>1. /\ Len(bus') \in Nat /\ Len(bus') = Len(bus) + 1 - 0
        /\ \A i \in 1..Len(bus') - 1 : bus'[i] = bus[i + 0]
    BY <1>0, <1>2, <1>3
  <2> QED BY <1>2, <2>1
<1>4. CASE ~(Len(bus) < BusCapacity)
  <2>1. /\ Len(bus') \in Nat /\ Len(bus') = Len(bus) + 1 - 1
        /\ \A i \in 1..Len(bus') - 1 : bus'[i] = bus[i + 1]
    BY <1>0, <1>2, <1>4
  <2> QED BY <1>2, <2>1
<1> QED BY <1>3, <1>4

\* What a send does to the token frames in flight: a token frame in flight
\* after it was in flight before, or is the frame sent, now the last one.
LEMMA SendInFlight ==
  ASSUME TypeOK, NEW f \in Frames, NEW r \in [Masters -> Nat],
         \A m \in Masters : r[m] <= unread[m], Send(f, r)
  PROVE  \E k \in {0, 1} : \A i \in InFlight' :
           \/ i \in 1..Len(bus') - 1 /\ i + k \in InFlight /\ bus'[i] = bus[i + k]
           \/ i = Len(bus') /\ f.type = "Token"
<1>0. bus \in Seq(Frames) /\ Len(bus) \in Nat /\ Len(bus) <= BusCapacity
  BY DEF TypeOK
<1>1. PICK k \in {0, 1} :
        /\ bus' \in Seq(Frames) /\ Len(bus') \in Nat
        /\ Len(bus') = Len(bus) + 1 - k
        /\ bus'[Len(bus')] = f
        /\ \A i \in 1..Len(bus') - 1 : bus'[i] = bus[i + k]
  BY SendShift
<1>2. ASSUME NEW i \in InFlight'
      PROVE  \/ i \in 1..Len(bus') - 1 /\ i + k \in InFlight /\ bus'[i] = bus[i + k]
             \/ i = Len(bus') /\ f.type = "Token"
  <2>1. /\ i \in 1..Len(bus')
        /\ bus'[i].type = "Token"
        /\ bus'[i].dst \in Masters
        /\ i > Len(bus') - unread'[bus'[i].dst]
    BY DEF InFlight
  <2>2. CASE i = Len(bus')
    BY <1>1, <2>1, <2>2
  <2>3. CASE i \in 1..Len(bus') - 1
    <3> DEFINE d == bus'[i].dst
    <3>1. bus'[i] = bus[i + k] /\ i + k \in 1..Len(bus)
      BY <1>0, <1>1, <2>3
    <3>2. unread'[d] <= r[d] + 1 /\ r[d] <= unread[d]
          /\ unread'[d] \in Nat /\ unread[d] \in Nat /\ r[d] \in Nat
      <4>1. d \in Masters
        BY <2>1
      <4>2. unread'[d] = IF pc[d] = "absent" THEN 0
                         ELSE IF r[d] < BusCapacity THEN r[d] + 1 ELSE BusCapacity
        BY <4>1 DEF Send, Deliver
      <4>3. r[d] \in Nat /\ unread[d] \in Nat /\ r[d] <= unread[d]
        BY <4>1 DEF TypeOK
      <4> HIDE DEF d
      <4> QED BY <4>2, <4>3, ConstantsAssumption
    <3>3. i + k > Len(bus) - unread[d]
      <4>1. i > Len(bus') - unread'[d] /\ Len(bus') = Len(bus) + 1 - k /\ k \in {0, 1}
        BY <1>1, <2>1
      <4> HIDE DEF d
      <4>2. unread'[d] <= unread[d] + 1 /\ unread'[d] \in Nat /\ unread[d] \in Nat
        BY <3>2
      <4>3. i \in Int /\ k \in Int /\ Len(bus) \in Nat
        BY <1>0, <2>3
      <4> QED BY <4>1, <4>2, <4>3
    <3> QED BY <2>1, <2>3, <3>1, <3>3 DEF InFlight
  <2> QED BY <2>1, <2>2, <2>3, <1>1
<1> QED BY <1>2

\* Sending any frame but a token adds none.
LEMMA SendOther ==
  ASSUME TypeOK, NEW f \in Frames, NEW r \in [Masters -> Nat],
         \A m \in Masters : r[m] <= unread[m], Send(f, r), f.type # "Token"
  PROVE  /\ InFlight = {} => InFlight' = {}
         /\ (\A i, j \in InFlight : i = j) => (\A i, j \in InFlight' : i = j)
<1>1. PICK k \in {0, 1} : \A i \in InFlight' : i \in Nat /\ i + k \in InFlight
  BY SendInFlight DEF InFlight
<1> QED BY <1>1

\* Sending a token while none is in flight leaves at most that one.
LEMMA SendToken ==
  ASSUME TypeOK, NEW f \in Frames, NEW r \in [Masters -> Nat],
         \A m \in Masters : r[m] <= unread[m], Send(f, r), InFlight = {}
  PROVE  \A i, j \in InFlight' : i = j
BY SendInFlight

\* A send keeps masters that have not joined without frames to receive.
LEMMA SendAbsent ==
  ASSUME NEW f, NEW r, Send(f, r), NEW m \in Masters, pc[m] = "absent"
  PROVE  unread'[m] = 0
BY DEF Send, Deliver

\* A step that moves no master into or out of the token-holding states, and
\* whose sends are not tokens, preserves the invariant.
LEMMA QuietStep ==
  ASSUME TypeOK, TokenInv,
         Holders' = Holders, Started' = Started, early' = early,
         InFlight = {} => InFlight' = {},
         (\A i, j \in InFlight : i = j) => (\A i, j \in InFlight' : i = j),
         \A m \in Masters : pc'[m] = "absent" => unread'[m] = 0
  PROVE  TokenInv'
BY DEF TokenInv, OneToken

\* The frame a master is about to receive as a token is one in flight.
LEMMA NextIsInFlight ==
  ASSUME TypeOK, NEW m \in Masters, Receiving(m),
         NextFrame(m).type = "Token", NextFrame(m).dst = m
  PROVE  Len(bus) - unread[m] + 1 \in InFlight
<1>1. Len(bus) - unread[m] + 1 \in 1..Len(bus)
  BY NextFrameType
<1>2. Len(bus) - unread[m] + 1 > Len(bus) - unread[m]
  BY DEF TypeOK
<1> QED BY <1>1, <1>2 DEF InFlight, NextFrame

\* Receiving a frame only takes tokens out of flight.
LEMMA ReceiveInFlight ==
  ASSUME TypeOK, NEW m \in Masters, Receiving(m), bus' = bus, unread' = Received(m)
  PROVE  /\ InFlight' \subseteq InFlight
         /\ NextFrame(m).dst = m => Len(bus) - unread[m] + 1 \notin InFlight'
<1>1. unread[m] \in Nat /\ unread'[m] = unread[m] - 1
      /\ (\A n \in Masters : unread'[n] \in Nat /\ unread[n] \in Nat /\ unread'[n] <= unread[n])
  BY NextFrameType DEF TypeOK, Received
<1>2. Len(bus) \in Nat
  BY DEF TypeOK
<1>3. ASSUME NEW i \in InFlight' PROVE i \in InFlight
  BY <1>1, <1>2 DEF InFlight
<1>4. ASSUME NextFrame(m).dst = m, Len(bus) - unread[m] + 1 \in InFlight' PROVE FALSE
  <2>1. Len(bus) - unread[m] + 1 > Len(bus) - unread'[m]
    BY <1>4 DEF InFlight, NextFrame
  <2> QED BY <1>1, <1>2, <2>1
<1> QED BY <1>3, <1>4

LEMMA TokenInvariance == Spec => []TokenInv
<1>1. Init => TokenInv
  <2> SUFFICES ASSUME Init PROVE TokenInv
    OBVIOUS
  <2>1. Holders = {}
    BY DEF Init, Holders, Holding
  <2>2. InFlight = {}
    BY DEF Init, InFlight
  <2> QED BY <2>1, <2>2 DEF Init, TokenInv, OneToken
<1>2. TypeOK /\ TokenInv /\ [Next]_vars => TokenInv'
  <2> SUFFICES ASSUME TypeOK, TokenInv, [Next]_vars PROVE TokenInv'
    OBVIOUS
  <2>0. unread \in [Masters -> Nat] /\ (\A m \in Masters : unread[m] <= unread[m])
        /\ (\A m \in Masters : pc[m] = "absent" => unread[m] = 0)
        /\ Token(0, 0) \in Frames
    BY FrameTypes, ConstantsAssumption DEF TypeOK, TokenInv
  <2>1. CASE Bootstrap
    <3>1. ~ Started /\ Holders = {} /\ InFlight = {}
      BY <2>1 DEF Bootstrap, Started, TokenInv
    <3>2. \A i, j \in InFlight' : i = j
      BY <2>0, <2>1, <3>1, SendToken DEF Bootstrap
    <3>3. Holders' = {} /\ Started'
      BY <2>1, <3>1 DEF Bootstrap, Holders, Holding, Started, TypeOK
    <3>4. \A m \in Masters : pc'[m] = "absent" => unread'[m] = 0
      BY <2>1, SendAbsent DEF Bootstrap, TypeOK
    <3> QED BY <3>2, <3>3, <3>4 DEF TokenInv, OneToken
  <2>2. CASE Restart
    <3>1. Holders' = Holders /\ Started'
      BY <2>2 DEF Restart, Holders, Holding, Started
    <3>2. \A m \in Masters : pc'[m] = "absent" => unread'[m] = 0
      BY <2>2, SendAbsent DEF Restart
    <3>3. ASSUME ~ early' PROVE Holders = {} /\ InFlight = {}
      <4>1. Silent
        BY <2>2, <3>3 DEF Restart
      <4>2. \A i \in 1..Len(bus) : ~(i > Len(bus) - 0)
        BY DEF TypeOK
      <4> QED BY <4>1, <4>2 DEF Silent, Holders, InFlight
    <3>4. ASSUME ~ early' PROVE \A i, j \in InFlight' : i = j
      BY <2>0, <2>2, <3>3, <3>4, SendToken DEF Restart
    <3> QED BY <3>1, <3>2, <3>3, <3>4 DEF TokenInv, OneToken
  <2>3. ASSUME NEW m \in Masters, Join(m) PROVE TokenInv'
    <3>1. Holders' = Holders /\ Started' = Started /\ InFlight' = InFlight
      BY <2>3 DEF Join, Holders, Holding, Started, InFlight, TypeOK
    <3>2. \A n \in Masters : pc'[n] = "absent" => unread'[n] = 0
      BY <2>0, <2>3 DEF Join, TypeOK
    <3> QED BY <2>3, <3>1, <3>2, QuietStep DEF Join
  <2>4. ASSUME NEW m \in Masters, ReceiveToken(m) PROVE TokenInv'
    <3> DEFINE j == Len(bus) - unread[m] + 1
    <3>1. j \in InFlight
      BY <2>4, NextIsInFlight DEF ReceiveToken
    <3>2. InFlight' \subseteq InFlight /\ j \notin InFlight'
      BY <2>4, ReceiveInFlight DEF ReceiveToken
    <3>3. Started /\ Started'
      BY <2>4, <3>1 DEF TokenInv, ReceiveToken, Started, TypeOK
    <3>4. \A n \in Masters : pc'[n] = "absent" => unread'[n] = 0
      BY <2>0, <2>4, NextFrameType DEF ReceiveToken, Received, Receiving, TypeOK
    <3>5. Holders' = Holders \cup {m}
      BY <2>4 DEF ReceiveToken, Receiving, Holders, Holding, TypeOK
    <3>6. ASSUME ~ early' PROVE InFlight' = {} /\ Holders' = {m}
      <4>1. (\A i, k \in InFlight : i = k) /\ (Holders = {} \/ InFlight = {})
        BY <2>4, <3>6 DEF TokenInv, OneToken, ReceiveToken
      <4> HIDE DEF j
      <4> QED BY <3>1, <3>2, <3>5, <4>1
    <3> QED BY <3>3, <3>4, <3>6 DEF TokenInv, OneToken
  <2>5. ASSUME NEW m \in Masters, ReceivePoll(m) PROVE TokenInv'
    <3> DEFINE f == [type |-> "ReplyToPollForMaster", dst |-> NextFrame(m).src,
                     src |-> m, id |-> 0]
    <3>1. Receiving(m) /\ Send(f, Received(m))
      BY <2>5 DEF ReceivePoll
    <3>2. f \in Frames /\ f.type # "Token"
      BY <3>1, NextFrameType, FrameTypes, ConstantsAssumption
    <3>3. /\ InFlight = {} => InFlight' = {}
          /\ (\A i, j \in InFlight : i = j) => (\A i, j \in InFlight' : i = j)
      <4> HIDE DEF f
      <4> QED BY <3>1, <3>2, NextFrameType, SendOther
    <3>4. \A n \in Masters : pc'[n] = "absent" => unread'[n] = 0
      BY <2>5, <3>1, SendAbsent DEF ReceivePoll
    <3>5. Holders' = Holders /\ Started' = Started /\ early' = early
      BY <2>5 DEF ReceivePoll, Holders, Holding, Started
    <3> QED BY <3>3, <3>4, <3>5, QuietStep
  <2>6. ASSUME NEW m \in Masters, ReceiveOther(m) PROVE TokenInv'
    <3>1. InFlight' \subseteq InFlight
      BY <2>6, ReceiveInFlight DEF ReceiveOther
    <3>2. Holders' = Holders /\ Started' = Started /\ early' = early
      BY <2>6 DEF ReceiveOther, Holders, Holding, Started
    <3>3. \A n \in Masters : pc'[n] = "absent" => unread'[n] = 0
      BY <2>0, <2>6 DEF ReceiveOther, Received, Receiving
    <3> QED BY <3>1, <3>2, <3>3, QuietStep
  <2>7. ASSUME NEW m \in Masters, UseToken(m) PROVE TokenInv'
    <3>1. Holders' = Holders /\ Started' = Started /\ early' = early
      BY <2>7 DEF UseToken, Holders, Holding, Started, TypeOK
    <3>2. CASE pending[m] = <<>>
      <4>1. InFlight' = InFlight
        BY <2>7, <3>2 DEF UseToken, InFlight
      <4>2. \A n \in Masters : pc'[n] = "absent" => unread'[n] = 0
        BY <2>0, <2>7, <3>2 DEF UseToken, TypeOK
      <4> QED BY <3>1, <4>1, <4>2, QuietStep
    <3>3. CASE pending[m] # <<>>
      <4> DEFINE f == Data(m, Head(pending[m]))
      <4>1. Head(pending[m]) \in Npdus
        BY <3>3 DEF TypeOK
      <4>2. f \in Frames /\ f.type # "Token" /\ Send(f, unread)
        BY <2>7, <3>3, <4>1, FrameTypes DEF UseToken, SendPending, Data
      <4>3. /\ InFlight = {} => InFlight' = {}
            /\ (\A i, j \in InFlight : i = j) => (\A i, j \in InFlight' : i = j)
        <5> HIDE DEF f
        <5> QED BY <2>0, <4>2, SendOther
      <4>4. \A n \in Masters : pc'[n] = "absent" => unread'[n] = 0
        BY <2>7, <4>2, SendAbsent DEF UseToken, TypeOK
      <4> QED BY <3>1, <4>3, <4>4, QuietStep
    <3> QED BY <3>2, <3>3
  <2>8. ASSUME NEW m \in Masters, PassToken(m) PROVE TokenInv'
    <3>1. m \in Holders /\ Holders' = Holders \ {m} /\ early' = early
      BY <2>8 DEF PassToken, Holders, Holding, TypeOK
    <3>2. Started /\ Started'
      BY <2>8, <3>1 DEF TokenInv, PassToken, Started, TypeOK
    <3>3. Token(NextStation(m), m) \in Frames
      BY FrameTypes, NextStationType, ConstantsAssumption
    <3>4. ASSUME ~ early PROVE Holders' = {} /\ \A i, j \in InFlight' : i = j
      <4>1. Holders = {m} /\ InFlight = {}
        BY <3>1, <3>4 DEF TokenInv, OneToken
      <4> QED BY <2>0, <2>8, <3>1, <3>3, <4>1, SendToken DEF PassToken
    <3>5. \A n \in Masters : pc'[n] = "absent" => unread'[n] = 0
      BY <2>8, SendAbsent DEF PassToken, TypeOK
    <3> QED BY <3>1, <3>2, <3>4, <3>5 DEF TokenInv, OneToken
  <2>9. ASSUME NEW m \in Masters, NEW d \in Dests, Enqueue(m, d) PROVE TokenInv'
    <3>1. Holders' = Holders /\ Started' = Started /\ InFlight' = InFlight /\ early' = early
      BY <2>9 DEF Enqueue, Holders, Holding, Started, InFlight
    <3> QED BY <2>0, <2>9, <3>1, QuietStep DEF Enqueue
  <2>10. ASSUME NEW m \in Masters, Poll(m) PROVE TokenInv'
    <3> DEFINE f == [type |-> "PollForMaster", dst |-> m, src |-> Foreign, id |-> 0]
    <3>1. f \in Frames /\ f.type # "Token" /\ Send(f, unread)
      BY <2>10, FrameTypes, ConstantsAssumption DEF Poll, Foreign
    <3>2. /\ InFlight = {} => InFlight' = {}
          /\ (\A i, j \in InFlight : i = j) => (\A i, j \in InFlight' : i = j)
      <4> HIDE DEF f
      <4> QED BY <2>0, <3>1, SendOther
    <3>3. Holders' = Holders /\ Started' = Started /\ early' = early
      BY <2>10 DEF Poll, Holders, Holding, Started
    <3>4. \A n \in Masters : pc'[n] = "absent" => unread'[n] = 0
      BY <2>10, <3>1, SendAbsent DEF Poll
    <3> QED BY <3>2, <3>3, <3>4, QuietStep
  <2>11. CASE UNCHANGED vars
    <3>1. Holders' = Holders /\ Started' = Started /\ InFlight' = InFlight /\ early' = early
      BY <2>11 DEF vars, Holders, Holding, Started, InFlight
    <3> QED BY <2>0, <2>11, <3>1, QuietStep DEF vars
  <2> QED
    BY <2>1, <2>2, <2>3, <2>4, <2>5, <2>6, <2>7, <2>8, <2>9, <2>10, <2>11 DEF Next
<1> QED BY <1>1, <1>2, TypeCorrect, PTL DEF Spec

\* The token is unique: until address 0 restarts a ring that is not broken,
\* never do two masters hold a token, are two token frames in flight, or is
\* one in flight while another is held (run(), pass_token()).
THEOREM TokenUniqueness == Spec => []OneToken
<1>1. TokenInv => OneToken
  BY DEF TokenInv
<1> QED BY <1>1, TokenInvariance, PTL

-----------------------------------------------------------------------------
(* One data frame per token.                                               *)

\* Master m has passed the token since frame i of the bus.
PassedSince(m, i) == \E k \in i + 1..Len(bus) : bus[k].type = "Token" /\ bus[k].src = m

\* The inductive strengthening of OneDataPerToken: a master that is not about
\* to pass the token has passed it since its last data frame.
DataInv ==
  /\ OneDataPerToken
  /\ \A m \in Masters : pc[m] # "passToken" =>
       \A i \in 1..Len(bus) :
         bus[i].type = "BacnetDataNotExpectingReply" /\ bus[i].src = m => PassedSince(m, i)

\* A send keeps the invariant when its data frame comes from a master that
\* uses the token, and a master that passes the token sends one.
LEMMA SendData ==
  ASSUME TypeOK, DataInv, NEW f \in Frames, NEW r, Send(f, r),
         f.type = "BacnetDataNotExpectingReply" =>
           f.src \in Masters /\ pc[f.src] = "useToken" /\ pc'[f.src] = "passToken",
         \A m \in Masters : pc'[m] # "passToken" =>
           pc[m] # "passToken" \/ (f.type = "Token" /\ f.src = m)
  PROVE  DataInv'
<1> DEFINE n == Len(bus')
<1>0. Len(bus) \in Nat
  BY DEF TypeOK
<1>1. PICK k \in {0, 1} :
        /\ bus' \in Seq(Frames) /\ Len(bus') \in Nat
        /\ Len(bus') = Len(bus) + 1 - k
        /\ bus'[Len(bus')] = f
        /\ \A i \in 1..Len(bus') - 1 : bus'[i] = bus[i + k]
  BY SendShift
<1>2. \A i \in 1..n - 1 : bus'[i] = bus[i + k] /\ i + k \in 1..Len(bus)
  BY <1>0, <1>1
<1>3. n \in Nat /\ bus'[n] = f /\ Len(bus) = n - 1 + k
  BY <1>0, <1>1
<1> HIDE DEF n
<1>4. ASSUME NEW m, NEW i \in 1..n - 1, PassedSince(m, i + k)
      PROVE  \E l \in i + 1..n - 1 : bus'[l].type = "Token" /\ bus'[l].src = m
  <2>1. PICK j \in i + k + 1..Len(bus) : bus[j].type = "Token" /\ bus[j].src = m
    BY <1>4 DEF PassedSince
  <2>2. j - k \in i + 1..n - 1 /\ j - k \in 1..n - 1 /\ (j - k) + k = j
    BY <1>0, <1>3
  <2> QED BY <1>2, <2>1, <2>2
<1>5. OneDataPerToken'
  <2> SUFFICES ASSUME NEW i \in 1..n, NEW j \in 1..n, i < j,
                      bus'[i].type = "BacnetDataNotExpectingReply",
                      bus'[j].type = "BacnetDataNotExpectingReply",
                      bus'[i].src = bus'[j].src
               PROVE  \E l \in i + 1..j - 1 : bus'[l].type = "Token" /\ bus'[l].src = bus'[i].src
    BY DEF OneDataPerToken, n
  <2>1. i \in 1..n - 1
    BY <1>3
  <2>2. CASE j = n
    <3>1. PassedSince(bus'[i].src, i + k)
      BY <1>2, <1>3, <2>1, <2>2 DEF DataInv
    <3> QED BY <1>4, <2>1, <2>2, <3>1
  <2>3. CASE j \in 1..n - 1
    <3>1. i + k \in 1..Len(bus) /\ j + k \in 1..Len(bus) /\ i + k < j + k
      BY <1>2, <2>1, <2>3
    <3>2. PICK l \in i + k + 1..j + k - 1 :
            bus[l].type = "Token" /\ bus[l].src = bus[i + k].src
      <4>1. /\ bus[i + k].type = "BacnetDataNotExpectingReply"
            /\ bus[j + k].type = "BacnetDataNotExpectingReply"
            /\ bus[i + k].src = bus[j + k].src
        BY <1>2, <2>1, <2>3
      <4>2. OneDataPerToken
        BY DEF DataInv
      <4> DEFINE a == i + k
                 b == j + k
      <4>3. a \in 1..Len(bus) /\ b \in 1..Len(bus) /\ a < b
        BY <3>1
      <4> HIDE DEF a, b
      <4>4. \E l \in a + 1..b - 1 : bus[l].type = "Token" /\ bus[l].src = bus[a].src
        BY <4>1, <4>2, <4>3 DEF OneDataPerToken, a, b
      <4> QED BY <4>4 DEF a, b
    <3>3. l \in Int /\ i + k + 1 <= l /\ l <= j + k - 1
      BY <1>3, <2>1, <2>3
    <3>4. l - k \in i + 1..j - 1 /\ l - k \in 1..n - 1 /\ (l - k) + k = l
      BY <1>3, <2>1, <2>3, <3>3
    <3> QED BY <1>2, <2>1, <3>2, <3>4
  <2> QED BY <1>3, <2>2, <2>3
<1>6. ASSUME NEW m \in Masters, pc'[m] # "passToken", NEW i \in 1..n,
             bus'[i].type = "BacnetDataNotExpectingReply", bus'[i].src = m
      PROVE  PassedSince(m, i)'
  <2>1. i \in 1..n - 1
    BY <1>3, <1>6
  <2>2. CASE pc[m] # "passToken"
    <3>1. PassedSince(m, i + k)
      BY <1>2, <1>6, <2>1, <2>2 DEF DataInv
    <3>2. PICK l \in i + 1..n - 1 : bus'[l].type = "Token" /\ bus'[l].src = m
      BY <1>4, <2>1, <3>1
    <3>3. l \in i + 1..n
      BY <1>3, <2>1
    <3> QED BY <3>2, <3>3 DEF PassedSince, n
  <2>3. CASE f.type = "Token" /\ f.src = m
    <3>1. n \in i + 1..n
      BY <1>3, <2>1
    <3> QED BY <1>3, <2>3, <3>1 DEF PassedSince, n
  <2> QED BY <1>6, <2>2, <2>3
<1> QED BY <1>5, <1>6 DEF DataInv, n

\* A step that leaves the bus alone and lets no master out of passToken.
LEMMA SameBusData ==
  ASSUME DataInv, bus' = bus, \A m \in Masters : pc'[m] # "passToken" => pc[m] # "passToken"
  PROVE  DataInv'
<1>1. OneDataPerToken'
  <2>1. OneDataPerToken
    BY DEF DataInv
  <2> QED BY <2>1 DEF OneDataPerToken
<1>2. ASSUME NEW m \in Masters, pc'[m] # "passToken", NEW i \in 1..Len(bus'),
             bus'[i].type = "BacnetDataNotExpectingReply", bus'[i].src = m
      PROVE  PassedSince(m, i)'
  <2>1. pc[m] # "passToken"
    BY <1>2
  <2>2. PassedSince(m, i)
    BY <1>2, <2>1 DEF DataInv
  <2> QED BY <2>2 DEF PassedSince
<1> QED BY <1>1, <1>2 DEF DataInv

LEMMA DataStep ==
  ASSUME TypeOK, DataInv, [Next]_vars
  PROVE  DataInv'
<1>0. Token(0, 0) \in Frames /\ Token(0, 0).type = "Token"
  BY FrameTypes, ConstantsAssumption DEF Token
<1>1. CASE Bootstrap
  BY <1>0, <1>1, SendData DEF Bootstrap, TypeOK
<1>2. CASE Restart
  BY <1>0, <1>2, SendData DEF Restart
<1>3. ASSUME NEW m \in Masters, ReceivePoll(m) PROVE DataInv'
  <2> DEFINE f == [type |-> "ReplyToPollForMaster", dst |-> NextFrame(m).src,
                   src |-> m, id |-> 0]
  <2>1. Receiving(m) /\ Send(f, Received(m)) /\ pc' = pc
    BY <1>3 DEF ReceivePoll
  <2>2. f \in Frames /\ f.type # "BacnetDataNotExpectingReply"
    BY <2>1, NextFrameType, FrameTypes, ConstantsAssumption
  <2> HIDE DEF f
  <2> QED BY <2>1, <2>2, SendData
<1>4. ASSUME NEW m \in Masters, UseToken(m) PROVE DataInv'
  <2>1. pc[m] = "useToken" /\ \A n \in Masters : pc'[n] = IF n = m THEN "passToken" ELSE pc[n]
    BY <1>4 DEF UseToken, TypeOK
  <2>2. CASE pending[m] = <<>>
    <3>1. bus' = bus
      BY <1>4, <2>2 DEF UseToken
    <3>2. \A n \in Masters : pc'[n] # "passToken" => pc[n] # "passToken"
      BY <2>1
    <3> QED BY <3>1, <3>2, SameBusData
  <2>3. CASE pending[m] # <<>>
    <3> DEFINE f == Data(m, Head(pending[m]))
    <3>1. Head(pending[m]) \in Npdus
      BY <2>3 DEF TypeOK
    <3>2. f \in Frames /\ f.src = m /\ Send(f, unread)
      BY <1>4, <2>3, <3>1, FrameTypes DEF UseToken, SendPending, Data
    <3> HIDE DEF f
    <3> QED BY <2>1, <3>2, SendData
  <2> QED BY <2>2, <2>3
<1>5. ASSUME NEW m \in Masters, PassToken(m) PROVE DataInv'
  <2> DEFINE f == Token(NextStation(m), m)
  <2>1. \A n \in Masters : pc'[n] = IF n = m THEN "waiting" ELSE pc[n]
    BY <1>5 DEF PassToken, TypeOK
  <2>2. f \in Frames
    BY FrameTypes, NextStationType, ConstantsAssumption
  <2>3. f.type = "Token" /\ f.src = m /\ Send(f, unread)
    BY <1>5 DEF PassToken, Token
  <2> HIDE DEF f
  <2> QED BY <2>1, <2>2, <2>3, SendData
<1>6. ASSUME NEW m \in Masters, Poll(m) PROVE DataInv'
  <2> DEFINE f == [type |-> "PollForMaster", dst |-> m, src |-> Foreign, id |-> 0]
  <2>1. f \in Frames /\ f.type # "BacnetDataNotExpectingReply" /\ Send(f, unread) /\ pc' = pc
    BY <1>6, FrameTypes, ConstantsAssumption DEF Poll, Foreign
  <2> HIDE DEF f
  <2> QED BY <2>1, SendData
<1>7. CASE /\ bus' = bus
           /\ \A m \in Masters : pc'[m] # "passToken" => pc[m] # "passToken"
  BY <1>7, SameBusData
<1> QED
  BY <1>1, <1>2, <1>3, <1>4, <1>5, <1>6, <1>7
  DEF Next, Join, ReceiveToken, ReceiveOther, Receiving, Enqueue, vars, TypeOK

\* A master never puts two of its queued NPDUs on the bus without passing the
\* token in between ("send at most one frame per token", run()).
THEOREM OneDataFrame == Spec => []OneDataPerToken
<1>1. Init => DataInv
  BY DEF Init, DataInv, OneDataPerToken
<1>2. TypeOK /\ DataInv /\ [Next]_vars => DataInv'
  BY DataStep
<1>3. DataInv => OneDataPerToken
  BY DEF DataInv
<1> QED BY <1>1, <1>2, <1>3, TypeCorrect, PTL DEF Spec

-----------------------------------------------------------------------------
(* Counting tokens.                                                        *)

LEMMA ShiftCount ==
  ASSUME NEW S \in SUBSET Int, NEW T, IsFiniteSet(T), NEW k \in Int, \A i \in S : i + k \in T
  PROVE  IsFiniteSet(S) /\ Cardinality(S) <= Cardinality(T)
<1> DEFINE F == [i \in S |-> i + k]
<1>1. F \in [S -> T]
  OBVIOUS
<1>2. \A i, j \in S : F[i] = F[j] => i = j
  OBVIOUS
<1>3. F \in Injection(S, T)
  BY <1>1, <1>2 DEF Injection, IsInjective
<1> HIDE DEF F
<1> QED BY <1>3, FS_Injection

LEMMA FiniteTokens ==
  ASSUME TypeOK
  PROVE  /\ IsFiniteSet(InFlight) /\ Cardinality(InFlight) \in Nat
         /\ IsFiniteSet(Holders) /\ Cardinality(Holders) \in Nat
<1>1. IsFiniteSet(1..Len(bus)) /\ IsFiniteSet(0..MaxMaster)
  BY FS_Interval, ConstantsAssumption DEF TypeOK
<1>2. InFlight \in SUBSET (1..Len(bus)) /\ Holders \in SUBSET (0..MaxMaster)
  BY ConstantsAssumption DEF InFlight, Holders
<1>3. IsFiniteSet(InFlight) /\ IsFiniteSet(Holders)
  BY <1>1, <1>2, FS_Subset
<1> QED BY <1>3, FS_CardinalityType

\* A send adds at most one token frame to those in flight, and none unless it
\* is one.
LEMMA SendCount ==
  ASSUME TypeOK, NEW f \in Frames, NEW r \in [Masters -> Nat],
         \A m \in Masters : r[m] <= unread[m], Send(f, r)
  PROVE  /\ IsFiniteSet(InFlight') /\ Cardinality(InFlight') \in Nat
         /\ Cardinality(InFlight') <= Cardinality(InFlight) + 1
         /\ f.type # "Token" => Cardinality(InFlight') <= Cardinality(InFlight)
<1> DEFINE S == InFlight' \ {Len(bus')}
<1>1. PICK k \in {0, 1} : \A i \in InFlight' :
        \/ i \in 1..Len(bus') - 1 /\ i + k \in InFlight
        \/ i = Len(bus') /\ f.type = "Token"
  BY SendInFlight
<1>2. Len(bus') \in Nat /\ InFlight' \in SUBSET Int
  BY SendType DEF InFlight
<1>3. S \in SUBSET Int /\ \A i \in S : i + k \in InFlight
  BY <1>1, <1>2
<1>4. S \cup {Len(bus')} = InFlight' \cup {Len(bus')}
  OBVIOUS
<1>5. f.type # "Token" => \A i \in InFlight' : i + k \in InFlight
  BY <1>1
<1>6. IsFiniteSet(InFlight) /\ Cardinality(InFlight) \in Nat /\ k \in Int
  BY FiniteTokens
<1> HIDE DEF S
<1>7. IsFiniteSet(S) /\ Cardinality(S) <= Cardinality(InFlight) /\ Cardinality(S) \in Nat
  BY <1>3, <1>6, ShiftCount, FS_CardinalityType
<1>8. /\ IsFiniteSet(S \cup {Len(bus')}) /\ Cardinality(S \cup {Len(bus')}) \in Nat
      /\ Cardinality(S \cup {Len(bus')}) <= Cardinality(InFlight) + 1
  <2>1. /\ IsFiniteSet(S \cup {Len(bus')})
        /\ Cardinality(S \cup {Len(bus')}) =
             IF Len(bus') \in S THEN Cardinality(S) ELSE Cardinality(S) + 1
    BY <1>7, FS_AddElement
  <2> QED BY <1>6, <1>7, <2>1
<1>9. InFlight' \in SUBSET (S \cup {Len(bus')})
  BY <1>4
<1>10. /\ IsFiniteSet(InFlight')
       /\ Cardinality(InFlight') <= Cardinality(S \cup {Len(bus')})
  BY <1>8, <1>9, FS_Subset
<1>11. Cardinality(InFlight') \in Nat
  BY <1>10, FS_CardinalityType
<1>12. f.type # "Token" => Cardinality(InFlight') <= Cardinality(InFlight)
  BY <1>2, <1>5, <1>6, ShiftCount
<1> QED BY <1>6, <1>8, <1>10, <1>11, <1>12

\* A send of anything but a token by a step that keeps the holders adds none.
LEMMA SendOtherCount ==
  ASSUME TypeOK, NEW f \in Frames, NEW r \in [Masters -> Nat],
         \A m \in Masters : r[m] <= unread[m], Send(f, r), f.type # "Token",
         Holders' = Holders
  PROVE  ~ (Tokens' > Tokens)
<1>1. /\ Cardinality(InFlight') \in Nat
      /\ Cardinality(InFlight') <= Cardinality(InFlight)
  BY SendCount
<1>2. /\ Cardinality(InFlight) \in Nat /\ Cardinality(Holders) \in Nat
      /\ Cardinality(Holders') = Cardinality(Holders)
  BY FiniteTokens
<1> QED BY <1>1, <1>2 DEF Tokens

LEMMA CountStep ==
  ASSUME TypeOK, [Next]_vars, ~ Bootstrap, ~ Restart
  PROVE  ~ (Tokens' > Tokens)
<1>0. unread \in [Masters -> Nat] /\ (\A m \in Masters : unread[m] <= unread[m])
  BY DEF TypeOK
<1>c. /\ IsFiniteSet(InFlight) /\ Cardinality(InFlight) \in Nat
      /\ IsFiniteSet(Holders) /\ Cardinality(Holders) \in Nat
  BY FiniteTokens
<1>1. ASSUME NEW m \in Masters, Join(m) PROVE ~ (Tokens' > Tokens)
  <2>1. Holders' = Holders /\ InFlight' = InFlight
    BY <1>1 DEF Join, Holders, Holding, InFlight, TypeOK
  <2> QED BY <1>c, <2>1 DEF Tokens
<1>2. ASSUME NEW m \in Masters, ReceiveToken(m) PROVE ~ (Tokens' > Tokens)
  <2> DEFINE j == Len(bus) - unread[m] + 1
  <2>1. j \in InFlight
    BY <1>2, NextIsInFlight DEF ReceiveToken
  <2>2. InFlight' \subseteq InFlight /\ j \notin InFlight'
    BY <1>2, ReceiveInFlight DEF ReceiveToken
  <2>3. Holders' = Holders \cup {m} /\ m \notin Holders
    BY <1>2 DEF ReceiveToken, Receiving, Holders, Holding, TypeOK
  <2> HIDE DEF j
  <2>4. IsFiniteSet(InFlight \ {j}) /\ Cardinality(InFlight \ {j}) = Cardinality(InFlight) - 1
    BY <1>c, <2>1, FS_RemoveElement
  <2>5. InFlight' \in SUBSET (InFlight \ {j})
    BY <2>2
  <2>6. IsFiniteSet(InFlight') /\ Cardinality(InFlight') <= Cardinality(InFlight) - 1
    BY <2>4, <2>5, FS_Subset
  <2>7. Cardinality(InFlight') \in Nat
    BY <2>6, FS_CardinalityType
  <2>8. Cardinality(Holders') = Cardinality(Holders) + 1
    BY <1>c, <2>3, FS_AddElement
  <2> QED BY <1>c, <2>6, <2>7, <2>8 DEF Tokens
<1>3. ASSUME NEW m \in Masters, ReceivePoll(m) PROVE ~ (Tokens' > Tokens)
  <2> DEFINE f == [type |-> "ReplyToPollForMaster", dst |-> NextFrame(m).src,
                   src |-> m, id |-> 0]
  <2>1. Receiving(m) /\ Send(f, Received(m))
    BY <1>3 DEF ReceivePoll
  <2>2. f \in Frames /\ f.type # "Token"
    BY <2>1, NextFrameType, FrameTypes, ConstantsAssumption
  <2>3. Holders' = Holders
    BY <1>3 DEF ReceivePoll, Holders, Holding
  <2> HIDE DEF f
  <2> QED BY <2>1, <2>2, <2>3, NextFrameType, SendOtherCount
<1>4. ASSUME NEW m \in Masters, ReceiveOther(m) PROVE ~ (Tokens' > Tokens)
  <2>1. InFlight' \in SUBSET InFlight
    BY <1>4, ReceiveInFlight DEF ReceiveOther
  <2>2. Holders' = Holders
    BY <1>4 DEF ReceiveOther, Holders, Holding
  <2>3. IsFiniteSet(InFlight') /\ Cardinality(InFlight') <= Cardinality(InFlight)
    BY <1>c, <2>1, FS_Subset
  <2>4. Cardinality(InFlight') \in Nat
    BY <2>3, FS_CardinalityType
  <2> QED BY <1>c, <2>2, <2>3, <2>4 DEF Tokens
<1>5. ASSUME NEW m \in Masters, UseToken(m) PROVE ~ (Tokens' > Tokens)
  <2>1. Holders' = Holders
    BY <1>5 DEF UseToken, Holders, Holding, TypeOK
  <2>2. CASE pending[m] = <<>>
    <3>1. InFlight' = InFlight
      BY <1>5, <2>2 DEF UseToken, InFlight
    <3> QED BY <1>c, <2>1, <3>1 DEF Tokens
  <2>3. CASE pending[m] # <<>>
    <3> DEFINE f == Data(m, Head(pending[m]))
    <3>1. Head(pending[m]) \in Npdus
      BY <2>3 DEF TypeOK
    <3>2. f \in Frames /\ f.type # "Token" /\ Send(f, unread)
      BY <1>5, <2>3, <3>1, FrameTypes DEF UseToken, SendPending, Data
    <3> HIDE DEF f
    <3> QED BY <1>0, <2>1, <3>2, SendOtherCount
  <2> QED BY <2>2, <2>3
<1>6. ASSUME NEW m \in Masters, PassToken(m) PROVE ~ (Tokens' > Tokens)
  <2>1. m \in Holders /\ Holders' = Holders \ {m}
    BY <1>6 DEF PassToken, Holders, Holding, TypeOK
  <2>2. Token(NextStation(m), m) \in Frames
    BY FrameTypes, NextStationType, ConstantsAssumption
  <2>3. /\ Cardinality(InFlight') \in Nat
        /\ Cardinality(InFlight') <= Cardinality(InFlight) + 1
    BY <1>0, <1>6, <2>2, SendCount DEF PassToken
  <2>4. Cardinality(Holders') = Cardinality(Holders) - 1
    BY <1>c, <2>1, FS_RemoveElement
  <2> QED BY <1>c, <2>3, <2>4 DEF Tokens
<1>7. ASSUME NEW m \in Masters, Poll(m) PROVE ~ (Tokens' > Tokens)
  <2> DEFINE f == [type |-> "PollForMaster", dst |-> m, src |-> Foreign, id |-> 0]
  <2>1. f \in Frames /\ f.type # "Token" /\ Send(f, unread)
    BY <1>7, FrameTypes, ConstantsAssumption DEF Poll, Foreign
  <2>2. Holders' = Holders
    BY <1>7 DEF Poll, Holders, Holding
  <2> HIDE DEF f
  <2> QED BY <1>0, <2>1, <2>2, SendOtherCount
<1>8. CASE UNCHANGED <<bus, unread, pc>>
  <2>1. Holders' = Holders /\ InFlight' = InFlight
    BY <1>8 DEF Holders, Holding, InFlight
  <2> QED BY <1>c, <2>1 DEF Tokens
<1> QED
  BY <1>1, <1>2, <1>3, <1>4, <1>5, <1>6, <1>7, <1>8 DEF Next, Enqueue, vars

\* Even when tasks stall and lagging receivers lose frames, only address 0's
\* bootstrap and restart add a token to the ring: receiving one, using it and
\* passing it on never multiplies it (run(), pass_token()).
THEOREM TokenCount == Spec => TokensNeverMultiply
<1>1. TypeOK /\ [Next]_vars => [Tokens' > Tokens => Bootstrap \/ Restart]_vars
  BY CountStep
<1> QED BY <1>1, TypeCorrect, PTL DEF Spec, TokensNeverMultiply

-----------------------------------------------------------------------------
(* When the token is lost.                                                 *)

\* A token frame sent to a master on the bus is in flight.
LEMMA SendDelivers ==
  ASSUME TypeOK, NEW f \in Frames, Send(f, unread), f.type = "Token",
         f.dst \in Masters, pc[f.dst] # "absent"
  PROVE  Len(bus') \in InFlight' /\ bus'[Len(bus')] = f
<1>1. PICK k \in {0, 1} :
        /\ bus' \in Seq(Frames) /\ Len(bus') \in Nat
        /\ Len(bus') = Len(bus) + 1 - k
        /\ bus'[Len(bus')] = f
        /\ \A i \in 1..Len(bus') - 1 : bus'[i] = bus[i + k]
  BY SendShift
<1>2. unread'[f.dst] = IF unread[f.dst] < BusCapacity THEN unread[f.dst] + 1 ELSE BusCapacity
  BY DEF Send, Deliver
<1>3. unread \in [Masters -> Nat] /\ (\A m \in Masters : unread[m] <= unread[m])
      /\ unread[f.dst] \in Nat
  BY DEF TypeOK
<1>4. unread'[f.dst] >= 1 /\ unread'[f.dst] \in Nat /\ Len(bus') >= 1
  <2>1. unread'[f.dst] >= 1 /\ unread'[f.dst] \in Nat
    BY <1>2, <1>3, ConstantsAssumption
  <2>2. unread'[f.dst] <= Len(bus')
    BY <1>3, SendType
  <2> QED BY <1>1, <2>1, <2>2
<1>5. Len(bus') \in 1..Len(bus') /\ Len(bus') > Len(bus') - unread'[f.dst]
  BY <1>1, <1>4
<1> QED BY <1>1, <1>5 DEF InFlight

\* A frame that is not a token for its receiver takes no token out of flight.
LEMMA OtherInFlight ==
  ASSUME TypeOK, NEW m \in Masters, ReceiveOther(m)
  PROVE  InFlight' = InFlight
<1>1. Receiving(m) /\ bus' = bus /\ unread' = Received(m)
  BY DEF ReceiveOther
<1>2. InFlight' \subseteq InFlight
  BY <1>1, ReceiveInFlight
<1>3. ASSUME NEW i \in InFlight PROVE i \in InFlight'
  <2>1. /\ i \in 1..Len(bus) /\ bus[i].type = "Token" /\ bus[i].dst \in Masters
        /\ i > Len(bus) - unread[bus[i].dst]
    BY DEF InFlight
  <2>2. CASE bus[i].dst # m
    BY <1>1, <2>1, <2>2 DEF InFlight, Received, TypeOK
  <2>3. CASE bus[i].dst = m
    <3>1. i # Len(bus) - unread[m] + 1
      BY <2>1, <2>3 DEF ReceiveOther, NextFrame
    <3>2. unread'[m] = unread[m] - 1 /\ unread[m] \in Nat /\ Len(bus) \in Nat
      BY <1>1 DEF Received, TypeOK
    <3>3. i > Len(bus) - unread'[m]
      BY <2>1, <2>3, <3>1, <3>2
    <3> QED BY <1>1, <2>1, <2>3, <3>3 DEF InFlight
  <2> QED BY <2>2, <2>3
<1> QED BY <1>2, <1>3

\* Only a foreign station polls.
PollInv == polls = 0 => \A i \in 1..Len(bus) : bus[i].type # "PollForMaster"

LEMMA SendNoPoll ==
  ASSUME TypeOK, PollInv, NEW f \in Frames, NEW r, Send(f, r), f.type # "PollForMaster",
         polls' = polls
  PROVE  PollInv'
<1>1. PICK k \in {0, 1} :
        /\ bus' \in Seq(Frames) /\ Len(bus') \in Nat
        /\ Len(bus') = Len(bus) + 1 - k
        /\ bus'[Len(bus')] = f
        /\ \A i \in 1..Len(bus') - 1 : bus'[i] = bus[i + k]
  BY SendShift
<1>2. \A i \in 1..Len(bus') - 1 : i + k \in 1..Len(bus)
  BY <1>1 DEF TypeOK
<1>3. \A i \in 1..Len(bus') : i = Len(bus') \/ i \in 1..Len(bus') - 1
  BY <1>1
<1> QED BY <1>1, <1>2, <1>3 DEF PollInv

LEMMA PollStep ==
  ASSUME TypeOK, PollInv, [Next]_vars
  PROVE  PollInv'
<1>0. Token(0, 0) \in Frames /\ Token(0, 0).type = "Token"
  BY FrameTypes, ConstantsAssumption DEF Token
<1>1. CASE Bootstrap \/ Restart
  BY <1>0, <1>1, SendNoPoll DEF Bootstrap, Restart
<1>2. ASSUME NEW m \in Masters, ReceivePoll(m) PROVE PollInv'
  <2> DEFINE f == [type |-> "ReplyToPollForMaster", dst |-> NextFrame(m).src,
                   src |-> m, id |-> 0]
  <2>1. Receiving(m) /\ Send(f, Received(m)) /\ polls' = polls
    BY <1>2 DEF ReceivePoll
  <2>2. f \in Frames /\ f.type # "PollForMaster"
    BY <2>1, NextFrameType, FrameTypes, ConstantsAssumption
  <2> HIDE DEF f
  <2> QED BY <2>1, <2>2, SendNoPoll
<1>3. ASSUME NEW m \in Masters, UseToken(m) PROVE PollInv'
  <2>1. CASE pending[m] = <<>>
    BY <1>3, <2>1 DEF UseToken, PollInv
  <2>2. CASE pending[m] # <<>>
    <3> DEFINE f == Data(m, Head(pending[m]))
    <3>1. Head(pending[m]) \in Npdus
      BY <2>2 DEF TypeOK
    <3>2. f \in Frames /\ f.type # "PollForMaster" /\ Send(f, unread) /\ polls' = polls
      BY <1>3, <2>2, <3>1, FrameTypes DEF UseToken, SendPending, Data
    <3> HIDE DEF f
    <3> QED BY <3>2, SendNoPoll
  <2> QED BY <2>1, <2>2
<1>4. ASSUME NEW m \in Masters, PassToken(m) PROVE PollInv'
  <2>1. Token(NextStation(m), m) \in Frames
    BY FrameTypes, NextStationType, ConstantsAssumption
  <2>2. Token(NextStation(m), m).type # "PollForMaster"
    BY DEF Token
  <2> QED BY <1>4, <2>1, <2>2, SendNoPoll DEF PassToken
<1>5. ASSUME NEW m \in Masters, Poll(m) PROVE PollInv'
  <2>1. polls' # 0
    BY <1>5 DEF Poll, TypeOK
  <2> QED BY <2>1 DEF PollInv
<1>6. CASE UNCHANGED <<bus, polls>>
  BY <1>6 DEF PollInv
<1> QED
  BY <1>1, <1>2, <1>3, <1>4, <1>5, <1>6
  DEF Next, Join, ReceiveToken, ReceiveOther, Enqueue, vars

LEMMA NoTokens == TypeOK => (Tokens = 0 <=> InFlight = {} /\ Holders = {}) /\ Tokens \in Nat
<1> SUFFICES ASSUME TypeOK
             PROVE  (Tokens = 0 <=> InFlight = {} /\ Holders = {}) /\ Tokens \in Nat
  OBVIOUS
<1>1. /\ IsFiniteSet(InFlight) /\ Cardinality(InFlight) \in Nat
      /\ IsFiniteSet(Holders) /\ Cardinality(Holders) \in Nat
  BY FiniteTokens
<1>2. /\ Cardinality(InFlight) = 0 <=> InFlight = {}
      /\ Cardinality(Holders) = 0 <=> Holders = {}
  BY <1>1, FS_EmptySet
<1> QED BY <1>1, <1>2 DEF Tokens

LEMMA LostStep ==
  ASSUME TypeOK, TokenInv, PollInv, [Next]_vars, polls' = 0, ~ early',
         InFlight # {} \/ Holders # {}, InFlight' = {}, Holders' = {}
  PROVE  \E m \in Holders : NextStation(m) \notin Masters \/ pc[NextStation(m)] = "absent"
<1>1. CASE Bootstrap
  BY <1>1 DEF Bootstrap, TokenInv, Started
<1>2. CASE Restart
  <2>1. Silent
    BY <1>2 DEF Restart
  <2>2. \A i \in 1..Len(bus) : ~(i > Len(bus) - 0)
    BY DEF TypeOK
  <2> QED BY <2>1, <2>2 DEF Silent, Holders, InFlight
<1>3. ASSUME NEW m \in Masters, Join(m) PROVE FALSE
  <2>1. Holders' = Holders /\ InFlight' = InFlight
    BY <1>3 DEF Join, Holders, Holding, InFlight, TypeOK
  <2> QED BY <2>1
<1>4. ASSUME NEW m \in Masters, ReceiveToken(m) PROVE FALSE
  <2>1. m \in Holders'
    BY <1>4 DEF ReceiveToken, Holders, Holding, TypeOK
  <2> QED BY <2>1
<1>5. ASSUME NEW m \in Masters, ReceivePoll(m) PROVE FALSE
  <2>1. polls = 0 /\ Len(bus) - unread[m] + 1 \in 1..Len(bus)
    BY <1>5, NextFrameType DEF ReceivePoll
  <2> QED BY <1>5, <2>1 DEF ReceivePoll, PollInv, NextFrame
<1>6. ASSUME NEW m \in Masters, ReceiveOther(m) PROVE FALSE
  <2>1. Holders' = Holders /\ InFlight' = InFlight
    BY <1>6, OtherInFlight DEF ReceiveOther, Holders, Holding
  <2> QED BY <2>1
<1>7. ASSUME NEW m \in Masters, UseToken(m) PROVE FALSE
  <2>1. m \in Holders'
    BY <1>7 DEF UseToken, Holders, Holding, TypeOK
  <2> QED BY <2>1
<1>8. ASSUME NEW m \in Masters, PassToken(m)
      PROVE  \E n \in Holders : NextStation(n) \notin Masters \/ pc[NextStation(n)] = "absent"
  <2> DEFINE f == Token(NextStation(m), m)
  <2>1. m \in Holders
    BY <1>8 DEF PassToken, Holders, Holding
  <2>2. f \in Frames
    BY FrameTypes, NextStationType, ConstantsAssumption
  <2>3. f.type = "Token" /\ f.dst = NextStation(m) /\ Send(f, unread)
    BY <1>8 DEF PassToken, Token
  <2> HIDE DEF f
  <2>4. NextStation(m) \notin Masters \/ pc[NextStation(m)] = "absent"
    BY <2>2, <2>3, SendDelivers
  <2> QED BY <2>1, <2>4
<1>9. ASSUME NEW m \in Masters, Poll(m) PROVE FALSE
  BY <1>9 DEF Poll, TypeOK
<1>10. CASE UNCHANGED <<bus, unread, pc>>
  <2>1. Holders' = Holders /\ InFlight' = InFlight
    BY <1>10 DEF Holders, Holding, InFlight
  <2> QED BY <2>1
<1> QED
  BY <1>1, <1>2, <1>3, <1>4, <1>5, <1>6, <1>7, <1>8, <1>9, <1>10 DEF Next, Enqueue, vars

\* However far a receiver lags behind a full bus (RecvError::Lagged), the
\* masters themselves never lose the token: unless a foreign station polls,
\* it disappears only when it is passed to a station that is not on the bus.
THEOREM TokenLoss == Spec => TokenLostOnlyToAbsent
<1> DEFINE A == Tokens > 0 /\ Tokens' = 0 /\ polls' = 0 /\ ~ early' =>
                  \E m \in Holders : \/ NextStation(m) \notin Masters
                                     \/ pc[NextStation(m)] = "absent"
           E == TypeOK => (Tokens = 0 <=> InFlight = {} /\ Holders = {}) /\ Tokens \in Nat
<1>1. Init => PollInv
  BY DEF Init, PollInv
<1>2. TypeOK /\ PollInv /\ [Next]_vars => PollInv'
  BY PollStep
<1>3. E
  BY NoTokens
<1>4. TypeOK /\ TypeOK' /\ E' /\ TokenInv /\ PollInv /\ [Next]_vars => [A]_vars
  <2> SUFFICES ASSUME TypeOK, TypeOK', E', TokenInv, PollInv, [Next]_vars,
                      Tokens > 0, Tokens' = 0, polls' = 0, ~ early'
               PROVE  \E m \in Holders : \/ NextStation(m) \notin Masters
                                         \/ pc[NextStation(m)] = "absent"
    OBVIOUS
  <2>1. InFlight' = {} /\ Holders' = {}
    OBVIOUS
  <2>2. InFlight # {} \/ Holders # {}
    BY NoTokens
  <2> QED BY <2>1, <2>2, LostStep
<1> HIDE DEF A, E
<1>5. Spec => [][A]_vars
  BY <1>1, <1>2, <1>3, <1>4, TypeCorrect, TokenInvariance, PTL DEF Spec
<1> QED BY <1>5 DEF TokenLostOnlyToAbsent, A

-----------------------------------------------------------------------------
(* The ring implements the abstract token ring.                            *)

\* Where the abstract token is: at the one master that has it, if any.
AtHolder ==
  /\ \A m \in Masters : HasToken(m) => At = m
  /\ (\A m \in Masters : ~ HasToken(m)) => At = NoToken

LEMMA AtFacts == TokenInv /\ ~ early => AtHolder
<1> SUFFICES ASSUME TokenInv, ~ early PROVE AtHolder
  OBVIOUS
<1>1. \A m, n \in Masters : HasToken(m) /\ HasToken(n) => m = n
  BY DEF TokenInv, OneToken, HasToken
<1>2. ASSUME NEW m \in Masters, HasToken(m) PROVE At = m
  <2>1. At \in Masters /\ HasToken(At)
    BY <1>2 DEF At
  <2> QED BY <1>1, <1>2, <2>1
<1>3. (\A m \in Masters : ~ HasToken(m)) => At = NoToken
  BY DEF At
<1> QED BY <1>2, <1>3 DEF AtHolder

\* A step that gives no master the token keeps it where it is or loses it.
LEMMA KeepOrLose ==
  ASSUME AtHolder, AtHolder', \A m \in Masters : HasToken(m)' => HasToken(m)
  PROVE  At' = At \/ Ring!Lose
<1>1. CASE \E m \in Masters : HasToken(m)'
  BY <1>1 DEF AtHolder
<1>2. CASE \A m \in Masters : ~ HasToken(m)'
  <2>1. At' = NoToken
    BY <1>2 DEF AtHolder
  <2> QED BY <2>1 DEF Ring!Lose, Ring!NoToken, NoToken
<1> QED BY <1>1, <1>2

\* A send of anything but a token gives no master the token.
LEMMA SendKeeps ==
  ASSUME TypeOK, AtHolder, AtHolder', NEW f \in Frames, NEW r \in [Masters -> Nat],
         \A m \in Masters : r[m] <= unread[m], Send(f, r), f.type # "Token",
         Holders' = Holders
  PROVE  At' = At \/ Ring!Lose
<1>1. PICK k \in {0, 1} : \A i \in InFlight' : i + k \in InFlight /\ bus'[i] = bus[i + k]
  BY SendInFlight
<1>2. \A m \in Masters : HasToken(m)' => HasToken(m)
  BY <1>1 DEF HasToken
<1> QED BY <1>2, KeepOrLose

\* A token that address 0 sends when there is none is a new abstract token.
LEMMA SendCreates ==
  ASSUME TypeOK, AtHolder, AtHolder', 0 \in Masters, pc[0] # "absent",
         Send(Token(0, 0), unread), Holders = {}, InFlight = {}
  PROVE  Ring!Create
<1>1. Token(0, 0) \in Frames
  BY FrameTypes, ConstantsAssumption
<1>2. Token(0, 0).type = "Token" /\ Token(0, 0).dst = 0
  BY DEF Token
<1>3. Len(bus') \in InFlight' /\ bus'[Len(bus')] = Token(0, 0)
  BY <1>1, <1>2, SendDelivers
<1>4. HasToken(0)'
  BY <1>2, <1>3 DEF HasToken
<1>5. At' = 0
  BY <1>4 DEF AtHolder
<1>6. At = NoToken
  BY DEF AtHolder, HasToken
<1> QED BY <1>5, <1>6 DEF Ring!Create, Ring!NoToken, NoToken

LEMMA RingStep ==
  ASSUME TypeOK, TokenInv, ~ early, AtHolder, AtHolder', Stalls = FALSE, [Next]_vars
  PROVE  [Ring!Next]_At
<1> SUFFICES At' = At \/ Ring!Create \/ Ring!Pass \/ Ring!Lose
  BY DEF Ring!Next
<1>0. unread \in [Masters -> Nat] /\ (\A m \in Masters : unread[m] <= unread[m])
  BY DEF TypeOK
<1>1. CASE Bootstrap
  <2>1. Holders = {} /\ InFlight = {}
    BY <1>1 DEF Bootstrap, TokenInv, Started
  <2> QED BY <1>1, <2>1, SendCreates DEF Bootstrap
<1>2. CASE Restart
  <2>1. Silent
    BY <1>2 DEF Restart
  <2>2. \A i \in 1..Len(bus) : ~(i > Len(bus) - 0)
    BY DEF TypeOK
  <2>3. Holders = {} /\ InFlight = {}
    BY <2>1, <2>2 DEF Silent, Holders, InFlight
  <2> QED BY <1>2, <2>3, SendCreates DEF Restart
<1>3. ASSUME NEW m \in Masters, Join(m) PROVE At' = At \/ Ring!Lose
  <2>1. Holders' = Holders /\ InFlight' = InFlight /\ bus' = bus
    BY <1>3 DEF Join, Holders, Holding, InFlight, TypeOK
  <2> QED BY <2>1, KeepOrLose DEF HasToken
<1>4. ASSUME NEW m \in Masters, ReceiveToken(m) PROVE At' = At
  <2>1. Len(bus) - unread[m] + 1 \in InFlight
    BY <1>4, NextIsInFlight DEF ReceiveToken
  <2>2. HasToken(m)
    BY <1>4, <2>1 DEF HasToken, ReceiveToken, NextFrame
  <2>3. HasToken(m)'
    BY <1>4 DEF HasToken, ReceiveToken, Holders, Holding, TypeOK
  <2> QED BY <2>2, <2>3 DEF AtHolder
<1>5. ASSUME NEW m \in Masters, ReceivePoll(m) PROVE At' = At \/ Ring!Lose
  <2> DEFINE f == [type |-> "ReplyToPollForMaster", dst |-> NextFrame(m).src,
                   src |-> m, id |-> 0]
  <2>1. Receiving(m) /\ Send(f, Received(m))
    BY <1>5 DEF ReceivePoll
  <2>2. f \in Frames /\ f.type # "Token"
    BY <2>1, NextFrameType, FrameTypes, ConstantsAssumption
  <2>3. Holders' = Holders
    BY <1>5 DEF ReceivePoll, Holders, Holding
  <2> HIDE DEF f
  <2> QED BY <2>1, <2>2, <2>3, NextFrameType, SendKeeps
<1>6. ASSUME NEW m \in Masters, ReceiveOther(m) PROVE At' = At \/ Ring!Lose
  <2>1. Holders' = Holders /\ InFlight' = InFlight /\ bus' = bus
    BY <1>6, OtherInFlight DEF ReceiveOther, Holders, Holding
  <2> QED BY <2>1, KeepOrLose DEF HasToken
<1>7. ASSUME NEW m \in Masters, UseToken(m) PROVE At' = At \/ Ring!Lose
  <2>1. Holders' = Holders
    BY <1>7 DEF UseToken, Holders, Holding, TypeOK
  <2>2. CASE pending[m] = <<>>
    <3>1. InFlight' = InFlight /\ bus' = bus
      BY <1>7, <2>2 DEF UseToken, InFlight
    <3> QED BY <2>1, <3>1, KeepOrLose DEF HasToken
  <2>3. CASE pending[m] # <<>>
    <3> DEFINE f == Data(m, Head(pending[m]))
    <3>1. Head(pending[m]) \in Npdus
      BY <2>3 DEF TypeOK
    <3>2. f \in Frames /\ f.type # "Token" /\ Send(f, unread)
      BY <1>7, <2>3, <3>1, FrameTypes DEF UseToken, SendPending, Data
    <3> HIDE DEF f
    <3> QED BY <1>0, <2>1, <3>2, SendKeeps
  <2> QED BY <2>2, <2>3
<1>8. ASSUME NEW m \in Masters, PassToken(m) PROVE Ring!Pass \/ Ring!Lose
  <2> DEFINE f == Token(NextStation(m), m)
  <2>1. m \in Holders /\ Holders = {m} /\ InFlight = {} /\ Holders' = {}
    <3>1. m \in Holders /\ Holders' = Holders \ {m}
      BY <1>8 DEF PassToken, Holders, Holding, TypeOK
    <3> QED BY <3>1 DEF TokenInv, OneToken
  <2>2. At = m /\ At # NoToken
    BY <2>1, ConstantsAssumption DEF AtHolder, HasToken, NoToken
  <2>3. f \in Frames
    BY FrameTypes, NextStationType, ConstantsAssumption
  <2>4. f.dst = NextStation(m) /\ Send(f, unread)
    BY <1>8 DEF PassToken, Token
  <2> HIDE DEF f
  <2>5. PICK k \in {0, 1} :
          /\ bus' \in Seq(Frames) /\ Len(bus') \in Nat
          /\ Len(bus') = Len(bus) + 1 - k
          /\ bus'[Len(bus')] = f
          /\ \A i \in 1..Len(bus') - 1 : bus'[i] = bus[i + k]
    BY <2>3, <2>4, SendShift
  <2>6. \A i \in InFlight' : i = Len(bus')
    BY <1>0, <2>1, <2>3, <2>4, SendInFlight
  <2>7. \A n \in Masters : HasToken(n)' => n = NextStation(m)
    BY <2>1, <2>4, <2>5, <2>6 DEF HasToken
  <2>8. CASE \E n \in Masters : HasToken(n)'
    <3>1. At' = NextStation(m)
      BY <2>7, <2>8 DEF AtHolder
    <3> QED BY <2>2, <3>1 DEF Ring!Pass, Ring!Successor, Ring!NoToken, NextStation, NoToken
  <2>9. CASE \A n \in Masters : ~ HasToken(n)'
    <3>1. At' = NoToken
      BY <2>9 DEF AtHolder
    <3> QED BY <2>2, <3>1 DEF Ring!Lose, Ring!NoToken, NoToken
  <2> QED BY <2>8, <2>9
<1>9. ASSUME NEW m \in Masters, Poll(m) PROVE At' = At \/ Ring!Lose
  <2> DEFINE f == [type |-> "PollForMaster", dst |-> m, src |-> Foreign, id |-> 0]
  <2>1. f \in Frames /\ f.type # "Token" /\ Send(f, unread)
    BY <1>9, FrameTypes, ConstantsAssumption DEF Poll, Foreign
  <2>2. Holders' = Holders
    BY <1>9 DEF Poll, Holders, Holding
  <2> HIDE DEF f
  <2> QED BY <1>0, <2>1, <2>2, SendKeeps
<1>10. CASE UNCHANGED <<bus, unread, pc>>
  <2>1. Holders' = Holders /\ InFlight' = InFlight /\ bus' = bus
    BY <1>10 DEF Holders, Holding, InFlight
  <2> QED BY <2>1, KeepOrLose DEF HasToken
<1> QED
  BY <1>1, <1>2, <1>3, <1>4, <1>5, <1>6, <1>7, <1>8, <1>9, <1>10 DEF Next, Enqueue, vars

\* The ring implements the abstract token ring when no master task stalls
\* longer than the ring timeout: the token moves only from a station to its
\* successor, or is lost, and station 0 creates one only when there is none.
THEOREM RingImplements == Stalls = FALSE /\ Spec => RingSpec
<1>1. Stalls = FALSE /\ Init => ~ early /\ Ring!Init
  <2> SUFFICES ASSUME Init PROVE ~ early /\ Ring!Init
    OBVIOUS
  <2>1. Holders = {} /\ InFlight = {}
    BY DEF Init, Holders, Holding, InFlight
  <2>2. At = NoToken
    BY <2>1 DEF At, HasToken
  <2> QED BY <2>2 DEF Init, Ring!Init, Ring!NoToken, NoToken
<1>2. Stalls = FALSE /\ ~ early /\ [Next]_vars => ~ early'
  BY DEF Next, vars, Bootstrap, Restart, Join, ReceiveToken, ReceivePoll, ReceiveOther,
         UseToken, PassToken, Enqueue, Poll
<1>3. TokenInv /\ ~ early => AtHolder
  BY AtFacts
<1>4. TypeOK /\ TokenInv /\ ~ early /\ AtHolder /\ AtHolder' /\ Stalls = FALSE /\ [Next]_vars
        => [Ring!Next]_At
  BY RingStep
<1> DEFINE Fixed == Stalls = FALSE
<1>5. Fixed => Fixed'
  OBVIOUS
<1> QED
  BY <1>1, <1>2, <1>3, <1>4, <1>5, TypeCorrect, TokenInvariance, PTL
  DEF Spec, RingSpec, Ring!Spec
=============================================================================
