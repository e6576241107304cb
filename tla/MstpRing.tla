------------------------------ MODULE MstpRing ------------------------------
(***************************************************************************)
(* The virtual MS/TP token ring of bacnet-transport: VirtualMstpBus (a     *)
(* tokio broadcast channel) and the VirtualMstpMaster tasks that run() on  *)
(* it.  Every master has its own read position on the one bus; the bus     *)
(* keeps the last BusCapacity frames, so a master that falls further       *)
(* behind silently misses the oldest ones.                                 *)
(*                                                                         *)
(* run() receives a frame, and on a token takes three steps that other     *)
(* tasks can interleave with: it counts the token, puts at most one queued *)
(* NPDU on the bus, and passes the token.  Each is an action here.         *)
(***************************************************************************)
EXTENDS Integers, Sequences, FiniteSets

CONSTANTS
  Masters,      \* the addresses that join the bus and run()
  MaxMaster,    \* max_master, the same for every master
  BusCapacity,  \* BUS_CHANNEL_CAPACITY
  QueueCapacity,\* capacity of a master's outbound channel
  Dests,        \* destinations callers queue NPDUs for
  MaxData,      \* bound: NPDUs queued in a behaviour
  MaxPolls,     \* bound: Poll-For-Master frames a foreign station sends
  Stalls        \* may a master task stall longer than the ring timeout?

ASSUME ConstantsAssumption ==
  /\ MaxMaster \in Nat
  /\ Masters \subseteq 0..MaxMaster
  /\ BusCapacity \in Nat \ {0}
  /\ QueueCapacity \in Nat \ {0}
  /\ Dests \subseteq 0..MaxMaster
  /\ MaxData \in Nat
  /\ MaxPolls \in Nat
  /\ Stalls \in BOOLEAN

VARIABLES
  bus,       \* the frames the broadcast channel still holds, oldest first
  unread,    \* how many of the newest frames each master has yet to receive
  pc,        \* where each master is in join() / run()
  pending,   \* each master's outbound queue
  early,     \* has address 0 restarted a ring that was not broken?
  lastUser,  \* whose token_received_count was incremented last
  queued,    \* number of NPDUs callers have queued so far
  polls      \* number of polls the foreign station has sent so far

vars == <<bus, unread, pc, pending, early, lastUser, queued, polls>>

NoToken == -1

Foreign == MaxMaster + 1  \* a station on the bus that is not one of the masters

Npdus == [dst : Dests, id : 1..MaxData]

Frames ==
  [type : {"Token", "PollForMaster", "ReplyToPollForMaster",
           "BacnetDataNotExpectingReply"},
   dst : 0..MaxMaster + 1, src : 0..MaxMaster + 1, id : 0..MaxData]

Token(dst, src) == [type |-> "Token", dst |-> dst, src |-> src, id |-> 0]

Data(m, npdu) == [type |-> "BacnetDataNotExpectingReply",
                  dst |-> npdu.dst, src |-> m, id |-> npdu.id]

\* Faults (here and below): forms of a definition with a bug the code could
\* plausibly have, against which the properties are tried.
NextStation_ModMax(m) == (m + 1) % MaxMaster

NextStation_Skip(m) == (m + 2) % (MaxMaster + 1)

NextStation(m) == (m + 1) % (MaxMaster + 1)

Holding(m) == pc[m] \in {"useToken", "passToken"}

-----------------------------------------------------------------------------
(* The bus.  A full channel overwrites its oldest frame.                   *)

Push(f) == IF Len(bus) < BusCapacity THEN Append(bus, f)
                                     ELSE Append(Tail(bus), f)

Deliver_Uncapped(r) == [m \in Masters |-> IF pc[m] = "absent" THEN 0 ELSE r[m] + 1]

\* A lagging receiver resubscribes at the end of the channel.
Deliver_Resubscribe(r) == [m \in Masters |->
                             IF pc[m] = "absent" \/ r[m] = BusCapacity THEN 0 ELSE r[m] + 1]

\* Every joined master has one more frame to receive, but never more than
\* the channel holds; r is unread as the sender's own receive left it.
Deliver(r) == [m \in Masters |->
                 IF pc[m] = "absent" THEN 0
                 ELSE IF r[m] < BusCapacity THEN r[m] + 1 ELSE BusCapacity]

Send(f, r) == bus' = Push(f) /\ unread' = Deliver(r)

\* The next frame master m receives, and m's position after receiving it.
NextFrame(m) == bus[Len(bus) - unread[m] + 1]

Received(m) == [unread EXCEPT ![m] = @ - 1]

Receiving(m) == pc[m] = "waiting" /\ unread[m] > 0

-----------------------------------------------------------------------------
(* The masters.                                                            *)

\* join() subscribes to the bus; run() is spawned and, except at address 0,
\* waits for frames at once.  Frames sent before join() are never seen.
Join(m) ==
  /\ pc[m] = "absent"
  /\ pc' = [pc EXCEPT ![m] = IF m = 0 THEN "bootstrap" ELSE "waiting"]
  /\ UNCHANGED <<bus, unread, pending, early, lastUser, queued, polls>>

\* Address 0 starts the ring after its settle delay.
Bootstrap ==
  /\ 0 \in Masters
  /\ pc[0] = "bootstrap"
  /\ pc' = [pc EXCEPT ![0] = "waiting"]
  /\ Send(Token(0, 0), unread)
  /\ UNCHANGED <<pending, early, lastUser, queued, polls>>

ReceiveToken_AnyDestination(m) ==
  /\ Receiving(m)
  /\ NextFrame(m).type = "Token"
  /\ unread' = Received(m)
  /\ pc' = [pc EXCEPT ![m] = "useToken"]
  /\ lastUser' = m
  /\ UNCHANGED <<bus, pending, early, queued, polls>>

ReceiveToken(m) ==
  /\ Receiving(m)
  /\ NextFrame(m).type = "Token" /\ NextFrame(m).dst = m
  /\ unread' = Received(m)
  /\ pc' = [pc EXCEPT ![m] = "useToken"]
  /\ lastUser' = m
  /\ UNCHANGED <<bus, pending, early, queued, polls>>

ReceivePoll(m) ==
  /\ Receiving(m)
  /\ NextFrame(m).type = "PollForMaster" /\ NextFrame(m).dst = m
  /\ Send([type |-> "ReplyToPollForMaster", dst |-> NextFrame(m).src,
           src |-> m, id |-> 0], Received(m))
  /\ UNCHANGED <<pc, pending, early, lastUser, queued, polls>>

\* Any other frame is dropped, data frames included.
ReceiveOther(m) ==
  /\ Receiving(m)
  /\ ~ (NextFrame(m).type \in {"Token", "PollForMaster"} /\ NextFrame(m).dst = m)
  /\ unread' = Received(m)
  /\ UNCHANGED <<bus, pc, pending, early, lastUser, queued, polls>>

SendPending(m) ==
  /\ Send(Data(m, Head(pending[m])), unread)
  /\ pending' = [pending EXCEPT ![m] = Tail(@)]

UseToken_DrainAll(m) ==
  /\ pc[m] = "useToken"
  /\ IF pending[m] = <<>>
       THEN pc' = [pc EXCEPT ![m] = "passToken"] /\ UNCHANGED <<bus, unread, pending>>
       ELSE SendPending(m) /\ UNCHANGED pc
  /\ UNCHANGED <<early, lastUser, queued, polls>>

UseToken_OffByOne(m) ==
  /\ pc[m] = "useToken"
  /\ pc' = [pc EXCEPT ![m] = "passToken"]
  /\ IF Len(pending[m]) <= 1 THEN UNCHANGED <<bus, unread, pending>> ELSE SendPending(m)
  /\ UNCHANGED <<early, lastUser, queued, polls>>

\* try_recv on the outbound queue: at most one NPDU goes out per token.
UseToken(m) ==
  /\ pc[m] = "useToken"
  /\ pc' = [pc EXCEPT ![m] = "passToken"]
  /\ IF pending[m] = <<>>
       THEN UNCHANGED <<bus, unread, pending>>
       ELSE SendPending(m)
  /\ UNCHANGED <<early, lastUser, queued, polls>>

PassToken_Keep(m) ==
  /\ pc[m] = "passToken"
  /\ Send(Token(NextStation(m), m), unread)
  /\ UNCHANGED <<pc, pending, early, lastUser, queued, polls>>

PassToken(m) ==
  /\ pc[m] = "passToken"
  /\ pc' = [pc EXCEPT ![m] = "waiting"]
  /\ Send(Token(NextStation(m), m), unread)
  /\ UNCHANGED <<pending, early, lastUser, queued, polls>>

\* Nothing is on its way to, or in the hands of, any master.
Silent == \A m \in Masters : unread[m] = 0 /\ ~ Holding(m)

\* The ring timeout of address 0, which fires only while it has no frame to
\* receive.  The other masters' timeouts change nothing.  Without stalls
\* every hop is shorter than TOKEN_WAIT_MS, so the bus is silent by then.
Restart ==
  /\ 0 \in Masters
  /\ pc[0] = "waiting"
  /\ unread[0] = 0
  /\ Stalls \/ Silent
  /\ early' = (early \/ ~ Silent)
  /\ Send(Token(0, 0), unread)
  /\ UNCHANGED <<pc, pending, lastUser, queued, polls>>

-----------------------------------------------------------------------------
(* The environment.                                                        *)

\* A caller queues an NPDU on outbound_sender(); it waits while the queue
\* is full.
Enqueue(m, d) ==
  /\ pc[m] # "absent"
  /\ queued < MaxData
  /\ Len(pending[m]) < QueueCapacity
  /\ queued' = queued + 1
  /\ pending' = [pending EXCEPT ![m] = Append(@, [dst |-> d, id |-> queued + 1])]
  /\ UNCHANGED <<bus, unread, pc, early, lastUser, polls>>

\* A foreign station with a sender() of the bus polls for master m.
Poll(m) ==
  /\ polls < MaxPolls
  /\ polls' = polls + 1
  /\ Send([type |-> "PollForMaster", dst |-> m, src |-> Foreign, id |-> 0], unread)
  /\ UNCHANGED <<pc, pending, early, lastUser, queued>>

-----------------------------------------------------------------------------
Init ==
  /\ bus = <<>>
  /\ unread = [m \in Masters |-> 0]
  /\ pc = [m \in Masters |-> "absent"]
  /\ pending = [m \in Masters |-> <<>>]
  /\ early = FALSE
  /\ lastUser = NoToken
  /\ queued = 0
  /\ polls = 0

Run(m) == ReceiveToken(m) \/ ReceivePoll(m) \/ ReceiveOther(m)
            \/ UseToken(m) \/ PassToken(m)

Next ==
  \/ Bootstrap
  \/ Restart
  \/ \E m \in Masters : Join(m)
  \/ \E m \in Masters : ReceiveToken(m)
  \/ \E m \in Masters : ReceivePoll(m)
  \/ \E m \in Masters : ReceiveOther(m)
  \/ \E m \in Masters : UseToken(m)
  \/ \E m \in Masters : PassToken(m)
  \/ \E m \in Masters, d \in Dests : Enqueue(m, d)
  \/ \E m \in Masters : Poll(m)

Spec == Init /\ [][Next]_vars

\* The tokio scheduler runs every ready task and fires every elapsed timer;
\* that every master joins is what a ring of this size means.
Fairness ==
  /\ WF_vars(Bootstrap)
  /\ WF_vars(Restart)
  /\ \A m \in Masters : WF_vars(Join(m)) /\ WF_vars(Run(m))

FairSpec == Spec /\ Fairness

-----------------------------------------------------------------------------
(* Properties.                                                             *)

TypeOK ==
  /\ bus \in Seq(Frames) /\ Len(bus) <= BusCapacity
  /\ unread \in [Masters -> Nat] /\ \A m \in Masters : unread[m] <= Len(bus)
  /\ pc \in [Masters -> {"absent", "bootstrap", "waiting", "useToken", "passToken"}]
  /\ pending \in [Masters -> Seq(Npdus)]
  /\ \A m \in Masters : Len(pending[m]) <= QueueCapacity
  /\ early \in BOOLEAN
  /\ lastUser \in Masters \cup {NoToken}
  /\ queued \in 0..MaxData
  /\ polls \in 0..MaxPolls

\* The token frames on the bus that their addressee has still to receive.
InFlight == {i \in 1..Len(bus) :
               /\ bus[i].type = "Token"
               /\ bus[i].dst \in Masters
               /\ i > Len(bus) - unread[bus[i].dst]}

Holders == {m \in Masters : Holding(m)}

\* The ring never has two tokens: two masters never use the bus at once, and
\* no token frame is on its way to a master while another master has one
\* (run()), until address 0's ring timeout elapses while the token is still
\* on its way, because a task stalled for longer than that.
OneToken ==
  ~ early =>
    /\ \A m, n \in Holders : m = n
    /\ \A i, j \in InFlight : i = j
    /\ Holders = {} \/ InFlight = {}

\* Address 0 has bootstrapped the ring.
Started == 0 \in Masters /\ pc[0] \notin {"absent", "bootstrap"}

\* The inductive strengthening of OneToken: a master that has not joined has
\* nothing to receive, and there is no token before address 0 bootstraps.
TokenInv ==
  /\ OneToken
  /\ \A m \in Masters : pc[m] = "absent" => unread[m] = 0
  /\ ~ Started => Holders = {} /\ InFlight = {}

\* A master sends at most one queued NPDU per token ("send at most one frame
\* per token"): between two data frames of a master on the bus it has passed
\* the token on.
OneDataPerToken ==
  \A i, j \in 1..Len(bus) :
    (/\ i < j
     /\ bus[i].type = "BacnetDataNotExpectingReply"
     /\ bus[j].type = "BacnetDataNotExpectingReply"
     /\ bus[i].src = bus[j].src)
    => \E k \in i + 1..j - 1 : bus[k].type = "Token" /\ bus[k].src = bus[i].src

Tokens == Cardinality(InFlight) + Cardinality(Holders)

\* Even when tasks stall, only station 0's bootstrap and restart add a token
\* to the ring: receiving, using and passing one never multiplies it.
TokensNeverMultiply ==
  [][Tokens' > Tokens => Bootstrap \/ Restart]_vars

\* The masters themselves never make the ring lose its token, however far a
\* receiver lags behind a full bus (RecvError::Lagged): unless a foreign
\* station polls, the token disappears only when it is passed to a station
\* that is not on the bus.
TokenLostOnlyToAbsent ==
  [][Tokens > 0 /\ Tokens' = 0 /\ polls' = 0 /\ ~ early' =>
       \E m \in Holders : \/ NextStation(m) \notin Masters
                          \/ pc[NextStation(m)] = "absent"]_vars

\* The ring implements the abstract token ring.
HasToken(m) == m \in Holders \/ \E i \in InFlight : bus[i].dst = m

At == IF \E m \in Masters : HasToken(m)
        THEN CHOOSE m \in Masters : HasToken(m) ELSE NoToken

Ring == INSTANCE TokenRing WITH at <- At

RingSpec == Ring!Spec

\* Every master of the ring receives the token again and again.
TokenCirculates == \A m \in Masters : []<>(lastUser = m)

\* An NPDU queued at a master eventually leaves its queue for the bus.
QueuedIsSent ==
  \A m \in Masters, id \in 1..MaxData :
    (\E i \in 1..Len(pending[m]) : pending[m][i].id = id)
      ~> (\A i \in 1..Len(pending[m]) : pending[m][i].id # id)
=============================================================================
