-------------------------- MODULE DispatcherProofs --------------------------
(***************************************************************************)
(* Theorems about Dispatcher: sessions, their isolation, the number of     *)
(* answers and what they say, for every set of clients, devices and        *)
(* requests and for all capacities of the two channels; one about the      *)
(* reassembly of segmented messages; and two about values on the wire.     *)
(***************************************************************************)
EXTENDS Dispatcher, Segmentation, FiniteSetTheorems, SequenceTheorems, TLAPS

\* The states of a task after resolve_device.
Resolved == {"serve", "respond", "done"}

\* The states of a task that sends, or has sent, its frames.
Sending == {"respond", "done"}

\* Tasks exist only for requests that were sent, a request is queued at most
\* once, and only requests with a device are served.
TaskInv ==
  /\ \A i \in Ids : pc[i] # "none" => i <= Len(request)
  /\ \A k \in 1..Len(inbox) : pc[inbox[k]] = "queued"
  /\ \A k, l \in 1..Len(inbox) : inbox[k] = inbox[l] => k = l
  /\ \A i \in Ids : pc[i] \in {"resolve", "serve"} =>
       request[i].ask.service \notin Unconfirmed \cup {"Undecodable"}
  /\ \A i \in Ids : pc[i] = "serve" => device[i] \in Devices
  /\ \A i \in Ids : device[i] # None => pc[i] \in Resolved

\* The devices client c has asked for by their Device objects.
NamedBy(c) ==
  {d \in Devices : \E j \in 1..Len(request) :
     /\ request[j].src = c
     /\ Names(request[j].ask) /\ Primary(request[j].ask) = Device(d)}

\* What the cache holds for a client, and what its requests are resolved to,
\* it has named itself.
IsolationInv ==
  /\ \A c \in Clients : cache[c] # None => cache[c] \in NamedBy(c)
  /\ \A c \in Clients, i \in Ids : device[i] # None /\ request[i].src = c =>
       device[i] = order[1] \/ device[i] \in NamedBy(c)

\* The frames a task has still to send.
FramesInv ==
  \A i \in Ids :
    /\ pc[i] = "respond" => frames[i] # <<>>
    /\ pc[i] = "done" => frames[i] = <<>>
    /\ \A k \in 1..Len(frames[i]) : frames[i][k].id = i
    /\ pc[i] = "respond" /\ request[i].ask.service = "WhoIs" =>
         \A k \in 1..Len(frames[i]) : frames[i][k].dst \in {"all", request[i].src}
    /\ pc[i] = "respond" /\ request[i].ask.service # "WhoIs" =>
         /\ Len(frames[i]) = 1
         /\ frames[i][1].dst = request[i].src /\ frames[i][1].dev = device[i]

\* The frames of request i on their way to the socket or there.
Out(i, to, d) == Copies(answers[i], i, to, d) + Copies(outbox, i, to, d)

\* Every frame that is due is in one place: with its task, in the channel, or
\* sent.
AnswerInv ==
  \A i \in Ids, to \in Clients \cup {"all"}, d \in Devices :
    Out(i, to, d) = IF pc[i] \in Sending /\ Due(i, to, d)
                      THEN 1 - Copies(frames[i], i, to, d) ELSE 0

\* A client waits for its last request; once it does not wait, and has not
\* given up, all its requests are done.
WaitInv ==
  /\ \A c \in Clients : open[c] # 0 =>
       /\ open[c] \in 1..Len(request)
       /\ request[open[c]].src = c /\ request[open[c]].ask.service \notin Unconfirmed
  /\ \A c \in Clients, j \in 1..Len(request) :
       request[j].src = c /\ request[j].ask.service \notin Unconfirmed =>
         /\ open[c] # 0 => j <= open[c]
         /\ c \notin hasty => j = open[c] \/ pc[j] = "done"
  /\ \A k \in 1..Len(outbox) :
       /\ outbox[k].id <= Len(request)
       /\ request[outbox[k].id].ask.service = "WhoIs" \/ pc[outbox[k].id] = "done"

\* The requests by which client c has named a device, as far as resolved.
Known(c) ==
  {j \in 1..Len(request) :
     LET r == request[j]
     IN r.src = c /\ Names(r.ask) /\ ~ NoDevice(r.ask) /\ pc[j] \in Resolved}

\* The cache holds the device a patient client has named last.
CacheInv ==
  \A c \in Clients \ hasty :
    \/ Known(c) = {} /\ cache[c] = None
    \/ \E j \in Known(c) :
         (\A k \in Known(c) : k <= j) /\ cache[c] = Primary(request[j].ask).inst

\* What an object identifier is.
Targets == [type : {"Device", "Point"}, inst : Nat]

\* What the frames of request i are to tell.
Content(i) == IF request[i].ask.service = "WhoIs" THEN <<>> ELSE results[i]

\* A list of which r has the findings for a first part and t is the rest.
Rest(t, r, list) ==
  Len(r) + Len(t) = Len(list) /\ \A k \in 1..Len(t) : t[k] = list[Len(r) + k]

\* A task has read a first part of its list and has the rest to do; then it
\* answers with all it has read.
ContentOf(i) ==
  LET objects == request[i].ask.objects
  IN /\ pc[i] \notin Resolved => results[i] = <<>>
     /\ pc[i] = "serve" =>
          Rest(todo[i], results[i], objects) /\ (Len(objects) > 0 => Len(todo[i]) > 0)
     /\ pc[i] \in Sending /\ request[i].ask.service # "WhoIs" =>
          device[i] # None /\ Len(results[i]) = Len(objects)
     /\ pc[i] = "respond" =>
          \A k \in 1..Len(frames[i]) : frames[i][k].results = Content(i)

\* Every frame tells what its task has read, wherever it is.
ContentInv ==
  /\ todo \in [Ids -> Seq(Targets)]
  /\ \A i \in Ids : ContentOf(i)
  /\ \A k \in 1..Len(outbox) :
       pc[outbox[k].id] \in Sending /\ outbox[k].results = Content(outbox[k].id)
  /\ \A i \in Ids : \A k \in 1..Len(answers[i]) : answers[i][k].id = i

-----------------------------------------------------------------------------
(* Types.                                                                  *)

\* The empty sequence is the one of length 0.
LEMMA EmptyLen ==
  ASSUME NEW S, NEW s \in Seq(S)
  PROVE  s = <<>> <=> Len(s) = 0
OBVIOUS

\* A request has a client and something it asks.
LEMMA RequestFacts ==
  ASSUME TypeOK, NEW i \in Ids, i <= Len(request)
  PROVE  /\ i \in 1..Len(request) /\ request[i] \in [src : Clients, ask : Asks]
         /\ request[i].src \in Clients /\ request[i].ask \in Asks
<1> DEFINE R == [src : Clients, ask : Asks]
<1>1. request \in Seq(R) /\ i \in Nat /\ i >= 1
  BY DispatcherAssumption DEF TypeOK, Ids
<1> HIDE DEF R
<1>2. i \in 1..Len(request)
  BY <1>1
<1>3. request[i] \in R
  BY <1>1, <1>2, ElementOfSeq
<1>4. QED
  BY <1>2, <1>3 DEF R

\* The registry is a sequence that lists every device.
LEMMA OrderFacts ==
  ASSUME order \in Orders
  PROVE  /\ Len(order) \in Nat \ {0} /\ order \in Seq(Devices)
         /\ \A k \in 1..Len(order) : order[k] \in Devices
         /\ \A j, k \in 1..Len(order) : order[j] = order[k] => j = k
         /\ \A d \in Devices : \E k \in 1..Len(order) : order[k] = d
<1> DEFINE n == Cardinality(Devices)
<1>1. n \in Nat /\ n # 0
  BY DispatcherAssumption, FS_CardinalityType, FS_EmptySet
<1>2. order \in [1..n -> Devices] /\ \A i, j \in 1..n : order[i] = order[j] => i = j
  BY DEF Orders
<1>3. Len(order) = n /\ order \in Seq(Devices)
  BY <1>1, <1>2
<1>4. order \in Injection(1..n, Devices)
  BY <1>2 DEF Injection, IsInjective
<1>5. IsFiniteSet(1..n) /\ Cardinality(1..n) = n
  BY <1>1, FS_Interval
<1>6. order \in Surjection(1..n, Devices)
  BY <1>4, <1>5, DispatcherAssumption, FS_Injection
<1>7. QED
  BY <1>1, <1>2, <1>3, <1>6 DEF Surjection

\* What is sent is a reply.
LEMMA FrameType ==
  ASSUME NEW dst \in Clients \cup {"all"}, NEW i \in Ids, NEW d \in Devices,
         NEW r \in Seq(Outcomes)
  PROVE  /\ Frame(dst, i, d, r) \in Replies
         /\ Frame(dst, i, d, r).dst = dst /\ Frame(dst, i, d, r).id = i
         /\ Frame(dst, i, d, r).dev = d
BY DEF Frame, Replies

\* The position of the device to which the k-th of its frames belongs.
LEMMA HalfFacts ==
  ASSUME NEW n \in Nat, NEW k \in 1..2 * n
  PROVE  /\ (k + 1) \div 2 \in 1..n
         /\ IF k % 2 = 1 THEN k = 2 * ((k + 1) \div 2) - 1 ELSE k = 2 * ((k + 1) \div 2)
<1>1. k \in Nat /\ k >= 1 /\ k <= 2 * n
  OBVIOUS
<1>2. \E q \in Int : k = 2 * q \/ k = 2 * q + 1
  <2>1. k % 2 \in 0..1 /\ k \div 2 \in Int
    BY <1>1
  <2>2. k = 2 * (k \div 2) \/ k = 2 * (k \div 2) + 1
    BY <1>1, <2>1
  <2>3. QED
    BY <2>1, <2>2
<1>3. ASSUME NEW q \in Int, k = 2 * q
      PROVE  k % 2 = 0 /\ (k + 1) \div 2 = q
  BY <1>1, <1>3
<1>4. ASSUME NEW q \in Int, k = 2 * q + 1
      PROVE  k % 2 = 1 /\ (k + 1) \div 2 = q + 1
  BY <1>1, <1>4
<1>5. QED
  BY <1>1, <1>2, <1>3, <1>4

\* The I-Am frames of a Who-Is: two for each device.
LEMMA IAmsFacts ==
  ASSUME TypeOK, NEW i \in Ids, i <= Len(request)
  PROVE  /\ IAms(i) \in Seq(Replies) /\ Len(IAms(i)) = 2 * Len(order) /\ IAms(i) # <<>>
         /\ \A k \in 1..Len(IAms(i)) :
              /\ (k + 1) \div 2 \in 1..Len(order)
              /\ IAms(i)[k].id = i /\ IAms(i)[k].dev = order[(k + 1) \div 2]
              /\ IAms(i)[k].dst = IF k % 2 = 1 THEN "all" ELSE request[i].src
<1> DEFINE m == 2 * Len(order)
           src == request[i].src
           to(k) == IF k % 2 = 1 THEN "all" ELSE src
           fr(k) == Frame(to(k), i, order[(k + 1) \div 2], <<>>)
<1>1. Len(order) \in Nat \ {0} /\ \A k \in 1..Len(order) : order[k] \in Devices
  BY OrderFacts DEF TypeOK
<1>2. m \in Nat /\ m # 0
  BY <1>1
<1>3. src \in Clients
  BY RequestFacts
<1>4. \A k \in 1..m : (k + 1) \div 2 \in 1..Len(order)
  BY <1>1, HalfFacts
<1>5. ASSUME NEW k \in 1..m
      PROVE  /\ fr(k) \in Replies /\ fr(k).id = i /\ fr(k).dev = order[(k + 1) \div 2]
             /\ fr(k).dst = to(k)
  <2>1. order[(k + 1) \div 2] \in Devices
    BY <1>1, <1>4
  <2>2. to(k) \in Clients \cup {"all"}
    BY <1>3
  <2> HIDE DEF to
  <2>3. <<>> \in Seq(Outcomes)
    OBVIOUS
  <2> DEFINE d == order[(k + 1) \div 2]
  <2> HIDE DEF d
  <2>4. d \in Devices
    BY <2>1 DEF d
  <2>5. /\ Frame(to(k), i, d, <<>>) \in Replies /\ Frame(to(k), i, d, <<>>).id = i
        /\ Frame(to(k), i, d, <<>>).dev = d /\ Frame(to(k), i, d, <<>>).dst = to(k)
    <3>1. \A t \in Clients \cup {"all"} :
            /\ Frame(t, i, d, <<>>) \in Replies /\ Frame(t, i, d, <<>>).id = i
            /\ Frame(t, i, d, <<>>).dev = d /\ Frame(t, i, d, <<>>).dst = t
      BY <2>3, <2>4 DEF Frame, Replies
    <3>2. QED
      BY <2>2, <3>1
  <2>6. QED
    BY <2>5 DEF d
<1>6. IAms(i) = [k \in 1..m |-> fr(k)]
  BY DEF IAms
<1> HIDE DEF fr, m
<1>7. IAms(i) \in Seq(Replies) /\ Len(IAms(i)) = m /\ IAms(i) # <<>>
  <2>1. IAms(i) \in [1..m -> Replies]
    BY <1>5, <1>6
  <2>2. QED
    BY <1>2, <2>1
<1>8. \A k \in 1..m : IAms(i)[k] = fr(k)
  BY <1>6
<1>9. \A k \in 1..m : to(k) = IF k % 2 = 1 THEN "all" ELSE request[i].src
  OBVIOUS
<1> HIDE DEF to
<1>10. QED
  BY <1>4, <1>5, <1>7, <1>8, <1>9 DEF m

-----------------------------------------------------------------------------
(* Types and tasks.                                                        *)

\* Initially there are no requests and no tasks.
LEMMA StartTypes == Init => TypeOK /\ TaskInv
<1> SUFFICES ASSUME Init PROVE TypeOK /\ TaskInv
  OBVIOUS
<1>1. 0 \in 0..MaxRequests /\ 0 <= MaxRequests /\ 0 <= InCapacity /\ 0 <= OutCapacity
  BY DispatcherAssumption
<1>2. TypeOK
  BY <1>1 DEF Init, TypeOK
<1>3. TaskInv
  BY DEF Init, TaskInv
<1>4. QED
  BY <1>2, <1>3

\* What sending does to the requests and the inbound channel: a request is
\* appended, and the oldest is lost when the channel is full.
LEMMA SendFacts ==
  ASSUME TypeOK, TaskInv, NEW c \in Clients, NEW a \in Asks, Send(c, a)
  PROVE  LET id == Len(request) + 1
         IN /\ id \in Ids /\ id \notin 1..Len(request) /\ Len(request) \in Nat
            /\ pc[id] = "none"
            /\ Len(request') = id /\ request'[id] = [src |-> c, ask |-> a]
            /\ request' \in Seq([src : Clients, ask : Asks])
            /\ \A j \in 1..Len(request) : request'[j] = request[j]
            /\ \A j \in Ids : \/ pc'[j] = pc[j]
                              \/ pc[j] = "none" /\ j = id /\ pc'[j] = "queued"
                              \/ pc[j] = "queued" /\ pc'[j] = "lost"
<1> DEFINE R == [src : Clients, ask : Asks]
           id == Len(request) + 1
           r == [src |-> c, ask |-> a]
<1>1. r \in R
  OBVIOUS
<1>2. request \in Seq(R) /\ request' = Append(request, r) /\ id <= MaxRequests
  BY DEF TypeOK, Send
<1> HIDE DEF R, r
<1>3. Len(request) \in Nat /\ id \in Ids /\ id \notin 1..Len(request)
  BY <1>2, DispatcherAssumption DEF Ids
<1>4. Len(request') = id /\ request'[id] = r /\ request' \in Seq(R)
  BY <1>1, <1>2
<1>5. \A j \in 1..Len(request) : request'[j] = request[j]
  BY <1>2
<1>6. pc[id] = "none"
  BY <1>3 DEF TaskInv
<1>7. \A j \in Ids : \/ pc'[j] = pc[j]
                     \/ pc[j] = "none" /\ j = id /\ pc'[j] = "queued"
                     \/ pc[j] = "queued" /\ pc'[j] = "lost"
  <2>1. CASE Len(inbox) < InCapacity
    BY <1>3, <1>6, <2>1 DEF Send, TypeOK
  <2>2. CASE ~ (Len(inbox) < InCapacity)
    <3>1. Len(inbox) \in Nat /\ Len(inbox) >= 1 /\ inbox \in Seq(Ids)
      BY <2>2, DispatcherAssumption DEF TypeOK
    <3>2. Head(inbox) = inbox[1] /\ Head(inbox) \in Ids
      BY <3>1
    <3>3. pc[Head(inbox)] = "queued"
      BY <3>1, <3>2 DEF TaskInv
    <3>4. pc' = [pc EXCEPT ![id] = "queued", ![Head(inbox)] = "lost"]
      BY <2>2 DEF Send
    <3>5. QED
      BY <1>3, <1>6, <3>2, <3>3, <3>4 DEF TypeOK
  <2>3. QED
    BY <2>1, <2>2
<1>8. QED
  BY <1>3, <1>4, <1>5, <1>6, <1>7 DEF R, r

\* Sending keeps the types and what is known of tasks.
LEMMA SendTypes ==
  ASSUME TypeOK, TaskInv, NEW c \in Clients, NEW a \in Asks, Send(c, a)
  PROVE  TypeOK' /\ TaskInv'
<1> DEFINE id == Len(request) + 1
<1>1. /\ id \in Ids /\ id \notin 1..Len(request) /\ Len(request) \in Nat
      /\ pc[id] = "none"
      /\ Len(request') = id
      /\ request' \in Seq([src : Clients, ask : Asks])
      /\ \A j \in 1..Len(request) : request'[j] = request[j]
      /\ \A j \in Ids : \/ pc'[j] = pc[j]
                        \/ pc[j] = "none" /\ j = id /\ pc'[j] = "queued"
                        \/ pc[j] = "queued" /\ pc'[j] = "lost"
  BY SendFacts
<1>2. UNCHANGED <<order, cache, points, device, todo, results, frames, outbox, answers, hasty>>
  BY DEF Send
<1>3. inbox \in Seq(Ids) /\ Len(inbox) \in Nat /\ Len(inbox) <= InCapacity
      /\ InCapacity \in Nat \ {0}
  BY DispatcherAssumption DEF TypeOK
<1>4. id <= MaxRequests /\ open' \in [Clients -> 0..MaxRequests]
  <2>1. id \in 0..MaxRequests /\ 0 \in 0..MaxRequests
    BY <1>1, DispatcherAssumption DEF Ids
  <2>2. QED
    BY <1>1, <2>1 DEF Send, TypeOK
<1>5. /\ inbox' \in Seq(Ids) /\ Len(inbox') <= InCapacity
      /\ \A k \in 1..Len(inbox') : pc'[inbox'[k]] = "queued"
      /\ \A k, l \in 1..Len(inbox') : inbox'[k] = inbox'[l] => k = l
      /\ pc' \in [Ids -> {"none", "queued", "lost", "ignored", "resolve", "failed",
                          "serve", "respond", "done"}]
  <2>1. \A k \in 1..Len(inbox) : inbox[k] # id /\ inbox[k] \in Ids
    BY <1>1, <1>3 DEF TaskInv
  <2>2. CASE Len(inbox) < InCapacity
    <3>1. inbox' = Append(inbox, id) /\ pc' = [pc EXCEPT ![id] = "queued"]
      BY <2>2 DEF Send
    <3>2. /\ inbox' \in Seq(Ids) /\ Len(inbox') = Len(inbox) + 1
          /\ inbox'[Len(inbox) + 1] = id
          /\ \A k \in 1..Len(inbox) : inbox'[k] = inbox[k]
      BY <1>1, <1>3, <3>1
    <3>3. \A k, l \in 1..Len(inbox') : inbox'[k] = inbox'[l] => k = l
      BY <1>3, <2>1, <3>2 DEF TaskInv
    <3>4. \A k \in 1..Len(inbox') : pc'[inbox'[k]] = "queued"
      BY <1>1, <1>3, <2>1, <3>1, <3>2 DEF TaskInv, TypeOK
    <3>5. Len(inbox') <= InCapacity
      BY <1>3, <2>2, <3>2
    <3>6. pc' \in [Ids -> {"none", "queued", "lost", "ignored", "resolve", "failed",
                           "serve", "respond", "done"}]
      BY <3>1 DEF TypeOK
    <3>7. QED
      BY <3>2, <3>3, <3>4, <3>5, <3>6
  <2>3. CASE ~ (Len(inbox) < InCapacity)
    <3>1. /\ inbox' = Append(Tail(inbox), id)
          /\ pc' = [pc EXCEPT ![id] = "queued", ![Head(inbox)] = "lost"]
      BY <2>3 DEF Send
    <3>2. /\ Len(inbox) >= 1 /\ Tail(inbox) \in Seq(Ids)
          /\ Len(Tail(inbox)) = Len(inbox) - 1
          /\ \A k \in 1..Len(inbox) - 1 : Tail(inbox)[k] = inbox[k + 1]
      BY <1>3, <2>3
    <3>3. /\ inbox' \in Seq(Ids) /\ Len(inbox') = Len(inbox)
          /\ inbox'[Len(inbox)] = id
          /\ \A k \in 1..Len(inbox) - 1 : inbox'[k] = inbox[k + 1]
      BY <1>1, <1>3, <3>1, <3>2
    <3>4. Head(inbox) = inbox[1] /\ Head(inbox) \in Ids /\ Head(inbox) # id
      BY <1>3, <2>1, <3>2
    <3>5. \A k \in 1..Len(inbox) - 1 : inbox'[k] # Head(inbox) /\ inbox'[k] # id
                                       /\ inbox'[k] \in Ids /\ pc[inbox'[k]] = "queued"
      BY <1>3, <2>1, <3>2, <3>3, <3>4 DEF TaskInv
    <3>6. \A k, l \in 1..Len(inbox') : inbox'[k] = inbox'[l] => k = l
      <4>1. \A k, l \in 1..Len(inbox) - 1 : inbox'[k] = inbox'[l] => k = l
        <5>1. \A k, l \in 1..Len(inbox) - 1 :
                k + 1 \in 1..Len(inbox) /\ l + 1 \in 1..Len(inbox)
          BY <1>3
        <5>2. QED
          BY <1>3, <3>3, <5>1 DEF TaskInv
      <4>2. QED
        BY <1>3, <3>3, <3>5, <4>1
    <3>7. \A k \in 1..Len(inbox') : pc'[inbox'[k]] = "queued"
      <4>1. /\ pc'[id] = "queued"
            /\ \A i \in Ids : i # id /\ i # Head(inbox) => pc'[i] = pc[i]
        BY <1>1, <3>1, <3>4 DEF TypeOK
      <4>2. \A k \in 1..Len(inbox) - 1 : pc'[inbox'[k]] = "queued"
        BY <3>5, <4>1
      <4>3. QED
        BY <1>3, <3>3, <4>1, <4>2
    <3>8. QED
      BY <1>1, <1>3, <3>1, <3>3, <3>6, <3>7 DEF TypeOK
  <2>4. QED
    BY <2>2, <2>3
<1>6. TypeOK'
  <2>1. request' \in Seq([src : Clients, ask : Asks]) /\ Len(request') <= MaxRequests
    BY <1>1, <1>2, <1>4
  <2>2. QED
    BY <1>2, <1>4, <1>5, <2>1 DEF TypeOK
<1>7. TaskInv'
  <2>1. \A i \in Ids : pc'[i] # "none" => i <= Len(request')
    BY <1>1, DispatcherAssumption DEF TaskInv, Ids
  <2>2. ASSUME NEW i \in Ids, pc'[i] \in {"resolve", "serve"}
        PROVE  request'[i].ask.service \notin Unconfirmed \cup {"Undecodable"}
    <3>1. pc[i] = pc'[i] /\ i <= Len(request)
      BY <1>1, <2>2 DEF TaskInv
    <3>2. i \in 1..Len(request)
      BY <1>1, <3>1, DispatcherAssumption DEF Ids
    <3>3. QED
      BY <1>1, <2>2, <3>1, <3>2 DEF TaskInv
  <2>3. \A i \in Ids : pc'[i] = "serve" => device'[i] \in Devices
    BY <1>1, <1>2 DEF TaskInv
  <2>4. \A i \in Ids : device'[i] # None => pc'[i] \in Resolved
    BY <1>1, <1>2 DEF TaskInv, Resolved
  <2>5. QED
    BY <1>5, <2>1, <2>2, <2>3, <2>4 DEF TaskInv
<1>8. QED
  BY <1>6, <1>7

\* The request that is received next.
LEMMA ReceiveFacts ==
  ASSUME TypeOK, TaskInv, Receive
  PROVE  LET i == Head(inbox)
             s == request[i].ask.service
         IN /\ inbox # <<>> /\ i \in Ids /\ i <= Len(request) /\ pc[i] = "queued"
            /\ pc'[i] = CASE s \in {"IAm", "Undecodable"} -> "ignored"
                          [] s = "WhoIs" -> "respond"
                          [] OTHER -> "resolve"
            /\ \A j \in Ids \ {i} : pc'[j] = pc[j] /\ frames'[j] = frames[j]
            /\ frames'[i] = IF s = "WhoIs" THEN IAms(i) ELSE frames[i]
            /\ s \in Services
<1> DEFINE i == Head(inbox)
           s == request[i].ask.service
<1>1. inbox # <<>> /\ inbox \in Seq(Ids) /\ Len(inbox) \in Nat /\ Len(inbox) >= 1
  BY DEF Receive, TypeOK
<1>2. i = inbox[1] /\ i \in Ids
  BY <1>1
<1>3. pc[i] = "queued" /\ i <= Len(request)
  BY <1>1, <1>2 DEF TaskInv
<1>4. request[i].ask \in Asks
  BY <1>2, <1>3, RequestFacts
<1>5. s \in Services
  BY <1>4, DispatcherAssumption
<1>6. /\ pc' = [pc EXCEPT ![i] = CASE s \in {"IAm", "Undecodable"} -> "ignored"
                                  [] s = "WhoIs" -> "respond"
                                  [] OTHER -> "resolve"]
      /\ frames' = IF s = "WhoIs" THEN [frames EXCEPT ![i] = IAms(i)] ELSE frames
  BY DEF Receive
<1>7. pc \in [Ids -> {"none", "queued", "lost", "ignored", "resolve", "failed",
                     "serve", "respond", "done"}]
  BY DEF TypeOK
<1>8. frames \in [Ids -> Seq(Replies)]
  BY DEF TypeOK
<1> HIDE DEF i, s
<1>9. /\ pc'[i] = CASE s \in {"IAm", "Undecodable"} -> "ignored"
                    [] s = "WhoIs" -> "respond"
                    [] OTHER -> "resolve"
      /\ \A j \in Ids \ {i} : pc'[j] = pc[j]
  BY <1>2, <1>6, <1>7
<1>10. /\ \A j \in Ids \ {i} : frames'[j] = frames[j]
       /\ frames'[i] = IF s = "WhoIs" THEN IAms(i) ELSE frames[i]
  BY <1>2, <1>6, <1>8
<1>11. QED
  BY <1>1, <1>2, <1>3, <1>5, <1>9, <1>10 DEF i, s

\* Receiving keeps the types and what is known of tasks.
LEMMA ReceiveTypes ==
  ASSUME TypeOK, TaskInv, Receive
  PROVE  TypeOK' /\ TaskInv'
<1> DEFINE i == Head(inbox)
           s == request[i].ask.service
<1>1. /\ inbox # <<>> /\ i \in Ids /\ i <= Len(request) /\ pc[i] = "queued"
      /\ pc'[i] = CASE s \in {"IAm", "Undecodable"} -> "ignored"
                    [] s = "WhoIs" -> "respond"
                    [] OTHER -> "resolve"
      /\ \A j \in Ids \ {i} : pc'[j] = pc[j] /\ frames'[j] = frames[j]
      /\ s \in Services
  BY ReceiveFacts
<1>2. UNCHANGED <<order, cache, points, request, device, todo, results, outbox, answers, open, hasty>>
  BY DEF Receive, clientVars
<1>3. IAms(i) \in Seq(Replies)
  BY <1>1, IAmsFacts
<1>4. frames' \in [Ids -> Seq(Replies)]
  BY <1>1, <1>3 DEF Receive, TypeOK
<1>5. pc'[i] \in {"ignored", "respond", "resolve"}
  BY <1>1
<1>6. pc' \in [Ids -> {"none", "queued", "lost", "ignored", "resolve", "failed",
                      "serve", "respond", "done"}]
  BY DEF Receive, TypeOK
<1>7. /\ inbox \in Seq(Ids) /\ Len(inbox) \in Nat /\ Len(inbox) >= 1
      /\ inbox' = Tail(inbox) /\ i = inbox[1]
  BY <1>1 DEF TypeOK, Receive
<1>8. /\ inbox' \in Seq(Ids) /\ Len(inbox') = Len(inbox) - 1
      /\ \A k \in 1..Len(inbox') : inbox'[k] = inbox[k + 1] /\ k + 1 \in 1..Len(inbox)
  BY <1>7
<1>9. TypeOK'
  <2>1. Len(inbox') <= InCapacity
    BY <1>7, <1>8, DispatcherAssumption DEF TypeOK
  <2>2. QED
    BY <1>2, <1>4, <1>6, <1>8, <2>1 DEF TypeOK
<1>10. TaskInv'
  <2>1. \A k \in 1..Len(inbox') : inbox'[k] \in Ids /\ inbox'[k] # i
    BY <1>7, <1>8 DEF TaskInv
  <2>2. \A k \in 1..Len(inbox') : pc'[inbox'[k]] = "queued"
    BY <1>1, <1>8, <2>1 DEF TaskInv
  <2>3. \A k, l \in 1..Len(inbox') : inbox'[k] = inbox'[l] => k = l
    <3>1. \A k, l \in 1..Len(inbox) : inbox[k] = inbox[l] => k = l
      BY DEF TaskInv
    <3>2. QED
      BY <1>7, <1>8, <3>1
  <2>4. \A j \in Ids : pc'[j] # "none" => j <= Len(request')
    BY <1>1, <1>2 DEF TaskInv
  <2>5. \A j \in Ids : pc'[j] \in {"resolve", "serve"} =>
          request'[j].ask.service \notin Unconfirmed \cup {"Undecodable"}
    <3>1. pc'[i] \in {"resolve", "serve"} => s \notin Unconfirmed \cup {"Undecodable"}
      BY <1>1 DEF Unconfirmed, Services
    <3>2. QED
      BY <1>1, <1>2, <3>1 DEF TaskInv
  <2>6. \A j \in Ids : pc'[j] = "serve" => device'[j] \in Devices
    BY <1>1, <1>2, <1>5 DEF TaskInv
  <2>7. \A j \in Ids : device'[j] # None => pc'[j] \in Resolved
    BY <1>1, <1>2 DEF TaskInv, Resolved
  <2>8. QED
    BY <2>2, <2>3, <2>4, <2>5, <2>6, <2>7 DEF TaskInv
<1>11. QED
  BY <1>9, <1>10

\* A step of one task, which has been received, keeps what is known of the
\* inbound channel.
LEMMA OneTask ==
  ASSUME TypeOK, TaskInv, NEW i \in Ids, pc[i] \notin {"none", "queued"},
         UNCHANGED <<request, inbox>>, \A j \in Ids \ {i} : pc'[j] = pc[j]
  PROVE  /\ i <= Len(request)
         /\ \A j \in Ids : pc'[j] # "none" => j <= Len(request')
         /\ \A k \in 1..Len(inbox') : pc'[inbox'[k]] = "queued"
         /\ \A k, l \in 1..Len(inbox') : inbox'[k] = inbox'[l] => k = l
<1>1. \A k \in 1..Len(inbox) : inbox[k] \in Ids /\ inbox[k] # i
  BY DEF TypeOK, TaskInv
<1>2. QED
  BY <1>1 DEF TaskInv

\* resolve_device finds a registered device.
LEMMA DeviceOfType ==
  ASSUME TypeOK, NEW i \in Ids, i <= Len(request), ~ NoDevice(request[i].ask)
  PROVE  /\ DeviceOf(i) \in Devices
         /\ Names(request[i].ask) => Primary(request[i].ask).inst \in Devices
<1>1. request[i].src \in Clients
  BY RequestFacts
<1>2. cache[request[i].src] \in Devices \cup {None}
  BY <1>1 DEF TypeOK
<1>3. order[1] \in Devices
  BY OrderFacts DEF TypeOK
<1>4. Names(request[i].ask) => Primary(request[i].ask).inst \in Devices
  BY DEF NoDevice
<1>5. QED
  BY <1>2, <1>3, <1>4 DEF DeviceOf

\* What resolve_device changes.
LEMMA ResolveFacts ==
  ASSUME TypeOK, TaskInv, NEW i \in Ids, Resolve(i)
  PROVE  /\ pc[i] = "resolve" /\ i <= Len(request)
         /\ \A j \in Ids \ {i} : pc'[j] = pc[j] /\ device'[j] = device[j]
         /\ IF NoDevice(request[i].ask)
              THEN pc'[i] = "failed" /\ UNCHANGED <<device, cache>>
              ELSE /\ pc'[i] = "serve" /\ device'[i] = DeviceOf(i) /\ device'[i] \in Devices
                   /\ cache' = Remember(i)
         /\ UNCHANGED <<order, points, request, inbox, results, frames, outbox, answers, open, hasty>>
<1>1. pc[i] = "resolve"
  BY DEF Resolve
<1>2. i <= Len(request)
  BY <1>1 DEF TaskInv
<1>3. UNCHANGED <<order, points, request, inbox, results, frames, outbox, answers, open, hasty>>
  BY DEF Resolve, clientVars
<1>4. CASE NoDevice(request[i].ask)
  BY <1>1, <1>2, <1>3, <1>4 DEF Resolve, TypeOK
<1>5. CASE ~ NoDevice(request[i].ask)
  <2>1. DeviceOf(i) \in Devices
    BY <1>2, <1>5, DeviceOfType
  <2>2. /\ pc' = [pc EXCEPT ![i] = "serve"] /\ device' = [device EXCEPT ![i] = DeviceOf(i)]
        /\ cache' = Remember(i)
    BY <1>5 DEF Resolve
  <2>3. QED
    BY <1>1, <1>2, <1>3, <1>5, <2>1, <2>2 DEF TypeOK
<1>6. QED
  BY <1>4, <1>5

\* resolve_device keeps the types and what is known of tasks.
LEMMA ResolveTypes ==
  ASSUME TypeOK, TaskInv, NEW i \in Ids, Resolve(i)
  PROVE  TypeOK' /\ TaskInv'
<1>1. /\ pc[i] = "resolve" /\ i <= Len(request)
      /\ \A j \in Ids \ {i} : pc'[j] = pc[j] /\ device'[j] = device[j]
      /\ IF NoDevice(request[i].ask)
           THEN pc'[i] = "failed" /\ UNCHANGED <<device, cache>>
           ELSE /\ pc'[i] = "serve" /\ device'[i] = DeviceOf(i) /\ device'[i] \in Devices
                /\ cache' = Remember(i)
      /\ UNCHANGED <<order, points, request, inbox, results, frames, outbox, answers, open, hasty>>
  BY ResolveFacts
<1>2. request[i].src \in Clients
  BY <1>1, RequestFacts
<1>3. cache' \in [Clients -> Devices \cup {None}]
  <2>1. CASE NoDevice(request[i].ask)
    BY <1>1, <2>1 DEF TypeOK
  <2>2. CASE ~ NoDevice(request[i].ask)
    <3>1. Names(request[i].ask) => Primary(request[i].ask).inst \in Devices
      BY <1>1, <2>2, DeviceOfType
    <3>2. QED
      BY <1>1, <1>2, <2>2, <3>1 DEF Remember, TypeOK
  <2>3. QED
    BY <2>1, <2>2
<1>4. pc' \in [Ids -> {"none", "queued", "lost", "ignored", "resolve", "failed",
                      "serve", "respond", "done"}]
  BY DEF Resolve, TypeOK
<1>5. device' \in [Ids -> Devices \cup {None}]
  <2>1. device' = device \/ device' = [device EXCEPT ![i] = DeviceOf(i)]
    BY DEF Resolve
  <2>2. device'[i] \in Devices \cup {None}
    BY <1>1 DEF TypeOK
  <2>3. QED
    BY <1>1, <2>1, <2>2 DEF TypeOK
<1>6. TypeOK'
  BY <1>1, <1>3, <1>4, <1>5 DEF TypeOK
<1>7. TaskInv'
  <2>1. /\ \A j \in Ids : pc'[j] # "none" => j <= Len(request')
        /\ \A k \in 1..Len(inbox') : pc'[inbox'[k]] = "queued"
        /\ \A k, l \in 1..Len(inbox') : inbox'[k] = inbox'[l] => k = l
    BY <1>1, OneTask
  <2>2. \A j \in Ids : pc'[j] \in {"resolve", "serve"} =>
          request'[j].ask.service \notin Unconfirmed \cup {"Undecodable"}
    BY <1>1 DEF TaskInv
  <2>3. \A j \in Ids : pc'[j] = "serve" => device'[j] \in Devices
    BY <1>1 DEF TaskInv
  <2>4. \A j \in Ids : device'[j] # None => pc'[j] \in Resolved
    <3>1. device[i] = None
      BY <1>1 DEF TaskInv, Resolved
    <3>2. QED
      BY <1>1, <3>1 DEF TaskInv, Resolved
  <2>5. QED
    BY <2>1, <2>2, <2>3, <2>4 DEF TaskInv
<1>8. QED
  BY <1>6, <1>7

\* What a task learns of an object.
LEMMA OutcomeType ==
  ASSUME TypeOK, NEW d \in Devices, NEW o, NEW s
  PROVE  Outcome(d, o, s) \in Outcomes
<1>1. Error(d, o, s) \in {"none", "UnknownObject", "WriteAccessDenied"}
  BY DEF Error
<1>2. (IF Exists(d, o) /\ o.type = "Point" THEN points[d][o.inst] ELSE 0) \in 0..MaxRequests
  <2>1. CASE Exists(d, o) /\ o.type = "Point"
    <3>1. o.inst \in Points
      BY <2>1 DEF Exists
    <3>2. points[d][o.inst] \in 0..MaxRequests
      BY <3>1 DEF TypeOK
    <3>3. QED
      BY <2>1, <3>2
  <2>2. CASE ~ (Exists(d, o) /\ o.type = "Point")
    BY <2>2, DispatcherAssumption
  <2>3. QED
    BY <2>1, <2>2
<1>3. QED
  BY <1>1, <1>2 DEF Outcome, Outcomes

\* What serving a request changes: it reads or writes one object and, after
\* the last, prepares one answer.
LEMMA ServeFacts ==
  ASSUME TypeOK, TaskInv, NEW i \in Ids, Serve(i)
  PROVE  /\ pc[i] = "serve" /\ i <= Len(request) /\ device[i] \in Devices
         /\ \A j \in Ids \ {i} : pc'[j] = pc[j] /\ frames'[j] = frames[j]
         /\ \/ pc'[i] = "serve" /\ UNCHANGED frames
            \/ /\ pc'[i] = "respond"
               /\ \E r \in Seq(Outcomes) :
                    frames'[i] = <<Frame(request[i].src, i, device[i], r)>>
         /\ results' \in [Ids -> Seq(Outcomes)]
         /\ UNCHANGED <<order, cache, request, inbox, device, outbox, answers, open, hasty>>
<1> DEFINE d == device[i]
           s == request[i].ask.service
           read == IF todo[i] = <<>> THEN results[i]
                   ELSE Append(results[i], Outcome(d, Head(todo[i]), s))
<1>1. pc[i] = "serve"
  BY DEF Serve
<1>2. i <= Len(request) /\ d \in Devices
  BY <1>1 DEF TaskInv
<1>3. UNCHANGED <<order, cache, request, inbox, device, outbox, answers, open, hasty>>
  BY DEF Serve, clientVars
<1>4. read \in Seq(Outcomes)
  <2>1. Outcome(d, Head(todo[i]), s) \in Outcomes
    BY <1>2, OutcomeType
  <2>2. results[i] \in Seq(Outcomes)
    BY DEF TypeOK
  <2>3. QED
    BY <2>1, <2>2
<1>5. /\ results' = [results EXCEPT ![i] = read]
      /\ \/ UNCHANGED <<pc, frames>>
         \/ /\ frames' = [frames EXCEPT ![i] = <<Frame(request[i].src, i, d, read)>>]
            /\ pc' = [pc EXCEPT ![i] = "respond"]
  BY DEF Serve
<1> HIDE DEF read
<1>6. results' \in [Ids -> Seq(Outcomes)]
  BY <1>4, <1>5 DEF TypeOK
<1>7. pc \in [Ids -> {"none", "queued", "lost", "ignored", "resolve", "failed",
                     "serve", "respond", "done"}] /\ frames \in [Ids -> Seq(Replies)]
  BY DEF TypeOK
<1>8. QED
  BY <1>1, <1>2, <1>3, <1>4, <1>5, <1>6, <1>7

\* Serving keeps the types and what is known of tasks.
LEMMA ServeTypes ==
  ASSUME TypeOK, TaskInv, NEW i \in Ids, Serve(i)
  PROVE  TypeOK' /\ TaskInv'
<1>1. /\ pc[i] = "serve" /\ i <= Len(request) /\ device[i] \in Devices
      /\ \A j \in Ids \ {i} : pc'[j] = pc[j] /\ frames'[j] = frames[j]
      /\ \/ pc'[i] = "serve" /\ UNCHANGED frames
         \/ /\ pc'[i] = "respond"
            /\ \E r \in Seq(Outcomes) :
                 frames'[i] = <<Frame(request[i].src, i, device[i], r)>>
      /\ results' \in [Ids -> Seq(Outcomes)]
      /\ UNCHANGED <<order, cache, request, inbox, device, outbox, answers, open, hasty>>
  BY ServeFacts
<1>2. request[i].src \in Clients
  BY <1>1, RequestFacts
<1>3. frames'[i] \in Seq(Replies)
  <2>1. CASE UNCHANGED frames
    BY <2>1 DEF TypeOK
  <2>2. ASSUME NEW r \in Seq(Outcomes),
               frames'[i] = <<Frame(request[i].src, i, device[i], r)>>
        PROVE  frames'[i] \in Seq(Replies)
    <3>1. Frame(request[i].src, i, device[i], r) \in Replies
      BY <1>1, <1>2, FrameType
    <3>2. QED
      BY <2>2, <3>1
  <2>3. QED
    BY <1>1, <2>1, <2>2
<1>4. frames' \in [Ids -> Seq(Replies)]
  <2>1. \/ frames' = frames
        \/ \E f : frames' = [frames EXCEPT ![i] = f]
    BY DEF Serve
  <2>2. QED
    BY <1>3, <2>1 DEF TypeOK
<1>5. pc' \in [Ids -> {"none", "queued", "lost", "ignored", "resolve", "failed",
                      "serve", "respond", "done"}]
  BY DEF Serve, TypeOK
<1>6. points' \in [Devices -> [Points -> 0..MaxRequests]]
  <2>1. \/ points' = points
        \/ \E o : points' = [points EXCEPT ![device[i]][o] = i]
    BY DEF Serve
  <2>2. i \in 0..MaxRequests
    BY DispatcherAssumption DEF Ids
  <2>3. points \in [Devices -> [Points -> 0..MaxRequests]]
    BY DEF TypeOK
  <2>4. ASSUME NEW o PROVE [points[device[i]] EXCEPT ![o] = i] \in [Points -> 0..MaxRequests]
    <3>1. points[device[i]] \in [Points -> 0..MaxRequests]
      BY <1>1, <2>3
    <3>2. QED
      BY <2>2, <3>1
  <2>5. \/ points' = points
        \/ \E g \in [Points -> 0..MaxRequests] : points' = [points EXCEPT ![device[i]] = g]
    <3>1. ASSUME NEW o, points' = [points EXCEPT ![device[i]][o] = i]
          PROVE  points' = [points EXCEPT ![device[i]] = [points[device[i]] EXCEPT ![o] = i]]
      BY <3>1
    <3>2. QED
      BY <2>1, <2>4, <3>1
  <2>6. QED
    BY <1>1, <2>3, <2>5
<1>7. TypeOK'
  BY <1>1, <1>4, <1>5, <1>6 DEF TypeOK
<1>8. TaskInv'
  <2>1. /\ \A j \in Ids : pc'[j] # "none" => j <= Len(request')
        /\ \A k \in 1..Len(inbox') : pc'[inbox'[k]] = "queued"
        /\ \A k, l \in 1..Len(inbox') : inbox'[k] = inbox'[l] => k = l
    BY <1>1, OneTask
  <2>2. \A j \in Ids : pc'[j] \in {"resolve", "serve"} =>
          request'[j].ask.service \notin Unconfirmed \cup {"Undecodable"}
    BY <1>1 DEF TaskInv
  <2>3. \A j \in Ids : pc'[j] = "serve" => device'[j] \in Devices
    BY <1>1 DEF TaskInv
  <2>4. \A j \in Ids : device'[j] # None => pc'[j] \in Resolved
    BY <1>1 DEF TaskInv, Resolved
  <2>5. QED
    BY <2>1, <2>2, <2>3, <2>4 DEF TaskInv
<1>9. QED
  BY <1>7, <1>8

\* What a task does with its next frame.
LEMMA NextFrameFacts ==
  ASSUME TypeOK, TaskInv, FramesInv, NEW i \in Ids, pc[i] = "respond", NextFrame(i)
  PROVE  /\ i <= Len(request) /\ frames[i] \in Seq(Replies) /\ frames[i] # <<>>
         /\ Head(frames[i]) \in Replies /\ Head(frames[i]) = frames[i][1]
         /\ Len(frames[i]) \in Nat /\ Len(frames[i]) >= 1
         /\ frames'[i] = Tail(frames[i]) /\ frames'[i] \in Seq(Replies)
         /\ Len(frames'[i]) = Len(frames[i]) - 1
         /\ \A k \in 1..Len(frames'[i]) :
              frames'[i][k] = frames[i][k + 1] /\ k + 1 \in 1..Len(frames[i])
         /\ pc'[i] = IF Len(frames[i]) = 1 THEN "done" ELSE "respond"
         /\ \A j \in Ids \ {i} : pc'[j] = pc[j] /\ frames'[j] = frames[j]
         /\ frames' \in [Ids -> Seq(Replies)]
         /\ pc' \in [Ids -> {"none", "queued", "lost", "ignored", "resolve", "failed",
                             "serve", "respond", "done"}]
<1>1. i <= Len(request)
  BY DEF TaskInv
<1>2. frames[i] \in Seq(Replies) /\ frames[i] # <<>>
  BY DEF TypeOK, FramesInv
<1>3. /\ frames' = [frames EXCEPT ![i] = Tail(frames[i])]
      /\ pc' = [pc EXCEPT ![i] = IF Len(frames[i]) = 1 THEN "done" ELSE "respond"]
  BY DEF NextFrame, TypeOK
<1>4. /\ Len(frames[i]) \in Nat /\ Len(frames[i]) >= 1
      /\ Head(frames[i]) \in Replies /\ Head(frames[i]) = frames[i][1]
  BY <1>2
<1>5. frames'[i] = Tail(frames[i])
  BY <1>3 DEF TypeOK
<1>6. /\ Tail(frames[i]) \in Seq(Replies)
      /\ Len(Tail(frames[i])) = Len(frames[i]) - 1
      /\ \A k \in 1..Len(frames[i]) - 1 :
           Tail(frames[i])[k] = frames[i][k + 1] /\ k + 1 \in 1..Len(frames[i])
  BY <1>2, <1>4
<1>7. frames' \in [Ids -> Seq(Replies)] /\ \A j \in Ids \ {i} : frames'[j] = frames[j]
  BY <1>3, <1>6 DEF TypeOK
<1>8. /\ pc' \in [Ids -> {"none", "queued", "lost", "ignored", "resolve", "failed",
                          "serve", "respond", "done"}]
      /\ pc'[i] = IF Len(frames[i]) = 1 THEN "done" ELSE "respond"
      /\ \A j \in Ids \ {i} : pc'[j] = pc[j]
  BY <1>3 DEF TypeOK
<1>9. QED
  BY <1>1, <1>2, <1>4, <1>5, <1>6, <1>7, <1>8

\* Sending or skipping a frame keeps the types and what is known of tasks.
LEMMA NextFrameTypes ==
  ASSUME TypeOK, TaskInv, FramesInv, NEW i \in Ids, Respond(i) \/ Skip(i)
  PROVE  TypeOK' /\ TaskInv'
<1>1. pc[i] = "respond" /\ NextFrame(i)
  BY DEF Respond, Skip
<1>2. UNCHANGED <<order, cache, points, request, inbox, device, results, answers, open, hasty>>
  BY DEF Respond, Skip, clientVars
<1>3. /\ i <= Len(request) /\ Head(frames[i]) \in Replies
      /\ pc'[i] = IF Len(frames[i]) = 1 THEN "done" ELSE "respond"
      /\ \A j \in Ids \ {i} : pc'[j] = pc[j] /\ frames'[j] = frames[j]
      /\ frames' \in [Ids -> Seq(Replies)]
      /\ pc' \in [Ids -> {"none", "queued", "lost", "ignored", "resolve", "failed",
                          "serve", "respond", "done"}]
  BY <1>1, NextFrameFacts
<1>4. outbox' \in Seq(Replies) /\ Len(outbox') <= OutCapacity
  <2>1. outbox \in Seq(Replies) /\ Len(outbox) <= OutCapacity /\ OutCapacity \in Nat
    BY DispatcherAssumption DEF TypeOK
  <2>2. \/ outbox' = outbox
        \/ Len(outbox) < OutCapacity /\ outbox' = Append(outbox, Head(frames[i]))
    BY DEF Respond, Skip
  <2>3. CASE outbox' = outbox
    BY <2>1, <2>3
  <2>4. CASE Len(outbox) < OutCapacity /\ outbox' = Append(outbox, Head(frames[i]))
    <3>1. outbox' \in Seq(Replies) /\ Len(outbox') = Len(outbox) + 1 /\ Len(outbox) \in Nat
      BY <1>3, <2>1, <2>4
    <3>2. QED
      BY <2>1, <2>4, <3>1
  <2>5. QED
    BY <2>2, <2>3, <2>4
<1>5. TypeOK'
  BY <1>2, <1>3, <1>4 DEF TypeOK
<1>6. TaskInv'
  <2>1. /\ \A j \in Ids : pc'[j] # "none" => j <= Len(request')
        /\ \A k \in 1..Len(inbox') : pc'[inbox'[k]] = "queued"
        /\ \A k, l \in 1..Len(inbox') : inbox'[k] = inbox'[l] => k = l
    BY <1>1, <1>2, <1>3, OneTask
  <2>2. \A j \in Ids : pc'[j] \in {"resolve", "serve"} =>
          request'[j].ask.service \notin Unconfirmed \cup {"Undecodable"}
    BY <1>2, <1>3 DEF TaskInv
  <2>3. \A j \in Ids : pc'[j] = "serve" => device'[j] \in Devices
    BY <1>2, <1>3 DEF TaskInv
  <2>4. \A j \in Ids : device'[j] # None => pc'[j] \in Resolved
    BY <1>2, <1>3 DEF TaskInv, Resolved
  <2>5. QED
    BY <2>1, <2>2, <2>3, <2>4 DEF TaskInv
<1>7. QED
  BY <1>5, <1>6

\* The frame that is put on the socket.
LEMMA TransmitFacts ==
  ASSUME TypeOK, Transmit
  PROVE  /\ outbox # <<>> /\ outbox \in Seq(Replies) /\ Head(outbox) \in Replies
         /\ Head(outbox).id \in Ids /\ Head(outbox) = outbox[1]
         /\ outbox' = Tail(outbox) /\ Len(outbox) \in Nat /\ Len(outbox) >= 1
         /\ answers' = [answers EXCEPT ![Head(outbox).id] = Append(@, Head(outbox))]
         /\ open' = [c \in Clients |-> IF Head(outbox).dst = c /\ open[c] = Head(outbox).id
                                         THEN 0 ELSE open[c]]
         /\ UNCHANGED <<order, cache, points, request, inbox, pc, device, todo, results,
                        frames, hasty>>
<1>1. outbox # <<>> /\ outbox \in Seq(Replies)
  BY DEF TypeOK, Transmit
<1>2. /\ Head(outbox) \in Replies /\ Head(outbox) = outbox[1]
      /\ Len(outbox) \in Nat /\ Len(outbox) >= 1
  BY <1>1
<1>3. Head(outbox).id \in Ids
  BY <1>2 DEF Replies
<1>4. QED
  BY <1>1, <1>2, <1>3 DEF Transmit, taskVars

\* The send loop and impatient clients keep the types and what is known of
\* tasks.
LEMMA ClientTypes ==
  ASSUME TypeOK, TaskInv, Transmit \/ \E c \in Clients : GiveUp(c)
  PROVE  TypeOK' /\ TaskInv'
<1>1. UNCHANGED <<order, cache, points, request, inbox, pc, device, results, frames>>
  BY DEF Transmit, GiveUp, taskVars
<1>2. TaskInv'
  BY <1>1 DEF TaskInv
<1>3. CASE Transmit
  <2>1. Head(outbox) \in Replies /\ Head(outbox).id \in Ids
        /\ outbox # <<>> /\ outbox \in Seq(Replies)
        /\ outbox' = Tail(outbox)
        /\ answers' = [answers EXCEPT ![Head(outbox).id] = Append(@, Head(outbox))]
        /\ open' = [c \in Clients |-> IF Head(outbox).dst = c /\ open[c] = Head(outbox).id
                                        THEN 0 ELSE open[c]]
        /\ UNCHANGED hasty
    BY <1>3, TransmitFacts
  <2>2. outbox' \in Seq(Replies) /\ Len(outbox') <= OutCapacity
    BY <2>1, DispatcherAssumption DEF TypeOK
  <2>3. answers' \in [Ids -> Seq(Replies)]
    BY <2>1 DEF TypeOK
  <2>4. open' \in [Clients -> 0..MaxRequests]
    BY <2>1, DispatcherAssumption DEF TypeOK
  <2>5. QED
    BY <1>1, <1>2, <2>1, <2>2, <2>3, <2>4 DEF TypeOK
<1>4. ASSUME NEW c \in Clients, GiveUp(c)
      PROVE  TypeOK'
  <2>1. open' \in [Clients -> 0..MaxRequests]
    BY <1>4, DispatcherAssumption DEF GiveUp, TypeOK
  <2>2. QED
    BY <1>1, <1>4, <2>1 DEF GiveUp, TypeOK
<1>5. QED
  BY <1>2, <1>3, <1>4

-----------------------------------------------------------------------------
(* The frames a task has still to send.                                    *)

\* FramesInv for one request.
FramesOf(i) ==
  /\ pc[i] = "respond" => frames[i] # <<>>
  /\ pc[i] = "done" => frames[i] = <<>>
  /\ \A k \in 1..Len(frames[i]) : frames[i][k].id = i
  /\ pc[i] = "respond" /\ request[i].ask.service = "WhoIs" =>
       \A k \in 1..Len(frames[i]) : frames[i][k].dst \in {"all", request[i].src}
  /\ pc[i] = "respond" /\ request[i].ask.service # "WhoIs" =>
       /\ Len(frames[i]) = 1
       /\ frames[i][1].dst = request[i].src /\ frames[i][1].dev = device[i]

\* FramesInv is about each request on its own.
LEMMA FramesSplit == FramesInv <=> \A i \in Ids : FramesOf(i)
BY DEF FramesInv, FramesOf

\* A request whose task does nothing keeps FramesInv.
LEMMA FramesSame ==
  ASSUME NEW j \in Ids, FramesOf(j), frames'[j] = frames[j], pc'[j] = pc[j] \/
           (pc[j] \notin {"respond", "done"} /\ pc'[j] \notin {"respond", "done"}),
         pc[j] = "respond" => device'[j] = device[j] /\ request'[j] = request[j]
  PROVE  FramesOf(j)'
BY DEF FramesOf

\* Every step keeps FramesInv.
LEMMA FramesKept ==
  ASSUME TypeOK, TaskInv, FramesInv, Next
  PROVE  FramesInv'
<1>1. \A i \in Ids : FramesOf(i)
  BY FramesSplit
<1>2. ASSUME NEW c \in Clients, NEW a \in Asks, Send(c, a)
      PROVE  \A j \in Ids : FramesOf(j)'
  <2>1. /\ Len(request) \in Nat
        /\ \A j \in 1..Len(request) : request'[j] = request[j]
        /\ \A j \in Ids : \/ pc'[j] = pc[j]
                          \/ pc[j] = "none" /\ pc'[j] = "queued"
                          \/ pc[j] = "queued" /\ pc'[j] = "lost"
    BY <1>2, SendFacts
  <2>2. UNCHANGED <<device, frames>>
    BY <1>2 DEF Send
  <2>3. ASSUME NEW j \in Ids, pc[j] = "respond"
        PROVE  request'[j] = request[j]
    <3>1. j \in 1..Len(request)
      BY <2>1, <2>3, DispatcherAssumption DEF TaskInv, Ids
    <3>2. QED
      BY <2>1, <3>1
  <2>4. QED
    BY <1>1, <2>1, <2>2, <2>3, FramesSame
<1>3. ASSUME Receive
      PROVE  \A j \in Ids : FramesOf(j)'
  <2>1. PICK i \in Ids :
          LET s == request[i].ask.service
          IN /\ i <= Len(request) /\ pc[i] = "queued"
             /\ pc'[i] = CASE s \in {"IAm", "Undecodable"} -> "ignored"
                           [] s = "WhoIs" -> "respond"
                           [] OTHER -> "resolve"
             /\ \A j \in Ids \ {i} : pc'[j] = pc[j] /\ frames'[j] = frames[j]
             /\ frames'[i] = IF s = "WhoIs" THEN IAms(i) ELSE frames[i]
    BY <1>3, ReceiveFacts
  <2> DEFINE s == request[i].ask.service
  <2>2. UNCHANGED <<device, request>>
    BY <1>3 DEF Receive
  <2>3. \A j \in Ids \ {i} : FramesOf(j)'
    BY <1>1, <2>1, <2>2, FramesSame
  <2>4. CASE s # "WhoIs"
    <3>1. pc'[i] \notin {"respond", "done"}
      BY <2>1, <2>4
    <3>2. FramesOf(i)'
      BY <1>1, <2>1, <2>2, <2>4, <3>1, FramesSame
    <3>3. QED
      BY <2>3, <3>2
  <2>5. CASE s = "WhoIs"
    <3>1. frames'[i] = IAms(i) /\ pc'[i] = "respond"
      BY <2>1, <2>5
    <3>2. /\ IAms(i) # <<>>
          /\ \A k \in 1..Len(IAms(i)) :
               /\ IAms(i)[k].id = i
               /\ IAms(i)[k].dst = IF k % 2 = 1 THEN "all" ELSE request[i].src
      BY <2>1, IAmsFacts
    <3>3. FramesOf(i)'
      BY <2>2, <2>5, <3>1, <3>2 DEF FramesOf
    <3>4. QED
      BY <2>3, <3>3
  <2>6. QED
    BY <2>4, <2>5
<1>4. ASSUME NEW i \in Ids, Resolve(i)
      PROVE  \A j \in Ids : FramesOf(j)'
  <2>1. /\ pc[i] = "resolve"
        /\ \A j \in Ids \ {i} : pc'[j] = pc[j] /\ device'[j] = device[j]
        /\ pc'[i] \in {"failed", "serve"}
        /\ UNCHANGED <<request, frames>>
    BY <1>4, ResolveFacts
  <2>2. QED
    BY <1>1, <2>1, FramesSame
<1>5. ASSUME NEW i \in Ids, Serve(i)
      PROVE  \A j \in Ids : FramesOf(j)'
  <2>1. /\ pc[i] = "serve" /\ i <= Len(request) /\ device[i] \in Devices
        /\ \A j \in Ids \ {i} : pc'[j] = pc[j] /\ frames'[j] = frames[j]
        /\ \/ pc'[i] = "serve" /\ UNCHANGED frames
           \/ /\ pc'[i] = "respond"
              /\ \E r \in Seq(Outcomes) :
                   frames'[i] = <<Frame(request[i].src, i, device[i], r)>>
        /\ UNCHANGED <<request, device>>
    BY <1>5, ServeFacts
  <2>2. \A j \in Ids \ {i} : FramesOf(j)'
    BY <1>1, <2>1, FramesSame
  <2>3. FramesOf(i)'
    <3>1. CASE pc'[i] = "serve" /\ UNCHANGED frames
      BY <1>1, <2>1, <3>1, FramesSame
    <3>2. ASSUME NEW r \in Seq(Outcomes), pc'[i] = "respond",
                 frames'[i] = <<Frame(request[i].src, i, device[i], r)>>
          PROVE  FramesOf(i)'
      <4>1. request[i].ask.service # "WhoIs"
        BY <2>1 DEF TaskInv, Unconfirmed
      <4>2. request[i].src \in Clients
        BY <2>1, RequestFacts
      <4> DEFINE f == Frame(request[i].src, i, device[i], r)
      <4>3. f.dst = request[i].src /\ f.id = i /\ f.dev = device[i]
        BY <2>1, <4>2, FrameType
      <4>4. frames'[i] = <<f>>
        BY <3>2
      <4> HIDE DEF f
      <4>5. Len(frames'[i]) = 1 /\ frames'[i][1] = f /\ frames'[i] # <<>>
        BY <4>4
      <4>6. QED
        BY <2>1, <3>2, <4>1, <4>3, <4>5 DEF FramesOf
    <3>3. QED
      BY <2>1, <3>1, <3>2
  <2>4. QED
    BY <2>2, <2>3
<1>6. ASSUME NEW i \in Ids, Respond(i) \/ Skip(i)
      PROVE  \A j \in Ids : FramesOf(j)'
  <2>1. pc[i] = "respond" /\ NextFrame(i) /\ UNCHANGED <<request, device>>
    BY <1>6 DEF Respond, Skip
  <2>2. /\ frames[i] \in Seq(Replies) /\ Len(frames[i]) \in Nat /\ Len(frames[i]) >= 1
        /\ frames'[i] \in Seq(Replies) /\ Len(frames'[i]) = Len(frames[i]) - 1
        /\ \A k \in 1..Len(frames'[i]) :
             frames'[i][k] = frames[i][k + 1] /\ k + 1 \in 1..Len(frames[i])
        /\ pc'[i] = IF Len(frames[i]) = 1 THEN "done" ELSE "respond"
        /\ \A j \in Ids \ {i} : pc'[j] = pc[j] /\ frames'[j] = frames[j]
    BY <2>1, NextFrameFacts
  <2>3. \A j \in Ids \ {i} : FramesOf(j)'
    BY <1>1, <2>1, <2>2, FramesSame
  <2>4. frames'[i] = <<>> <=> Len(frames[i]) = 1
    <3>1. frames'[i] = <<>> <=> Len(frames'[i]) = 0
      BY <2>2, EmptyLen
    <3>2. QED
      BY <2>2, <3>1
  <2>5. FramesOf(i)'
    <3>1. /\ pc'[i] = "respond" => frames'[i] # <<>>
          /\ pc'[i] = "done" => frames'[i] = <<>>
      BY <2>2, <2>4
    <3>2. \A k \in 1..Len(frames'[i]) : frames'[i][k].id = i
      BY <1>1, <2>2 DEF FramesOf
    <3>3. pc'[i] = "respond" /\ request[i].ask.service = "WhoIs" =>
            \A k \in 1..Len(frames'[i]) : frames'[i][k].dst \in {"all", request[i].src}
      BY <1>1, <2>1, <2>2 DEF FramesOf
    <3>4. request[i].ask.service # "WhoIs" => pc'[i] # "respond"
      BY <1>1, <2>1, <2>2 DEF FramesOf
    <3>5. QED
      BY <2>1, <3>1, <3>2, <3>3, <3>4 DEF FramesOf
  <2>6. QED
    BY <2>3, <2>5
<1>7. ASSUME Transmit \/ \E c \in Clients : GiveUp(c)
      PROVE  \A j \in Ids : FramesOf(j)'
  <2>1. UNCHANGED <<request, device, frames, pc>>
    BY <1>7 DEF Transmit, GiveUp, taskVars
  <2>2. QED
    BY <1>1, <2>1, FramesSame
<1>8. \A j \in Ids : FramesOf(j)'
  BY <1>2, <1>3, <1>4, <1>5, <1>6, <1>7 DEF Next
<1>9. QED
  BY <1>8 DEF FramesInv, FramesOf

\* Every step keeps the types, and what is known of tasks and their frames.
LEMMA TypesKept ==
  ASSUME TypeOK, TaskInv, FramesInv, Next
  PROVE  TypeOK' /\ TaskInv' /\ FramesInv'
<1>1. FramesInv'
  BY FramesKept
<1>2. TypeOK' /\ TaskInv'
  BY SendTypes, ReceiveTypes, ResolveTypes, ServeTypes, NextFrameTypes, ClientTypes DEF Next
<1>3. QED
  BY <1>1, <1>2

\* Steps that change nothing keep everything.
LEMMA StutterTypes ==
  ASSUME TypeOK, TaskInv, FramesInv, UNCHANGED vars
  PROVE  TypeOK' /\ TaskInv' /\ FramesInv'
<1>1. TypeOK'
  BY DEF TypeOK, vars, taskVars, clientVars
<1>2. TaskInv'
  BY DEF TaskInv, vars, taskVars
<1>3. FramesInv'
  BY DEF FramesInv, vars, taskVars
<1>4. QED
  BY <1>1, <1>2, <1>3

\* The variables of the dispatcher keep their types; in particular every frame
\* that is sent is one of a registered device to a client or to everyone, and
\* both channels stay within their capacities.
THEOREM DispatcherTypes == Spec => []TypeOK
<1>1. Init => TypeOK /\ TaskInv /\ FramesInv
  BY StartTypes DEF Init, FramesInv
<1>2. TypeOK /\ TaskInv /\ FramesInv /\ [Next]_vars => (TypeOK /\ TaskInv /\ FramesInv)'
  BY TypesKept, StutterTypes
<1>3. QED
  BY <1>1, <1>2, PTL DEF Spec

-----------------------------------------------------------------------------
(* Sessions are isolated.                                                  *)

\* The object that names a device is its Device object.
LEMMA NamesDevice ==
  ASSUME NEW a \in Asks, Names(a)
  PROVE  /\ Primary(a) = Device(Primary(a).inst)
         /\ a.service \notin Unconfirmed \cup {"Undecodable"}
<1> DEFINE O == [type : {"Device", "Point"}, inst : Nat]
<1>1. a.objects \in Seq(O) /\ a.objects # <<>>
  BY DispatcherAssumption DEF Names
<1>2. a.service \notin Unconfirmed \cup {"Undecodable"}
  BY <1>1, DispatcherAssumption
<1> HIDE DEF O
<1>3. 1 \in 1..Len(a.objects)
  BY <1>1, EmptyLen
<1>4. Primary(a) \in O
  BY <1>1, <1>3, ElementOfSeq DEF Primary
<1>5. QED
  BY <1>2, <1>4 DEF O, Names, Device

\* What a client has named it has named for good.
LEMMA NamedForGood ==
  ASSUME Len(request) \in Nat, Len(request') \in Nat, Len(request) <= Len(request'),
         \A j \in 1..Len(request) : request'[j] = request[j]
  PROVE  \A c : NamedBy(c) \subseteq NamedBy(c)'
BY DEF NamedBy

\* A step that keeps the requests, the cache and the devices of requests keeps
\* IsolationInv, whatever requests are appended.
LEMMA IsolationSame ==
  ASSUME TypeOK, TaskInv, IsolationInv, UNCHANGED <<order, cache, device>>,
         Len(request') \in Nat, Len(request) <= Len(request'),
         \A j \in 1..Len(request) : request'[j] = request[j]
  PROVE  IsolationInv'
<1>1. Len(request) \in Nat
  BY DEF TypeOK
<1>2. \A c : NamedBy(c) \subseteq NamedBy(c)'
  BY <1>1, NamedForGood
<1>3. \A c \in Clients : cache'[c] # None => cache'[c] \in NamedBy(c)'
  BY <1>2 DEF IsolationInv
<1>4. ASSUME NEW c \in Clients, NEW i \in Ids, device'[i] # None, request'[i].src = c
      PROVE  device'[i] = order'[1] \/ device'[i] \in NamedBy(c)'
  <2>1. i \in 1..Len(request)
    BY <1>1, <1>4, DispatcherAssumption DEF TaskInv, Resolved, Ids
  <2>2. device[i] = order[1] \/ device[i] \in NamedBy(c)
    BY <1>4, <2>1 DEF IsolationInv
  <2>3. QED
    BY <1>2, <2>2
<1>5. QED
  BY <1>3, <1>4 DEF IsolationInv

\* resolve_device keeps IsolationInv: a client's entry is set only by a
\* request of that client.
LEMMA IsolationResolve ==
  ASSUME TypeOK, TaskInv, IsolationInv, NEW i \in Ids, Resolve(i)
  PROVE  IsolationInv'
<1>1. /\ pc[i] = "resolve" /\ i <= Len(request)
      /\ \A j \in Ids \ {i} : pc'[j] = pc[j] /\ device'[j] = device[j]
      /\ IF NoDevice(request[i].ask)
           THEN pc'[i] = "failed" /\ UNCHANGED <<device, cache>>
           ELSE /\ pc'[i] = "serve" /\ device'[i] = DeviceOf(i) /\ device'[i] \in Devices
                /\ cache' = Remember(i)
      /\ UNCHANGED <<order, request>>
  BY ResolveFacts
<1>2. \A c : NamedBy(c)' = NamedBy(c)
  BY <1>1 DEF NamedBy
<1>3. CASE NoDevice(request[i].ask)
  BY <1>1, <1>2, <1>3 DEF IsolationInv
<1>4. CASE ~ NoDevice(request[i].ask)
  <2> DEFINE a == request[i].ask
             src == request[i].src
  <2>1. i \in 1..Len(request) /\ a \in Asks /\ src \in Clients
    BY <1>1, RequestFacts
  <2>2. ASSUME Names(a) PROVE Primary(a).inst \in NamedBy(src)
    <3>1. Primary(a).inst \in Devices
      BY <1>1, <1>4, <2>2, DeviceOfType
    <3>2. Primary(a) = Device(Primary(a).inst)
      BY <2>1, <2>2, NamesDevice
    <3>3. QED
      BY <2>1, <2>2, <3>1, <3>2 DEF NamedBy
  <2>3. \A c \in Clients : cache'[c] = cache[c] \/ (c = src /\ Names(a) /\ cache'[c] = Primary(a).inst)
    BY <1>1, <1>4 DEF Remember, TypeOK
  <2>4. \A c \in Clients : cache'[c] # None => cache'[c] \in NamedBy(c)
    BY <2>2, <2>3 DEF IsolationInv
  <2>5. device'[i] = order[1] \/ device'[i] \in NamedBy(src)
    <3>1. \/ Names(a) /\ device'[i] = Primary(a).inst
          \/ cache[src] # None /\ device'[i] = cache[src]
          \/ device'[i] = order[1]
      BY <1>1, <1>4 DEF DeviceOf
    <3>2. QED
      BY <2>1, <2>2, <3>1 DEF IsolationInv
  <2>6. \A c \in Clients, j \in Ids : device'[j] # None /\ request[j].src = c =>
          device'[j] = order[1] \/ device'[j] \in NamedBy(c)
    BY <1>1, <2>5 DEF IsolationInv
  <2>7. QED
    BY <1>1, <1>2, <2>4, <2>6 DEF IsolationInv
<1>5. QED
  BY <1>3, <1>4

\* Every step keeps IsolationInv.
LEMMA IsolationKept ==
  ASSUME TypeOK, TaskInv, IsolationInv, [Next]_vars
  PROVE  IsolationInv'
<1>1. Len(request) \in Nat
  BY DEF TypeOK
<1>2. ASSUME NEW c \in Clients, NEW a \in Asks, Send(c, a)
      PROVE  IsolationInv'
  <2>1. Len(request') = Len(request) + 1 /\ \A j \in 1..Len(request) : request'[j] = request[j]
    BY <1>2, SendFacts
  <2>2. UNCHANGED <<order, cache, device>>
    BY <1>2 DEF Send
  <2>3. Len(request') \in Nat /\ Len(request) <= Len(request')
    BY <1>1, <2>1
  <2>4. QED
    BY <2>1, <2>2, <2>3, IsolationSame
<1>3. ASSUME UNCHANGED <<order, cache, device, request>>
      PROVE  IsolationInv'
  <2>1. Len(request') \in Nat /\ Len(request) <= Len(request')
    BY <1>1, <1>3
  <2>2. QED
    BY <1>3, <2>1, IsolationSame
<1>4. ASSUME NEW i \in Ids, Resolve(i)
      PROVE  IsolationInv'
  BY <1>4, IsolationResolve
<1>5. \/ UNCHANGED <<order, cache, device, request>>
      \/ \E c \in Clients, a \in Asks : Send(c, a)
      \/ \E i \in Ids : Resolve(i)
  BY DEF Next, vars, taskVars, Receive, Serve, Respond, Skip, Transmit, GiveUp
<1>6. QED
  BY <1>2, <1>3, <1>4, <1>5

\* Whatever clients do and in whatever order their tasks run, no request is
\* served by a device its client has not named, except the first of the
\* registry: an entry of source_device_map is never another client's.
THEOREM SessionsAreIsolated == Spec => []SessionIsolated
<1>1. Init => TypeOK /\ TaskInv /\ FramesInv /\ IsolationInv
  BY StartTypes DEF Init, FramesInv, IsolationInv
<1>2. TypeOK /\ TaskInv /\ FramesInv /\ IsolationInv /\ [Next]_vars
      => (TypeOK /\ TaskInv /\ FramesInv /\ IsolationInv)'
  BY TypesKept, StutterTypes, IsolationKept
<1>3. TypeOK /\ IsolationInv => SessionIsolated
  <2> SUFFICES ASSUME TypeOK, IsolationInv, NEW i \in 1..Len(request), device[i] # None
               PROVE  \/ device[i] = order[1]
                      \/ \E j \in 1..Len(request) :
                           /\ request[j].src = request[i].src
                           /\ Names(request[j].ask)
                           /\ Primary(request[j].ask) = Device(device[i])
    BY DEF SessionIsolated
  <2>1. i \in Ids /\ i <= Len(request)
    BY DispatcherAssumption DEF TypeOK, Ids
  <2>2. request[i].src \in Clients
    BY <2>1, RequestFacts
  <2>3. device[i] = order[1] \/ device[i] \in NamedBy(request[i].src)
    BY <2>1, <2>2 DEF IsolationInv
  <2>4. QED
    BY <2>3 DEF NamedBy
<1>4. QED
  BY <1>1, <1>2, <1>3, PTL DEF Spec

-----------------------------------------------------------------------------
(* Counting frames.                                                        *)

\* Does frame f answer request i for device d, to `to'?
Hit(f, i, to, d) == IF f.id = i /\ f.dst = to /\ f.dev = d THEN 1 ELSE 0

\* The positions Copies counts.
Hits(s, i, to, d) == {k \in 1..Len(s) : s[k].id = i /\ s[k].dst = to /\ s[k].dev = d}

\* Copies counts finitely many positions.
LEMMA CopiesType ==
  ASSUME NEW S, NEW s \in Seq(S), NEW i, NEW to, NEW d
  PROVE  /\ IsFiniteSet(Hits(s, i, to, d))
         /\ Copies(s, i, to, d) = Cardinality(Hits(s, i, to, d))
         /\ Copies(s, i, to, d) \in Nat
<1>1. IsFiniteSet(1..Len(s))
  BY FS_Interval
<1>2. Hits(s, i, to, d) \in SUBSET (1..Len(s))
  BY DEF Hits
<1>3. IsFiniteSet(Hits(s, i, to, d))
  BY <1>1, <1>2, FS_Subset
<1>4. Copies(s, i, to, d) = Cardinality(Hits(s, i, to, d))
  BY DEF Copies, Hits
<1>5. QED
  BY <1>3, <1>4, FS_CardinalityType

\* There are no frames in an empty sequence.
LEMMA CopiesEmpty ==
  ASSUME NEW i, NEW to, NEW d
  PROVE  Copies(<<>>, i, to, d) = 0
<1>1. {k \in 1..Len(<<>>) : <<>>[k].id = i /\ <<>>[k].dst = to /\ <<>>[k].dev = d} = {}
  OBVIOUS
<1>2. QED
  BY <1>1, FS_EmptySet DEF Copies

\* t is s with f appended.
Extends(t, s, f) ==
  /\ Len(t) = Len(s) + 1 /\ t[Len(s) + 1] = f
  /\ \A k \in 1..Len(s) : t[k] = s[k]

\* A frame that is appended counts if it is a hit.
LEMMA CopiesAppend ==
  ASSUME NEW S, NEW s \in Seq(S), NEW f \in S, NEW t \in Seq(S), Extends(t, s, f),
         NEW i, NEW to, NEW d
  PROVE  Copies(t, i, to, d) = Copies(s, i, to, d) + Hit(f, i, to, d)
<1> DEFINE n == Len(s) + 1
           H == Hits(s, i, to, d)
<1>1. /\ t \in Seq(S) /\ Len(t) = n /\ t[n] = f /\ Len(s) \in Nat
      /\ \A k \in 1..Len(s) : t[k] = s[k]
  BY DEF Extends
<1>2. Hits(t, i, to, d) = IF Hit(f, i, to, d) = 1 THEN H \cup {n} ELSE H
  BY <1>1 DEF Hits, Hit
<1>3. n \notin H
  BY <1>1 DEF Hits
<1>4. /\ IsFiniteSet(H) /\ Copies(s, i, to, d) = Cardinality(H) /\ Cardinality(H) \in Nat
      /\ Copies(t, i, to, d) = Cardinality(Hits(t, i, to, d))
  BY <1>1, CopiesType
<1> HIDE DEF H, n
<1>5. Cardinality(H \cup {n}) = Cardinality(H) + 1
  BY <1>3, <1>4, FS_AddElement
<1>6. Hit(f, i, to, d) \in {0, 1}
  BY DEF Hit
<1>7. QED
  BY <1>2, <1>4, <1>5, <1>6

\* The frame that is taken off counts if it is a hit.
LEMMA CopiesTail ==
  ASSUME NEW S, NEW s \in Seq(S), s # <<>>, NEW i, NEW to, NEW d
  PROVE  Copies(s, i, to, d) = Copies(Tail(s), i, to, d) + Hit(Head(s), i, to, d)
<1> DEFINE t == Tail(s)
           G == Hits(t, i, to, d)
           H == Hits(s, i, to, d)
           g == [k \in G |-> k + 1]
<1>1. /\ Len(s) \in Nat /\ Len(s) >= 1 /\ Head(s) = s[1]
      /\ t \in Seq(S) /\ Len(t) = Len(s) - 1
      /\ \A k \in 1..Len(t) : t[k] = s[k + 1]
  OBVIOUS
<1>2. \A k \in G : k \in Nat /\ k + 1 \in H \ {1}
  BY <1>1 DEF Hits
<1>3. \A k \in H \ {1} : k \in Nat /\ k - 1 \in G /\ k = (k - 1) + 1
  BY <1>1 DEF Hits
<1>4. 1 \in H <=> Hit(Head(s), i, to, d) = 1
  BY <1>1 DEF Hits, Hit
<1>5. /\ IsFiniteSet(G) /\ Copies(t, i, to, d) = Cardinality(G) /\ Cardinality(G) \in Nat
      /\ IsFiniteSet(H) /\ Copies(s, i, to, d) = Cardinality(H) /\ Cardinality(H) \in Nat
  BY <1>1, CopiesType
<1>6. g \in Bijection(G, H \ {1})
  <2>1. g \in [G -> H \ {1}]
    BY <1>2
  <2>2. \A j, k \in G : g[j] = g[k] => j = k
    BY <1>2
  <2>3. \A k \in H \ {1} : \E j \in G : g[j] = k
    BY <1>3
  <2> HIDE DEF g, G, H
  <2>4. QED
    BY <2>1, <2>2, <2>3 DEF Bijection, Injection, Surjection, IsInjective
<1> HIDE DEF t, G, H, g
<1>7. Cardinality(H \ {1}) = Cardinality(G)
  BY <1>5, <1>6, FS_Bijection DEF ExistsBijection
<1>8. Cardinality(H \ {1}) = IF 1 \in H THEN Cardinality(H) - 1 ELSE Cardinality(H)
  BY <1>5, FS_RemoveElement
<1>9. Hit(Head(s), i, to, d) \in {0, 1}
  BY DEF Hit
<1>10. QED
  BY <1>4, <1>5, <1>7, <1>8, <1>9 DEF t

\* An answer on its own is counted once.
LEMMA CopiesOne ==
  ASSUME NEW f, NEW i, NEW to, NEW d
  PROVE  Copies(<<f>>, i, to, d) = Hit(f, i, to, d)
<1> DEFINE e == <<>>
           S == {f}
           t == <<f>>
<1>1. e \in Seq(S) /\ f \in S /\ t \in Seq(S) /\ Extends(t, e, f)
  BY DEF Extends
<1> HIDE DEF e, S, t
<1>2. Copies(t, i, to, d) = Copies(e, i, to, d) + Hit(f, i, to, d)
  BY <1>1, CopiesAppend
<1>3. Hit(f, i, to, d) \in {0, 1}
  BY DEF Hit
<1>4. QED
  BY <1>2, <1>3, CopiesEmpty DEF e, t

\* Among the frames of a Who-Is there is one of each device to everyone, and
\* one to the client.
LEMMA CopiesIAms ==
  ASSUME TypeOK, NEW i \in Ids, i <= Len(request), NEW d \in Devices,
         NEW to \in {"all", request[i].src}
  PROVE  Copies(IAms(i), i, to, d) = 1
<1>1. /\ IAms(i) \in Seq(Replies) /\ Len(IAms(i)) = 2 * Len(order)
      /\ \A k \in 1..Len(IAms(i)) :
           /\ IAms(i)[k].id = i /\ IAms(i)[k].dev = order[(k + 1) \div 2]
           /\ IAms(i)[k].dst = IF k % 2 = 1 THEN "all" ELSE request[i].src
  BY IAmsFacts
<1>2. /\ Len(order) \in Nat
      /\ \A j, k \in 1..Len(order) : order[j] = order[k] => j = k
  BY OrderFacts DEF TypeOK
<1>3. PICK j \in 1..Len(order) : order[j] = d
  BY OrderFacts DEF TypeOK
<1>4. request[i].src # "all"
  BY RequestFacts, DispatcherAssumption
<1> DEFINE m == IF to = "all" THEN 2 * j - 1 ELSE 2 * j
<1>5. m \in 1..2 * Len(order) /\ (m + 1) \div 2 = j
      /\ (m % 2 = 1 <=> to = "all")
  <2>1. m \in 1..2 * Len(order)
    BY <1>2
  <2>2. /\ (m + 1) \div 2 \in 1..Len(order)
        /\ IF m % 2 = 1 THEN m = 2 * ((m + 1) \div 2) - 1 ELSE m = 2 * ((m + 1) \div 2)
    BY <1>2, <2>1, HalfFacts
  <2>3. QED
    BY <1>2, <2>2
<1>6. ASSUME NEW k \in 1..2 * Len(order)
      PROVE  k \in Hits(IAms(i), i, to, d) <=> k = m
  <2>1. /\ (k + 1) \div 2 \in 1..Len(order)
        /\ IF k % 2 = 1 THEN k = 2 * ((k + 1) \div 2) - 1 ELSE k = 2 * ((k + 1) \div 2)
    BY <1>2, HalfFacts
  <2>2. k \in Hits(IAms(i), i, to, d) <=>
          (order[(k + 1) \div 2] = d /\ to = IF k % 2 = 1 THEN "all" ELSE request[i].src)
    BY <1>1 DEF Hits
  <2>3. order[(k + 1) \div 2] = d <=> (k + 1) \div 2 = j
    BY <1>2, <1>3, <2>1
  <2>4. (to = IF k % 2 = 1 THEN "all" ELSE request[i].src) <=> (k % 2 = 1 <=> to = "all")
    BY <1>4
  <2>5. CASE k = m
    BY <1>5, <2>2, <2>3, <2>4, <2>5
  <2>6. CASE k # m
    <3>1. ~ ((k + 1) \div 2 = j /\ (k % 2 = 1 <=> to = "all"))
      BY <2>1, <2>6
    <3>2. QED
      BY <2>2, <2>3, <2>4, <2>6, <3>1
  <2>7. QED
    BY <2>5, <2>6
<1>7. Hits(IAms(i), i, to, d) = {m}
  <2>1. Hits(IAms(i), i, to, d) \subseteq 1..2 * Len(order)
    BY <1>1 DEF Hits
  <2> HIDE DEF m
  <2>2. QED
    BY <1>5, <1>6, <2>1
<1>8. Copies(IAms(i), i, to, d) = Cardinality(Hits(IAms(i), i, to, d))
  BY DEF Copies, Hits
<1>9. QED
  BY <1>7, <1>8, FS_Singleton

-----------------------------------------------------------------------------
(* Every request is answered once.                                         *)

\* AnswerInv for one request, one destination and one device.
AnswerOf(i, to, d) ==
  Out(i, to, d) = IF pc[i] \in Sending /\ Due(i, to, d)
                    THEN 1 - Copies(frames[i], i, to, d) ELSE 0

\* The counts are numbers.
LEMMA OutType ==
  ASSUME TypeOK, NEW i \in Ids, NEW to, NEW d
  PROVE  /\ Out(i, to, d) \in Nat /\ Copies(answers[i], i, to, d) \in Nat
         /\ Copies(outbox, i, to, d) \in Nat /\ Copies(frames[i], i, to, d) \in Nat
<1>1. answers[i] \in Seq(Replies) /\ outbox \in Seq(Replies) /\ frames[i] \in Seq(Replies)
  BY DEF TypeOK
<1>2. /\ Copies(answers[i], i, to, d) \in Nat /\ Copies(outbox, i, to, d) \in Nat
      /\ Copies(frames[i], i, to, d) \in Nat
  BY <1>1, CopiesType
<1>3. QED
  BY <1>2 DEF Out

\* A request whose task and frames stay as they are keeps its count.
LEMMA AnswerSame ==
  ASSUME NEW j \in Ids, NEW to, NEW d, AnswerOf(j, to, d),
         Out(j, to, d)' = Out(j, to, d), frames'[j] = frames[j],
         pc'[j] \in Sending <=> pc[j] \in Sending,
         pc[j] \in Sending => request'[j] = request[j] /\ device'[j] = device[j]
  PROVE  AnswerOf(j, to, d)'
<1>1. pc[j] \in Sending => (Due(j, to, d)' <=> Due(j, to, d))
  BY DEF Due
<1>2. QED
  BY <1>1 DEF AnswerOf

\* Without new frames the count stays.
LEMMA OutSame ==
  ASSUME UNCHANGED <<answers, outbox>>, NEW j, NEW to, NEW d
  PROVE  Out(j, to, d)' = Out(j, to, d)
BY DEF Out

\* Receiving a Who-Is makes frames that are due, and nothing else does.
LEMMA AnswerReceive ==
  ASSUME TypeOK, TaskInv, Receive, NEW to \in Clients \cup {"all"}, NEW d \in Devices,
         NEW j \in Ids, AnswerOf(j, to, d)
  PROVE  AnswerOf(j, to, d)'
<1>1. PICK i \in Ids :
        LET s == request[i].ask.service
        IN /\ i <= Len(request) /\ pc[i] = "queued"
           /\ pc'[i] = CASE s \in {"IAm", "Undecodable"} -> "ignored"
                         [] s = "WhoIs" -> "respond"
                         [] OTHER -> "resolve"
           /\ \A k \in Ids \ {i} : pc'[k] = pc[k] /\ frames'[k] = frames[k]
           /\ frames'[i] = IF s = "WhoIs" THEN IAms(i) ELSE frames[i]
  BY ReceiveFacts
<1>2. UNCHANGED <<order, request, device, answers, outbox>>
  BY DEF Receive
<1>3. Out(j, to, d)' = Out(j, to, d)
  BY <1>2, OutSame
<1>4. CASE j # i
  BY <1>1, <1>2, <1>3, <1>4, AnswerSame
<1>5. CASE j = i
  <2>1. Out(i, to, d) = 0
    BY <1>1, <1>5 DEF AnswerOf, Sending
  <2>2. CASE request[i].ask.service # "WhoIs"
    <3>1. pc'[i] \notin Sending
      BY <1>1, <2>2 DEF Sending
    <3>2. QED
      BY <1>3, <1>5, <2>1, <3>1 DEF AnswerOf
  <2>3. CASE request[i].ask.service = "WhoIs"
    <3>1. frames'[i] = IAms(i)
      BY <1>1, <2>3
    <3>2. ASSUME Due(i, to, d)' PROVE Copies(IAms(i), i, to, d) = 1
      <4>1. to \in {"all", request[i].src}
        BY <1>2, <2>3, <3>2 DEF Due
      <4>2. QED
        BY <1>1, <4>1, CopiesIAms
    <3>3. Due(i, to, d)' => Copies(frames'[i], i, to, d) = 1
      BY <3>1, <3>2
    <3>4. QED
      BY <1>3, <1>5, <2>1, <3>3 DEF AnswerOf
  <2>4. QED
    BY <2>2, <2>3
<1>6. QED
  BY <1>4, <1>5

\* A request that has been served has one frame, which is due.
LEMMA AnswerServe ==
  ASSUME TypeOK, TaskInv, NEW i \in Ids, Serve(i), NEW to \in Clients \cup {"all"},
         NEW d \in Devices, NEW j \in Ids, AnswerOf(j, to, d)
  PROVE  AnswerOf(j, to, d)'
<1>1. /\ pc[i] = "serve" /\ i <= Len(request) /\ device[i] \in Devices
      /\ \A k \in Ids \ {i} : pc'[k] = pc[k] /\ frames'[k] = frames[k]
      /\ \/ pc'[i] = "serve" /\ UNCHANGED frames
         \/ /\ pc'[i] = "respond"
            /\ \E r \in Seq(Outcomes) :
                 frames'[i] = <<Frame(request[i].src, i, device[i], r)>>
      /\ UNCHANGED <<request, device, outbox, answers>>
  BY ServeFacts
<1>2. Out(j, to, d)' = Out(j, to, d)
  BY <1>1, OutSame
<1>3. CASE j # i
  BY <1>1, <1>2, <1>3, AnswerSame
<1>4. CASE j = i
  <2>1. Out(i, to, d) = 0
    BY <1>1, <1>4 DEF AnswerOf, Sending
  <2>2. CASE pc'[i] = "serve"
    BY <1>2, <1>4, <2>1, <2>2 DEF AnswerOf, Sending
  <2>3. ASSUME NEW r \in Seq(Outcomes),
               frames'[i] = <<Frame(request[i].src, i, device[i], r)>>
        PROVE  AnswerOf(i, to, d)'
    <3> DEFINE f == Frame(request[i].src, i, device[i], r)
    <3>1. request[i].src \in Clients
      BY <1>1, RequestFacts
    <3>2. f.dst = request[i].src /\ f.id = i /\ f.dev = device[i]
      BY <1>1, <3>1, FrameType
    <3>3. frames'[i] = <<f>>
      BY <2>3
    <3> HIDE DEF f
    <3>4. Copies(frames'[i], i, to, d) = Hit(f, i, to, d)
      BY <3>3, CopiesOne
    <3>5. request[i].ask.service # "WhoIs"
      BY <1>1 DEF TaskInv, Unconfirmed
    <3>6. Due(i, to, d)' => Hit(f, i, to, d) = 1
      BY <1>1, <3>2, <3>5 DEF Due, Hit
    <3>7. QED
      BY <1>2, <1>4, <2>1, <3>4, <3>6 DEF AnswerOf
  <2>4. QED
    BY <1>1, <1>4, <2>2, <2>3
<1>5. QED
  BY <1>3, <1>4

\* A frame that a task sends is due, and one it skips is not.
LEMMA AnswerNextFrame ==
  ASSUME TypeOK, TaskInv, FramesInv, NEW i \in Ids, Respond(i) \/ Skip(i),
         NEW to \in Clients \cup {"all"}, NEW d \in Devices, NEW j \in Ids, AnswerOf(j, to, d)
  PROVE  AnswerOf(j, to, d)'
<1> DEFINE f == Head(frames[i])
<1>1. pc[i] = "respond" /\ NextFrame(i) /\ UNCHANGED <<request, device, answers>>
  BY DEF Respond, Skip
<1>2. /\ i <= Len(request) /\ frames[i] \in Seq(Replies) /\ frames[i] # <<>>
      /\ f \in Replies /\ f = frames[i][1] /\ Len(frames[i]) \in Nat /\ Len(frames[i]) >= 1
      /\ frames'[i] = Tail(frames[i])
      /\ pc'[i] = IF Len(frames[i]) = 1 THEN "done" ELSE "respond"
      /\ \A k \in Ids \ {i} : pc'[k] = pc[k] /\ frames'[k] = frames[k]
  BY <1>1, NextFrameFacts
<1>3. /\ f.id = i
      /\ request[i].ask.service = "WhoIs" => f.dst \in {"all", request[i].src}
      /\ request[i].ask.service # "WhoIs" => f.dst = request[i].src /\ f.dev = device[i]
  BY <1>1, <1>2 DEF FramesInv
<1>4. /\ outbox \in Seq(Replies)
      /\ \/ Wanted(i, f) /\ outbox' = Append(outbox, f)
         \/ ~ Wanted(i, f) /\ outbox' = outbox
  BY DEF Respond, Skip, TypeOK
<1>5. /\ Copies(answers[j], j, to, d) \in Nat /\ Copies(outbox, j, to, d) \in Nat
      /\ Copies(frames[i], i, to, d) \in Nat /\ Hit(f, j, to, d) \in {0, 1}
  BY OutType DEF Hit
<1>6. Copies(frames[i], i, to, d) = Copies(frames'[i], i, to, d) + Hit(f, i, to, d)
  BY <1>2, CopiesTail
<1>7. Copies(frames'[i], i, to, d) \in Nat
  <2>1. Tail(frames[i]) \in Seq(Replies)
    BY <1>2
  <2>2. QED
    BY <1>2, <2>1, CopiesType
<1>8. Out(j, to, d)' = Out(j, to, d) + IF Wanted(i, f) THEN Hit(f, j, to, d) ELSE 0
  <2>1. CASE Wanted(i, f)
    <3>1. Copies(outbox', j, to, d) = Copies(outbox, j, to, d) + Hit(f, j, to, d)
      <4>1. f \in Replies /\ outbox \in Seq(Replies) /\ outbox' = Append(outbox, f)
        BY <1>2, <1>4, <2>1
      <4> HIDE DEF f
      <4>2. outbox' \in Seq(Replies) /\ Extends(outbox', outbox, f)
        <5>1. /\ outbox' \in Seq(Replies) /\ Len(outbox') = Len(outbox) + 1
              /\ outbox'[Len(outbox) + 1] = f
          BY <4>1
        <5>2. \A k \in 1..Len(outbox) : outbox'[k] = outbox[k]
          BY <4>1
        <5>3. QED
          BY <5>1, <5>2 DEF Extends
      <4>3. f \in Replies /\ outbox \in Seq(Replies)
        BY <4>1
      <4>4. QED
        BY <4>2, <4>3, CopiesAppend
    <3>2. QED
      BY <1>1, <1>5, <2>1, <3>1 DEF Out
  <2>2. CASE ~ Wanted(i, f)
    BY <1>1, <1>4, <1>5, <2>2 DEF Out
  <2>3. QED
    BY <2>1, <2>2
<1> HIDE DEF f
<1>9. CASE j # i
  <2>1. Hit(f, j, to, d) = 0
    BY <1>3, <1>9 DEF Hit
  <2>2. Out(j, to, d) \in Nat
    BY OutType
  <2>3. Out(j, to, d)' = Out(j, to, d)
    BY <1>8, <2>1, <2>2
  <2>4. QED
    BY <1>1, <1>2, <1>9, <2>3, AnswerSame
<1>10. CASE j = i
  <2>1. pc[i] \in Sending /\ pc'[i] \in Sending
    BY <1>1, <1>2 DEF Sending
  <2>2. Due(i, to, d)' <=> Due(i, to, d)
    BY <1>1 DEF Due
  <2>3. Hit(f, i, to, d) = 1 => (Wanted(i, f) <=> Due(i, to, d))
    BY <1>3 DEF Hit, Wanted, Due
  <2>4. Hit(f, i, to, d) \in {0, 1}
    BY DEF Hit
  <2>5. Out(i, to, d) = IF Due(i, to, d) THEN 1 - Copies(frames[i], i, to, d) ELSE 0
    BY <1>10, <2>1 DEF AnswerOf
  <2>6. Out(i, to, d)' = IF Due(i, to, d) THEN 1 - Copies(frames'[i], i, to, d) ELSE 0
    BY <1>5, <1>6, <1>7, <1>8, <1>10, <2>3, <2>4, <2>5
  <2>7. QED
    BY <1>10, <2>1, <2>2, <2>6 DEF AnswerOf
<1>11. QED
  BY <1>9, <1>10

\* The send loop moves a frame from the channel to the socket.
LEMMA OutTransmit ==
  ASSUME TypeOK, Transmit, NEW j \in Ids, NEW to, NEW d
  PROVE  Out(j, to, d)' = Out(j, to, d)
<1> DEFINE f == Head(outbox)
<1>1. /\ outbox # <<>> /\ outbox \in Seq(Replies) /\ f \in Replies /\ f.id \in Ids
      /\ outbox' = Tail(outbox)
      /\ answers' = [answers EXCEPT ![f.id] = Append(@, f)]
  BY TransmitFacts
<1>2. /\ Copies(answers[j], j, to, d) \in Nat /\ Copies(outbox, j, to, d) \in Nat
      /\ Hit(f, j, to, d) \in {0, 1} /\ answers[j] \in Seq(Replies)
  BY OutType DEF Hit, TypeOK
<1>3. Copies(outbox, j, to, d) = Copies(outbox', j, to, d) + Hit(f, j, to, d)
  BY <1>1, CopiesTail
<1>4. Copies(outbox', j, to, d) \in Nat
  <2>1. Tail(outbox) \in Seq(Replies)
    BY <1>1
  <2>2. QED
    BY <1>1, <2>1, CopiesType
<1>5. answers'[j] = IF f.id = j THEN Append(answers[j], f) ELSE answers[j]
  BY <1>1 DEF TypeOK
<1> HIDE DEF f
<1>6. Copies(answers'[j], j, to, d) = Copies(answers[j], j, to, d) + Hit(f, j, to, d)
  <2>1. CASE f.id = j
    <3>1. answers'[j] = Append(answers[j], f)
      BY <1>5, <2>1
    <3>2. answers'[j] \in Seq(Replies) /\ Extends(answers'[j], answers[j], f)
      <4>1. /\ answers'[j] \in Seq(Replies) /\ Len(answers'[j]) = Len(answers[j]) + 1
            /\ answers'[j][Len(answers[j]) + 1] = f
        BY <1>1, <1>2, <3>1
      <4>2. \A k \in 1..Len(answers[j]) : answers'[j][k] = answers[j][k]
        BY <1>1, <1>2, <3>1
      <4>3. QED
        BY <4>1, <4>2 DEF Extends
    <3>3. f \in Replies /\ answers[j] \in Seq(Replies)
      BY <1>1, <1>2
    <3>4. QED
      BY <3>2, <3>3, CopiesAppend
  <2>2. CASE f.id # j
    <3>1. Hit(f, j, to, d) = 0
      BY <2>2 DEF Hit
    <3>2. QED
      BY <1>2, <1>5, <2>2, <3>1
  <2>3. QED
    BY <2>1, <2>2
<1>7. QED
  BY <1>2, <1>3, <1>4, <1>6 DEF Out

\* Every step keeps AnswerInv.
LEMMA AnswerKept ==
  ASSUME TypeOK, TaskInv, FramesInv, AnswerInv, [Next]_vars
  PROVE  AnswerInv'
<1> SUFFICES ASSUME NEW j \in Ids, NEW to \in Clients \cup {"all"}, NEW d \in Devices
             PROVE  AnswerOf(j, to, d)'
  BY DEF AnswerInv, AnswerOf
<1>1. AnswerOf(j, to, d)
  BY DEF AnswerInv, AnswerOf
<1>2. ASSUME NEW c \in Clients, NEW a \in Asks, Send(c, a)
      PROVE  AnswerOf(j, to, d)'
  <2>1. /\ Len(request) \in Nat
        /\ \A k \in 1..Len(request) : request'[k] = request[k]
        /\ \A k \in Ids : \/ pc'[k] = pc[k]
                          \/ pc[k] = "none" /\ pc'[k] = "queued"
                          \/ pc[k] = "queued" /\ pc'[k] = "lost"
    BY <1>2, SendFacts
  <2>2. UNCHANGED <<device, frames, answers, outbox>>
    BY <1>2 DEF Send
  <2>3. pc'[j] \in Sending <=> pc[j] \in Sending
    BY <2>1 DEF Sending
  <2>4. pc[j] \in Sending => request'[j] = request[j]
    <3>1. pc[j] \in Sending => j \in 1..Len(request)
      BY <2>1, DispatcherAssumption DEF TaskInv, Ids, Sending
    <3>2. QED
      BY <2>1, <3>1
  <2>5. Out(j, to, d)' = Out(j, to, d)
    BY <2>2, OutSame
  <2>6. QED
    BY <1>1, <2>2, <2>3, <2>4, <2>5, AnswerSame
<1>3. ASSUME NEW i \in Ids, Resolve(i)
      PROVE  AnswerOf(j, to, d)'
  <2>1. /\ pc[i] = "resolve" /\ pc'[i] \in {"failed", "serve"}
        /\ \A k \in Ids \ {i} : pc'[k] = pc[k] /\ device'[k] = device[k]
        /\ UNCHANGED <<request, frames, answers, outbox>>
    BY <1>3, ResolveFacts
  <2>2. Out(j, to, d)' = Out(j, to, d)
    BY <2>1, OutSame
  <2>3. pc'[j] \in Sending <=> pc[j] \in Sending
    BY <2>1 DEF Sending
  <2>4. pc[j] \in Sending => device'[j] = device[j]
    BY <2>1 DEF Sending
  <2>5. QED
    BY <1>1, <2>1, <2>2, <2>3, <2>4, AnswerSame
<1>4. ASSUME Transmit
      PROVE  AnswerOf(j, to, d)'
  <2>1. UNCHANGED <<request, device, frames, pc>>
    BY <1>4, TransmitFacts
  <2>2. Out(j, to, d)' = Out(j, to, d)
    BY <1>4, OutTransmit
  <2>3. QED
    BY <1>1, <2>1, <2>2, AnswerSame
<1>5. ASSUME UNCHANGED <<request, device, frames, pc, answers, outbox>>
      PROVE  AnswerOf(j, to, d)'
  <2>1. Out(j, to, d)' = Out(j, to, d)
    BY <1>5, OutSame
  <2>2. QED
    BY <1>1, <1>5, <2>1, AnswerSame
<1>6. ASSUME \/ \E c \in Clients : GiveUp(c)
             \/ UNCHANGED vars
      PROVE  AnswerOf(j, to, d)'
  BY <1>5, <1>6 DEF GiveUp, vars, taskVars
<1>7. QED
  BY <1>1, <1>2, <1>3, <1>4, <1>6, AnswerReceive, AnswerServe, AnswerNextFrame DEF Next

\* Whatever the capacities of the channels and the order of the tasks: a
\* confirmed request whose task is done has been answered exactly once, to its
\* client and by the device it was resolved to, and before that not at all; a
\* Who-Is makes each device in range announce itself once to everyone and once
\* to the client, and no other device (run, handle_frame).
THEOREM AnsweredExactlyOnce == Spec => []AnsweredOnce
<1>1. Init => TypeOK /\ TaskInv /\ FramesInv /\ AnswerInv
  <2> SUFFICES ASSUME Init PROVE TypeOK /\ TaskInv /\ FramesInv /\ AnswerInv
    OBVIOUS
  <2>1. TypeOK /\ TaskInv /\ FramesInv
    BY StartTypes DEF Init, FramesInv
  <2>2. \A i \in Ids : answers[i] = <<>> /\ pc[i] \notin Sending
    BY DEF Init, Sending
  <2>3. outbox = <<>>
    BY DEF Init
  <2>4. \A i \in Ids, to \in Clients \cup {"all"}, d \in Devices : Out(i, to, d) = 0
    BY <2>2, <2>3, CopiesEmpty DEF Out
  <2>5. QED
    BY <2>1, <2>2, <2>4 DEF AnswerInv
<1>2. TypeOK /\ TaskInv /\ FramesInv /\ AnswerInv /\ [Next]_vars
      => (TypeOK /\ TaskInv /\ FramesInv /\ AnswerInv)'
  BY TypesKept, StutterTypes, AnswerKept
<1>3. TypeOK /\ FramesInv /\ AnswerInv => AnsweredOnce
  <2> SUFFICES ASSUME TypeOK, FramesInv, AnswerInv, NEW i \in 1..Len(request),
                      NEW to \in Clients \cup {"all"}, NEW d \in Devices
               PROVE  CASE ~ Due(i, to, d) -> Out(i, to, d) = 0
                        [] Due(i, to, d) /\ pc[i] = "done" -> Out(i, to, d) = 1
                        [] Due(i, to, d) /\ pc[i] # "done" ->
                             IF request[i].ask.service = "WhoIs"
                               THEN Out(i, to, d) <= 1 ELSE Out(i, to, d) = 0
    BY DEF AnsweredOnce, Out
  <2>1. i \in Ids
    BY DispatcherAssumption DEF TypeOK, Ids
  <2>2. Out(i, to, d) = IF pc[i] \in Sending /\ Due(i, to, d)
                          THEN 1 - Copies(frames[i], i, to, d) ELSE 0
    BY <2>1 DEF AnswerInv
  <2>3. Copies(frames[i], i, to, d) \in Nat
    BY <2>1, OutType
  <2>4. pc[i] = "done" => Copies(frames[i], i, to, d) = 0
    BY <2>1, CopiesEmpty DEF FramesInv
  <2>5. ASSUME pc[i] = "respond", Due(i, to, d), request[i].ask.service # "WhoIs"
        PROVE  Copies(frames[i], i, to, d) = 1
    <3>1. /\ Len(frames[i]) = 1 /\ frames[i][1].id = i
          /\ frames[i][1].dst = to /\ frames[i][1].dev = d
      BY <2>1, <2>5 DEF FramesInv, Due
    <3>2. {k \in 1..Len(frames[i]) : /\ frames[i][k].id = i /\ frames[i][k].dst = to
                                     /\ frames[i][k].dev = d} = {1}
      BY <3>1
    <3>3. QED
      BY <3>2, FS_Singleton DEF Copies
  <2>6. CASE ~ Due(i, to, d)
    BY <2>2, <2>6
  <2>7. CASE Due(i, to, d) /\ pc[i] = "done"
    <3>1. Out(i, to, d) = 1
      BY <2>2, <2>4, <2>7 DEF Sending
    <3>2. QED
      BY <2>7, <3>1
  <2>8. CASE Due(i, to, d) /\ pc[i] # "done"
    <3>1. Out(i, to, d) <= 1
      BY <2>2, <2>3
    <3>2. request[i].ask.service # "WhoIs" => Out(i, to, d) = 0
      BY <2>2, <2>5, <2>8 DEF Sending
    <3>3. QED
      BY <2>8, <3>1, <3>2
  <2>9. QED
    BY <2>6, <2>7, <2>8
<1>4. QED
  BY <1>1, <1>2, <1>3, PTL DEF Spec

-----------------------------------------------------------------------------
(* Sessions are kept.                                                      *)

\* The last of some requests.
LEMMA LatestExists ==
  ASSUME NEW n \in Nat, NEW T \in SUBSET (1..n), T # {}
  PROVE  \E x \in T : \A y \in T : y <= x
<1> DEFINE R == OpToRel(<, Nat)
           D == {k \in Nat : \E y \in T : k = n - y}
<1>1. IsWellFoundedOn(R, Nat)
  BY NatLessThanWellFounded
<1>2. \A x, y \in Nat : x < y => <<x, y>> \in R
  BY DEF OpToRel
<1>3. /\ \A y \in T : n - y \in D
      /\ \A k \in D : k \in Nat /\ \E y \in T : k = n - y
  OBVIOUS
<1> HIDE DEF R, D
<1>4. D \in SUBSET Nat /\ D # {}
  BY <1>3
<1>5. PICK k \in D : \A j \in D : ~ (<<j, k>> \in R)
  BY <1>1, <1>4, WFMin
<1>6. \A j \in D : k <= j
  <2>1. \A j \in D : j \in Nat /\ k \in Nat
    BY <1>3
  <2>2. \A j \in D : ~ (j < k)
    BY <1>2, <1>5, <2>1
  <2>3. QED
    BY <2>1, <2>2
<1>7. PICK x \in T : k = n - x
  BY <1>3
<1>8. ASSUME NEW y \in T PROVE y <= x
  <2>1. n - x <= n - y
    BY <1>3, <1>6, <1>7
  <2>2. QED
    BY <2>1
<1>9. QED
  BY <1>8

\* Which device the i-th request is for, without CHOOSE.
LEMMA AddressedIs ==
  ASSUME NEW req, NEW ord, NEW i \in Nat, i >= 1, NEW named,
         named = NamedBefore(req, req[i].src, i)
  PROVE  /\ Names(req[i].ask) => Addressed(req, ord, i) = Primary(req[i].ask).inst
         /\ ~ Names(req[i].ask) /\ (req[i].ask.service = "SubscribeCov" \/ named = {}) =>
              Addressed(req, ord, i) = ord[1]
         /\ ~ Names(req[i].ask) /\ req[i].ask.service # "SubscribeCov" =>
              \A j \in named : (\A k \in named : k <= j) =>
                Addressed(req, ord, i) = Primary(req[j].ask).inst
<1> DEFINE m == CHOOSE x \in named : \A k \in named : k <= x
<1>1. named \subseteq 1..i - 1
  BY DEF NamedBefore
<1>2. Addressed(req, ord, i) =
        IF Names(req[i].ask) THEN Primary(req[i].ask).inst
        ELSE IF req[i].ask.service = "SubscribeCov" \/ named = {} THEN ord[1]
        ELSE Primary(req[m].ask).inst
  <2>1. named = NamedBefore(req, req[i].src, i)
    OBVIOUS
  <2>2. QED
    BY <2>1 DEF Addressed
<1>3. ASSUME NEW j \in named, \A k \in named : k <= j
      PROVE  m = j
  <2>1. m \in named /\ \A k \in named : k <= m
    BY <1>3
  <2> HIDE DEF m
  <2>2. QED
    BY <1>1, <1>3, <2>1
<1> HIDE DEF m
<1>4. QED
  BY <1>2, <1>3

\* It depends on the requests up to the i-th only.
LEMMA AddressedSame ==
  ASSUME NEW req, NEW req2, NEW ord, NEW i \in Nat, i >= 1,
         \A k \in 1..i : req2[k] = req[k]
  PROVE  Addressed(req2, ord, i) = Addressed(req, ord, i)
<1> DEFINE named == NamedBefore(req, req[i].src, i)
<1>1. req2[i] = req[i]
  OBVIOUS
<1>2. NamedBefore(req2, req2[i].src, i) = named
  BY <1>1 DEF NamedBefore
<1>3. named \in SUBSET (1..i - 1) /\ i - 1 \in Nat
  BY DEF NamedBefore
<1> HIDE DEF named
<1>4. /\ Names(req[i].ask) => Addressed(req, ord, i) = Primary(req[i].ask).inst
      /\ ~ Names(req[i].ask) /\ (req[i].ask.service = "SubscribeCov" \/ named = {}) =>
           Addressed(req, ord, i) = ord[1]
      /\ ~ Names(req[i].ask) /\ req[i].ask.service # "SubscribeCov" =>
           \A j \in named : (\A k \in named : k <= j) =>
             Addressed(req, ord, i) = Primary(req[j].ask).inst
  BY AddressedIs DEF named
<1>5. /\ Names(req2[i].ask) => Addressed(req2, ord, i) = Primary(req2[i].ask).inst
      /\ ~ Names(req2[i].ask) /\ (req2[i].ask.service = "SubscribeCov" \/ named = {}) =>
           Addressed(req2, ord, i) = ord[1]
      /\ ~ Names(req2[i].ask) /\ req2[i].ask.service # "SubscribeCov" =>
           \A j \in named : (\A k \in named : k <= j) =>
             Addressed(req2, ord, i) = Primary(req2[j].ask).inst
  BY <1>2, AddressedIs
<1>6. CASE Names(req[i].ask) \/ req[i].ask.service = "SubscribeCov" \/ named = {}
  BY <1>1, <1>4, <1>5, <1>6
<1>7. CASE ~ (Names(req[i].ask) \/ req[i].ask.service = "SubscribeCov" \/ named = {})
  <2>1. PICK j \in named : \A k \in named : k <= j
    BY <1>3, <1>7, LatestExists
  <2>2. req2[j] = req[j]
    BY <1>3
  <2>3. QED
    BY <1>1, <1>4, <1>5, <1>7, <2>1, <2>2
<1>8. QED
  BY <1>6, <1>7

\* A step in which no client sends, gives up or is answered keeps WaitInv, if
\* tasks that are done stay so and new frames are those of done tasks.
LEMMA WaitSame ==
  ASSUME WaitInv, UNCHANGED <<request, open, hasty>>,
         \A j \in 1..Len(request) : pc[j] = "done" => pc'[j] = "done",
         \A k \in 1..Len(outbox') :
           /\ outbox'[k].id <= Len(request)
           /\ request[outbox'[k].id].ask.service = "WhoIs" \/ pc'[outbox'[k].id] = "done"
  PROVE  WaitInv'
BY DEF WaitInv

\* The frames in the channel are those of requests.
LEMMA BoxIds ==
  ASSUME TypeOK, WaitInv, NEW k \in 1..Len(outbox)
  PROVE  outbox[k].id \in Ids /\ outbox[k].id \in 1..Len(request)
<1>1. outbox \in Seq(Replies)
  BY DEF TypeOK
<1>2. outbox[k] \in Replies
  BY <1>1, ElementOfSeq
<1>3. outbox[k].id \in Ids /\ outbox[k].id <= Len(request)
  BY <1>2 DEF Replies, WaitInv
<1>4. QED
  BY <1>3, DispatcherAssumption DEF Ids, TypeOK

\* Sending keeps WaitInv: the client has not been waiting, so all it sent
\* before is done.
LEMMA WaitSend ==
  ASSUME TypeOK, TaskInv, WaitInv, NEW c \in Clients, NEW a \in Asks, Send(c, a)
  PROVE  WaitInv'
<1> DEFINE id == Len(request) + 1
           n == Len(request)
<1>1. /\ id \in Ids /\ n \in Nat /\ Len(request') = id /\ request'[id] = [src |-> c, ask |-> a]
      /\ \A j \in 1..n : request'[j] = request[j]
      /\ \A j \in Ids : \/ pc'[j] = pc[j]
                        \/ pc[j] = "none" /\ j = id /\ pc'[j] = "queued"
                        \/ pc[j] = "queued" /\ pc'[j] = "lost"
  BY SendFacts
<1>2. /\ open[c] = 0 /\ UNCHANGED <<outbox, hasty>>
      /\ open'[c] = IF a.service \in Unconfirmed THEN 0 ELSE id
      /\ \A e \in Clients \ {c} : open'[e] = open[e]
  BY DEF Send, TypeOK
<1>3. \A j \in 1..n : j \in Ids /\ j # 0 /\ j # id /\ (pc[j] = "done" => pc'[j] = "done")
  <2>1. \A j \in 1..n : j \in Ids /\ j # 0 /\ j # id
    BY <1>1, DispatcherAssumption DEF Ids
  <2> HIDE DEF n, id
  <2>2. QED
    BY <1>1, <2>1
<1> HIDE DEF id, n
<1>4. id = n + 1 /\ n = Len(request)
  BY DEF id, n
<1>5. \A e \in Clients : open'[e] # 0 =>
        /\ open'[e] \in 1..Len(request')
        /\ request'[open'[e]].src = e /\ request'[open'[e]].ask.service \notin Unconfirmed
  <2>1. ASSUME NEW e \in Clients \ {c}, open'[e] # 0
        PROVE  /\ open'[e] \in 1..Len(request')
               /\ request'[open'[e]].src = e /\ request'[open'[e]].ask.service \notin Unconfirmed
    <3>1. /\ open[e] \in 1..n /\ open'[e] = open[e]
          /\ request[open[e]].src = e /\ request[open[e]].ask.service \notin Unconfirmed
      BY <1>2, <1>4, <2>1 DEF WaitInv
    <3>2. QED
      BY <1>1, <1>4, <3>1
  <2>2. ASSUME open'[c] # 0
        PROVE  /\ open'[c] \in 1..Len(request')
               /\ request'[open'[c]].src = c /\ request'[open'[c]].ask.service \notin Unconfirmed
    <3>1. open'[c] = id /\ a.service \notin Unconfirmed
      BY <1>2, <2>2
    <3>2. QED
      BY <1>1, <1>4, <3>1
  <2>3. QED
    BY <2>1, <2>2
<1>6. ASSUME NEW e \in Clients, NEW j \in 1..Len(request'), request'[j].src = e,
             request'[j].ask.service \notin Unconfirmed
      PROVE  /\ open'[e] # 0 => j <= open'[e]
             /\ e \notin hasty' => j = open'[e] \/ pc'[j] = "done"
  <2>1. CASE j = id
    <3>1. e = c /\ open'[c] = id
      BY <1>1, <1>2, <1>6, <2>1
    <3>2. QED
      BY <1>1, <1>4, <2>1, <3>1
  <2>2. CASE j # id
    <3>1. j \in 1..n /\ request[j].src = e /\ request[j].ask.service \notin Unconfirmed
      BY <1>1, <1>4, <1>6, <2>2
    <3>2. /\ open[e] # 0 => j <= open[e]
          /\ e \notin hasty => j = open[e] \/ pc[j] = "done"
      BY <1>4, <3>1 DEF WaitInv
    <3>3. CASE e = c
      <4>1. e \notin hasty => pc'[j] = "done"
        BY <1>2, <1>3, <3>1, <3>2, <3>3
      <4>2. open'[e] # 0 => j <= open'[e]
        BY <1>1, <1>2, <1>4, <3>1, <3>3
      <4>3. QED
        BY <1>2, <4>1, <4>2
    <3>4. CASE e # c
      BY <1>2, <1>3, <3>1, <3>2, <3>4
    <3>5. QED
      BY <3>3, <3>4
  <2>3. QED
    BY <2>1, <2>2
<1>7. ASSUME NEW k \in 1..Len(outbox')
      PROVE  /\ outbox'[k].id <= Len(request')
             /\ request'[outbox'[k].id].ask.service = "WhoIs" \/ pc'[outbox'[k].id] = "done"
  <2>1. /\ outbox[k].id \in 1..n /\ outbox'[k].id = outbox[k].id
        /\ request[outbox[k].id].ask.service = "WhoIs" \/ pc[outbox[k].id] = "done"
    BY <1>2, <1>4, <1>7, BoxIds DEF WaitInv
  <2>2. QED
    BY <1>1, <1>3, <1>4, <2>1
<1>8. \A e \in Clients, j \in 1..Len(request') :
        request'[j].src = e /\ request'[j].ask.service \notin Unconfirmed =>
          /\ open'[e] # 0 => j <= open'[e]
          /\ e \notin hasty' => j = open'[e] \/ pc'[j] = "done"
  BY <1>6
<1>9. QED
  BY <1>5, <1>7, <1>8 DEF WaitInv

\* The send loop keeps WaitInv: the client that gets its answer waited for a
\* request that is done.
LEMMA WaitTransmit ==
  ASSUME TypeOK, TaskInv, WaitInv, Transmit
  PROVE  WaitInv'
<1> DEFINE f == Head(outbox)
<1>1. /\ outbox # <<>> /\ outbox \in Seq(Replies) /\ f = outbox[1] /\ f.id \in Ids
      /\ outbox' = Tail(outbox) /\ Len(outbox) \in Nat /\ Len(outbox) >= 1
      /\ open' = [c \in Clients |-> IF f.dst = c /\ open[c] = f.id THEN 0 ELSE open[c]]
      /\ UNCHANGED <<request, pc, hasty>>
  BY TransmitFacts
<1>2. request[f.id].ask.service = "WhoIs" \/ pc[f.id] = "done"
  BY <1>1 DEF WaitInv
<1> HIDE DEF f
<1>3. \A c \in Clients : \/ open'[c] = open[c]
                         \/ open'[c] = 0 /\ open[c] = f.id /\ open[c] # 0
  BY <1>1, DispatcherAssumption DEF Ids
<1>4. ASSUME NEW c \in Clients, NEW j \in 1..Len(request), request[j].src = c,
             request[j].ask.service \notin Unconfirmed, c \notin hasty
      PROVE  j = open'[c] \/ pc[j] = "done"
  <2>1. j = open[c] \/ pc[j] = "done"
    BY <1>4 DEF WaitInv
  <2>2. CASE open'[c] = open[c]
    BY <2>1, <2>2
  <2>3. CASE open[c] = f.id /\ open[c] # 0
    <3>1. request[f.id].ask.service \notin Unconfirmed
      BY <2>3 DEF WaitInv
    <3>2. pc[f.id] = "done"
      BY <1>2, <3>1 DEF Unconfirmed
    <3>3. QED
      BY <2>1, <2>3, <3>2
  <2>4. QED
    BY <1>3, <2>2, <2>3
<1>5. \A k \in 1..Len(outbox') : outbox'[k] = outbox[k + 1] /\ k + 1 \in 1..Len(outbox)
  BY <1>1
<1>6. \A c \in Clients : open'[c] # 0 =>
        /\ open'[c] \in 1..Len(request)
        /\ request[open'[c]].src = c /\ request[open'[c]].ask.service \notin Unconfirmed
  BY <1>3 DEF WaitInv
<1>7. \A c \in Clients, j \in 1..Len(request) :
        request[j].src = c /\ request[j].ask.service \notin Unconfirmed /\ open'[c] # 0 =>
          j <= open'[c]
  BY <1>3 DEF WaitInv
<1>8. \A k \in 1..Len(outbox') :
        /\ outbox'[k].id <= Len(request)
        /\ request[outbox'[k].id].ask.service = "WhoIs" \/ pc[outbox'[k].id] = "done"
  <2>1. \A k \in 1..Len(outbox) :
          /\ outbox[k].id <= Len(request)
          /\ request[outbox[k].id].ask.service = "WhoIs" \/ pc[outbox[k].id] = "done"
    BY DEF WaitInv
  <2>2. QED
    BY <1>5, <2>1
<1>9. QED
  BY <1>1, <1>4, <1>6, <1>7, <1>8 DEF WaitInv

\* Every step keeps WaitInv.
LEMMA WaitKept ==
  ASSUME TypeOK, TaskInv, FramesInv, WaitInv, [Next]_vars
  PROVE  WaitInv'
<1>1. \A k \in 1..Len(outbox) : /\ outbox[k].id \in Ids /\ outbox[k].id \in 1..Len(request)
  BY BoxIds
<1>2. \A k \in 1..Len(outbox) :
        /\ outbox[k].id <= Len(request)
        /\ request[outbox[k].id].ask.service = "WhoIs" \/ pc[outbox[k].id] = "done"
  BY DEF WaitInv
<1>3. 1..Len(request) \subseteq Ids
  BY DispatcherAssumption DEF TypeOK, Ids
<1>4. ASSUME UNCHANGED <<request, open, hasty, outbox>>,
             NEW i \in Ids, pc[i] # "done", \A j \in Ids \ {i} : pc'[j] = pc[j]
      PROVE  WaitInv'
  <2>1. \A j \in 1..Len(request) : pc[j] = "done" => pc'[j] = "done"
    BY <1>3, <1>4
  <2>2. QED
    BY <1>1, <1>2, <1>4, <2>1, WaitSame
<1>5. ASSUME Receive PROVE WaitInv'
  <2>1. PICK i \in Ids : pc[i] = "queued" /\ \A j \in Ids \ {i} : pc'[j] = pc[j]
    BY <1>5, ReceiveFacts
  <2>2. UNCHANGED <<request, open, hasty, outbox>>
    BY <1>5 DEF Receive, clientVars
  <2>3. QED
    BY <1>4, <2>1, <2>2
<1>6. ASSUME NEW i \in Ids, Resolve(i) PROVE WaitInv'
  <2>1. /\ pc[i] = "resolve" /\ \A j \in Ids \ {i} : pc'[j] = pc[j]
        /\ UNCHANGED <<request, open, hasty, outbox>>
    BY <1>6, ResolveFacts
  <2>2. QED
    BY <1>4, <2>1
<1>7. ASSUME NEW i \in Ids, Serve(i) PROVE WaitInv'
  <2>1. /\ pc[i] = "serve" /\ \A j \in Ids \ {i} : pc'[j] = pc[j]
        /\ UNCHANGED <<request, open, hasty, outbox>>
    BY <1>7, ServeFacts
  <2>2. QED
    BY <1>4, <2>1
<1>8. ASSUME NEW i \in Ids, Respond(i) \/ Skip(i) PROVE WaitInv'
  <2>1. pc[i] = "respond" /\ NextFrame(i) /\ UNCHANGED <<request, open, hasty>>
    BY <1>8 DEF Respond, Skip, clientVars
  <2>2. /\ i <= Len(request) /\ Head(frames[i]) = frames[i][1] /\ Head(frames[i]) \in Replies
        /\ Len(frames[i]) >= 1 /\ Len(frames[i]) \in Nat
        /\ pc'[i] = IF Len(frames[i]) = 1 THEN "done" ELSE "respond"
        /\ \A j \in Ids \ {i} : pc'[j] = pc[j]
    BY <2>1, NextFrameFacts
  <2>3. \A j \in 1..Len(request) : pc[j] = "done" => pc'[j] = "done"
    BY <1>3, <2>1, <2>2
  <2>4. \A k \in 1..Len(outbox) :
          /\ outbox[k].id <= Len(request)
          /\ request[outbox[k].id].ask.service = "WhoIs" \/ pc'[outbox[k].id] = "done"
    BY <1>1, <1>2, <2>3
  <2>5. CASE outbox' = outbox
    BY <2>1, <2>3, <2>4, <2>5, WaitSame
  <2>6. CASE outbox' = Append(outbox, Head(frames[i]))
    <3> DEFINE f == Head(frames[i])
    <3>1. f.id = i /\ (request[i].ask.service = "WhoIs" \/ pc'[i] = "done")
      BY <2>1, <2>2 DEF FramesInv
    <3>2. f \in Replies /\ outbox \in Seq(Replies) /\ outbox' = Append(outbox, f)
      BY <2>2, <2>6 DEF TypeOK
    <3> HIDE DEF f
    <3>3. /\ Len(outbox) \in Nat /\ Len(outbox') = Len(outbox) + 1
          /\ outbox'[Len(outbox) + 1] = f
      BY <3>2
    <3>4. \A k \in 1..Len(outbox) : outbox'[k] = outbox[k]
      BY <3>2
    <3>5. ASSUME NEW k \in 1..Len(outbox')
          PROVE  /\ outbox'[k].id <= Len(request)
                 /\ request[outbox'[k].id].ask.service = "WhoIs" \/ pc'[outbox'[k].id] = "done"
      <4>1. CASE k \in 1..Len(outbox)
        BY <2>4, <3>4, <4>1
      <4>2. CASE k = Len(outbox) + 1
        BY <2>2, <3>1, <3>3, <4>2
      <4>3. QED
        BY <3>3, <4>1, <4>2
    <3>6. QED
      BY <2>1, <2>3, <3>5, WaitSame
  <2>7. QED
    BY <1>8, <2>5, <2>6 DEF Respond, Skip
<1>9. ASSUME NEW c \in Clients, GiveUp(c) PROVE WaitInv'
  <2>1. /\ open[c] # 0 /\ open' = [open EXCEPT ![c] = 0] /\ hasty' = hasty \cup {c}
        /\ UNCHANGED <<request, pc, outbox>>
    BY <1>9 DEF GiveUp, taskVars
  <2>2. open'[c] = 0 /\ \A e \in Clients \ {c} : open'[e] = open[e]
    BY <2>1 DEF TypeOK
  <2>3. QED
    BY <2>1, <2>2 DEF WaitInv
<1>10. ASSUME UNCHANGED vars PROVE WaitInv'
  BY <1>10 DEF WaitInv, vars, taskVars, clientVars
<1>11. QED
  BY <1>5, <1>6, <1>7, <1>8, <1>9, <1>10, WaitSend, WaitTransmit DEF Next

\* A step that resolves no request naming a device keeps CacheInv.
LEMMA CacheSame ==
  ASSUME CacheInv, UNCHANGED cache, hasty \subseteq hasty',
         Len(request) \in Nat, Len(request') \in Nat, Len(request) <= Len(request'),
         \A j \in 1..Len(request) :
           /\ request'[j] = request[j]
           /\ Names(request[j].ask) /\ ~ NoDevice(request[j].ask) =>
                (pc'[j] \in Resolved <=> pc[j] \in Resolved),
         \A j \in 1..Len(request') : j > Len(request) => pc'[j] \notin Resolved
  PROVE  CacheInv'
<1>1. \A c : Known(c)' = Known(c)
  BY DEF Known
<1>2. \A c, j : j \in Known(c) => request'[j] = request[j]
  BY DEF Known
<1>3. ASSUME NEW c \in Clients \ hasty'
      PROVE  \/ Known(c)' = {} /\ cache'[c] = None
             \/ \E j \in Known(c)' :
                  (\A k \in Known(c)' : k <= j) /\ cache'[c] = Primary(request'[j].ask).inst
  <2>1. \/ Known(c) = {} /\ cache[c] = None
        \/ \E j \in Known(c) :
             (\A k \in Known(c) : k <= j) /\ cache[c] = Primary(request[j].ask).inst
    BY <1>3 DEF CacheInv
  <2>2. QED
    BY <1>1, <1>2, <2>1
<1>4. QED
  BY <1>3 DEF CacheInv

\* When a request of a patient client is being resolved, all the client's
\* earlier ones are resolved, and there are no later ones.
LEMMA ResolvedBefore ==
  ASSUME TypeOK, TaskInv, WaitInv, NEW i \in Ids, pc[i] = "resolve",
         request[i].src \notin hasty
  PROVE  /\ Known(request[i].src) = NamedBefore(request, request[i].src, i)
         /\ \A k \in Known(request[i].src) : k < i
<1> DEFINE c == request[i].src
<1>1. /\ i \in 1..Len(request) /\ c \in Clients
      /\ request[i].ask.service \notin Unconfirmed
  BY RequestFacts DEF TaskInv
<1>2. Len(request) \in Nat
  BY DEF TypeOK
<1> HIDE DEF c
<1>3. i = open[c]
  BY <1>1 DEF WaitInv, c
<1>4. ASSUME NEW k \in 1..Len(request), request[k].src = c, Names(request[k].ask), k # i
      PROVE  k < i /\ pc[k] = "done"
  <2>1. k \in Ids /\ k <= Len(request)
    BY <1>2, DispatcherAssumption DEF TypeOK, Ids
  <2>2. request[k].ask \in Asks
    BY <2>1, RequestFacts
  <2>3. request[k].ask.service \notin Unconfirmed
    BY <1>4, <2>2, NamesDevice
  <2>4. (open[c] # 0 => k <= open[c]) /\ (k = open[c] \/ pc[k] = "done")
    BY <1>1, <1>4, <2>3 DEF WaitInv, c
  <2>5. QED
    BY <1>1, <1>3, <1>4, <2>1, <2>4
<1>5. pc[i] \notin Resolved
  BY DEF Resolved
<1>6. \A k \in Known(c) : k < i
  BY <1>4, <1>5 DEF Known
<1>7. Known(c) \subseteq NamedBefore(request, c, i)
  BY <1>1, <1>6 DEF Known, NamedBefore
<1>8. NamedBefore(request, c, i) \subseteq Known(c)
  <2>1. \A k \in 1..i - 1 : k \in 1..Len(request) /\ k # i
    BY <1>1, <1>2
  <2>2. QED
    BY <1>4, <2>1 DEF Known, NamedBefore, Resolved
<1>9. QED
  BY <1>6, <1>7, <1>8 DEF c

\* resolve_device remembers the device that is named.
LEMMA CacheResolve ==
  ASSUME TypeOK, TaskInv, WaitInv, CacheInv, NEW i \in Ids, Resolve(i)
  PROVE  CacheInv'
<1> DEFINE a == request[i].ask
           src == request[i].src
<1>1. /\ pc[i] = "resolve" /\ i <= Len(request)
      /\ \A j \in Ids \ {i} : pc'[j] = pc[j]
      /\ IF NoDevice(a) THEN pc'[i] = "failed" /\ UNCHANGED cache
                        ELSE pc'[i] = "serve" /\ cache' = Remember(i)
      /\ UNCHANGED <<request, hasty>>
  BY ResolveFacts
<1>a. i \in 1..Len(request) /\ src \in Clients
  BY <1>1, RequestFacts
<1>b. Len(request) \in Nat /\ 1..Len(request) \subseteq Ids
  BY DispatcherAssumption DEF TypeOK, Ids
<1>2. /\ Len(request) \in Nat /\ i \in 1..Len(request) /\ src \in Clients
      /\ 1..Len(request) \subseteq Ids
  BY <1>a, <1>b
<1>3. CASE NoDevice(a) \/ ~ Names(a)
  <2>1. UNCHANGED cache
    BY <1>1, <1>3 DEF Remember
  <2>2. \A j \in 1..Len(request) :
          Names(request[j].ask) /\ ~ NoDevice(request[j].ask) =>
            (pc'[j] \in Resolved <=> pc[j] \in Resolved)
    BY <1>1, <1>2, <1>3
  <2>3. QED
    BY <1>1, <1>2, <2>1, <2>2, CacheSame
<1>4. CASE ~ NoDevice(a) /\ Names(a)
  <2> PICK c0 \in Clients : c0 = request[i].src
    BY <1>2
  <2>1. pc'[i] = "serve" /\ cache' = [cache EXCEPT ![c0] = Primary(a).inst]
    BY <1>1, <1>4 DEF Remember
  <2> HIDE DEF a, src
  <2>2. cache'[c0] = Primary(a).inst /\ \A c \in Clients \ {c0} : cache'[c] = cache[c]
    BY <1>2, <2>1 DEF TypeOK
  <2>3. ASSUME NEW c \in (Clients \ hasty) \ {c0}
        PROVE  \/ Known(c)' = {} /\ cache'[c] = None
               \/ \E j \in Known(c)' :
                    (\A k \in Known(c)' : k <= j) /\ cache'[c] = Primary(request'[j].ask).inst
    <3>1. Known(c)' = Known(c)
      BY <1>1, <1>2, <2>3 DEF Known
    <3>2. QED
      BY <1>1, <2>2, <2>3, <3>1 DEF CacheInv
  <2>4. ASSUME c0 \notin hasty
        PROVE  /\ i \in Known(c0)'
               /\ \A k \in Known(c0)' : k <= i
    <3>1. \A k \in Known(c0) : k < i
      BY <1>1, <2>4, ResolvedBefore
    <3>2. i \in Known(c0)'
      BY <1>1, <1>2, <1>4, <2>1 DEF Known, Resolved, a
    <3>3. Known(c0)' \subseteq Known(c0) \cup {i}
      BY <1>1, <1>2 DEF Known
    <3>4. QED
      BY <1>2, <3>1, <3>2, <3>3
  <2>5. QED
    BY <1>1, <2>2, <2>3, <2>4 DEF CacheInv, a
<1>5. QED
  BY <1>3, <1>4

\* Every step keeps CacheInv.
LEMMA CacheKept ==
  ASSUME TypeOK, TaskInv, WaitInv, CacheInv, [Next]_vars
  PROVE  CacheInv'
<1>1. Len(request) \in Nat /\ 1..Len(request) \subseteq Ids
  BY DispatcherAssumption DEF TypeOK, Ids
<1>2. \A i \in Ids : pc[i] \in Resolved => i \in 1..Len(request)
  BY RequestFacts DEF TaskInv, Resolved
<1>3. ASSUME UNCHANGED <<cache, request>>, hasty \subseteq hasty',
             \A j \in 1..Len(request) : Names(request[j].ask) /\ ~ NoDevice(request[j].ask) =>
               (pc'[j] \in Resolved <=> pc[j] \in Resolved)
      PROVE  CacheInv'
  BY <1>1, <1>3, CacheSame
<1>4. ASSUME NEW c \in Clients, NEW a \in Asks, Send(c, a) PROVE CacheInv'
  <2> DEFINE id == Len(request) + 1
  <2>1. /\ pc[id] = "none" /\ Len(request') = id /\ id \in Ids
        /\ \A j \in 1..Len(request) : request'[j] = request[j]
        /\ \A j \in Ids : \/ pc'[j] = pc[j]
                          \/ pc[j] = "none" /\ j = id /\ pc'[j] = "queued"
                          \/ pc[j] = "queued" /\ pc'[j] = "lost"
    BY <1>4, SendFacts
  <2>2. UNCHANGED <<cache, hasty>>
    BY <1>4 DEF Send
  <2>3. \A j \in Ids : pc'[j] \in Resolved <=> pc[j] \in Resolved
    BY <2>1 DEF Resolved
  <2>4. \A j \in 1..Len(request') : j > Len(request) => pc'[j] \notin Resolved
    <3>1. \A j \in 1..Len(request') : j > Len(request) => j = id
      BY <1>1, <2>1
    <3>2. pc'[id] \notin Resolved
      BY <2>1, <2>3 DEF Resolved
    <3>3. QED
      BY <3>1, <3>2
  <2>5. Len(request') \in Nat /\ Len(request) <= Len(request')
    BY <1>1, <2>1
  <2> HIDE DEF id
  <2>6. QED
    BY <1>1, <2>1, <2>2, <2>3, <2>4, <2>5, CacheSame
<1>5. ASSUME Receive PROVE CacheInv'
  <2>1. PICK i \in Ids :
          /\ i <= Len(request) /\ pc[i] = "queued"
          /\ pc'[i] = CASE request[i].ask.service \in {"IAm", "Undecodable"} -> "ignored"
                        [] request[i].ask.service = "WhoIs" -> "respond"
                        [] OTHER -> "resolve"
          /\ \A j \in Ids \ {i} : pc'[j] = pc[j]
    BY <1>5, ReceiveFacts
  <2>2. UNCHANGED <<cache, request, hasty>>
    BY <1>5 DEF Receive, clientVars
  <2>3. request[i].ask \in Asks
    BY <2>1, RequestFacts
  <2>4. Names(request[i].ask) => request[i].ask.service # "WhoIs"
    BY <2>3, NamesDevice DEF Unconfirmed
  <2>5. Names(request[i].ask) => pc'[i] \notin Resolved
    BY <2>1, <2>4 DEF Resolved
  <2>6. pc[i] \notin Resolved
    BY <2>1 DEF Resolved
  <2>7. QED
    BY <1>1, <1>3, <2>1, <2>2, <2>5, <2>6
<1>6. ASSUME NEW i \in Ids, Serve(i) PROVE CacheInv'
  <2>1. /\ pc[i] = "serve" /\ (pc'[i] = "serve" \/ pc'[i] = "respond")
        /\ \A j \in Ids \ {i} : pc'[j] = pc[j]
        /\ UNCHANGED <<cache, request, hasty>>
    BY <1>6, ServeFacts
  <2>2. pc[i] \in Resolved /\ pc'[i] \in Resolved
    BY <2>1 DEF Resolved
  <2>3. QED
    BY <1>1, <1>3, <2>1, <2>2
<1>7. ASSUME NEW i \in Ids, Respond(i) \/ Skip(i) PROVE CacheInv'
  <2>1. pc[i] = "respond" /\ NextFrame(i) /\ UNCHANGED <<cache, request, hasty>>
    BY <1>7 DEF Respond, Skip, clientVars
  <2>2. /\ pc'[i] = "respond" \/ pc'[i] = "done"
        /\ \A j \in Ids \ {i} : pc'[j] = pc[j]
    BY <2>1 DEF NextFrame, TypeOK
  <2>3. pc[i] \in Resolved /\ pc'[i] \in Resolved
    BY <2>1, <2>2 DEF Resolved
  <2>4. QED
    BY <1>1, <1>3, <2>1, <2>2, <2>3
<1>8. ASSUME Transmit PROVE CacheInv'
  BY <1>3, <1>8, TransmitFacts
<1>9. ASSUME NEW c \in Clients, GiveUp(c) PROVE CacheInv'
  <2>1. UNCHANGED <<cache, request, pc>> /\ hasty \subseteq hasty'
    BY <1>9 DEF GiveUp, taskVars
  <2>2. QED
    BY <1>3, <2>1
<1>10. ASSUME UNCHANGED vars PROVE CacheInv'
  <2>1. UNCHANGED <<cache, request, pc, hasty>>
    BY <1>10 DEF vars, taskVars, clientVars
  <2>2. QED
    BY <1>3, <2>1
<1>11. QED
  BY <1>4, <1>5, <1>6, <1>7, <1>8, <1>9, <1>10, CacheResolve DEF Next

\* A step that resolves nothing keeps SessionKept, whatever is appended to the
\* requests.
LEMMA SessionSame ==
  ASSUME SessionKept, UNCHANGED <<order, device>>, hasty \subseteq hasty',
         Len(request) \in Nat, Len(request') \in Nat,
         \A j \in 1..Len(request) : request'[j] = request[j],
         \A j \in 1..Len(request') : j > Len(request) => device[j] = None
  PROVE  SessionKept'
<1> SUFFICES ASSUME NEW i \in 1..Len(request'), device'[i] # None,
                    request'[i].src \notin hasty'
             PROVE  device'[i] = Addressed(request', order', i)
  BY DEF SessionKept
<1>1. i \in 1..Len(request) /\ i \in Nat /\ i >= 1
  OBVIOUS
<1>2. \A k \in 1..i : request'[k] = request[k]
  BY <1>1
<1>3. Addressed(request', order, i) = Addressed(request, order, i)
  BY <1>1, <1>2, AddressedSame
<1>4. device[i] = Addressed(request, order, i)
  BY <1>1 DEF SessionKept
<1>5. QED
  BY <1>3, <1>4

\* resolve_device finds the device its client named last.
LEMMA SessionResolve ==
  ASSUME TypeOK, TaskInv, WaitInv, CacheInv, SessionKept, NEW i \in Ids, Resolve(i)
  PROVE  SessionKept'
<1>1. /\ pc[i] = "resolve" /\ i <= Len(request)
      /\ \A j \in Ids \ {i} : device'[j] = device[j]
      /\ IF NoDevice(request[i].ask) THEN UNCHANGED device
                                     ELSE device'[i] = DeviceOf(i)
      /\ UNCHANGED <<order, request, hasty>>
  BY ResolveFacts
<1>2. i \in 1..Len(request) /\ request[i].src \in Clients
  BY <1>1, RequestFacts
<1>3. Len(request) \in Nat /\ 1..Len(request) \subseteq Ids
  BY DispatcherAssumption DEF TypeOK, Ids
<1>4. ASSUME ~ NoDevice(request[i].ask), request[i].src \notin hasty
      PROVE  DeviceOf(i) = Addressed(request, order, i)
  <2> DEFINE a == request[i].ask
             c == request[i].src
             named == NamedBefore(request, c, i)
  <2>1. Known(c) = named
    BY <1>1, <1>4, ResolvedBefore
  <2>2. \/ named = {} /\ cache[c] = None
        \/ \E j \in named : /\ \A k \in named : k <= j
                            /\ cache[c] = Primary(request[j].ask).inst
    BY <1>2, <1>4, <2>1 DEF CacheInv
  <2>3. \A j \in named : Primary(request[j].ask).inst # None
    BY DispatcherAssumption DEF NamedBefore, NoDevice
  <2>4. i \in Nat /\ i >= 1
    BY <1>2
  <2>5. /\ Names(a) => Addressed(request, order, i) = Primary(a).inst
        /\ ~ Names(a) /\ (a.service = "SubscribeCov" \/ named = {}) =>
             Addressed(request, order, i) = order[1]
        /\ ~ Names(a) /\ a.service # "SubscribeCov" =>
             \A j \in named : (\A k \in named : k <= j) =>
               Addressed(request, order, i) = Primary(request[j].ask).inst
    BY <2>4, AddressedIs
  <2>6. DeviceOf(i) = IF Names(a) THEN Primary(a).inst
                      ELSE IF a.service # "SubscribeCov" /\ cache[c] # None THEN cache[c]
                      ELSE order[1]
    BY DEF DeviceOf
  <2> HIDE DEF a, c, named
  <2>7. QED
    BY <2>2, <2>3, <2>5, <2>6
<1>5. ASSUME NEW j \in 1..Len(request'), device'[j] # None, request'[j].src \notin hasty'
      PROVE  device'[j] = Addressed(request', order', j)
  <2>1. j \in 1..Len(request) /\ j \in Ids
    BY <1>1, <1>3, <1>5
  <2>2. CASE j = i /\ ~ NoDevice(request[i].ask)
    BY <1>1, <1>4, <1>5, <2>2
  <2>3. CASE j # i \/ NoDevice(request[i].ask)
    <3>1. device'[j] = device[j]
      BY <1>1, <2>1, <2>3
    <3>2. QED
      BY <1>1, <1>5, <2>1, <3>1 DEF SessionKept
  <2>4. QED
    BY <2>2, <2>3
<1>6. QED
  BY <1>5 DEF SessionKept

\* Every step keeps SessionKept.
LEMMA SessionStep ==
  ASSUME TypeOK, TaskInv, WaitInv, CacheInv, SessionKept, [Next]_vars
  PROVE  SessionKept'
<1>1. Len(request) \in Nat
  BY DEF TypeOK
<1>2. ASSUME UNCHANGED <<order, device, request>>, hasty \subseteq hasty'
      PROVE  SessionKept'
  BY <1>1, <1>2, SessionSame
<1>3. ASSUME NEW c \in Clients, NEW a \in Asks, Send(c, a) PROVE SessionKept'
  <2> DEFINE id == Len(request) + 1
  <2>1. /\ pc[id] = "none" /\ Len(request') = id /\ id \in Ids
        /\ \A j \in 1..Len(request) : request'[j] = request[j]
    BY <1>3, SendFacts
  <2>2. UNCHANGED <<order, device, hasty>>
    BY <1>3 DEF Send
  <2>3. device[id] = None
    BY <2>1 DEF TaskInv, Resolved
  <2>4. \A j \in 1..Len(request') : j > Len(request) => j = id
    BY <1>1, <2>1
  <2>5. Len(request') \in Nat
    BY <1>1, <2>1
  <2> HIDE DEF id
  <2>6. QED
    BY <1>1, <2>1, <2>2, <2>3, <2>4, <2>5, SessionSame
<1>4. ASSUME Receive \/ Transmit PROVE SessionKept'
  BY <1>2, <1>4 DEF Receive, Transmit, taskVars, clientVars
<1>5. ASSUME NEW i \in Ids, Serve(i) \/ Respond(i) \/ Skip(i) PROVE SessionKept'
  BY <1>2, <1>5 DEF Serve, Respond, Skip, clientVars
<1>6. ASSUME NEW c \in Clients, GiveUp(c) PROVE SessionKept'
  BY <1>2, <1>6 DEF GiveUp, taskVars
<1>7. ASSUME UNCHANGED vars PROVE SessionKept'
  BY <1>2, <1>7 DEF vars, taskVars, clientVars
<1>8. QED
  BY <1>3, <1>4, <1>5, <1>6, <1>7, SessionResolve DEF Next

\* A client that waits for every answer is always served by the device it
\* named last (resolve_device, source_device_map): SessionKept.
THEOREM SessionsAreKept == Spec => []SessionKept
<1> DEFINE IInv == TypeOK /\ TaskInv /\ FramesInv /\ WaitInv /\ CacheInv /\ SessionKept
<1>1. Init => IInv
  <2> SUFFICES ASSUME Init PROVE IInv
    OBVIOUS
  <2>1. TypeOK /\ TaskInv
    BY StartTypes
  <2>2. /\ request = <<>> /\ outbox = <<>> /\ hasty = {} /\ Len(request) = 0
        /\ Len(outbox) = 0 /\ \A c \in Clients : open[c] = 0 /\ cache[c] = None
        /\ \A i \in Ids : pc[i] = "none" /\ frames[i] = <<>>
    BY DEF Init
  <2>3. FramesInv
    BY <2>2 DEF FramesInv
  <2>4. WaitInv
    BY <2>2 DEF WaitInv
  <2>5. \A c \in Clients : Known(c) = {}
    BY <2>2 DEF Known
  <2>6. CacheInv
    BY <2>2, <2>5 DEF CacheInv
  <2>7. SessionKept
    BY <2>2 DEF SessionKept
  <2>8. QED
    BY <2>1, <2>3, <2>4, <2>6, <2>7
<1>2. IInv /\ [Next]_vars => IInv'
  BY TypesKept, StutterTypes, WaitKept, CacheKept, SessionStep
<1>3. IInv => SessionKept
  OBVIOUS
<1>4. QED
  BY <1>1, <1>2, <1>3, PTL DEF Spec

-----------------------------------------------------------------------------
(* What answers tell.                                                      *)

\* The objects a request names.
LEMMA ObjectsFacts ==
  ASSUME TypeOK, NEW i \in Ids, i <= Len(request)
  PROVE  /\ request[i].ask.objects \in Seq(Targets)
         /\ request[i].ask.service \in Services
         /\ request[i].ask.service = "WriteProperty" => Len(request[i].ask.objects) = 1
<1>1. request[i].ask \in Asks
  BY RequestFacts
<1>2. QED
  BY <1>1, DispatcherAssumption DEF Targets

\* A task that goes on with neither its list nor its frames.
LEMMA ContentSame ==
  ASSUME NEW j \in Ids, ContentOf(j), results'[j] = results[j],
         pc[j] \notin Resolved => pc'[j] \notin Resolved,
         pc[j] \in Resolved =>
           /\ pc'[j] = pc[j] /\ request'[j] = request[j] /\ todo'[j] = todo[j]
           /\ frames'[j] = frames[j] /\ device'[j] = device[j]
  PROVE  ContentOf(j)'
<1>1. CASE pc[j] \notin Resolved
  <2>1. results'[j] = <<>> /\ pc'[j] \notin Resolved
    BY <1>1 DEF ContentOf
  <2> QED BY <2>1 DEF ContentOf, Resolved, Sending
<1>2. CASE pc[j] \in Resolved
  BY <1>2 DEF ContentOf, Content
<1> QED BY <1>1, <1>2

\* I-Am frames tell nothing of objects.
LEMMA IAmsTell ==
  ASSUME TypeOK, NEW i \in Ids, i <= Len(request), NEW k \in 1..Len(IAms(i))
  PROVE  IAms(i)[k].results = <<>>
<1>1. k \in 1..2 * Len(order)
  BY IAmsFacts
<1> QED BY <1>1 DEF IAms, Frame

\* Receiving.
LEMMA ContentReceive ==
  ASSUME TypeOK, TaskInv, ContentInv, Receive, NEW j \in Ids
  PROVE  ContentOf(j)'
<1> DEFINE i == Head(inbox)
           s == request[i].ask.service
<1>0. UNCHANGED <<results, request, todo, device>>
  BY DEF Receive
<1>1. /\ i \in Ids /\ i <= Len(request) /\ pc[i] = "queued"
      /\ pc'[i] = CASE s \in {"IAm", "Undecodable"} -> "ignored"
                    [] s = "WhoIs" -> "respond"
                    [] OTHER -> "resolve"
      /\ \A k \in Ids \ {i} : pc'[k] = pc[k] /\ frames'[k] = frames[k]
      /\ frames'[i] = IF s = "WhoIs" THEN IAms(i) ELSE frames[i]
  BY ReceiveFacts
<1>2. ContentOf(j)
  BY DEF ContentInv
<1>3. CASE j # i
  BY <1>0, <1>1, <1>2, <1>3, ContentSame
<1>4. CASE j = i
  <2> HIDE DEF i
  <2>1. results[i] = <<>>
    BY <1>1, <1>2, <1>4 DEF ContentOf, Resolved
  <2>2. CASE s # "WhoIs"
    <3>1. pc'[i] \notin Resolved
      BY <1>1, <2>2 DEF Resolved
    <3> QED BY <1>0, <1>4, <2>1, <3>1 DEF ContentOf, Resolved, Sending
  <2>3. CASE s = "WhoIs"
    <3>1. pc'[i] = "respond" /\ frames'[i] = IAms(i)
      BY <1>1, <2>3
    <3>2. \A k \in 1..Len(IAms(i)) : IAms(i)[k].results = <<>>
      BY <1>1, IAmsTell
    <3> QED BY <1>0, <1>4, <2>3, <3>1, <3>2 DEF ContentOf, Resolved, Sending, Content
  <2> QED BY <2>2, <2>3
<1> QED BY <1>3, <1>4

\* Resolving.
LEMMA ContentResolve ==
  ASSUME TypeOK, TaskInv, ContentInv, NEW i \in Ids, Resolve(i)
  PROVE  /\ todo' \in [Ids -> Seq(Targets)]
         /\ \A j \in Ids : ContentOf(j)'
<1>1. /\ pc[i] = "resolve" /\ i <= Len(request)
      /\ \A j \in Ids \ {i} : pc'[j] = pc[j] /\ device'[j] = device[j]
      /\ UNCHANGED <<request, results, frames>>
      /\ pc'[i] \in {"failed", "serve"}
  BY ResolveFacts
<1>2. request[i].ask.objects \in Seq(Targets)
  BY <1>1, ObjectsFacts
<1>3. \/ UNCHANGED todo /\ pc'[i] = "failed"
      \/ todo' = [todo EXCEPT ![i] = request[i].ask.objects]
  BY DEF Resolve, TypeOK
<1>4. todo \in [Ids -> Seq(Targets)]
  BY DEF ContentInv
<1>5. /\ todo' \in [Ids -> Seq(Targets)]
      /\ \A j \in Ids \ {i} : todo'[j] = todo[j]
      /\ pc'[i] = "serve" => todo'[i] = request[i].ask.objects
  BY <1>2, <1>3, <1>4
<1>6. ASSUME NEW j \in Ids \ {i} PROVE ContentOf(j)'
  <2>1. ContentOf(j)
    BY DEF ContentInv
  <2> QED BY <1>1, <1>5, <2>1, ContentSame
<1>7. ContentOf(i)'
  <2>1. results[i] = <<>>
    BY <1>1 DEF ContentInv, ContentOf, Resolved
  <2> DEFINE objects == request[i].ask.objects
  <2>2. Len(objects) \in Nat /\ Len(results[i]) = 0
    BY <1>2, <2>1
  <2>3. Rest(objects, results[i], objects)
    BY <2>2 DEF Rest
  <2> HIDE DEF objects
  <2>4. pc'[i] = "serve" => todo'[i] = objects /\ request'[i].ask.objects = objects
    BY <1>1, <1>5 DEF objects
  <2> QED BY <1>1, <2>1, <2>2, <2>3, <2>4 DEF ContentOf, Sending
<1> QED BY <1>5, <1>6, <1>7

\* What the next finding does.
LEMMA RestStep ==
  ASSUME NEW T, NEW O, NEW t \in Seq(T), NEW list \in Seq(T), NEW r \in Seq(O), NEW x \in O,
         Rest(t, r, list), t # <<>>
  PROVE  /\ Len(r) < Len(list) /\ Head(t) = list[Len(r) + 1] /\ Head(t) \in T
         /\ Tail(t) \in Seq(T)
         /\ Len(t) > 1 => Rest(Tail(t), Append(r, x), list) /\ Len(Tail(t)) > 0
         /\ ~ (Len(t) > 1) => Len(Append(r, x)) = Len(list)
<1>1. Len(t) \in Nat /\ Len(t) >= 1 /\ Head(t) = t[1] /\ Head(t) \in T /\ Tail(t) \in Seq(T)
  OBVIOUS
<1>2. Len(r) \in Nat /\ Len(list) \in Nat /\ Len(Append(r, x)) = Len(r) + 1
  OBVIOUS
<1>3. Len(r) + Len(t) = Len(list) /\ \A k \in 1..Len(t) : t[k] = list[Len(r) + k]
  BY DEF Rest
<1>4. Len(r) < Len(list) /\ t[1] = list[Len(r) + 1]
  BY <1>1, <1>2, <1>3
<1>5. Len(Tail(t)) = Len(t) - 1 /\ \A k \in 1..Len(t) - 1 : Tail(t)[k] = t[k + 1]
  OBVIOUS
<1> DEFINE u == Tail(t)
           q == Append(r, x)
<1>6. Len(u) = Len(t) - 1 /\ Len(q) = Len(r) + 1 /\ \A k \in 1..Len(t) - 1 : u[k] = t[k + 1]
  BY <1>2, <1>5
<1> HIDE DEF u, q
<1>7. ASSUME NEW k \in 1..Len(u) PROVE u[k] = list[Len(q) + k]
  <2>1. k \in 1..Len(t) - 1 /\ k + 1 \in 1..Len(t)
    BY <1>1, <1>6
  <2>2. t[k + 1] = list[Len(r) + (k + 1)] /\ Len(r) + (k + 1) = Len(q) + k
    BY <1>2, <1>3, <1>6, <2>1
  <2> QED BY <1>6, <2>1, <2>2
<1>8. Len(q) + Len(u) = Len(list) /\ (Len(t) > 1 => Len(u) > 0)
      /\ (~ (Len(t) > 1) => Len(q) = Len(list))
  <2>1. Len(r) + Len(t) = Len(list)
    BY <1>3
  <2> DEFINE nt == Len(t)
             nr == Len(r)
             nl == Len(list)
  <2>2. nt \in Nat /\ nt >= 1 /\ nr \in Nat /\ nl \in Nat /\ nr + nt = nl
    BY <1>1, <1>2, <2>1
  <2>3. Len(u) = nt - 1 /\ Len(q) = nr + 1
    BY <1>6
  <2> HIDE DEF nt, nr, nl
  <2>4. /\ (nr + 1) + (nt - 1) = nl /\ (nt > 1 => nt - 1 > 0)
        /\ (~ (nt > 1) => nr + 1 = nl)
    BY <2>2
  <2>5. Len(q) + Len(u) = nl /\ (nt > 1 => Len(u) > 0) /\ (~ (nt > 1) => Len(q) = nl)
    BY <2>3, <2>4
  <2> QED BY <2>5 DEF nt, nl
<1>9. Rest(u, q, list)
  BY <1>7, <1>8 DEF Rest
<1> QED BY <1>1, <1>4, <1>8, <1>9 DEF u, q

\* What serving does with the list.
LEMMA ServeList ==
  ASSUME TypeOK, TaskInv, ContentInv, NEW i \in Ids, Serve(i)
  PROVE  LET o == Head(todo[i])
             out == Outcome(device[i], o, request[i].ask.service)
             objects == request[i].ask.objects
         IN /\ todo[i] \in Seq(Targets) /\ objects \in Seq(Targets)
            /\ results[i] \in Seq(Outcomes)
            /\ todo' \in [Ids -> Seq(Targets)]
            /\ \A j \in Ids \ {i} : todo'[j] = todo[j] /\ results'[j] = results[j]
            /\ todo[i] = <<>> =>
                 results'[i] = results[i] /\ Len(results[i]) = Len(objects)
            /\ todo[i] # <<>> =>
                 /\ out \in Outcomes /\ results'[i] = Append(results[i], out)
                 /\ Len(results[i]) < Len(objects)
                 /\ o = objects[Len(results[i]) + 1] /\ o \in Targets
            /\ IF Len(todo[i]) > 1
                 THEN todo'[i] = Tail(todo[i]) /\ pc'[i] = "serve"
                 ELSE /\ pc'[i] = "respond"
                      /\ frames'[i] = <<Frame(request[i].src, i, device[i], results'[i])>>
<1> DEFINE o == Head(todo[i])
           out == Outcome(device[i], o, request[i].ask.service)
           objects == request[i].ask.objects
<1>1. pc[i] = "serve" /\ i <= Len(request) /\ device[i] \in Devices
  BY ServeFacts
<1>2. objects \in Seq(Targets) /\ todo \in [Ids -> Seq(Targets)] /\ results[i] \in Seq(Outcomes)
  BY <1>1, ObjectsFacts DEF ContentInv, TypeOK
<1>3. Rest(todo[i], results[i], objects) /\ (Len(objects) > 0 => Len(todo[i]) > 0)
  BY <1>1 DEF ContentInv, ContentOf
<1>4. out \in Outcomes
  BY <1>1, OutcomeType
<1>5. todo[i] \in Seq(Targets)
  BY <1>2
<1> HIDE DEF out, objects
<1> DEFINE read == IF todo[i] = <<>> THEN results[i] ELSE Append(results[i], out)
<1>6. /\ results' = [results EXCEPT ![i] = read]
      /\ IF Len(todo[i]) > 1
           THEN todo' = [todo EXCEPT ![i] = Tail(todo[i])] /\ UNCHANGED <<pc, frames>>
           ELSE /\ todo' = [todo EXCEPT ![i] = <<>>]
                /\ frames' = [frames EXCEPT ![i] = <<Frame(request[i].src, i, device[i], read)>>]
                /\ pc' = [pc EXCEPT ![i] = "respond"]
  BY <1>2 DEF Serve, MoreObjects, out
<1>7. /\ \A j \in Ids \ {i} : todo'[j] = todo[j] /\ results'[j] = results[j]
      /\ results'[i] = read
  BY <1>2, <1>6 DEF TypeOK
<1>8. Tail(todo[i]) \in Seq(Targets) \/ todo[i] = <<>>
  BY <1>5
<1>9. todo' \in [Ids -> Seq(Targets)]
  <2>1. Len(todo[i]) > 1 => Tail(todo[i]) \in Seq(Targets)
    BY <1>5
  <2>2. <<>> \in Seq(Targets)
    OBVIOUS
  <2> QED BY <1>2, <1>6, <2>1, <2>2
<1>10. todo[i] = <<>> => Len(results[i]) = Len(objects)
  BY <1>2, <1>3 DEF Rest
<1>11. todo[i] # <<>> =>
         /\ Len(results[i]) < Len(objects)
         /\ o = objects[Len(results[i]) + 1] /\ o \in Targets
  BY <1>2, <1>3, <1>4, <1>5, RestStep
<1> HIDE DEF read
<1>12. IF Len(todo[i]) > 1
         THEN todo'[i] = Tail(todo[i]) /\ pc'[i] = "serve"
         ELSE /\ pc'[i] = "respond"
              /\ frames'[i] = <<Frame(request[i].src, i, device[i], read)>>
  BY <1>1, <1>2, <1>6 DEF TypeOK
<1>13. /\ todo[i] = <<>> => read = results[i]
       /\ todo[i] # <<>> => read = Append(results[i], out)
  BY DEF read
<1> QED
  BY <1>2, <1>4, <1>5, <1>7, <1>9, <1>10, <1>11, <1>12, <1>13 DEF out, objects

\* Serving.
LEMMA ContentServe ==
  ASSUME TypeOK, TaskInv, ContentInv, NEW i \in Ids, Serve(i)
  PROVE  /\ todo' \in [Ids -> Seq(Targets)]
         /\ \A j \in Ids : ContentOf(j)'
<1> DEFINE o == Head(todo[i])
           out == Outcome(device[i], o, request[i].ask.service)
           objects == request[i].ask.objects
<1>1. /\ todo[i] \in Seq(Targets) /\ objects \in Seq(Targets) /\ results[i] \in Seq(Outcomes)
      /\ todo' \in [Ids -> Seq(Targets)]
      /\ \A j \in Ids \ {i} : todo'[j] = todo[j] /\ results'[j] = results[j]
      /\ todo[i] = <<>> => results'[i] = results[i] /\ Len(results[i]) = Len(objects)
      /\ todo[i] # <<>> =>
           out \in Outcomes /\ results'[i] = Append(results[i], out)
      /\ IF Len(todo[i]) > 1
           THEN todo'[i] = Tail(todo[i]) /\ pc'[i] = "serve"
           ELSE /\ pc'[i] = "respond"
                /\ frames'[i] = <<Frame(request[i].src, i, device[i], results'[i])>>
  BY ServeList
<1>2. /\ pc[i] = "serve" /\ device[i] \in Devices
      /\ \A j \in Ids \ {i} : pc'[j] = pc[j] /\ frames'[j] = frames[j]
      /\ UNCHANGED <<request, device>>
  BY ServeFacts
<1>3. ASSUME NEW j \in Ids \ {i} PROVE ContentOf(j)'
  <2>1. ContentOf(j)
    BY DEF ContentInv
  <2> QED BY <1>1, <1>2, <2>1, ContentSame
<1>4. ContentOf(i)'
  <2>1. Rest(todo[i], results[i], objects) /\ objects \in Seq(Targets)
    BY <1>1, <1>2 DEF ContentInv, ContentOf
  <2> HIDE DEF out, objects
  <2>2. request'[i].ask.objects = objects
    BY <1>2 DEF objects
  <2>3. todo[i] # <<>> => out \in Outcomes /\ results'[i] = Append(results[i], out)
    BY <1>1
  <2>4. CASE Len(todo[i]) > 1
    <3>1. todo[i] # <<>>
      BY <2>4
    <3>2. Rest(Tail(todo[i]), results'[i], objects) /\ Len(Tail(todo[i])) > 0
      <4>1. /\ todo[i] \in Seq(Targets) /\ results[i] \in Seq(Outcomes) /\ out \in Outcomes
            /\ results'[i] = Append(results[i], out)
        BY <1>1, <2>3, <3>1
      <4>2. Rest(Tail(todo[i]), Append(results[i], out), objects) /\ Len(Tail(todo[i])) > 0
        BY <2>1, <2>4, <3>1, <4>1, RestStep
      <4> QED BY <4>1, <4>2
    <3>3. pc'[i] = "serve" /\ todo'[i] = Tail(todo[i])
      BY <1>1, <2>4
    <3> QED BY <2>2, <3>2, <3>3 DEF ContentOf, Resolved, Sending
  <2>5. CASE ~ (Len(todo[i]) > 1)
    <3>1. pc'[i] = "respond" /\ frames'[i] = <<Frame(request[i].src, i, device[i], results'[i])>>
      BY <1>1, <2>5
    <3>2. Len(results'[i]) = Len(objects)
      <4>1. CASE todo[i] = <<>>
        BY <1>1, <4>1 DEF objects
      <4>2. CASE todo[i] # <<>>
        BY <1>1, <2>1, <2>3, <2>5, <4>2, RestStep
      <4> QED BY <4>1, <4>2
    <3>3. request[i].ask.service # "WhoIs"
      BY <1>2 DEF TaskInv, Unconfirmed
    <3>4. device'[i] # None
      BY <1>2, DispatcherAssumption
    <3>5. \A k \in 1..Len(frames'[i]) : frames'[i][k].results = results'[i]
      BY <3>1 DEF Frame
    <3> QED BY <1>2, <2>2, <3>1, <3>2, <3>3, <3>4, <3>5 DEF ContentOf, Resolved, Content
  <2> QED BY <2>4, <2>5
<1> QED BY <1>1, <1>3, <1>4

\* Sending or skipping a frame.
LEMMA ContentNextFrame ==
  ASSUME TypeOK, TaskInv, FramesInv, ContentInv, NEW i \in Ids, Respond(i) \/ Skip(i), NEW j \in Ids
  PROVE  ContentOf(j)'
<1>0. pc[i] = "respond" /\ NextFrame(i) /\ UNCHANGED <<request, device, todo, results>>
  BY DEF Respond, Skip
<1>1. /\ frames'[i] = Tail(frames[i])
      /\ \A k \in 1..Len(frames'[i]) :
           frames'[i][k] = frames[i][k + 1] /\ k + 1 \in 1..Len(frames[i])
      /\ pc'[i] \in {"done", "respond"}
      /\ \A k \in Ids \ {i} : pc'[k] = pc[k] /\ frames'[k] = frames[k]
  BY <1>0, NextFrameFacts
<1>2. ContentOf(j)
  BY DEF ContentInv
<1>3. CASE j # i
  BY <1>0, <1>1, <1>2, <1>3, ContentSame
<1>4. CASE j = i
  <2>1. \A k \in 1..Len(frames[i]) : frames[i][k].results = Content(i)
    BY <1>0, <1>2, <1>4 DEF ContentOf
  <2>2. Content(i)' = Content(i)
    BY <1>0 DEF Content
  <2>3. \A k \in 1..Len(frames'[i]) : frames'[i][k].results = Content(i)'
    BY <1>1, <2>1, <2>2
  <2>4. request[i].ask.service # "WhoIs" =>
          device[i] # None /\ Len(results[i]) = Len(request[i].ask.objects)
    BY <1>0, <1>2, <1>4 DEF ContentOf, Sending
  <2> QED BY <1>0, <1>1, <1>4, <2>3, <2>4 DEF ContentOf, Resolved
<1> QED BY <1>3, <1>4

\* The tasks and their lists in every step.
LEMMA ContentTasks ==
  ASSUME TypeOK, TaskInv, FramesInv, ContentInv, [Next]_vars
  PROVE  /\ todo' \in [Ids -> Seq(Targets)]
         /\ \A j \in Ids : ContentOf(j)'
<1>0. todo \in [Ids -> Seq(Targets)] /\ \A j \in Ids : ContentOf(j)
  BY DEF ContentInv
<1>1. ASSUME NEW c \in Clients, NEW a \in Asks, Send(c, a), NEW j \in Ids
      PROVE  ContentOf(j)'
  <2>1. /\ Len(request) \in Nat
        /\ \A k \in 1..Len(request) : request'[k] = request[k]
        /\ \/ pc'[j] = pc[j]
           \/ pc[j] = "none" /\ pc'[j] = "queued"
           \/ pc[j] = "queued" /\ pc'[j] = "lost"
    BY <1>1, SendFacts
  <2>2. UNCHANGED <<device, frames, todo, results>>
    BY <1>1 DEF Send
  <2>3. pc[j] \in Resolved => j \in 1..Len(request)
    BY <2>1, DispatcherAssumption DEF TaskInv, Ids, Resolved
  <2> QED BY <1>0, <2>1, <2>2, <2>3, ContentSame DEF Resolved
<1>2. ASSUME Transmit \/ (\E c \in Clients : GiveUp(c)) \/ UNCHANGED vars, NEW j \in Ids
      PROVE  ContentOf(j)'
  <2>1. UNCHANGED <<request, pc, todo, results, frames, device>>
    BY <1>2 DEF Transmit, GiveUp, vars, taskVars
  <2> QED BY <1>0, <2>1, ContentSame
<1>3. \/ UNCHANGED todo
      \/ \E i \in Ids : Resolve(i) \/ Serve(i)
  BY DEF Next, Send, Receive, Respond, Skip, Transmit, GiveUp, vars, taskVars
<1>4. todo' \in [Ids -> Seq(Targets)]
  BY <1>0, <1>3, ContentResolve, ContentServe
<1>5. \A j \in Ids : ContentOf(j)'
  BY <1>1, <1>2, ContentReceive, ContentResolve, ContentServe, ContentNextFrame DEF Next
<1> QED BY <1>4, <1>5

\* What a task has read does not change once it sends.
LEMMA SendingStays ==
  ASSUME TypeOK, TaskInv, FramesInv, ContentInv, [Next]_vars, NEW j \in Ids, pc[j] \in Sending
  PROVE  pc'[j] \in Sending /\ Content(j)' = Content(j)
<1>0. pc[j] \notin {"none", "queued", "resolve", "serve"} /\ j <= Len(request)
  BY DEF Sending, TaskInv
<1>1. ASSUME NEW c \in Clients, NEW a \in Asks, Send(c, a)
      PROVE  pc'[j] \in Sending /\ Content(j)' = Content(j)
  <2>1. /\ Len(request) \in Nat
        /\ \A k \in 1..Len(request) : request'[k] = request[k]
        /\ pc'[j] = pc[j]
    BY <1>0, <1>1, SendFacts
  <2>2. request'[j] = request[j]
    BY <1>0, <2>1, DispatcherAssumption DEF Ids
  <2> QED BY <1>1, <2>1, <2>2 DEF Send, Content
<1>2. ASSUME Receive
      PROVE  pc'[j] \in Sending /\ Content(j)' = Content(j)
  <2>1. pc'[j] = pc[j]
    BY <1>0, <1>2, ReceiveFacts
  <2> QED BY <1>2, <2>1 DEF Receive, Content
<1>3. ASSUME NEW i \in Ids, Resolve(i)
      PROVE  pc'[j] \in Sending /\ Content(j)' = Content(j)
  BY <1>0, <1>3, ResolveFacts DEF Content
<1>4. ASSUME NEW i \in Ids, Serve(i)
      PROVE  pc'[j] \in Sending /\ Content(j)' = Content(j)
  <2>1. i # j /\ pc'[j] = pc[j] /\ request' = request
    BY <1>0, <1>4, ServeFacts
  <2>2. results'[j] = results[j]
    BY <1>4, <2>1, ServeList
  <2> QED BY <2>1, <2>2 DEF Content
<1>5. ASSUME NEW i \in Ids, Respond(i) \/ Skip(i)
      PROVE  pc'[j] \in Sending /\ Content(j)' = Content(j)
  <2>1. pc[i] = "respond" /\ NextFrame(i) /\ UNCHANGED <<request, results>>
    BY <1>5 DEF Respond, Skip
  <2>2. pc'[i] \in Sending /\ (j # i => pc'[j] = pc[j])
    BY <2>1, NextFrameFacts DEF Sending
  <2> QED BY <2>1, <2>2 DEF Content
<1>6. ASSUME Transmit \/ (\E c \in Clients : GiveUp(c)) \/ UNCHANGED vars
      PROVE  pc'[j] \in Sending /\ Content(j)' = Content(j)
  BY <1>6 DEF Transmit, GiveUp, vars, taskVars, Content
<1> QED BY <1>1, <1>2, <1>3, <1>4, <1>5, <1>6 DEF Next

\* A frame tells what it is to tell.
Honest(f) == f.id \in Ids /\ pc[f.id] \in Sending /\ f.results = Content(f.id)

\* Every step keeps ContentInv.
LEMMA ContentKept ==
  ASSUME TypeOK, TaskInv, FramesInv, ContentInv, [Next]_vars
  PROVE  ContentInv'
<1> DEFINE Told(i) == IF request'[i].ask.service = "WhoIs" THEN <<>> ELSE results'[i]
           StillHonest(f) == f.id \in Ids /\ pc'[f.id] \in Sending /\ f.results = Told(f.id)
<1>1. /\ todo' \in [Ids -> Seq(Targets)]
      /\ \A j \in Ids : ContentOf(j)'
  BY ContentTasks
<1>2. outbox \in Seq(Replies) /\ \A k \in 1..Len(outbox) : Honest(outbox[k])
  <2>1. outbox \in Seq(Replies)
    BY DEF TypeOK
  <2>2. \A k \in 1..Len(outbox) : outbox[k].id \in Ids
    <3>1. \A k \in 1..Len(outbox) : outbox[k] \in Replies
      BY <2>1, ElementOfSeq
    <3> QED BY <3>1 DEF Replies
  <2> QED BY <2>1, <2>2 DEF ContentInv, Honest
<1>3. ASSUME NEW f, Honest(f) PROVE StillHonest(f)
  <2>1. ASSUME NEW j \in Ids, pc[j] \in Sending
        PROVE  pc'[j] \in Sending /\ Told(j) = Content(j)
    BY <2>1, SendingStays DEF Content
  <2> QED BY <1>3, <2>1 DEF Honest
<1> HIDE DEF StillHonest
<1>4. ASSUME NEW i \in Ids, Respond(i)
      PROVE  /\ answers' = answers
             /\ \A k \in 1..Len(outbox') : StillHonest(outbox'[k])
  <2>1. pc[i] = "respond" /\ NextFrame(i) /\ outbox' = Append(outbox, Head(frames[i]))
    BY <1>4 DEF Respond
  <2>2. /\ frames[i] \in Seq(Replies) /\ Head(frames[i]) \in Replies
        /\ Head(frames[i]) = frames[i][1] /\ 1 \in 1..Len(frames[i])
    BY <2>1, NextFrameFacts
  <2>3. Head(frames[i]).id = i /\ Head(frames[i]).results = Content(i)
    BY <2>1, <2>2 DEF FramesInv, ContentInv, ContentOf
  <2>4. Honest(Head(frames[i]))
    BY <2>1, <2>3 DEF Honest, Sending
  <2> DEFINE f == Head(frames[i])
  <2> HIDE DEF f
  <2>5. \A k \in 1..Len(outbox') : (k \in 1..Len(outbox) /\ outbox'[k] = outbox[k]) \/ outbox'[k] = f
    BY <1>2, <2>1, <2>2 DEF f
  <2>6. \A k \in 1..Len(outbox') : Honest(outbox'[k])
    BY <1>2, <2>4, <2>5 DEF f
  <2>7. answers' = answers
    BY <1>4 DEF Respond
  <2> QED BY <1>3, <2>6, <2>7
<1>5. ASSUME Transmit
      PROVE  /\ \A i \in Ids : \A k \in 1..Len(answers'[i]) : answers'[i][k].id = i
             /\ \A k \in 1..Len(outbox') : StillHonest(outbox'[k])
  <2>1. /\ outbox # <<>> /\ Head(outbox) \in Replies /\ Head(outbox).id \in Ids
        /\ outbox' = Tail(outbox)
        /\ answers' = [answers EXCEPT ![Head(outbox).id] = Append(@, Head(outbox))]
    BY <1>5, TransmitFacts
  <2>2. \A k \in 1..Len(outbox') : outbox'[k] = outbox[k + 1] /\ k + 1 \in 1..Len(outbox)
    BY <1>2, <2>1
  <2>3. \A k \in 1..Len(outbox') : Honest(outbox'[k])
    BY <1>2, <2>2
  <2> DEFINE f == Head(outbox)
  <2>4. f \in Replies /\ f.id \in Ids /\ answers' = [answers EXCEPT ![f.id] = Append(answers[f.id], f)]
    BY <2>1
  <2> HIDE DEF f
  <2>5. answers \in [Ids -> Seq(Replies)]
    BY DEF TypeOK
  <2>6. ASSUME NEW i \in Ids, NEW k \in 1..Len(answers'[i]) PROVE answers'[i][k].id = i
    <3>1. answers[i] \in Seq(Replies) /\ \A n \in 1..Len(answers[i]) : answers[i][n].id = i
      BY <2>5 DEF ContentInv
    <3>2. CASE i # f.id
      BY <2>4, <2>5, <2>6, <3>1, <3>2
    <3>3. CASE i = f.id
      <4>1. answers'[i] = Append(answers[i], f)
        BY <2>4, <2>5, <3>3
      <4>2. \/ k \in 1..Len(answers[i]) /\ answers'[i][k] = answers[i][k]
            \/ answers'[i][k] = f
        BY <2>4, <2>6, <3>1, <4>1
      <4> QED BY <3>1, <3>3, <4>2
    <3> QED BY <3>2, <3>3
  <2> QED BY <1>3, <2>3, <2>6
<1>6. ASSUME UNCHANGED <<outbox, answers>>
      PROVE  /\ \A i \in Ids : \A k \in 1..Len(answers'[i]) : answers'[i][k].id = i
             /\ \A k \in 1..Len(outbox') : StillHonest(outbox'[k])
  BY <1>2, <1>3, <1>6 DEF ContentInv
<1>7. \/ \E i \in Ids : Respond(i)
      \/ Transmit
      \/ UNCHANGED <<outbox, answers>>
  BY DEF Next, Send, Receive, Resolve, Serve, Skip, GiveUp, vars
<1>8. /\ \A i \in Ids : \A k \in 1..Len(answers'[i]) : answers'[i][k].id = i
      /\ \A k \in 1..Len(outbox') : StillHonest(outbox'[k])
  <2>1. ASSUME NEW i \in Ids, Respond(i)
        PROVE  \A n \in Ids : \A k \in 1..Len(answers'[n]) : answers'[n][k].id = n
    BY <1>4, <2>1 DEF ContentInv
  <2> QED BY <1>4, <1>5, <1>6, <1>7, <2>1
<1>9. \A k \in 1..Len(outbox') :
        pc'[outbox'[k].id] \in Sending /\ outbox'[k].results = Told(outbox'[k].id)
  BY <1>8 DEF StillHonest
<1> QED BY <1>1, <1>8, <1>9 DEF ContentInv, Content

\* A frame among others is counted.
LEMMA CopiesSome ==
  ASSUME NEW S, NEW s \in Seq(S), NEW k \in 1..Len(s)
  PROVE  Copies(s, s[k].id, s[k].dst, s[k].dev) \in Nat \ {0}
<1> DEFINE H == Hits(s, s[k].id, s[k].dst, s[k].dev)
<1>1. k \in H
  BY DEF Hits
<1>2. /\ IsFiniteSet(H) /\ Copies(s, s[k].id, s[k].dst, s[k].dev) = Cardinality(H)
      /\ Cardinality(H) \in Nat
  BY CopiesType
<1> HIDE DEF H
<1>3. Cardinality(H) # 0
  BY <1>1, <1>2, FS_EmptySet
<1> QED BY <1>2, <1>3

\* The frame that goes to the socket is due, and its like has not gone before.
LEMMA NextIsDue ==
  ASSUME TypeOK, TaskInv, AnswerInv, ContentInv, Transmit
  PROVE  LET f == Head(outbox)
         IN /\ f \in Replies /\ f.id <= Len(request) /\ Due(f.id, f.dst, f.dev)
            /\ pc[f.id] \in Sending /\ f.results = Content(f.id)
            /\ \A k \in 1..Len(answers[f.id]) :
                 /\ answers[f.id][k] \in Replies /\ Due(f.id, answers[f.id][k].dst, answers[f.id][k].dev)
                 /\ answers[f.id][k].dst # f.dst \/ answers[f.id][k].dev # f.dev
<1> DEFINE f == Head(outbox)
           sent == answers[f.id]
<1>1. /\ outbox # <<>> /\ outbox \in Seq(Replies) /\ f \in Replies /\ f.id \in Ids
      /\ f = outbox[1] /\ Len(outbox) \in Nat /\ Len(outbox) >= 1
  BY TransmitFacts
<1>2. 1 \in 1..Len(outbox)
  BY <1>1
<1>3. pc[f.id] \in Sending /\ f.results = Content(f.id)
  BY <1>1, <1>2 DEF ContentInv
<1>4. f.id <= Len(request)
  BY <1>1, <1>3 DEF TaskInv, Sending
<1>5. Copies(outbox, f.id, f.dst, f.dev) \in Nat \ {0}
  BY <1>1, <1>2, CopiesSome
<1>6. sent \in Seq(Replies) /\ \A k \in 1..Len(sent) : sent[k].id = f.id
  BY <1>1 DEF TypeOK, ContentInv
<1> HIDE DEF f, sent
<1>7. f.dst \in Clients \cup {"all"} /\ f.dev \in Devices
  BY <1>1 DEF Replies
<1>8. ASSUME NEW to \in Clients \cup {"all"}, NEW d \in Devices, Out(f.id, to, d) # 0
      PROVE  Due(f.id, to, d) /\ Out(f.id, to, d) <= 1
  <2>1. Out(f.id, to, d) = IF pc[f.id] \in Sending /\ Due(f.id, to, d)
                             THEN 1 - Copies(frames[f.id], f.id, to, d) ELSE 0
    BY <1>1 DEF AnswerInv
  <2>2. Copies(frames[f.id], f.id, to, d) \in Nat
    BY <1>1, OutType
  <2> QED BY <1>8, <2>1, <2>2
<1>9. \A to, d : Copies(sent, f.id, to, d) \in Nat /\ Copies(outbox, f.id, to, d) \in Nat
  BY <1>1, <1>6, CopiesType
<1>10. \A to, d : Out(f.id, to, d) = Copies(sent, f.id, to, d) + Copies(outbox, f.id, to, d)
  BY DEF Out, sent
<1>11. Due(f.id, f.dst, f.dev) /\ Copies(sent, f.id, f.dst, f.dev) = 0
  <2>1. Out(f.id, f.dst, f.dev) # 0
    BY <1>5, <1>9, <1>10
  <2>2. Due(f.id, f.dst, f.dev) /\ Out(f.id, f.dst, f.dev) <= 1
    BY <1>7, <1>8, <2>1
  <2> QED BY <1>5, <1>9, <1>10, <2>2
<1>12. ASSUME NEW k \in 1..Len(sent)
       PROVE  /\ sent[k] \in Replies /\ Due(f.id, sent[k].dst, sent[k].dev)
              /\ sent[k].dst # f.dst \/ sent[k].dev # f.dev
  <2>1. sent[k] \in Replies
    BY <1>6, ElementOfSeq
  <2>2. sent[k].dst \in Clients \cup {"all"} /\ sent[k].dev \in Devices
    BY <2>1 DEF Replies
  <2>3. Copies(sent, f.id, sent[k].dst, sent[k].dev) \in Nat \ {0}
    BY <1>6, CopiesSome
  <2>4. Out(f.id, sent[k].dst, sent[k].dev) # 0
    BY <1>9, <1>10, <2>3
  <2>5. Due(f.id, sent[k].dst, sent[k].dev)
    BY <1>8, <2>2, <2>4
  <2> QED BY <1>11, <2>1, <2>3, <2>5
<1> QED BY <1>1, <1>3, <1>4, <1>11, <1>12 DEF f, sent

-----------------------------------------------------------------------------
(* The dispatcher implements its service.                                  *)

\* Resolving a request assigns it a device.
LEMMA ResolveAssigns ==
  ASSUME TypeOK, TaskInv, NEW i \in Ids, Resolve(i)
  PROVE  \/ UNCHANGED Service!vars
         \/ \E d \in Devices : Service!Assign(i, d)
<1>1. /\ pc[i] = "resolve" /\ i <= Len(request)
      /\ UNCHANGED <<request, points, results, answers>>
  BY ResolveFacts
<1>2. CASE NoDevice(request[i].ask)
  <2>1. UNCHANGED device
    BY <1>2, ResolveFacts
  <2> QED BY <1>1, <2>1 DEF Service!vars
<1>3. CASE ~ NoDevice(request[i].ask)
  <2> DEFINE a == request[i].ask
             d == DeviceOf(i)
  <2>1. device' = [device EXCEPT ![i] = d] /\ d \in Devices
    BY <1>1, <1>3, DeviceOfType DEF Resolve
  <2>2. device[i] = None
    BY <1>1 DEF TaskInv, Resolved
  <2>3. a.service \in Services \ (Unconfirmed \cup {"Undecodable"})
    BY <1>1, ObjectsFacts DEF TaskInv
  <2>4. a.service \in {"ReadProperty", "ReadPropertyMultiple", "WriteProperty", "SubscribeCov"}
    BY <2>3 DEF Services, Unconfirmed
  <2>5. a.service # "SubscribeCov" /\ a.objects # <<>> /\ a.objects[1].type = "Device" =>
          d = a.objects[1].inst
    BY DEF DeviceOf, Names, Primary
  <2> HIDE DEF d
  <2>6. Service!Assign(i, d)
    BY <1>1, <2>1, <2>2, <2>4, <2>5 DEF Service!Assign, Service!Service, Service!Objects
  <2> QED BY <2>1, <2>6
<1> QED BY <1>2, <1>3

\* What a task learns of an object is what is found there.
LEMMA OutcomeFound ==
  ASSUME NEW i, NEW o \in Targets
  PROVE  Outcome(device[i], o, request[i].ask.service) = Service!Found(i, o)
<1>1. o.type \in {"Device", "Point"}
  BY DEF Targets
<1>2. CASE o.type = "Device"
  BY <1>2 DEF Outcome, Error, Exists, Service!Found, Service!Service
<1>3. CASE o.type = "Point"
  BY <1>3 DEF Outcome, Error, Exists, Service!Found, Service!Service
<1> QED BY <1>1, <1>2, <1>3

\* Serving a request accesses the next object of its list, if there is one.
LEMMA ServeAccesses ==
  ASSUME TypeOK, TaskInv, ContentInv, NEW i \in Ids, Serve(i)
  PROVE  UNCHANGED Service!vars \/ Service!Access(i)
<1> DEFINE o == Head(todo[i])
           s == request[i].ask.service
           objects == request[i].ask.objects
           out == Outcome(device[i], o, s)
<1>1. /\ pc[i] = "serve" /\ i <= Len(request) /\ device[i] \in Devices
      /\ UNCHANGED <<request, device, answers>>
  BY ServeFacts
<1>2. /\ todo[i] # <<>> =>
           /\ results' = [results EXCEPT ![i] = Append(@, out)]
           /\ Len(results[i]) < Len(objects)
           /\ o = objects[Len(results[i]) + 1] /\ o \in Targets
      /\ todo[i] = <<>> => results' = [results EXCEPT ![i] = results[i]]
  <2>1. todo[i] # <<>> =>
           /\ Len(results[i]) < Len(objects)
           /\ o = objects[Len(results[i]) + 1] /\ o \in Targets
    BY ServeList
  <2>2. results' = [results EXCEPT ![i] = IF todo[i] = <<>> THEN results[i]
                                          ELSE Append(results[i], out)]
    BY DEF Serve
  <2> QED BY <2>1, <2>2
<1>3. points' = IF s = "WriteProperty" /\ Error(device[i], o, s) = "none"
                  THEN [points EXCEPT ![device[i]][o.inst] = i] ELSE points
  BY DEF Serve
<1>4. CASE todo[i] = <<>>
  <2>1. Len(objects) = 0
    <3>1. /\ Len(objects) > 0 => Len(todo[i]) > 0
          /\ objects \in Seq(Targets)
      BY <1>1, ObjectsFacts DEF ContentInv, ContentOf
    <3> QED BY <1>4, <3>1
  <2>2. s # "WriteProperty"
    <3>1. s = "WriteProperty" => Len(objects) = 1
      BY <1>1, ObjectsFacts
    <3> HIDE DEF objects, s
    <3> QED BY <2>1, <3>1
  <2>3. results' = results
    BY <1>2, <1>4 DEF TypeOK
  <2> QED BY <1>1, <1>3, <2>2, <2>3 DEF Service!vars
<1>5. CASE todo[i] # <<>>
  <2>1. out = Service!Found(i, o)
    BY <1>2, <1>5, OutcomeFound
  <2>2. Error(device[i], o, s) = Service!Found(i, o).error
    <3>1. out.error = Error(device[i], o, s)
      BY DEF Outcome
    <3> QED BY <2>1, <3>1
  <2>3. device[i] # None
    BY <1>1, DispatcherAssumption
  <2> HIDE DEF o, out
  <2>4. o = Service!Objects(i)[Len(results[i]) + 1] /\ Len(results[i]) < Len(Service!Objects(i))
    BY <1>2, <1>5 DEF Service!Objects
  <2>5. results' = [results EXCEPT ![i] = Append(@, Service!Found(i, o))]
    BY <1>2, <1>5, <2>1
  <2>6. points' = IF Service!Service(i) = "WriteProperty" /\ Service!Found(i, o).error = "none"
                    THEN [points EXCEPT ![device[i]][o.inst] = i] ELSE points
    BY <1>3, <2>2 DEF Service!Service
  <2>7. Service!Access(i)
    BY <1>1, <2>3, <2>4, <2>5, <2>6 DEF Service!Access
  <2> QED BY <2>7
<1> QED BY <1>4, <1>5

\* A frame on the socket is the one answer of its request, or an announcement
\* that is due and new.
LEMMA TransmitReplies ==
  ASSUME TypeOK, TaskInv, AnswerInv, ContentInv, Transmit
  PROVE  LET f == Head(outbox)
         IN /\ f.id \in 1..Len(request) /\ f.dev \in Devices
            /\ \/ Service!Reply(f.id)
               \/ \E to \in {"all", request[f.id].src} : Service!Announce(f.id, to, f.dev)
<1> DEFINE f == Head(outbox)
           i == f.id
           sent == answers[i]
<1>1. /\ f \in Replies /\ i <= Len(request) /\ Due(i, f.dst, f.dev)
      /\ pc[i] \in Sending /\ f.results = Content(i)
      /\ \A k \in 1..Len(sent) :
           /\ sent[k] \in Replies /\ Due(i, sent[k].dst, sent[k].dev)
           /\ sent[k].dst # f.dst \/ sent[k].dev # f.dev
  BY NextIsDue
<1>2. /\ answers' = [answers EXCEPT ![i] = Append(answers[i], f)] /\ i \in Ids
      /\ UNCHANGED <<points, request, device, results>>
  BY TransmitFacts
<1>3. sent \in Seq(Replies)
  BY <1>2 DEF TypeOK
<1>4. i \in 1..Len(request) /\ f.dev \in Devices
  BY <1>1, <1>2, RequestFacts DEF Replies
<1>5. f = [dst |-> f.dst, id |-> i, dev |-> f.dev, results |-> f.results]
  BY <1>1 DEF Replies
<1> HIDE DEF f, i
<1>6. CASE request[i].ask.service = "WhoIs"
  <2>1. f.dst \in {"all", request[i].src} /\ InRange(f.dev, request[i].ask.range)
    BY <1>1, <1>6 DEF Due
  <2>2. f = [dst |-> f.dst, id |-> i, dev |-> f.dev, results |-> <<>>]
    BY <1>1, <1>5, <1>6 DEF Content
  <2>3. answers' = [answers EXCEPT ![i] =
                      Append(@, [dst |-> f.dst, id |-> i, dev |-> f.dev, results |-> <<>>])]
    BY <1>2, <2>2
  <2>4. Service!Announce(i, f.dst, f.dev)
    BY <1>1, <1>2, <1>6, <2>1, <2>3 DEF Service!Announce, Service!Service, InRange
  <2> QED BY <1>4, <2>1, <2>4 DEF f, i
<1>7. CASE request[i].ask.service # "WhoIs"
  <2>1. f.dst = request[i].src /\ f.dev = device[i]
    BY <1>1, <1>7 DEF Due
  <2>2. sent = <<>>
    <3>1. \A k \in 1..Len(sent) : sent[k].dst = request[i].src /\ sent[k].dev = device[i]
      BY <1>1, <1>7 DEF Due
    <3>2. \A k \in 1..Len(sent) : FALSE
      BY <1>1, <2>1, <3>1
    <3> HIDE DEF sent
    <3> QED BY <1>3, <3>2
  <2>3. device[i] # None /\ Len(results[i]) = Len(Service!Objects(i)) /\ f.results = results[i]
    BY <1>1, <1>2, <1>7 DEF ContentInv, ContentOf, Content, Service!Objects
  <2>4. Append(sent, f) = <<[dst |-> request[i].src, id |-> i, dev |-> device[i],
                             results |-> results[i]]>>
    <3>1. f = [dst |-> request[i].src, id |-> i, dev |-> device[i], results |-> results[i]]
      BY <1>5, <2>1, <2>3
    <3>2. Append(sent, f) = <<f>>
      BY <2>2
    <3> QED BY <3>1, <3>2
  <2>5. Service!Reply(i)
    BY <1>2, <2>2, <2>3, <2>4 DEF Service!Reply
  <2> QED BY <1>4, <2>5 DEF f, i
<1> QED BY <1>6, <1>7

\* Every step of the dispatcher is a step of the service, or none.
LEMMA ServiceStep ==
  ASSUME TypeOK, TaskInv, AnswerInv, ContentInv, [Next]_vars
  PROVE  [Service!Next]_(Service!vars)
<1>1. ASSUME NEW i \in Ids, pc[i] # "none"
      PROVE  i \in 1..Len(request)
  BY <1>1, RequestFacts DEF TaskInv
<1>2. ASSUME NEW c \in Clients, NEW a \in Asks, Send(c, a)
      PROVE  Service!Next
  BY <1>2 DEF Send, Service!Next, Service!Ask
<1>3. ASSUME Receive \/ (\E i \in Ids : Respond(i) \/ Skip(i)) \/ (\E c \in Clients : GiveUp(c))
             \/ UNCHANGED vars
      PROVE  UNCHANGED Service!vars
  BY <1>3 DEF Receive, Respond, Skip, GiveUp, vars, taskVars, Service!vars
<1>4. ASSUME NEW i \in Ids, Resolve(i)
      PROVE  [Service!Next]_(Service!vars)
  <2>1. i \in 1..Len(request)
    BY <1>1, <1>4 DEF Resolve
  <2> QED BY <1>4, <2>1, ResolveAssigns DEF Service!Next
<1>5. ASSUME NEW i \in Ids, Serve(i)
      PROVE  [Service!Next]_(Service!vars)
  <2>1. i \in 1..Len(request)
    BY <1>1, <1>5 DEF Serve
  <2> QED BY <1>5, <2>1, ServeAccesses DEF Service!Next
<1>6. ASSUME Transmit
      PROVE  Service!Next
  BY <1>6, TransmitReplies DEF Service!Next
<1> QED BY <1>2, <1>3, <1>4, <1>5, <1>6 DEF Next

\* For all clients, devices, requests and capacities, and however the tasks
\* interleave: a confirmed request is served by one device, its objects are
\* accessed each as a whole, in order and after it was sent, and its client gets
\* one answer at most, which tells what these accesses found (handle_confirmed).
THEOREM DispatcherImplements == Spec => ServiceSpec
<1> DEFINE IInv == TypeOK /\ TaskInv /\ FramesInv /\ AnswerInv /\ ContentInv
<1>1. Init => IInv /\ Service!Init
  <2> SUFFICES ASSUME Init PROVE IInv /\ Service!Init
    OBVIOUS
  <2>1. TypeOK /\ TaskInv
    BY StartTypes
  <2>2. /\ outbox = <<>> /\ todo = [i \in Ids |-> <<>>]
        /\ \A i \in Ids : /\ pc[i] = "none" /\ frames[i] = <<>> /\ answers[i] = <<>>
                          /\ results[i] = <<>>
    BY DEF Init
  <2>3. FramesInv
    BY <2>2 DEF FramesInv
  <2>4. \A i \in Ids, to \in Clients \cup {"all"}, d \in Devices : Out(i, to, d) = 0
    BY <2>2, CopiesEmpty DEF Out
  <2>5. AnswerInv
    BY <2>2, <2>4 DEF AnswerInv, Sending
  <2>6. ContentInv
    BY <2>2 DEF ContentInv, ContentOf, Resolved, Sending
  <2>7. Service!Init
    BY DEF Init, Service!Init, Ids
  <2> QED BY <2>1, <2>3, <2>5, <2>6, <2>7
<1>2. IInv /\ [Next]_vars => IInv'
  BY TypesKept, StutterTypes, AnswerKept, ContentKept
<1>3. IInv /\ [Next]_vars => [Service!Next]_(Service!vars)
  BY ServiceStep
<1> QED BY <1>1, <1>2, <1>3, PTL DEF Spec, ServiceSpec, Service!Spec

-----------------------------------------------------------------------------
(* Segmented messages.                                                     *)

\* The segments so far are those that have arrived, the total is known once
\* the last has, and the message has been returned once all have.
SegmentInv ==
  /\ arrived \subseteq air
  /\ air = {} => arrived = {} /\ buffer = NewBuffer /\ returned = {}
  /\ \A n \in 1..SequenceNumbers - 1 : air = Segments(n) =>
       /\ DOMAIN buffer.segments = {s.seq : s \in arrived}
       /\ \A s \in arrived : buffer.segments[s.seq] = s.data
       /\ buffer.total = {m \in {n} : \E s \in arrived : ~ s.more}
       /\ returned = IF arrived = air THEN {Whole(n)} ELSE {}

\* The i-th of the n segments of a message.
Segment(i, n) == [seq |-> i - 1, more |-> i < n, data |-> <<i>>]

\* Sequence numbers do not wrap around in a message of fewer segments.
LEMMA SegmentsAre ==
  ASSUME NEW n \in 1..SequenceNumbers - 1
  PROVE  Segments(n) = {Segment(i, n) : i \in 1..n}
<1>1. SequenceNumbers \in Nat \ {0}
  BY SegmentationAssumption
<1>2. ASSUME NEW i \in 1..n PROVE (i - 1) % SequenceNumbers = i - 1
  <2>1. i - 1 \in 0..SequenceNumbers - 1
    BY <1>1
  <2> QED BY <1>1, <2>1
<1> QED BY <1>2 DEF Segments, Segment

\* The loop of reassemble puts the data of all segments in order.
LEMMA ReassembleFacts ==
  ASSUME NEW n \in 1..SequenceNumbers - 1, NEW f, DOMAIN f = 0..n - 1,
         \A k \in 0..n - 1 : f[k] = <<k + 1>>
  PROVE  Reassemble(f, n) = Whole(n)
<1> DEFINE Rec(g) == g = [i \in 0..n |-> IF i = 0 THEN <<>>
                            ELSE g[i - 1] \o (IF i - 1 \in DOMAIN f THEN f[i - 1] ELSE <<>>)]
           upto == CHOOSE g : Rec(g)
           h == [i \in 0..n |-> Whole(i)]
           T == {m \in 1..n + 1 : \A k \in 0..m - 1 : upto[k] = Whole(k)}
<1>1. n \in Nat /\ n >= 1 /\ n % SequenceNumbers = n
  <2>1. SequenceNumbers \in Nat \ {0} /\ n \in 0..SequenceNumbers - 1 /\ n >= 1
    BY SegmentationAssumption
  <2> QED BY <2>1
<1>2. Whole(0) = <<>>
  BY DEF Whole
<1>3. ASSUME NEW i \in 1..n
      PROVE  Whole(i - 1) \o (IF i - 1 \in DOMAIN f THEN f[i - 1] ELSE <<>>) = Whole(i)
  <2>1. i - 1 \in 0..n - 1 /\ i \in Nat /\ (i - 1) + 1 = i
    BY <1>1
  <2>2. f[i - 1] = <<i>> /\ i - 1 \in DOMAIN f
    BY <2>1
  <2>3. Whole(i - 1) \in Seq(Nat) /\ Len(Whole(i - 1)) = i - 1
    BY <2>1 DEF Whole
  <2>4. Whole(i) \in Seq(Nat) /\ Len(Whole(i)) = i
    BY <2>1 DEF Whole
  <2>5. Whole(i - 1) \o <<i>> = Whole(i)
    BY <2>1, <2>3, <2>4 DEF Whole
  <2> QED BY <2>2, <2>5
<1>4. Rec(h)
  <2>1. ASSUME NEW i \in 0..n
        PROVE  Whole(i) = IF i = 0 THEN <<>>
                 ELSE h[i - 1] \o (IF i - 1 \in DOMAIN f THEN f[i - 1] ELSE <<>>)
    <3>1. CASE i = 0
      BY <1>2, <3>1
    <3>2. CASE i # 0
      <4>1. i \in 1..n /\ i - 1 \in 0..n
        BY <1>1, <3>2
      <4>2. h[i - 1] = Whole(i - 1)
        BY <4>1
      <4> QED BY <1>3, <3>2, <4>1, <4>2
    <3> QED BY <3>1, <3>2
  <2> QED BY <2>1
<1>5. Rec(upto)
  <2> HIDE DEF Rec, h
  <2> QED BY <1>4
<1>6. upto[0] = <<>> /\ \A i \in 1..n :
        upto[i] = upto[i - 1] \o (IF i - 1 \in DOMAIN f THEN f[i - 1] ELSE <<>>)
  <2> HIDE DEF upto
  <2> QED BY <1>1, <1>5
<1>7. Reassemble(f, n) = upto[n]
  BY <1>1 DEF Reassemble
<1> HIDE DEF upto, Rec
<1>8. 1 \in T
  BY <1>1, <1>2, <1>6
<1>9. T \in SUBSET (1..n + 1) /\ T # {} /\ n + 1 \in Nat
  <2>1. \A m \in T : m \in 1..n + 1
    OBVIOUS
  <2> HIDE DEF T
  <2> QED BY <1>1, <1>8, <2>1
<1>10. PICK m \in T : \A k \in T : k <= m
  <2> HIDE DEF T
  <2> QED BY <1>9, LatestExists
<1>11. m = n + 1
  <2> SUFFICES ASSUME m # n + 1 PROVE FALSE
    OBVIOUS
  <2>1. m \in 1..n /\ m - 1 \in 0..m - 1 /\ m + 1 \in 1..n + 1
    BY <1>1
  <2>2. upto[m] = Whole(m)
    <3>1. upto[m - 1] = Whole(m - 1)
      BY <2>1
    <3> QED BY <1>3, <1>6, <2>1, <3>1
  <2>3. \A k \in 0..(m + 1) - 1 : k = m \/ k \in 0..m - 1
    BY <2>1
  <2>4. m + 1 \in T
    BY <2>1, <2>2, <2>3
  <2>5. m + 1 <= m /\ m \in Nat
    BY <1>10, <2>1, <2>4
  <2> QED BY <2>5
<1> QED BY <1>1, <1>7, <1>11

\* The arrival of segment s of a message of n.
LEMMA SegmentArrives ==
  ASSUME SegmentInv, NEW n \in 1..SequenceNumbers - 1, air = Segments(n),
         NEW s \in air, DeliverSegment(s)
  PROVE  /\ DOMAIN buffer'.segments = {x.seq : x \in arrived'}
         /\ \A x \in arrived' : buffer'.segments[x.seq] = x.data
         /\ buffer'.total = {m \in {n} : \E x \in arrived' : ~ x.more}
         /\ returned' = IF arrived' = air THEN {Whole(n)} ELSE {}
<1> DEFINE filled == Insert(buffer.segments, s)
           known == IF s.more THEN buffer.total ELSE {s.seq + 1}
           out == {Reassemble(filled, k) : k \in {m \in known : Cardinality(DOMAIN filled) = m}}
           last == {m \in {n} : \E x \in arrived' : ~ x.more}
<1>1. n \in Nat /\ n >= 1
  BY SegmentationAssumption
<1>2. air = {Segment(i, n) : i \in 1..n}
  BY SegmentsAre
<1>3. /\ arrived' = arrived \cup {s} /\ buffer' = [segments |-> filled, total |-> known]
      /\ returned' = IF out = {} THEN returned ELSE out
  BY DEF DeliverSegment, AddSegment
<1>4. /\ DOMAIN buffer.segments = {x.seq : x \in arrived}
      /\ \A x \in arrived : buffer.segments[x.seq] = x.data
      /\ buffer.total = {m \in {n} : \E x \in arrived : ~ x.more}
      /\ returned = IF arrived = air THEN {Whole(n)} ELSE {}
      /\ arrived \subseteq air
  BY DEF SegmentInv
<1>5. arrived' \subseteq air
  BY <1>3, <1>4
<1>6. \A x \in air : /\ x.seq \in 0..n - 1 /\ x = Segment(x.seq + 1, n)
                     /\ x.data = <<x.seq + 1>> /\ (~ x.more <=> x.seq = n - 1)
  <2>1. ASSUME NEW i \in 1..n
        PROVE  /\ Segment(i, n).seq \in 0..n - 1 /\ Segment(i, n) = Segment(Segment(i, n).seq + 1, n)
               /\ Segment(i, n).data = <<Segment(i, n).seq + 1>>
               /\ (~ Segment(i, n).more <=> Segment(i, n).seq = n - 1)
    <3>1. /\ Segment(i, n).seq = i - 1 /\ Segment(i, n).more = (i < n)
          /\ Segment(i, n).data = <<i>>
      BY DEF Segment
    <3>2. i - 1 \in 0..n - 1 /\ (i - 1) + 1 = i /\ (~ (i < n) <=> i - 1 = n - 1)
      BY <1>1
    <3> QED BY <3>1, <3>2
  <2> QED BY <1>2, <2>1
<1>7. \A k \in 0..n - 1 : Segment(k + 1, n) \in air /\ Segment(k + 1, n).seq = k
  <2>1. ASSUME NEW k \in 0..n - 1 PROVE Segment(k + 1, n) \in air /\ Segment(k + 1, n).seq = k
    <3>1. k + 1 \in 1..n /\ (k + 1) - 1 = k
      BY <1>1
    <3> QED BY <1>2, <3>1 DEF Segment
  <2> QED BY <2>1
<1>8. DOMAIN filled = {x.seq : x \in arrived'}
  BY <1>3, <1>4 DEF Insert
<1>9. \A x \in arrived' : filled[x.seq] = x.data
  <2>1. ASSUME NEW x \in arrived' PROVE filled[x.seq] = x.data
    <3>1. filled[x.seq] = IF x.seq = s.seq THEN s.data ELSE buffer.segments[x.seq]
      BY <1>3, <1>4 DEF Insert
    <3>2. x.seq = s.seq => x = s
      BY <1>5, <1>6
    <3>3. x # s => x \in arrived /\ buffer.segments[x.seq] = x.data
      BY <1>3, <1>4
    <3> QED BY <3>1, <3>2, <3>3
  <2> QED BY <2>1
<1>10. known = last
  <2>1. CASE s.more
    <3>1. (\E x \in arrived' : ~ x.more) <=> (\E x \in arrived : ~ x.more)
      BY <1>3, <2>1
    <3> QED BY <1>4, <2>1, <3>1
  <2>2. CASE ~ s.more
    <3>1. s.seq + 1 = n
      BY <1>1, <1>6, <2>2
    <3>2. \E x \in arrived' : ~ x.more
      BY <1>3, <2>2
    <3> QED BY <2>2, <3>1, <3>2
  <2> QED BY <2>1, <2>2
<1> HIDE DEF filled
<1>11. DOMAIN filled \in SUBSET (0..n - 1)
  BY <1>5, <1>6, <1>8
<1>12. IsFiniteSet(0..n - 1) /\ Cardinality(0..n - 1) = n
  <2>1. 0 \in Int /\ n - 1 \in Int
    BY <1>1
  <2>2. IsFiniteSet(0..n - 1) /\ Cardinality(0..n - 1) = IF 0 > n - 1 THEN 0 ELSE (n - 1) - 0 + 1
    BY <2>1, FS_Interval
  <2> QED BY <1>1, <2>2
<1>13. CASE arrived' = air
  <2>1. DOMAIN filled = 0..n - 1
    <3>1. \A k \in 0..n - 1 : k \in DOMAIN filled
      BY <1>7, <1>8, <1>13
    <3> QED BY <1>11, <3>1
  <2>2. \A k \in 0..n - 1 : filled[k] = <<k + 1>>
    BY <1>6, <1>7, <1>9, <1>13
  <2>3. Reassemble(filled, n) = Whole(n)
    BY <2>1, <2>2, ReassembleFacts
  <2>4. last = {n}
    <3>1. n - 1 \in 0..n - 1
      BY <1>1
    <3>2. Segment((n - 1) + 1, n) \in air /\ Segment((n - 1) + 1, n).seq = n - 1
      BY <1>7, <3>1
    <3>3. \E x \in arrived' : ~ x.more
      BY <1>6, <1>13, <3>2
    <3> QED BY <3>3
  <2>5. out = {Whole(n)}
    BY <1>10, <1>12, <2>1, <2>3, <2>4
  <2> QED BY <1>3, <1>8, <1>9, <1>10, <1>13, <2>5
<1>14. CASE arrived' # air
  <2>1. PICK x \in air : x \notin arrived'
    BY <1>5, <1>14
  <2>2. x.seq \notin DOMAIN filled
    BY <1>5, <1>6, <1>8, <2>1
  <2>3. Cardinality(DOMAIN filled) # n
    <3>1. DOMAIN filled # 0..n - 1
      BY <1>6, <2>2
    <3> QED BY <1>11, <1>12, <3>1, FS_Subset
  <2>4. out = {}
    BY <1>10, <2>3
  <2>5. returned = {}
    BY <1>3, <1>4, <1>5, <1>14
  <2> QED BY <1>3, <1>8, <1>9, <1>10, <1>14, <2>4, <2>5
<1> QED BY <1>13, <1>14

\* A message has a segment.
LEMMA SegmentsSome ==
  ASSUME NEW n \in Nat \ {0}
  PROVE  Segments(n) # {}
<1>1. 1 \in 1..n
  OBVIOUS
<1> QED BY <1>1 DEF Segments

\* Every step keeps it so.
LEMMA SegmentStep ==
  ASSUME SegmentInv, [SegmentNext]_segmentVars
  PROVE  SegmentInv'
<1>1. ASSUME NEW n \in 1..MaxSegments, SendSegments(n)
      PROVE  SegmentInv'
  <2>1. air = {} /\ air' = Segments(n) /\ arrived' = {} /\ buffer' = NewBuffer /\ returned' = {}
    BY <1>1 DEF SendSegments, SegmentInv
  <2>2. n \in Nat \ {0}
    BY SegmentationAssumption
  <2>3. air' # {}
    BY <2>1, <2>2, SegmentsSome
  <2>4. NewBuffer.segments = <<>> /\ NewBuffer.total = {} /\ DOMAIN <<>> = {}
    BY DEF NewBuffer
  <2> QED BY <2>1, <2>3, <2>4 DEF SegmentInv
<1>2. ASSUME NEW s \in air, DeliverSegment(s)
      PROVE  SegmentInv'
  <2>1. air' = air /\ arrived' \subseteq air'
    BY <1>2 DEF DeliverSegment, SegmentInv
  <2>2. ASSUME NEW n \in 1..SequenceNumbers - 1, air = Segments(n)
        PROVE  /\ DOMAIN buffer'.segments = {x.seq : x \in arrived'}
               /\ \A x \in arrived' : buffer'.segments[x.seq] = x.data
               /\ buffer'.total = {m \in {n} : \E x \in arrived' : ~ x.more}
               /\ returned' = IF arrived' = air THEN {Whole(n)} ELSE {}
    BY <1>2, <2>2, SegmentArrives
  <2> QED BY <1>2, <2>1, <2>2 DEF SegmentInv
<1>3. CASE FinishSegments
  <2>1. ASSUME NEW n \in 1..SequenceNumbers - 1 PROVE air' # Segments(n)
    <3>1. n \in Nat \ {0}
      BY SegmentationAssumption
    <3> QED BY <1>3, <3>1, SegmentsSome DEF FinishSegments
  <2> QED BY <1>3, <2>1 DEF FinishSegments, SegmentInv
<1>4. CASE UNCHANGED segmentVars
  BY <1>4 DEF segmentVars, SegmentInv
<1> QED BY <1>1, <1>2, <1>3, <1>4 DEF SegmentNext

\* SegmentBuffer::add_segment returns a message when its last missing segment
\* arrives and not before, and returns all of it in order, in whatever order
\* and however often its segments came, however many sequence numbers there
\* are, as long as the message has fewer segments.
THEOREM ReassembledAlways == SegmentSpec => []Reassembled
<1>1. SegmentInit => SegmentInv
  <2>1. ASSUME NEW n \in 1..SequenceNumbers - 1 PROVE Segments(n) # {}
    <3>1. n \in Nat \ {0}
      BY SegmentationAssumption
    <3> QED BY <3>1, SegmentsSome
  <2> QED BY <2>1 DEF SegmentInit, SegmentInv
<1>2. SegmentInv /\ [SegmentNext]_segmentVars => SegmentInv'
  BY SegmentStep
<1>3. SegmentInv => Reassembled
  BY DEF SegmentInv, Reassembled
<1> QED BY <1>1, <1>2, <1>3, PTL DEF SegmentSpec

-----------------------------------------------------------------------------
(* Values on the wire.  Digits are put together by a loop over their       *)
(* sequence; that it ends is shown by the longest part it gets through.    *)

Codec == INSTANCE Wire

Byte == 0..255

\* The loop that puts digits together.
DigitsUpto(f, base, digits, m) ==
  f \in [0..m -> Nat] /\ f[0] = 0 /\ \A i \in 1..m : f[i] = f[i - 1] * base + digits[i]

\* The loop gets to the end of every sequence of digits.
LEMMA DigitsLoop ==
  ASSUME NEW base \in Nat, NEW digits \in Seq(Nat)
  PROVE  \E f : DigitsUpto(f, base, digits, Len(digits))
<1> DEFINE n == Len(digits)
           T == {m \in 1..n + 1 : \E f : DigitsUpto(f, base, digits, m - 1)}
<1>1. n \in Nat
  OBVIOUS
<1> HIDE DEF n
<1>2. 1 \in T
  <2> DEFINE f == [i \in 0..0 |-> 0]
  <2>1. DigitsUpto(f, base, digits, 1 - 1)
    BY DEF DigitsUpto
  <2> QED BY <1>1, <2>1
<1>3. T \in SUBSET (1..n + 1) /\ T # {} /\ n + 1 \in Nat
  <2>1. \A m \in T : m \in 1..n + 1
    OBVIOUS
  <2> HIDE DEF T
  <2> QED BY <1>1, <1>2, <2>1
<1>4. PICK m \in T : \A k \in T : k <= m
  <2> HIDE DEF T
  <2> QED BY <1>3, LatestExists
<1>5. m = n + 1
  <2> SUFFICES ASSUME m # n + 1 PROVE FALSE
    OBVIOUS
  <2>1. m \in 1..n /\ m + 1 \in 1..n + 1 /\ m \in Nat /\ (m + 1) - 1 = m
    BY <1>1
  <2>2. PICK f : DigitsUpto(f, base, digits, m - 1)
    OBVIOUS
  <2>3. f \in [0..m - 1 -> Nat] /\ f[0] = 0 /\ \A i \in 1..m - 1 : f[i] = f[i - 1] * base + digits[i]
    BY <2>2 DEF DigitsUpto
  <2> DEFINE y == f[m - 1] * base + digits[m]
             g == [i \in 0..m |-> IF i = m THEN y ELSE f[i]]
  <2>4. y \in Nat
    <3>1. f[m - 1] \in Nat /\ digits[m] \in Nat
      BY <2>1, <2>3 DEF n
    <3>2. f[m - 1] * base \in Nat
      BY <3>1
    <3> QED BY <3>1, <3>2
  <2> HIDE DEF y
  <2>5. g \in [0..m -> Nat]
    <3>1. \A i \in 0..m : i # m => i \in 0..m - 1
      BY <2>1
    <3> QED BY <2>3, <2>4, <3>1
  <2>6. g[m] = y /\ \A i \in 0..m - 1 : g[i] = f[i]
    BY <2>1
  <2> HIDE DEF g
  <2>7. ASSUME NEW i \in 1..m PROVE g[i] = g[i - 1] * base + digits[i]
    <3>1. i - 1 \in 0..m - 1 /\ g[i - 1] = f[i - 1]
      BY <2>1, <2>6
    <3>2. CASE i = m
      BY <2>6, <3>1, <3>2 DEF y
    <3>3. CASE i # m
      <4>1. i \in 1..m - 1 /\ i \in 0..m - 1
        BY <2>1, <3>3
      <4> QED BY <2>3, <2>6, <3>1, <4>1
    <3> QED BY <3>2, <3>3
  <2>8. g[0] = 0
    BY <2>1, <2>3, <2>6
  <2>9. DigitsUpto(g, base, digits, (m + 1) - 1)
    BY <2>1, <2>5, <2>7, <2>8 DEF DigitsUpto
  <2>10. m + 1 \in T
    BY <2>1, <2>9
  <2> QED BY <1>4, <2>1, <2>10
<1> QED BY <1>1, <1>5 DEF n

\* What the function of the codec returns is what the loop ends with.
LEMMA DigitsFacts ==
  ASSUME NEW base \in Nat, NEW digits \in Seq(Nat)
  PROVE  \E f : /\ DigitsUpto(f, base, digits, Len(digits))
                /\ Codec!OfDigits(base, digits) = f[Len(digits)]
<1> DEFINE n == Len(digits)
           Rec(g) == g = [i \in 0..n |-> IF i = 0 THEN 0 ELSE g[i - 1] * base + digits[i]]
           upto == CHOOSE g : Rec(g)
<1>1. n \in Nat
  OBVIOUS
<1>2. PICK f : DigitsUpto(f, base, digits, n)
  BY DigitsLoop
<1>3. f \in [0..n -> Nat] /\ f[0] = 0 /\ \A i \in 1..n : f[i] = f[i - 1] * base + digits[i]
  BY <1>2 DEF DigitsUpto
<1>4. Codec!OfDigits(base, digits) = upto[n]
  BY DEF Codec!OfDigits
<1> HIDE DEF n
<1>5. Rec(f)
  <2> DEFINE h == [i \in 0..n |-> IF i = 0 THEN 0 ELSE f[i - 1] * base + digits[i]]
  <2>1. \A i \in 0..n : f[i] = h[i]
    BY <1>1, <1>3
  <2> QED BY <1>3, <2>1
<1>6. Rec(upto)
  <2> HIDE DEF Rec
  <2> QED BY <1>5
<1> HIDE DEF upto
<1>7. /\ upto[0] = 0
      /\ \A i \in 1..n : upto[i] = upto[i - 1] * base + digits[i]
  BY <1>1, <1>6
<1> DEFINE T == {m \in 1..n + 1 : \A k \in 0..m - 1 : upto[k] = f[k]}
<1>8. 1 \in T
  BY <1>1, <1>3, <1>7
<1>9. T \in SUBSET (1..n + 1) /\ T # {} /\ n + 1 \in Nat
  <2>1. \A m \in T : m \in 1..n + 1
    OBVIOUS
  <2> HIDE DEF T
  <2> QED BY <1>1, <1>8, <2>1
<1>10. PICK m \in T : \A k \in T : k <= m
  <2> HIDE DEF T
  <2> QED BY <1>9, LatestExists
<1>11. m = n + 1
  <2> SUFFICES ASSUME m # n + 1 PROVE FALSE
    OBVIOUS
  <2>1. m \in 1..n /\ m - 1 \in 0..m - 1 /\ m + 1 \in 1..n + 1 /\ m \in Nat /\ (m + 1) - 1 = m
    BY <1>1
  <2>2. upto[m] = f[m]
    <3>1. upto[m - 1] = f[m - 1]
      BY <2>1
    <3> QED BY <1>3, <1>7, <2>1, <3>1
  <2>3. \A k \in 0..(m + 1) - 1 : k = m \/ k \in 0..m - 1
    BY <2>1
  <2>4. m + 1 \in T
    BY <2>1, <2>2, <2>3
  <2> QED BY <1>10, <2>1, <2>4
<1>12. n \in 0..m - 1
  BY <1>1, <1>11
<1>13. upto[n] = f[n]
  BY <1>12
<1> QED BY <1>2, <1>4, <1>13 DEF n

\* A number of a byte or two, three or four, and back.
LEMMA NumberOfBytes ==
  ASSUME NEW k \in 1..4, NEW n \in Nat, n < 256 ^ k
  PROVE  /\ Codec!Bytes(n, k) \in Seq(Byte) /\ Len(Codec!Bytes(n, k)) = k
         /\ Codec!Number(Codec!Bytes(n, k)) = n
<1> DEFINE b == [i \in 1..k |-> (n \div 256 ^ (k - i)) % 256]
<1>1. b = Codec!Bytes(n, k)
  BY DEF Codec!Bytes
<1>2. \A i \in 1..k : b[i] \in Byte
  <2> SUFFICES ASSUME NEW i \in 1..k PROVE (n \div 256 ^ (k - i)) % 256 \in 0..255
    BY DEF Byte
  <2>1. 256 ^ (k - i) \in {1, 256, 256 ^ 2, 256 ^ 3}
    <3> DEFINE e == k - i
    <3>1. e = 0 \/ e = 1 \/ e = 2 \/ e = 3
      <4>1. k \in 1..4 /\ i \in 1..k /\ e = k - i
        OBVIOUS
      <4> HIDE DEF e
      <4> QED BY <4>1, SMTT(30)
    <3>2. 256 ^ 0 = 1 /\ 256 ^ 1 = 256
      BY SMT
    <3> HIDE DEF e
    <3>3. 256 ^ e \in {1, 256, 256 ^ 2, 256 ^ 3}
      BY <3>1, <3>2, Zenon
    <3> QED BY <3>3 DEF e
  <2>2. n \div 256 ^ (k - i) \in Nat
    <3>1. n \div 1 \in Nat /\ n \div 256 \in Nat /\ n \div 256 ^ 2 \in Nat /\ n \div 256 ^ 3 \in Nat
      BY SMT
    <3> QED BY <2>1, <3>1
  <2> QED BY <2>2
<1>3. b \in Seq(Byte) /\ b \in Seq(Nat) /\ Len(b) = k
  BY <1>2 DEF Byte
<1>4. PICK f : DigitsUpto(f, 256, b, Len(b)) /\ Codec!OfDigits(256, b) = f[Len(b)]
  <2> HIDE DEF b
  <2> QED BY <1>3, DigitsFacts
<1>5. f[0] = 0 /\ \A i \in 1..k : f[i] = f[i - 1] * 256 + b[i]
  <2> HIDE DEF b
  <2> QED BY <1>3, <1>4, Zenon DEF DigitsUpto
<1>6. f[k] = n
  <2>1. CASE k = 1
    <3>1. b[1] = n
      <4>1. b[1] = (n \div 256 ^ 0) % 256 /\ n < 256 ^ 1
        BY <2>1
      <4> QED BY <4>1, SMT
    <3>2. f[1] = f[0] * 256 + b[1]
      <4>1. 1 - 1 = 0
        OBVIOUS
      <4> QED BY <1>5, <2>1, <4>1
    <3> QED BY <1>5, <2>1, <3>1, <3>2
  <2>2. CASE k = 2
    <3>1. b[1] = (n \div 256 ^ 1) % 256 /\ b[2] = (n \div 256 ^ 0) % 256 /\ n < 256 ^ 2
      BY <2>2
    <3>2. f[1] = 0 * 256 + b[1] /\ f[2] = f[1] * 256 + b[2]
      BY <1>5, <2>2, 1 - 1 = 0, 2 - 1 = 1
    <3> QED BY <2>2, <3>1, <3>2, SMT
  <2>3. CASE k = 3
    <3>1. /\ b[1] = (n \div 256 ^ 2) % 256 /\ b[2] = (n \div 256 ^ 1) % 256
          /\ b[3] = (n \div 256 ^ 0) % 256 /\ n < 256 ^ 3
      BY <2>3
    <3>2. f[1] = 0 * 256 + b[1] /\ f[2] = f[1] * 256 + b[2] /\ f[3] = f[2] * 256 + b[3]
      BY <1>5, <2>3, 1 - 1 = 0, 2 - 1 = 1, 3 - 1 = 2
    <3> QED BY <2>3, <3>1, <3>2, SMT
  <2>4. CASE k = 4
    <3>1. /\ b[1] = (n \div 256 ^ 3) % 256 /\ b[2] = (n \div 256 ^ 2) % 256
          /\ b[3] = (n \div 256 ^ 1) % 256 /\ b[4] = (n \div 256 ^ 0) % 256 /\ n < 256 ^ 4
      BY <2>4
    <3>2. /\ f[1] = 0 * 256 + b[1] /\ f[2] = f[1] * 256 + b[2]
          /\ f[3] = f[2] * 256 + b[3] /\ f[4] = f[3] * 256 + b[4]
      BY <1>5, <2>4, 1 - 1 = 0, 2 - 1 = 1, 3 - 1 = 2, 4 - 1 = 3
    <3> QED BY <2>4, <3>1, <3>2, SMT
  <2> QED BY <2>1, <2>2, <2>3, <2>4
<1> QED BY <1>1, <1>3, <1>4, <1>6 DEF Codec!Number

\* uint_bytes takes as many bytes as the number needs.
LEMMA UintBytesFacts ==
  ASSUME NEW n \in Nat, n < 256 ^ 4
  PROVE  /\ Codec!UintBytes(n) \in Seq(Byte) /\ Len(Codec!UintBytes(n)) \in 1..4
         /\ Codec!Number(Codec!UintBytes(n)) = n
<1> DEFINE k == IF n < 256 THEN 1 ELSE IF n < 256 ^ 2 THEN 2 ELSE IF n < 256 ^ 3 THEN 3 ELSE 4
<1>1. k \in 1..4 /\ n < 256 ^ k
  <2>1. 256 ^ 1 = 256
    BY SMT
  <2> QED BY <2>1
<1>2. Codec!UintBytes(n) = Codec!Bytes(n, k)
  BY DEF Codec!UintBytes
<1> HIDE DEF k
<1> QED BY <1>1, <1>2, NumberOfBytes

\* Bytes that start with others are split after them.
LEMMA SplitConcat ==
  ASSUME NEW s \in Seq(Nat), NEW r \in Seq(Nat)
  PROVE  Codec!Split(s \o r, Len(s)) = Codec!Found(s, r)
<1>1. s \o r \in Seq(Nat) /\ Len(s \o r) = Len(s) + Len(r) /\ Len(s) \in Nat /\ Len(r) \in Nat
  OBVIOUS
<1>2. SubSeq(s \o r, 1, Len(s)) = s
  <2>1. SubSeq(s \o r, 1, Len(s)) = SubSeq(s, 1, Len(s))
    BY <1>1, SubSeqOfConcat1
  <2> QED BY <2>1, SubSeqFull
<1>3. Codec!Drop(s \o r, Len(s)) = r
  <2>1. SubSeq(s \o r, Len(s) + 1, Len(s \o r)) = SubSeq(r, (Len(s) + 1) - Len(s), Len(s \o r) - Len(s))
    BY <1>1, SubSeqOfConcat2
  <2>2. (Len(s) + 1) - Len(s) = 1 /\ Len(s \o r) - Len(s) = Len(r)
    BY <1>1
  <2>3. SubSeq(s \o r, Len(s) + 1, Len(s \o r)) = SubSeq(r, 1, Len(r))
    BY <2>1, <2>2
  <2> QED BY <2>3, SubSeqFull DEF Codec!Drop
<1>4. ~ (Len(s \o r) < Len(s))
  BY <1>1
<1> QED BY <1>2, <1>3, <1>4 DEF Codec!Split

\* Head and tail of bytes put after another.
LEMMA HeadConcat ==
  ASSUME NEW b \in Nat, NEW s \in Seq(Nat)
  PROVE  <<b>> \o s \in Seq(Nat) /\ <<b>> \o s # <<>> /\ Head(<<b>> \o s) = b /\ Tail(<<b>> \o s) = s
<1>1. <<b>> \o s \in Seq(Nat) /\ Len(<<b>> \o s) = 1 + Len(s) /\ (<<b>> \o s)[1] = b
  OBVIOUS
<1>2. Tail(<<b>> \o s) = s
  OBVIOUS
<1> QED BY <1>1, <1>2

\* Concatenation, as an operator the provers do not look into.
Cat(a, b) == a \o b

Numbers == Seq(Nat)

\* Three sequences may be put together from either end.
LEMMA CatThree ==
  ASSUME NEW a \in Numbers, NEW b \in Numbers, NEW c \in Numbers
  PROVE  Cat(a, b) \in Numbers /\ Cat(Cat(a, b), c) = Cat(a, Cat(b, c))
<1>1. a \o b \in Seq(Nat)
  BY DEF Numbers
<1>2. (a \o b) \o c = a \o (b \o c)
  BY ConcatAssociative DEF Numbers
<1> QED BY <1>1, <1>2, Zenon DEF Cat, Numbers

\* Two bytes, one after the other.
LEMMA PairConcat ==
  ASSUME NEW a \in Nat, NEW b \in Nat
  PROVE  <<a, b>> = <<a>> \o <<b>>
<1>1. <<a>> \in Seq(Nat) /\ <<b>> \in Seq(Nat) /\ Len(<<a>>) = 1 /\ Len(<<b>>) = 1
  OBVIOUS
<1>2. <<a>> \o <<b>> \in Seq(Nat) /\ Len(<<a>> \o <<b>>) = 2
  BY <1>1, ConcatProperties
<1>3. <<a, b>> \in Seq(Nat) /\ Len(<<a, b>>) = 2
  OBVIOUS
<1>4. \A i \in 1..2 : (<<a>> \o <<b>>)[i] = <<a, b>>[i]
  OBVIOUS
<1> QED BY <1>2, <1>3, <1>4, SeqEqual

\* The tag byte, read back.
LEMMA TagByteFacts ==
  ASSUME NEW tag \in 0..15, NEW len \in 0..7
  PROVE  LET b == Codec!TagByte(tag, len)
         IN b \in Byte /\ ~ Codec!IsContext(b) /\ Codec!TagOf(b) = tag /\ Codec!Lvt(b) = len
BY SMT DEF Codec!TagByte, Codec!IsContext, Codec!TagOf, Codec!Lvt, Byte

\* ... and the one of a context tag.
LEMMA ContextByteFacts ==
  ASSUME NEW tag \in 0..15, NEW len \in 0..7
  PROVE  LET b == Codec!ContextByte(tag, len)
         IN b \in Byte /\ Codec!IsContext(b) /\ Codec!TagOf(b) = tag /\ Codec!Lvt(b) = len
BY SMT DEF Codec!ContextByte, Codec!IsContext, Codec!TagOf, Codec!Lvt, Byte

\* Lengths that fit a tag byte, and those that do not.
LEMMA LengthFacts ==
  ASSUME NEW n \in 0..255
  PROVE  /\ n \in Nat /\ n % 256 = n
         /\ n <= 4 => n \in 0..7 /\ n < 5
OBVIOUS

\* A value is split off once its length is known.
LEMMA LengthKnown ==
  ASSUME NEW s, NEW lvt, NEW n, NEW r, NEW k, Codec!DecodeLength(s, lvt) = Codec!Found(n, r)
  PROVE  Codec!Sized(s, lvt) = Codec!Split(r, n) /\ Codec!Fixed(s, lvt, k) = Codec!Split(r, k)
BY SMT DEF Codec!Sized, Codec!Fixed, Codec!Then, Codec!Found, Codec!Fail

\* A length that is in the tag byte, and one that follows it.
LEMMA SizedFacts ==
  ASSUME NEW s \in Seq(Nat), NEW n \in 0..255, Len(s) = n, NEW rest \in Seq(Nat)
  PROVE  /\ n <= 4 =>
              /\ Codec!Sized(s \o rest, n) = Codec!Found(s, rest)
              /\ Codec!Fixed(s \o rest, n, n) = Codec!Found(s, rest)
         /\ Codec!Sized(<<n>> \o (s \o rest), 5) = Codec!Found(s, rest)
         /\ Codec!Fixed(<<n>> \o (s \o rest), 5, n) = Codec!Found(s, rest)
<1>1. s \o rest \in Seq(Nat)
  OBVIOUS
<1>2. Codec!Split(s \o rest, n) = Codec!Found(s, rest)
  BY SplitConcat
<1>3. ASSUME n <= 4
      PROVE  /\ Codec!Sized(s \o rest, n) = Codec!Found(s, rest)
             /\ Codec!Fixed(s \o rest, n, n) = Codec!Found(s, rest)
  <2>1. Codec!DecodeLength(s \o rest, n) = Codec!Found(n, s \o rest)
    BY <1>3, LengthFacts, Zenon DEF Codec!DecodeLength
  <2> QED BY <1>2, <2>1, LengthKnown
<1>4. /\ Codec!Sized(<<n>> \o (s \o rest), 5) = Codec!Found(s, rest)
      /\ Codec!Fixed(<<n>> \o (s \o rest), 5, n) = Codec!Found(s, rest)
  <2> DEFINE t == <<n>> \o (s \o rest)
  <2>1. t # <<>> /\ Head(t) = n /\ Tail(t) = s \o rest
    BY <1>1, LengthFacts, HeadConcat
  <2> HIDE DEF t
  <2>2. ~ (5 < 5)
    OBVIOUS
  <2>3. Codec!DecodeLength(t, 5) = Codec!Found(n, s \o rest)
    BY <2>1, <2>2, Zenon DEF Codec!DecodeLength
  <2>4. /\ Codec!Sized(t, 5) = Codec!Found(s, rest)
        /\ Codec!Fixed(t, 5, n) = Codec!Found(s, rest)
    BY <1>2, <2>3, LengthKnown
  <2> QED BY <2>4 DEF t
<1> QED BY <1>3, <1>4

\* Bytes are numbers.
LEMMA BytesAreNumbers ==
  ASSUME NEW s \in Seq(Byte)
  PROVE  s \in Seq(Nat)
<1>1. Byte \subseteq Nat
  BY DEF Byte
<1> HIDE DEF Byte
<1>2. ASSUME NEW i \in 1..Len(s) PROVE s[i] \in Nat
  <2>1. s[i] \in Byte
    BY ElementOfSeq
  <2> QED BY <1>1, <2>1
<1>3. [i \in 1..Len(s) |-> s[i]] \in Seq(Nat) /\ s = [i \in 1..Len(s) |-> s[i]]
  BY <1>2
<1> QED BY <1>3

\* Bytes that start with a tag and the content b, whether its length is looked
\* for or known.
Carries(s, tag, b, rest) ==
  /\ s # <<>>
  /\ ~ Codec!IsContext(Head(s))
  /\ Codec!TagOf(Head(s)) = tag
  /\ Codec!Sized(Tail(s), Codec!Lvt(Head(s))) = Codec!Found(b, rest)
  /\ Codec!Fixed(Tail(s), Codec!Lvt(Head(s)), Len(b)) = Codec!Found(b, rest)

\* A length that fits the tag byte.
LEMMA ShortTag ==
  ASSUME NEW tag \in 0..15, NEW s \in Seq(Byte), NEW n \in 0..255, Len(s) = n, n <= 4, NEW rest \in Seq(Byte)
  PROVE  Carries((<<Codec!TagByte(tag, n)>> \o s) \o rest, tag, s, rest)
<1> DEFINE b == Codec!TagByte(tag, n)
           t == <<b>> \o (s \o rest)
<1>1. s \in Seq(Nat) /\ rest \in Seq(Nat) /\ s \o rest \in Seq(Nat) /\ n \in 0..7
  <2>1. s \in Seq(Nat) /\ rest \in Seq(Nat)
    BY BytesAreNumbers
  <2> QED BY <2>1, LengthFacts
<1>2. b \in Nat /\ ~ Codec!IsContext(b) /\ Codec!TagOf(b) = tag /\ Codec!Lvt(b) = n
  <2>1. b \in Byte /\ ~ Codec!IsContext(b) /\ Codec!TagOf(b) = tag /\ Codec!Lvt(b) = n
    <3> HIDE DEF b
    <3> QED BY <1>1, TagByteFacts DEF b
  <2> HIDE DEF b
  <2> QED BY <2>1 DEF Byte
<1> HIDE DEF b
<1>3. (<<b>> \o s) \o rest = t
  <2> DEFINE bb == <<b>>
  <2>1. bb \in Numbers /\ s \in Numbers /\ rest \in Numbers
    BY <1>1, <1>2 DEF Numbers
  <2> HIDE DEF bb
  <2>2. Cat(Cat(bb, s), rest) = Cat(bb, Cat(s, rest))
    BY <2>1, CatThree
  <2> QED BY <2>2, Zenon DEF Cat, bb
<1>4. t # <<>> /\ Head(t) = b /\ Tail(t) = s \o rest
  BY <1>1, <1>2, HeadConcat
<1>5. /\ Codec!Sized(s \o rest, n) = Codec!Found(s, rest)
      /\ Codec!Fixed(s \o rest, n, n) = Codec!Found(s, rest)
  BY <1>1, SizedFacts
<1> HIDE DEF t
<1>6. Carries(t, tag, s, rest)
  BY <1>2, <1>4, <1>5, Zenon DEF Carries
<1> QED BY <1>3, <1>6, Zenon DEF b

\* A length that follows the tag byte.
LEMMA LongTag ==
  ASSUME NEW tag \in 0..15, NEW s \in Seq(Byte), NEW n \in 0..255, Len(s) = n, NEW rest \in Seq(Byte)
  PROVE  Carries((<<Codec!TagByte(tag, 5), n>> \o s) \o rest, tag, s, rest)
<1> DEFINE b == Codec!TagByte(tag, 5)
           u == <<n>> \o (s \o rest)
           t == <<b>> \o u
<1>1. s \in Seq(Nat) /\ rest \in Seq(Nat) /\ s \o rest \in Seq(Nat) /\ n \in Nat
  <2>1. s \in Seq(Nat) /\ rest \in Seq(Nat)
    BY BytesAreNumbers
  <2> QED BY <2>1, LengthFacts
<1>2. b \in Nat /\ ~ Codec!IsContext(b) /\ Codec!TagOf(b) = tag /\ Codec!Lvt(b) = 5
  <2>1. b \in Byte /\ ~ Codec!IsContext(b) /\ Codec!TagOf(b) = tag /\ Codec!Lvt(b) = 5
    <3>1. 5 \in 0..7
      OBVIOUS
    <3> HIDE DEF b
    <3> QED BY <3>1, TagByteFacts DEF b
  <2> HIDE DEF b
  <2> QED BY <2>1 DEF Byte
<1> HIDE DEF b
<1>3. (<<b, n>> \o s) \o rest = t
  <2> DEFINE bb == <<b>>
             nn == <<n>>
  <2>1. <<b, n>> = bb \o nn
    BY <1>1, <1>2, PairConcat
  <2>2. bb \in Numbers /\ nn \in Numbers /\ s \in Numbers /\ rest \in Numbers
    BY <1>1, <1>2 DEF Numbers
  <2> HIDE DEF bb, nn
  <2>3. Cat(Cat(Cat(bb, nn), s), rest) = Cat(bb, Cat(nn, Cat(s, rest)))
    BY <2>2, CatThree
  <2>4. (<<b, n>> \o s) \o rest = bb \o (nn \o (s \o rest))
    BY <2>1, <2>3, Zenon DEF Cat
  <2> QED BY <2>4 DEF bb, nn
<1>4. u \in Seq(Nat)
  BY <1>1, HeadConcat
<1>5. /\ Codec!Sized(u, 5) = Codec!Found(s, rest)
      /\ Codec!Fixed(u, 5, n) = Codec!Found(s, rest)
  BY <1>1, SizedFacts
<1> HIDE DEF u
<1>6. t # <<>> /\ Head(t) = b /\ Tail(t) = u
  BY <1>2, <1>4, HeadConcat
<1> HIDE DEF t
<1>7. Carries(t, tag, s, rest)
  BY <1>2, <1>5, <1>6, Zenon DEF Carries
<1> QED BY <1>3, <1>7, Zenon DEF b

\* A tagged value carries its content.
LEMMA TaggedFacts ==
  ASSUME NEW tag \in 0..15, NEW s \in Seq(Byte), NEW n \in 0..255, Len(s) = n, NEW rest \in Seq(Byte)
  PROVE  Carries(Codec!Tagged(tag, s) \o rest, tag, s, rest)
<1>1. n % 256 = n
  BY LengthFacts
<1>2. CASE n <= 4
  <2>1. Codec!Tagged(tag, s) = <<Codec!TagByte(tag, n)>> \o s
    BY <1>2 DEF Codec!Tagged
  <2> QED BY <1>2, <2>1, ShortTag
<1>3. CASE ~ (n <= 4)
  <2>1. Codec!Tagged(tag, s) = <<Codec!TagByte(tag, 5), n>> \o s
    BY <1>1, <1>3 DEF Codec!Tagged
  <2> QED BY <2>1, LongTag
<1> QED BY <1>2, <1>3

\* An object identifier, read back.
LEMMA ObjectIdFacts ==
  ASSUME NEW type \in Codec!ObjectTypes, NEW instance \in 0..2 ^ 22 - 1
  PROVE  LET oid == Codec!ObjectId(type, instance)
         IN /\ Codec!ObjectIdBytes(oid) \in Seq(Byte) /\ Len(Codec!ObjectIdBytes(oid)) = 4
            /\ Codec!ReadObjectId(Codec!ObjectIdBytes(oid)) = oid
<1> DEFINE oid == Codec!ObjectId(type, instance)
           n == type * 2 ^ 22 + (instance % 2 ^ 22)
<1>1. type \in 0..20
  BY DEF Codec!ObjectTypes
<1>2. n \in Nat /\ n < 256 ^ 4 /\ n \div 2 ^ 22 = type /\ n % 2 ^ 22 = instance
  BY <1>1, SMT
<1>3. oid.type = type /\ oid.instance = instance
  BY DEF Codec!ObjectId
<1>4. Codec!ObjectIdBytes(oid) = Codec!Bytes(n, 4)
  BY <1>3, Zenon DEF Codec!ObjectIdBytes
<1> HIDE DEF n
<1>5. /\ Codec!Bytes(n, 4) \in Seq(Byte) /\ Len(Codec!Bytes(n, 4)) = 4
      /\ Codec!Number(Codec!Bytes(n, 4)) = n
  <2>1. 4 \in 1..4
    OBVIOUS
  <2> QED BY <1>2, <2>1, NumberOfBytes
<1>6. Codec!ReadObjectId(Codec!Bytes(n, 4)) = oid
  BY <1>2, <1>5, Zenon DEF Codec!ReadObjectId
<1> QED BY <1>4, <1>5, <1>6

\* One more bit.
LEMMA OneBit ==
  ASSUME NEW x \in Nat, NEW b \in {0, 1}, NEW y, y = x * 2 + b
  PROVE  /\ y \in Nat /\ y \div 2 = x /\ y % 2 = b
         /\ \A m \in Nat : x <= m => y <= 2 * m + 1
BY SMT

\* Half of a number, again and again.
LEMMA Halves ==
  ASSUME NEW x \in Nat
  PROVE  /\ x \div 2 ^ 0 = x /\ x \div 2 ^ 1 = x \div 2
         /\ x \div 2 ^ 2 = (x \div 2 ^ 1) \div 2 /\ x \div 2 ^ 3 = (x \div 2 ^ 2) \div 2
         /\ x \div 2 ^ 4 = (x \div 2 ^ 3) \div 2 /\ x \div 2 ^ 5 = (x \div 2 ^ 4) \div 2
         /\ x \div 2 ^ 6 = (x \div 2 ^ 5) \div 2 /\ x \div 2 ^ 7 = (x \div 2 ^ 6) \div 2
BY SMT

\* The eight bits of a byte.
LEMMA EightBits ==
  ASSUME NEW e \in [1..8 -> {0, 1}], NEW x, x = Codec!OfDigits(2, e)
  PROVE  x \in Byte /\ \A j \in 1..8 : (x \div 2 ^ (8 - j)) % 2 = e[j]
<1>1. e \in Seq(Nat) /\ Len(e) = 8
  <2>1. e = [j \in 1..8 |-> e[j]] /\ 8 \in Nat
    OBVIOUS
  <2>2. \A j \in 1..8 : e[j] \in Nat
    OBVIOUS
  <2>3. [j \in 1..8 |-> e[j]] \in Seq(Nat) /\ Len([j \in 1..8 |-> e[j]]) = 8
    BY <2>2
  <2> QED BY <2>1, <2>3
<1>2. PICK f : DigitsUpto(f, 2, e, Len(e)) /\ Codec!OfDigits(2, e) = f[Len(e)]
  BY <1>1, DigitsFacts
<1>3. f \in [0..8 -> Nat] /\ f[0] = 0 /\ \A j \in 1..8 : f[j] = f[j - 1] * 2 + e[j]
  BY <1>1, <1>2, Zenon DEF DigitsUpto
<1>4. x = f[8] /\ f[8] \in Nat
  BY <1>1, <1>2, <1>3
<1>5. ASSUME NEW j \in 1..8
      PROVE  /\ f[j - 1] = f[j] \div 2 /\ f[j] % 2 = e[j]
             /\ \A m \in Nat : f[j - 1] <= m => f[j] <= 2 * m + 1
  <2>1. f[j] = f[j - 1] * 2 + e[j]
    BY <1>3
  <2>2. f[j - 1] \in Nat /\ e[j] \in {0, 1}
    <3>1. j - 1 \in 0..8
      OBVIOUS
    <3> QED BY <1>3, <3>1
  <2> QED BY <2>1, <2>2, OneBit
<1>6. /\ f[0] = f[1] \div 2 /\ f[1] = f[2] \div 2 /\ f[2] = f[3] \div 2 /\ f[3] = f[4] \div 2
      /\ f[4] = f[5] \div 2 /\ f[5] = f[6] \div 2 /\ f[6] = f[7] \div 2 /\ f[7] = f[8] \div 2
  BY <1>5, 1 - 1 = 0, 2 - 1 = 1, 3 - 1 = 2, 4 - 1 = 3, 5 - 1 = 4, 6 - 1 = 5, 7 - 1 = 6, 8 - 1 = 7
<1>7. /\ f[8] = x \div 2 ^ 0 /\ f[7] = x \div 2 ^ 1 /\ f[6] = x \div 2 ^ 2 /\ f[5] = x \div 2 ^ 3
      /\ f[4] = x \div 2 ^ 4 /\ f[3] = x \div 2 ^ 5 /\ f[2] = x \div 2 ^ 6 /\ f[1] = x \div 2 ^ 7
  <2>1. x \in Nat /\ f[8] = x /\ x \div 2 ^ 0 = x /\ x \div 2 ^ 1 = x \div 2
    BY <1>4, Halves
  <2>2. /\ x \div 2 ^ 2 = (x \div 2 ^ 1) \div 2 /\ x \div 2 ^ 3 = (x \div 2 ^ 2) \div 2
        /\ x \div 2 ^ 4 = (x \div 2 ^ 3) \div 2 /\ x \div 2 ^ 5 = (x \div 2 ^ 4) \div 2
        /\ x \div 2 ^ 6 = (x \div 2 ^ 5) \div 2 /\ x \div 2 ^ 7 = (x \div 2 ^ 6) \div 2
    BY <2>1, Halves, Zenon
  <2>3. f[8] = x \div 2 ^ 0 /\ f[7] = x \div 2 ^ 1
    BY <1>6, <2>1, Zenon
  <2>4. f[6] = x \div 2 ^ 2
    BY <1>6, <2>2, <2>3, Zenon
  <2>5. f[5] = x \div 2 ^ 3
    BY <1>6, <2>2, <2>4, Zenon
  <2>6. f[4] = x \div 2 ^ 4
    BY <1>6, <2>2, <2>5, Zenon
  <2>7. f[3] = x \div 2 ^ 5
    BY <1>6, <2>2, <2>6, Zenon
  <2>8. f[2] = x \div 2 ^ 6
    BY <1>6, <2>2, <2>7, Zenon
  <2>9. f[1] = x \div 2 ^ 7
    BY <1>6, <2>2, <2>8, Zenon
  <2> QED BY <2>3, <2>4, <2>5, <2>6, <2>7, <2>8, <2>9
<1>8. \A j \in 1..8 : f[j] % 2 = e[j]
  BY <1>5
<1>9. x \in Byte
  <2>1. /\ 2 * 0 + 1 = 1 /\ 2 * 1 + 1 = 3 /\ 2 * 3 + 1 = 7 /\ 2 * 7 + 1 = 15 /\ 2 * 15 + 1 = 31
        /\ 2 * 31 + 1 = 63 /\ 2 * 63 + 1 = 127 /\ 2 * 127 + 1 = 255
    OBVIOUS
  <2>2. \A j \in 1..8, m \in Nat : f[j - 1] <= m => f[j] <= 2 * m + 1
    BY <1>5
  <2>3. f[1] <= 1
    BY <1>3, <2>1, <2>2, 1 - 1 = 0
  <2>4. f[2] <= 3
    BY <2>1, <2>2, <2>3, 2 - 1 = 1
  <2>5. f[3] <= 7
    BY <2>1, <2>2, <2>4, 3 - 1 = 2
  <2>6. f[4] <= 15
    BY <2>1, <2>2, <2>5, 4 - 1 = 3
  <2>7. f[5] <= 31
    BY <2>1, <2>2, <2>6, 5 - 1 = 4
  <2>8. f[6] <= 63
    BY <2>1, <2>2, <2>7, 6 - 1 = 5
  <2>9. f[7] <= 127
    BY <2>1, <2>2, <2>8, 7 - 1 = 6
  <2>10. f[8] <= 255
    BY <2>1, <2>2, <2>9, 8 - 1 = 7
  <2> QED BY <1>4, <2>10 DEF Byte
<1>10. ASSUME NEW j \in 1..8 PROVE (x \div 2 ^ (8 - j)) % 2 = e[j]
  <2>1. \/ j = 1 /\ 8 - j = 7
        \/ j = 2 /\ 8 - j = 6
        \/ j = 3 /\ 8 - j = 5
        \/ j = 4 /\ 8 - j = 4
        \/ j = 5 /\ 8 - j = 3
        \/ j = 6 /\ 8 - j = 2
        \/ j = 7 /\ 8 - j = 1
        \/ j = 8 /\ 8 - j = 0
    OBVIOUS
  <2>2. f[j] = x \div 2 ^ (8 - j)
    BY <1>7, <2>1, Zenon
  <2> QED BY <1>8, <2>2
<1> QED BY <1>9, <1>10

\* Complete bytes of bits, packed and unpacked.
LEMMA BitsFacts ==
  ASSUME NEW m \in Nat, NEW bits \in Seq({0, 1}), Len(bits) = 8 * m
  PROVE  /\ Codec!BitBytes(bits) \in Seq(Byte) /\ Len(Codec!BitBytes(bits)) = m
         /\ Codec!BitsFromLow(0, Codec!BitBytes(bits)) = bits
<1> DEFINE eight(i) == [j \in 1..8 |-> IF 8 * (i - 1) + j \in DOMAIN bits THEN bits[8 * (i - 1) + j] ELSE 0]
           bytes == [i \in 1..m |-> Codec!OfDigits(2, eight(i))]
<1>1. Codec!BitBytes(bits) = bytes
  <2>1. (Len(bits) + 7) \div 8 = m
    <3>1. (8 * m + 7) \div 8 = m
      OBVIOUS
    <3> QED BY <3>1
  <2> QED BY <2>1 DEF Codec!BitBytes
<1>2. ASSUME NEW i \in 1..m, NEW j \in 1..8
      PROVE  8 * (i - 1) + j \in 1..8 * m /\ eight(i)[j] = bits[8 * (i - 1) + j] /\ eight(i)[j] \in {0, 1}
  <2>1. 8 * (i - 1) + j \in 1..8 * m
    OBVIOUS
  <2>2. DOMAIN bits = 1..8 * m
    OBVIOUS
  <2>3. bits[8 * (i - 1) + j] \in {0, 1}
    BY <2>1
  <2> QED BY <2>1, <2>2, <2>3
<1>3. ASSUME NEW i \in 1..m
      PROVE  /\ bytes[i] \in Byte
             /\ \A j \in 1..8 : (bytes[i] \div 2 ^ (8 - j)) % 2 = eight(i)[j]
  <2>1. \A j \in 1..8 : eight(i)[j] \in {0, 1}
    BY <1>2
  <2>2. eight(i) \in [1..8 -> {0, 1}]
    BY <2>1
  <2>3. bytes[i] = Codec!OfDigits(2, eight(i))
    OBVIOUS
  <2> HIDE DEF bytes, eight
  <2> QED BY <2>2, <2>3, EightBits
<1>4. bytes \in Seq(Byte) /\ Len(bytes) = m
  <2> HIDE DEF Byte
  <2>1. \A i \in 1..m : bytes[i] \in Byte
    BY <1>3
  <2>2. bytes = [i \in 1..m |-> bytes[i]]
    OBVIOUS
  <2> HIDE DEF bytes
  <2> QED BY <2>1, <2>2
<1> HIDE DEF bytes
<1>5. ASSUME NEW k \in 1..8 * m
      PROVE  Codec!Bit(bytes[((k - 1) \div 8) + 1], 7 - ((k - 1) % 8)) = bits[k]
  <2> DEFINE i == ((k - 1) \div 8) + 1
             j == ((k - 1) % 8) + 1
  <2>1. i \in 1..m /\ j \in 1..8 /\ 8 * (i - 1) + j = k /\ 7 - ((k - 1) % 8) = 8 - j
    OBVIOUS
  <2> HIDE DEF i, j
  <2>2. (bytes[i] \div 2 ^ (8 - j)) % 2 = eight(i)[j]
    BY <1>3, <2>1
  <2>3. eight(i)[j] = bits[k]
    BY <1>2, <2>1
  <2>4. Codec!Bit(bytes[i], 8 - j) = bits[k]
    BY <2>2, <2>3 DEF Codec!Bit
  <2> QED BY <2>1, <2>4 DEF i
<1>6. Codec!BitsFromLow(0, bytes) = [k \in 1..8 * m |-> bits[k]]
  <2>1. 8 * Len(bytes) - 0 = 8 * m
    BY <1>4
  <2>2. ASSUME NEW k \in 1..8 * m
        PROVE  LET i == ((k - 1) \div 8) + 1
                   Used(n) == IF n = Len(bytes) THEN 8 - 0 ELSE 8
               IN Codec!Bit(bytes[i], Used(i) - 1 - ((k - 1) % 8)) = bits[k]
    <3>1. 8 - 0 - 1 - ((k - 1) % 8) = 7 - ((k - 1) % 8) /\ 8 - 1 - ((k - 1) % 8) = 7 - ((k - 1) % 8)
      OBVIOUS
    <3>2. Codec!Bit(bytes[((k - 1) \div 8) + 1], 8 - 0 - 1 - ((k - 1) % 8)) = bits[k]
      BY <1>5, <3>1
    <3>3. Codec!Bit(bytes[((k - 1) \div 8) + 1], 8 - 1 - ((k - 1) % 8)) = bits[k]
      BY <1>5, <3>1
    <3> QED BY <3>2, <3>3, Zenon
  <2> QED BY <2>1, <2>2, Zenon DEF Codec!BitsFromLow
<1>7. bits = [k \in 1..8 * m |-> bits[k]]
  OBVIOUS
<1> QED BY <1>1, <1>4, <1>6, <1>7

\* At most four bytes are all there is to an integer.
LEMMA ReadUintFacts ==
  ASSUME NEW b, Len(b) \in 0..4
  PROVE  Codec!LastFour(b) = b /\ Codec!ReadUint(b) = Codec!Number(b)
<1>1. Codec!LastFour(b) = b
  <2>1. \A n \in 0..4 : ~ (n > 4)
    OBVIOUS
  <2>2. ~ (Len(b) > 4)
    BY <2>1, Zenon
  <2> QED BY <2>2, Zenon DEF Codec!LastFour
<1> QED BY <1>1, Zenon DEF Codec!ReadUint

\* What decode_application_value makes of numbers.
LEMMA DecodeNumber ==
  ASSUME NEW s, NEW tag, NEW b, NEW r, Carries(s, tag, b, r)
  PROVE  /\ tag = 2 => Codec!DecodeValue(s) = Codec!Found(Codec!Value("Unsigned", Codec!ReadUint(b)), r)
         /\ tag = 3 => Codec!DecodeValue(s) = Codec!Found(Codec!Value("Integer", Codec!ReadInteger(b)), r)
         /\ tag = 9 => Codec!DecodeValue(s) = Codec!Found(Codec!Value("Enumerated", Codec!ReadUint(b)), r)
<1> DEFINE found == Codec!Found(b, r)
<1>1. /\ s # <<>> /\ ~ Codec!IsContext(Head(s)) /\ Codec!TagOf(Head(s)) = tag
      /\ Codec!Sized(Tail(s), Codec!Lvt(Head(s))) = found
      /\ Codec!Fixed(Tail(s), Codec!Lvt(Head(s)), Len(b)) = found
  BY DEF Carries
<1>2. found.ok /\ found.val = b /\ found.rest = r
  BY DEF Codec!Found
<1>3. ASSUME tag = 2
      PROVE  Codec!DecodeValue(s) = Codec!Found(Codec!Value("Unsigned", Codec!ReadUint(b)), r)
  <2>1. /\ ~ (tag > 12) /\ tag # 0 /\ tag # 1 /\ tag # 3 /\ tag # 4 /\ tag # 5 /\ tag # 6 /\ tag # 7
        /\ tag # 8 /\ tag # 9 /\ tag # 10 /\ tag # 11 /\ tag # 12
    BY <1>3
  <2>2. Codec!DecodeValue(s) =
          Codec!Then(found, LAMBDA c, d : Codec!Found(Codec!Value("Unsigned", Codec!ReadUint(c)), d))
    BY <1>1, <1>3, <2>1, Zenon DEF Codec!DecodeValue
  <2> QED BY <1>2, <2>2, Zenon DEF Codec!Then
<1>4. ASSUME tag = 3
      PROVE  Codec!DecodeValue(s) = Codec!Found(Codec!Value("Integer", Codec!ReadInteger(b)), r)
  <2>1. /\ ~ (tag > 12) /\ tag # 0 /\ tag # 1 /\ tag # 2 /\ tag # 4 /\ tag # 5 /\ tag # 6 /\ tag # 7
        /\ tag # 8 /\ tag # 9 /\ tag # 10 /\ tag # 11 /\ tag # 12
    BY <1>4
  <2>2. Codec!DecodeValue(s) =
          Codec!Then(found, LAMBDA c, d : Codec!Found(Codec!Value("Integer", Codec!ReadInteger(c)), d))
    BY <1>1, <1>4, <2>1, Zenon DEF Codec!DecodeValue
  <2> QED BY <1>2, <2>2, Zenon DEF Codec!Then
<1>5. ASSUME tag = 9
      PROVE  Codec!DecodeValue(s) = Codec!Found(Codec!Value("Enumerated", Codec!ReadUint(b)), r)
  <2>1. /\ ~ (tag > 12) /\ tag # 0 /\ tag # 1 /\ tag # 2 /\ tag # 3 /\ tag # 4 /\ tag # 5 /\ tag # 6
        /\ tag # 7 /\ tag # 8 /\ tag # 10 /\ tag # 11 /\ tag # 12
    BY <1>5
  <2>2. Codec!DecodeValue(s) =
          Codec!Then(found, LAMBDA c, d : Codec!Found(Codec!Value("Enumerated", Codec!ReadUint(c)), d))
    BY <1>1, <1>5, <2>1, Zenon DEF Codec!DecodeValue
  <2> QED BY <1>2, <2>2, Zenon DEF Codec!Then
<1> QED BY <1>3, <1>4, <1>5

\* What decode_application_value makes of values of a length of their own.
LEMMA DecodeFixed ==
  ASSUME NEW s, NEW tag, NEW b, NEW r, Carries(s, tag, b, r)
  PROVE  /\ tag = 4 /\ Len(b) = 4 => Codec!DecodeValue(s) = Codec!Found(Codec!Value("Real", b), r)
         /\ tag = 5 /\ Len(b) = 8 => Codec!DecodeValue(s) = Codec!Found(Codec!Value("Double", b), r)
         /\ tag = 10 /\ Len(b) = 4 => Codec!DecodeValue(s) = Codec!Found(Codec!Value("Date", Codec!ReadDate(b)), r)
         /\ tag = 11 /\ Len(b) = 4 => Codec!DecodeValue(s) = Codec!Found(Codec!Value("Time", b), r)
         /\ tag = 12 /\ Len(b) = 4 => Codec!DecodeValue(s) = Codec!Found(Codec!Value("ObjectId", Codec!ReadObjectId(b)), r)
<1> DEFINE found == Codec!Found(b, r)
<1>1. /\ s # <<>> /\ ~ Codec!IsContext(Head(s)) /\ Codec!TagOf(Head(s)) = tag
      /\ Codec!Sized(Tail(s), Codec!Lvt(Head(s))) = found
      /\ Codec!Fixed(Tail(s), Codec!Lvt(Head(s)), Len(b)) = found
  BY DEF Carries
<1>2. found.ok /\ found.val = b /\ found.rest = r
  BY DEF Codec!Found
<1>3. ASSUME tag = 4, Len(b) = 4
      PROVE  Codec!DecodeValue(s) = Codec!Found(Codec!Value("Real", b), r)
  <2>1. /\ ~ (tag > 12) /\ tag # 0 /\ tag # 1 /\ tag # 2 /\ tag # 3 /\ tag # 5 /\ tag # 6 /\ tag # 7
        /\ tag # 8 /\ tag # 9 /\ tag # 10 /\ tag # 11 /\ tag # 12
    BY <1>3
  <2>2. Codec!DecodeValue(s) =
          Codec!Then(found, LAMBDA c, d : Codec!Found(Codec!Value("Real", c), d))
    BY <1>1, <1>3, <2>1, Zenon DEF Codec!DecodeValue
  <2> QED BY <1>2, <2>2, Zenon DEF Codec!Then
<1>4. ASSUME tag = 5, Len(b) = 8
      PROVE  Codec!DecodeValue(s) = Codec!Found(Codec!Value("Double", b), r)
  <2>1. /\ ~ (tag > 12) /\ tag # 0 /\ tag # 1 /\ tag # 2 /\ tag # 3 /\ tag # 4 /\ tag # 6 /\ tag # 7
        /\ tag # 8 /\ tag # 9 /\ tag # 10 /\ tag # 11 /\ tag # 12
    BY <1>4
  <2>2. Codec!DecodeValue(s) =
          Codec!Then(found, LAMBDA c, d : Codec!Found(Codec!Value("Double", c), d))
    BY <1>1, <1>4, <2>1, Zenon DEF Codec!DecodeValue
  <2> QED BY <1>2, <2>2, Zenon DEF Codec!Then
<1>5. ASSUME tag = 10, Len(b) = 4
      PROVE  Codec!DecodeValue(s) = Codec!Found(Codec!Value("Date", Codec!ReadDate(b)), r)
  <2>1. /\ ~ (tag > 12) /\ tag # 0 /\ tag # 1 /\ tag # 2 /\ tag # 3 /\ tag # 4 /\ tag # 5 /\ tag # 6
        /\ tag # 7 /\ tag # 8 /\ tag # 9 /\ tag # 11 /\ tag # 12
    BY <1>5
  <2>2. Codec!DecodeValue(s) =
          Codec!Then(found, LAMBDA c, d : Codec!Found(Codec!Value("Date", Codec!ReadDate(c)), d))
    BY <1>1, <1>5, <2>1, Zenon DEF Codec!DecodeValue
  <2> QED BY <1>2, <2>2, Zenon DEF Codec!Then
<1>6. ASSUME tag = 11, Len(b) = 4
      PROVE  Codec!DecodeValue(s) = Codec!Found(Codec!Value("Time", b), r)
  <2>1. /\ ~ (tag > 12) /\ tag # 0 /\ tag # 1 /\ tag # 2 /\ tag # 3 /\ tag # 4 /\ tag # 5 /\ tag # 6
        /\ tag # 7 /\ tag # 8 /\ tag # 9 /\ tag # 10 /\ tag # 12
    BY <1>6
  <2>2. Codec!DecodeValue(s) =
          Codec!Then(found, LAMBDA c, d : Codec!Found(Codec!Value("Time", c), d))
    BY <1>1, <1>6, <2>1, Zenon DEF Codec!DecodeValue
  <2> QED BY <1>2, <2>2, Zenon DEF Codec!Then
<1>7. ASSUME tag = 12, Len(b) = 4
      PROVE  Codec!DecodeValue(s) = Codec!Found(Codec!Value("ObjectId", Codec!ReadObjectId(b)), r)
  <2>1. /\ ~ (tag > 12) /\ tag # 0 /\ tag # 1 /\ tag # 2 /\ tag # 3 /\ tag # 4 /\ tag # 5 /\ tag # 6
        /\ tag # 7 /\ tag # 8 /\ tag # 9 /\ tag # 10 /\ tag # 11
    BY <1>7
  <2>2. Codec!DecodeValue(s) =
          Codec!Then(found, LAMBDA c, d : Codec!Found(Codec!Value("ObjectId", Codec!ReadObjectId(c)), d))
    BY <1>1, <1>7, <2>1, Zenon DEF Codec!DecodeValue
  <2> QED BY <1>2, <2>2, Zenon DEF Codec!Then
<1> QED BY <1>3, <1>4, <1>5, <1>6, <1>7

\* What decode_application_value makes of strings.
LEMMA DecodeString ==
  ASSUME NEW s, NEW tag, NEW b, NEW r, Carries(s, tag, b, r)
  PROVE  /\ tag = 6 => Codec!DecodeValue(s) = Codec!Found(Codec!Value("OctetString", b), r)
         /\ tag = 7 /\ b # <<>> => Codec!DecodeValue(s) = Codec!Found(Codec!Value("CharacterString", Tail(b)), r)
         /\ tag = 8 /\ b # <<>> /\ Codec!UnusedFits(b) => Codec!DecodeValue(s) = Codec!Found(Codec!Value("BitString", Codec!BitsFromLow(Head(b), Tail(b))), r)
<1> DEFINE found == Codec!Found(b, r)
<1>1. /\ s # <<>> /\ ~ Codec!IsContext(Head(s)) /\ Codec!TagOf(Head(s)) = tag
      /\ Codec!Sized(Tail(s), Codec!Lvt(Head(s))) = found
      /\ Codec!Fixed(Tail(s), Codec!Lvt(Head(s)), Len(b)) = found
  BY DEF Carries
<1>2. found.ok /\ found.val = b /\ found.rest = r
  BY DEF Codec!Found
<1>3. ASSUME tag = 6
      PROVE  Codec!DecodeValue(s) = Codec!Found(Codec!Value("OctetString", b), r)
  <2>1. /\ ~ (tag > 12) /\ tag # 0 /\ tag # 1 /\ tag # 2 /\ tag # 3 /\ tag # 4 /\ tag # 5 /\ tag # 7
        /\ tag # 8 /\ tag # 9 /\ tag # 10 /\ tag # 11 /\ tag # 12
    BY <1>3
  <2>2. Codec!DecodeValue(s) =
          Codec!Then(found, LAMBDA c, d : Codec!Found(Codec!Value("OctetString", c), d))
    BY <1>1, <1>3, <2>1, Zenon DEF Codec!DecodeValue
  <2> QED BY <1>2, <2>2, Zenon DEF Codec!Then
<1>4. ASSUME tag = 7, b # <<>>
      PROVE  Codec!DecodeValue(s) = Codec!Found(Codec!Value("CharacterString", Tail(b)), r)
  <2>1. /\ ~ (tag > 12) /\ tag # 0 /\ tag # 1 /\ tag # 2 /\ tag # 3 /\ tag # 4 /\ tag # 5 /\ tag # 6
        /\ tag # 8 /\ tag # 9 /\ tag # 10 /\ tag # 11 /\ tag # 12
    BY <1>4
  <2>2. Codec!DecodeValue(s) =
          Codec!Then(found, LAMBDA c, d : IF c = <<>> THEN Codec!Fail ELSE Codec!Found(Codec!Value("CharacterString", Tail(c)), d))
    BY <1>1, <1>4, <2>1, Zenon DEF Codec!DecodeValue
  <2> QED BY <1>2, <1>4, <2>2, Zenon DEF Codec!Then
<1>5. ASSUME tag = 8, b # <<>>, Codec!UnusedFits(b)
      PROVE  Codec!DecodeValue(s) = Codec!Found(Codec!Value("BitString", Codec!BitsFromLow(Head(b), Tail(b))), r)
  <2>1. /\ ~ (tag > 12) /\ tag # 0 /\ tag # 1 /\ tag # 2 /\ tag # 3 /\ tag # 4 /\ tag # 5 /\ tag # 6
        /\ tag # 7 /\ tag # 9 /\ tag # 10 /\ tag # 11 /\ tag # 12
    BY <1>5
  <2>2. Codec!DecodeValue(s) =
          Codec!Then(found, LAMBDA c, d : IF c = <<>> \/ ~ Codec!UnusedFits(c) THEN Codec!Fail ELSE Codec!Found(Codec!Value("BitString", Codec!BitsFromLow(Head(c), Tail(c))), d))
    BY <1>1, <1>5, <2>1, Zenon DEF Codec!DecodeValue
  <2> QED BY <1>2, <1>5, <2>2, Zenon DEF Codec!Then
<1> QED BY <1>3, <1>4, <1>5

\* What encode_property_value makes of a value.
LEMMA EncodeNumber ==
  ASSUME NEW x
  PROVE  /\ Codec!Encode(Codec!Value("Null", x)) = <<0>>
         /\ Codec!Encode(Codec!Value("Unsigned", x)) = Codec!Tagged(2, Codec!UintBytes(x))
         /\ Codec!Encode(Codec!Value("Enumerated", x)) = Codec!Tagged(9, Codec!Bytes(x, IF x < 256 THEN 1 ELSE 4))
         /\ Codec!Encode(Codec!Value("ObjectId", x)) = Codec!Tagged(12, Codec!ObjectIdBytes(x))
BY DEF Codec!Encode, Codec!Value

\* ... and of one that consists of bytes.
LEMMA EncodeBytes ==
  ASSUME NEW x
  PROVE  /\ Codec!Encode(Codec!Value("Real", x)) = Codec!Tagged(4, x)
         /\ Codec!Encode(Codec!Value("Double", x)) = Codec!Tagged(5, x)
         /\ Codec!Encode(Codec!Value("Time", x)) = Codec!Tagged(11, x)
         /\ Codec!Encode(Codec!Value("Integer", x)) = Codec!Tagged(3, x)
         /\ Codec!Encode(Codec!Value("OctetString", x)) = Codec!Tagged(6, x)
BY DEF Codec!Encode, Codec!Value

\* ... of a string ...
LEMMA EncodeString ==
  ASSUME NEW x
  PROVE  Codec!Encode(Codec!Value("CharacterString", x)) =
           <<Codec!TagByte(7, 5), (Len(x) + 1) % 256, 0>> \o x
BY DEF Codec!Encode, Codec!Value

\* ... of a date, whose year is counted from 1900 ...
LEMMA EncodeDate ==
  ASSUME NEW x
  PROVE  Codec!Encode(Codec!Value("Date", x)) =
           Codec!Tagged(10, [x EXCEPT ![1] = IF @ < 1900 THEN 0 ELSE (@ - 1900) % 256])
BY DEF Codec!Encode, Codec!Value

\* ... and of bits, after the number of those the last byte does not use.
LEMMA EncodeBits ==
  ASSUME NEW x
  PROVE  Codec!Encode(Codec!Value("BitString", x)) =
           Codec!Tagged(8, <<(8 - (Len(x) % 8)) % 8>> \o Codec!BitBytes(x))
BY DEF Codec!Encode, Codec!Value

\* The values encode_property_value keeps whole: numbers of at most four bytes,
\* four or eight bytes of a number or a time, strings whose length fits a byte,
\* complete bytes of bits, object types the codec knows and dates in the years a
\* byte can tell.  A Boolean is not one of them.
SendableNumber(v) ==
  \E n \in 0..256 ^ 4 - 1 : v = Codec!Value("Unsigned", n) \/ v = Codec!Value("Enumerated", n)

SendableBytes(v) ==
  \E b \in Seq(Byte), n \in 0..255 :
    /\ Len(b) = n
    /\ \/ v = Codec!Value("OctetString", b)
       \/ v = Codec!Value("CharacterString", b) /\ n \in 0..254
       \/ v = Codec!Value("Integer", b) /\ n = 4
       \/ v = Codec!Value("Real", b) /\ n = 4
       \/ v = Codec!Value("Time", b) /\ n = 4
       \/ v = Codec!Value("Double", b) /\ n = 8

SendableBits(v) ==
  \E bits \in Seq({0, 1}), m \in 0..254 : Len(bits) = 8 * m /\ v = Codec!Value("BitString", bits)

SendableObjectId(v) ==
  \E type \in Codec!ObjectTypes, instance \in 0..2 ^ 22 - 1 :
    v = Codec!Value("ObjectId", Codec!ObjectId(type, instance))

Date(y, m, d, w) == Codec!Value("Date", <<y, m, d, w>>)

SendableDate(v) ==
  \E y \in 1900..2155, m \in Byte, d \in Byte, w \in 1..7 : v = Date(y, m, d, w)

Sendable(v) ==
  \/ v = Codec!Value("Null", 0)
  \/ SendableNumber(v)
  \/ SendableBytes(v)
  \/ SendableBits(v)
  \/ SendableObjectId(v)
  \/ SendableDate(v)

\* A value is found again, whatever follows it.
ReadBack(v) == \A rest \in Seq(Byte) : Codec!DecodeValue(Codec!Encode(v) \o rest) = Codec!Found(v, rest)

\* A value without content.
LEMMA NullBack == ReadBack(Codec!Value("Null", 0))
<1> SUFFICES ASSUME NEW rest \in Seq(Byte)
             PROVE  Codec!DecodeValue(<<0>> \o rest) = Codec!Found(Codec!Value("Null", 0), rest)
  BY EncodeNumber DEF ReadBack
<1> DEFINE s == <<0>> \o rest
<1>1. s # <<>> /\ Head(s) = 0 /\ Tail(s) = rest
  BY BytesAreNumbers, HeadConcat
<1>2. ~ Codec!IsContext(0) /\ Codec!TagOf(0) = 0
  BY SMT DEF Codec!IsContext, Codec!TagOf
<1>3. /\ ~ (0 > 12) /\ 0 # 1 /\ 0 # 2 /\ 0 # 3 /\ 0 # 4 /\ 0 # 5 /\ 0 # 6 /\ 0 # 7 /\ 0 # 8
      /\ 0 # 9 /\ 0 # 10 /\ 0 # 11 /\ 0 # 12
  OBVIOUS
<1> HIDE DEF s
<1>4. Codec!DecodeValue(s) = Codec!Found(Codec!Value("Null", 0), rest)
  BY <1>1, <1>2, <1>3, Zenon DEF Codec!DecodeValue
<1> QED BY <1>4 DEF s

\* A number of as few bytes as it needs, or of one or four.
LEMMA NumbersBack ==
  ASSUME NEW n \in 0..256 ^ 4 - 1
  PROVE  ReadBack(Codec!Value("Unsigned", n)) /\ ReadBack(Codec!Value("Enumerated", n))
<1>1. n \in Nat /\ n < 256 ^ 4
  BY SMT
<1>2. 2 \in 0..15 /\ 9 \in 0..15 /\ \A l \in 1..4 : l \in 0..255
  OBVIOUS
<1>3. ASSUME NEW rest \in Seq(Byte)
      PROVE  Codec!DecodeValue(Codec!Encode(Codec!Value("Unsigned", n)) \o rest) =
               Codec!Found(Codec!Value("Unsigned", n), rest)
  <2> DEFINE b == Codec!UintBytes(n)
             s == Codec!Tagged(2, b) \o rest
  <2>1. b \in Seq(Byte) /\ Len(b) \in 1..4 /\ Codec!Number(b) = n
    BY <1>1, UintBytesFacts
  <2> HIDE DEF b
  <2>1a. Codec!ReadUint(b) = n
    BY <2>1, ReadUintFacts
  <2>2. Carries(s, 2, b, rest)
    BY <1>2, <2>1, TaggedFacts
  <2> HIDE DEF s
  <2>3. Codec!DecodeValue(s) = Codec!Found(Codec!Value("Unsigned", n), rest)
    BY <2>1a, <2>2, DecodeNumber
  <2> QED BY <2>3, EncodeNumber DEF s, b
<1>4. ASSUME NEW rest \in Seq(Byte)
      PROVE  Codec!DecodeValue(Codec!Encode(Codec!Value("Enumerated", n)) \o rest) =
               Codec!Found(Codec!Value("Enumerated", n), rest)
  <2> DEFINE k == IF n < 256 THEN 1 ELSE 4
             b == Codec!Bytes(n, k)
             s == Codec!Tagged(9, b) \o rest
  <2>1. b \in Seq(Byte) /\ Len(b) \in 1..4 /\ Codec!Number(b) = n
    <3>1. k \in 1..4 /\ n < 256 ^ k
      <4>1. 256 ^ 1 = 256
        BY SMT
      <4> QED BY <1>1, <4>1
    <3> HIDE DEF k
    <3> QED BY <1>1, <3>1, NumberOfBytes
  <2> HIDE DEF b
  <2>1a. Codec!ReadUint(b) = n
    BY <2>1, ReadUintFacts
  <2>2. Carries(s, 9, b, rest)
    BY <1>2, <2>1, TaggedFacts
  <2> HIDE DEF s
  <2>3. Codec!DecodeValue(s) = Codec!Found(Codec!Value("Enumerated", n), rest)
    BY <2>1a, <2>2, DecodeNumber
  <2> QED BY <2>3, EncodeNumber DEF s, b, k
<1> QED BY <1>3, <1>4 DEF ReadBack

\* Contents that are bytes already.
LEMMA BytesBack ==
  ASSUME NEW b \in Seq(Byte), NEW n \in 0..255, Len(b) = n
  PROVE  /\ ReadBack(Codec!Value("OctetString", b))
         /\ n = 4 => ReadBack(Codec!Value("Integer", b))
         /\ n = 4 => ReadBack(Codec!Value("Real", b))
         /\ n = 4 => ReadBack(Codec!Value("Time", b))
         /\ n = 8 => ReadBack(Codec!Value("Double", b))
<1>1. 3 \in 0..15 /\ 4 \in 0..15 /\ 5 \in 0..15 /\ 6 \in 0..15 /\ 11 \in 0..15
  OBVIOUS
<1>2. ASSUME NEW rest \in Seq(Byte), NEW tag \in 0..15, NEW s, s = Codec!Tagged(tag, b) \o rest
      PROVE  /\ tag = 6 => Codec!DecodeValue(s) = Codec!Found(Codec!Value("OctetString", b), rest)
             /\ tag = 3 /\ n = 4 => Codec!DecodeValue(s) = Codec!Found(Codec!Value("Integer", b), rest)
             /\ tag = 4 /\ n = 4 => Codec!DecodeValue(s) = Codec!Found(Codec!Value("Real", b), rest)
             /\ tag = 11 /\ n = 4 => Codec!DecodeValue(s) = Codec!Found(Codec!Value("Time", b), rest)
             /\ tag = 5 /\ n = 8 => Codec!DecodeValue(s) = Codec!Found(Codec!Value("Double", b), rest)
  <2>1. Carries(s, tag, b, rest)
    BY <1>2, TaggedFacts
  <2>2. ASSUME n = 4 PROVE Codec!ReadInteger(b) = b
    <3>1. [i \in 1..4 - Len(b) |-> 0] = <<>>
      BY <2>2
    <3>2. <<>> \o b = b /\ Codec!LastFour(b) = b
      BY <2>2, ReadUintFacts
    <3> QED BY <3>1, <3>2, Zenon DEF Codec!ReadInteger
  <2>3. ASSUME tag = 6 PROVE Codec!DecodeValue(s) = Codec!Found(Codec!Value("OctetString", b), rest)
    BY <2>1, <2>3, DecodeString
  <2>4. ASSUME tag = 3, n = 4 PROVE Codec!DecodeValue(s) = Codec!Found(Codec!Value("Integer", b), rest)
    BY <2>1, <2>2, <2>4, DecodeNumber
  <2>5. ASSUME tag = 4, n = 4 PROVE Codec!DecodeValue(s) = Codec!Found(Codec!Value("Real", b), rest)
    BY <2>1, <2>5, DecodeFixed
  <2>6. ASSUME tag = 11, n = 4 PROVE Codec!DecodeValue(s) = Codec!Found(Codec!Value("Time", b), rest)
    BY <2>1, <2>6, DecodeFixed
  <2>7. ASSUME tag = 5, n = 8 PROVE Codec!DecodeValue(s) = Codec!Found(Codec!Value("Double", b), rest)
    BY <2>1, <2>7, DecodeFixed
  <2> QED BY <2>3, <2>4, <2>5, <2>6, <2>7
<1>3. ReadBack(Codec!Value("OctetString", b))
  BY <1>1, <1>2, EncodeBytes DEF ReadBack
<1>4. ASSUME n = 4 PROVE ReadBack(Codec!Value("Integer", b))
  BY <1>1, <1>2, <1>4, EncodeBytes DEF ReadBack
<1>5. ASSUME n = 4 PROVE ReadBack(Codec!Value("Real", b))
  BY <1>1, <1>2, <1>5, EncodeBytes DEF ReadBack
<1>6. ASSUME n = 4 PROVE ReadBack(Codec!Value("Time", b))
  BY <1>1, <1>2, <1>6, EncodeBytes DEF ReadBack
<1>7. ASSUME n = 8 PROVE ReadBack(Codec!Value("Double", b))
  BY <1>1, <1>2, <1>7, EncodeBytes DEF ReadBack
<1> QED BY <1>3, <1>4, <1>5, <1>6, <1>7

\* A character string follows its encoding, UTF-8.
LEMMA StringBack ==
  ASSUME NEW b \in Seq(Byte), NEW n \in 0..254, Len(b) = n
  PROVE  ReadBack(Codec!Value("CharacterString", b))
<1> DEFINE c == <<0>> \o b
           k == n + 1
<1>1. b \in Seq(Nat) /\ 0 \in Nat /\ 7 \in 0..15 /\ k \in 0..255
  BY BytesAreNumbers
<1>2. c \in Seq(Byte) /\ Len(c) = k
  <2>1. 0 \in Byte
    BY DEF Byte
  <2> HIDE DEF Byte
  <2> QED BY <2>1
<1>3. c # <<>> /\ Tail(c) = b
  BY <1>1, HeadConcat
<1>4. Codec!Encode(Codec!Value("CharacterString", b)) = <<Codec!TagByte(7, 5), k>> \o c
  <2>1. (Len(b) + 1) % 256 = k
    OBVIOUS
  <2>2. Codec!TagByte(7, 5) = 117
    BY DEF Codec!TagByte
  <2>3. <<117, k, 0>> \o b = <<117, k>> \o (<<0>> \o b)
    BY <1>1
  <2> QED BY <2>1, <2>2, <2>3, EncodeString
<1> HIDE DEF c, k
<1>5. ASSUME NEW rest \in Seq(Byte), NEW s, s = (<<Codec!TagByte(7, 5), k>> \o c) \o rest
      PROVE  Codec!DecodeValue(s) = Codec!Found(Codec!Value("CharacterString", b), rest)
  <2>1. Carries(s, 7, c, rest)
    BY <1>1, <1>2, <1>5, LongTag
  <2> QED BY <1>3, <2>1, DecodeString
<1> QED BY <1>4, <1>5 DEF ReadBack

\* An object identifier.
LEMMA ObjectIdBack ==
  ASSUME NEW type \in Codec!ObjectTypes, NEW instance \in 0..2 ^ 22 - 1
  PROVE  ReadBack(Codec!Value("ObjectId", Codec!ObjectId(type, instance)))
<1> DEFINE oid == Codec!ObjectId(type, instance)
           b == Codec!ObjectIdBytes(oid)
<1>1. b \in Seq(Byte) /\ Len(b) = 4 /\ Codec!ReadObjectId(b) = oid
  BY ObjectIdFacts
<1> HIDE DEF oid, b
<1>2. 12 \in 0..15 /\ 4 \in 0..255
  OBVIOUS
<1>3. ASSUME NEW rest \in Seq(Byte), NEW s, s = Codec!Tagged(12, b) \o rest
      PROVE  Codec!DecodeValue(s) = Codec!Found(Codec!Value("ObjectId", oid), rest)
  <2>1. Carries(s, 12, b, rest)
    BY <1>1, <1>2, <1>3, TaggedFacts
  <2> QED BY <1>1, <2>1, DecodeFixed
<1>4. Codec!Encode(Codec!Value("ObjectId", oid)) = Codec!Tagged(12, b)
  BY EncodeNumber DEF b
<1>5. ReadBack(Codec!Value("ObjectId", oid))
  BY <1>3, <1>4 DEF ReadBack
<1> QED BY <1>5 DEF oid

\* A date, from its bytes.
LEMMA DateBytesBack ==
  ASSUME NEW b \in Seq(Byte), Len(b) = 4, NEW x, Codec!ReadDate(b) = x,
         Codec!Encode(Codec!Value("Date", x)) = Codec!Tagged(10, b)
  PROVE  ReadBack(Codec!Value("Date", x))
<1>1. 10 \in 0..15 /\ 4 \in 0..255
  OBVIOUS
<1>2. ASSUME NEW rest \in Seq(Byte), NEW s, s = Codec!Tagged(10, b) \o rest
      PROVE  Codec!DecodeValue(s) = Codec!Found(Codec!Value("Date", x), rest)
  <2>1. Carries(s, 10, b, rest)
    BY <1>1, <1>2, TaggedFacts
  <2> QED BY <2>1, DecodeFixed
<1> QED BY <1>2 DEF ReadBack

\* A date.
LEMMA DateBack ==
  ASSUME NEW y \in 1900..2155, NEW m \in Byte, NEW d \in Byte, NEW w \in 1..7
  PROVE  ReadBack(Date(y, m, d, w))
<1> DEFINE x == <<y, m, d, w>>
           b == <<y - 1900, m, d, w>>
<1>1. b \in Seq(Byte) /\ Len(b) = 4
  <2>1. y - 1900 \in Byte /\ w \in Byte
    BY DEF Byte
  <2> HIDE DEF Byte
  <2> QED BY <2>1
<1>2. Codec!ReadDate(b) = x
  <2>1. (y - 1900) + 1900 = y /\ (IF w \in 1..6 THEN w ELSE 7) = w
    OBVIOUS
  <2> QED BY <2>1 DEF Codec!ReadDate
<1>3. [x EXCEPT ![1] = IF @ < 1900 THEN 0 ELSE (@ - 1900) % 256] = b
  <2>1. (IF y < 1900 THEN 0 ELSE (y - 1900) % 256) = y - 1900
    OBVIOUS
  <2> QED BY <2>1
<1> HIDE DEF x, b
<1>4. Codec!Encode(Codec!Value("Date", x)) = Codec!Tagged(10, b)
  BY <1>3, EncodeDate
<1>5. ReadBack(Codec!Value("Date", x))
  BY <1>1, <1>2, <1>4, DateBytesBack
<1> QED BY <1>5 DEF x, Date

\* Bits, from their bytes.
BitsOf(b, n, bits) ==
  /\ b \in Seq(Byte) /\ n \in 0..255 /\ Len(b) = n /\ b # <<>> /\ Codec!UnusedFits(b)
  /\ Codec!BitsFromLow(Head(b), Tail(b)) = bits
  /\ Codec!Encode(Codec!Value("BitString", bits)) = Codec!Tagged(8, b)

\* Bits whose bytes are read from the low end are read back.
LEMMA BitBytesBack ==
  ASSUME NEW b, NEW n, NEW bits, BitsOf(b, n, bits)
  PROVE  ReadBack(Codec!Value("BitString", bits))
<1>0. /\ b \in Seq(Byte) /\ n \in 0..255 /\ Len(b) = n /\ b # <<>> /\ Codec!UnusedFits(b)
      /\ Codec!BitsFromLow(Head(b), Tail(b)) = bits
      /\ Codec!Encode(Codec!Value("BitString", bits)) = Codec!Tagged(8, b)
  BY DEF BitsOf
<1>1. 8 \in 0..15
  OBVIOUS
<1>2. ASSUME NEW rest \in Seq(Byte), NEW s, s = Codec!Tagged(8, b) \o rest
      PROVE  Codec!DecodeValue(s) = Codec!Found(Codec!Value("BitString", bits), rest)
  <2>1. Carries(s, 8, b, rest)
    BY <1>0, <1>1, <1>2, TaggedFacts
  <2> QED BY <1>0, <2>1, DecodeString
<1> QED BY <1>0, <1>2 DEF ReadBack

\* Complete bytes of bits.
LEMMA BitStringBack ==
  ASSUME NEW m \in 0..254, NEW bits \in Seq({0, 1}), Len(bits) = 8 * m
  PROVE  ReadBack(Codec!Value("BitString", bits))
<1> DEFINE bytes == Codec!BitBytes(bits)
           b == <<0>> \o bytes
           n == m + 1
<1>1. bytes \in Seq(Byte) /\ Len(bytes) = m /\ Codec!BitsFromLow(0, bytes) = bits
  BY BitsFacts
<1>2. (8 - (Len(bits) % 8)) % 8 = 0
  <2>1. (8 * m) % 8 = 0
    OBVIOUS
  <2> QED BY <2>1
<1>3. Codec!Encode(Codec!Value("BitString", bits)) = Codec!Tagged(8, b)
  BY <1>2, EncodeBits
<1> HIDE DEF bytes
<1>4. b \in Seq(Byte) /\ Len(b) = n /\ n \in 0..255
  <2>1. 0 \in Byte
    BY DEF Byte
  <2>2. n \in 0..255
    OBVIOUS
  <2> HIDE DEF Byte
  <2> QED BY <1>1, <2>1, <2>2
<1>5. b # <<>> /\ Head(b) = 0 /\ Tail(b) = bytes
  <2>1. bytes \in Seq(Nat) /\ 0 \in Nat
    BY <1>1, BytesAreNumbers
  <2> QED BY <2>1, HeadConcat
<1> HIDE DEF b, n
<1>6. Codec!BitsFromLow(Head(b), Tail(b)) = bits /\ Codec!UnusedFits(b)
  <2>1. Codec!BitsFromLow(Head(b), Tail(b)) = bits
    BY <1>1, <1>5, Zenon
  <2>2. 0 <= (IF Len(b) = 1 THEN 0 ELSE 8)
    OBVIOUS
  <2>3. Head(b) <= (IF Len(b) = 1 THEN 0 ELSE 8)
    BY <1>5, <2>2, Zenon
  <2> QED BY <2>1, <2>3, Zenon DEF Codec!UnusedFits
<1>7. BitsOf(b, n, bits)
  BY <1>3, <1>4, <1>5, <1>6, Zenon DEF BitsOf
<1> QED BY <1>7, BitBytesBack

\* Every value the codec keeps is read back, with the bytes that follow it left:
\* whatever decode_application_value is given, encode_property_value of the value
\* and more, it finds that value and stops where it ends.
THEOREM ValuesReadBack == \A v : Sendable(v) => ReadBack(v)
<1> SUFFICES ASSUME NEW v, Sendable(v) PROVE ReadBack(v)
  OBVIOUS
<1>1. CASE v = Codec!Value("Null", 0)
  BY <1>1, NullBack
<1>2. CASE SendableNumber(v)
  <2>1. PICK n \in 0..256 ^ 4 - 1 : v = Codec!Value("Unsigned", n) \/ v = Codec!Value("Enumerated", n)
    BY <1>2, Zenon DEF SendableNumber
  <2> QED BY <2>1, NumbersBack, Zenon
<1>3. CASE SendableBytes(v)
  <2>1. PICK b \in Seq(Byte), n \in 0..255 :
          /\ Len(b) = n
          /\ \/ v = Codec!Value("OctetString", b)
             \/ v = Codec!Value("CharacterString", b) /\ n \in 0..254
             \/ v = Codec!Value("Integer", b) /\ n = 4
             \/ v = Codec!Value("Real", b) /\ n = 4
             \/ v = Codec!Value("Time", b) /\ n = 4
             \/ v = Codec!Value("Double", b) /\ n = 8
    BY <1>3, Zenon DEF SendableBytes
  <2>2. CASE v = Codec!Value("CharacterString", b) /\ n \in 0..254
    BY <2>1, <2>2, StringBack, Zenon
  <2>3. CASE v = Codec!Value("OctetString", b)
    BY <2>1, <2>3, BytesBack
  <2>4. CASE v = Codec!Value("Integer", b) /\ n = 4
    BY <2>1, <2>4, BytesBack
  <2>5. CASE v = Codec!Value("Real", b) /\ n = 4
    BY <2>1, <2>5, BytesBack
  <2>6. CASE v = Codec!Value("Time", b) /\ n = 4
    BY <2>1, <2>6, BytesBack
  <2>7. CASE v = Codec!Value("Double", b) /\ n = 8
    BY <2>1, <2>7, BytesBack
  <2> QED BY <2>1, <2>2, <2>3, <2>4, <2>5, <2>6, <2>7, Zenon
<1>4. CASE SendableBits(v)
  <2>1. PICK bits \in Seq({0, 1}), m \in 0..254 : Len(bits) = 8 * m /\ v = Codec!Value("BitString", bits)
    BY <1>4, Zenon DEF SendableBits
  <2> QED BY <2>1, BitStringBack, Zenon
<1>5. CASE SendableObjectId(v)
  <2>1. PICK type \in Codec!ObjectTypes, instance \in 0..2 ^ 22 - 1 :
          v = Codec!Value("ObjectId", Codec!ObjectId(type, instance))
    BY <1>5, Zenon DEF SendableObjectId
  <2> QED BY <2>1, ObjectIdBack, Zenon
<1>6. CASE SendableDate(v)
  <2>1. PICK y \in 1900..2155, m \in Byte, d \in Byte, w \in 1..7 : v = Date(y, m, d, w)
    BY <1>6, SMT DEF SendableDate
  <2> QED BY <2>1, DateBack, SMT
<1> QED BY <1>1, <1>2, <1>3, <1>4, <1>5, <1>6, Zenon DEF Sendable

\* A number under a context tag, as every request carries them, is read back too.
THEOREM NumbersReadBack ==
  \A tag \in 0..15, n \in 0..256 ^ 4 - 1, rest \in Seq(Byte) :
    Codec!DecodeContextU32(Codec!EncodeContext(tag, Codec!UintBytes(n)) \o rest, tag) = Codec!Found(n, rest)
<1> SUFFICES ASSUME NEW tag \in 0..15, NEW n \in 0..256 ^ 4 - 1, NEW rest \in Seq(Byte)
             PROVE  Codec!DecodeContextU32(Codec!EncodeContext(tag, Codec!UintBytes(n)) \o rest, tag) =
                      Codec!Found(n, rest)
  OBVIOUS
<1> DEFINE b == Codec!UintBytes(n)
           k == Len(b)
           c == Codec!ContextByte(tag, k)
           t == <<c>> \o (b \o rest)
<1>1. b \in Seq(Byte) /\ k \in 1..4 /\ Codec!Number(b) = n
  <2>1. n \in Nat /\ n < 256 ^ 4
    BY SMT
  <2> QED BY <2>1, UintBytesFacts
<1>2. Codec!EncodeContext(tag, b) = <<c>> \o b
  BY DEF Codec!EncodeContext
<1> HIDE DEF b
<1>3. b \in Seq(Nat) /\ rest \in Seq(Nat) /\ b \o rest \in Seq(Nat)
  <2>1. b \in Seq(Nat) /\ rest \in Seq(Nat)
    BY <1>1, BytesAreNumbers
  <2> QED BY <2>1
<1>4. k \in 0..7 /\ k \in 0..255 /\ k <= 4 /\ Len(b) = k
  <2>1. \A l \in 1..4 : l \in 0..7 /\ l \in 0..255 /\ l <= 4
    OBVIOUS
  <2> QED BY <1>1, <2>1, Zenon
<1> HIDE DEF k
<1>5. c \in Nat /\ Codec!IsContext(c) /\ Codec!TagOf(c) = tag /\ Codec!Lvt(c) = k
  <2>1. c \in Byte /\ Codec!IsContext(c) /\ Codec!TagOf(c) = tag /\ Codec!Lvt(c) = k
    <3> HIDE DEF c
    <3> QED BY <1>4, ContextByteFacts DEF c
  <2> HIDE DEF c
  <2> QED BY <2>1 DEF Byte
<1> HIDE DEF c
<1>6. (<<c>> \o b) \o rest = t
  BY <1>3, <1>5
<1>7. t # <<>> /\ Head(t) = c /\ Tail(t) = b \o rest
  BY <1>3, <1>5, HeadConcat
<1> HIDE DEF t
<1>8. Codec!Sized(b \o rest, k) = Codec!Found(b, rest)
  BY <1>3, <1>4, SizedFacts
<1>9. Codec!DecodeContext(t, tag) = Codec!Found(b, rest)
  BY <1>5, <1>7, <1>8, Zenon DEF Codec!DecodeContext
<1>10. Codec!Found(b, rest).ok /\ Codec!Found(b, rest).val = b /\ Codec!Found(b, rest).rest = rest
  BY DEF Codec!Found
<1>11. Codec!DecodeContextU32(t, tag) = Codec!Found(n, rest)
  <2>1. Codec!ReadUint(b) = n
    <3>1. Len(b) \in 0..4
      BY <1>1, <1>4
    <3> QED BY <1>1, <3>1, ReadUintFacts
  <2> QED BY <1>9, <1>10, <2>1, Zenon DEF Codec!DecodeContextU32, Codec!Then
<1> QED BY <1>2, <1>6, <1>11, Zenon DEF b
=============================================================================
