----------------------------- MODULE Dispatcher -----------------------------
(***************************************************************************)
(* The APDU dispatcher of bacnet-stack between the channels of the UDP     *)
(* transport.  Every inbound frame gets a task of its own, so the requests *)
(* of one client are served in parallel; the tasks share the object store, *)
(* the session cache (which device a client addressed last) and the        *)
(* outbound channel, where they wait while it is full.                     *)
(*                                                                         *)
(* Every device has its Device object and the same points.  A client that  *)
(* has waited long enough for an answer gives up and goes on.              *)
(***************************************************************************)
EXTENDS Naturals, Sequences, FiniteSets

CONSTANTS
  Clients,     \* source addresses
  Devices,     \* the registered devices
  Points,      \* the point objects every device has
  None,
  Asks,        \* what clients ask: records of service, objects and range
  InCapacity,  \* capacity of the inbound broadcast channel
  OutCapacity, \* capacity of the outbound channel
  MaxRequests  \* bound: requests in a behaviour

Device(d) == [type |-> "Device", inst |-> d]

Point(p) == [type |-> "Point", inst |-> p]

Unconfirmed == {"WhoIs", "IAm"}

Services == Unconfirmed \cup
  {"ReadProperty", "ReadPropertyMultiple", "WriteProperty", "SubscribeCov", "Undecodable"}

ASSUME DispatcherAssumption ==
  /\ Devices \subseteq Nat /\ IsFiniteSet(Devices) /\ Devices # {}
  /\ Points \subseteq Nat /\ None \notin Devices /\ "all" \notin Clients
  /\ \A a \in Asks : a.service \in Services
  /\ \A a \in Asks : a.objects \in Seq([type : {"Device", "Point"}, inst : Nat])
  /\ \A a \in Asks : a.service \in Unconfirmed \cup {"Undecodable"} => a.objects = <<>>
  /\ \A a \in Asks : a.service \in {"ReadProperty", "WriteProperty"} => Len(a.objects) = 1
  /\ InCapacity \in Nat \ {0} /\ OutCapacity \in Nat \ {0}
  /\ MaxRequests \in Nat

Ids == 1..MaxRequests

VARIABLES
  order,     \* the order in which the device registry is iterated
  cache,     \* source_device_map
  points,    \* the points' values: the request that wrote each last, or 0
  request,   \* the requests sent so far; a request's position is its id
  inbox,     \* the inbound channel, holding ids
  pc,        \* where the task of each request is
  device,    \* the device each request was resolved to
  todo,      \* the objects each task has still to read or write
  results,   \* what a task has read so far
  frames,    \* the frames each task has still to send
  outbox,    \* the outbound channel
  answers,   \* history: the frames sent on the socket for each request
  open,      \* the request each client waits for, or 0
  hasty      \* history: the clients that gave up waiting

taskVars == <<pc, device, todo, results, frames>>
clientVars == <<open, hasty>>
vars == <<order, cache, points, request, inbox, taskVars, outbox, answers, clientVars>>

-----------------------------------------------------------------------------
(* Transport and receive loop.                                             *)

\* A client sends its next request; a full channel loses its oldest frame.
Send(c, a) ==
  LET id == Len(request) + 1 IN
  /\ open[c] = 0 /\ id <= MaxRequests
  /\ request' = Append(request, [src |-> c, ask |-> a])
  /\ IF Len(inbox) < InCapacity
       THEN inbox' = Append(inbox, id) /\ pc' = [pc EXCEPT ![id] = "queued"]
       ELSE /\ inbox' = Append(Tail(inbox), id)
            /\ pc' = [pc EXCEPT ![id] = "queued", ![Head(inbox)] = "lost"]
  /\ open' = [open EXCEPT ![c] = IF a.service \in Unconfirmed THEN 0 ELSE id]
  /\ UNCHANGED <<order, cache, points, device, todo, results, frames, outbox, answers, hasty>>

InRange(d, range) == range = None \/ (range.lo <= d /\ d <= range.hi)

Frame(dst, id, d, r) == [dst |-> dst, id |-> id, dev |-> d, results |-> r]

\* handle_unconfirmed goes through the devices: each is to announce itself to
\* everyone and then to the client, if it is in range (see Skip).
IAms(i) ==
  [k \in 1..2 * Len(order) |->
     Frame(IF k % 2 = 1 THEN "all" ELSE request[i].src, i, order[(k + 1) \div 2], <<>>)]

\* run() spawns a task, in which handle_frame ends at once for a frame it
\* cannot decode, and for an unconfirmed request other than Who-Is.
Receive ==
  LET i == Head(inbox)
      s == request[i].ask.service
  IN /\ inbox # <<>>
     /\ inbox' = Tail(inbox)
     /\ frames' = IF s = "WhoIs" THEN [frames EXCEPT ![i] = IAms(i)] ELSE frames
     /\ pc' = [pc EXCEPT ![i] = CASE s \in {"IAm", "Undecodable"} -> "ignored"
                                  [] s = "WhoIs" -> "respond"
                                  [] OTHER -> "resolve"]
     /\ UNCHANGED <<order, cache, points, request, device, todo, results, outbox, answers,
                    clientVars>>

-----------------------------------------------------------------------------
(* Confirmed requests.                                                     *)

\* The object that decides which device a request is for.
Primary(a) == a.objects[1]

\* Does a request name its device?  SubscribeCOV never does.
Names(a) == a.service # "SubscribeCov" /\ a.objects # <<>> /\ Primary(a).type = "Device"

\* Faults (here and below): forms of a definition with a bug the code could
\* plausibly have, against which the properties are tried.
NoDevice_Unchecked(a) == a.service = "ReadPropertyMultiple" /\ a.objects = <<>>

NoDevice(a) == \/ a.service = "ReadPropertyMultiple" /\ a.objects = <<>>
               \/ Names(a) /\ Primary(a).inst \notin Devices

\* One session for everybody.
Remember_Shared(i) ==
  LET a == request[i].ask
  IN IF Names(a) THEN [c \in Clients |-> Primary(a).inst] ELSE cache

\* The first device a client names stays its device.
Remember_First(i) ==
  LET a == request[i].ask
      c == request[i].src
  IN IF Names(a) /\ cache[c] = None THEN [cache EXCEPT ![c] = Primary(a).inst] ELSE cache

\* The session cache after request i: the device it names is remembered.
Remember(i) ==
  LET a == request[i].ask
  IN IF Names(a) THEN [cache EXCEPT ![request[i].src] = Primary(a).inst] ELSE cache

\* A Device object names its device; any other object belongs to the device
\* the client named last, or else to the first of the registry.
DeviceOf(i) ==
  LET a == request[i].ask
      last == cache[request[i].src]
  IN IF Names(a) THEN Primary(a).inst
     ELSE IF a.service # "SubscribeCov" /\ last # None THEN last ELSE order[1]

\* resolve_device.  When there is no such device, the task ends and nothing
\* is answered.
Resolve(i) ==
  /\ pc[i] = "resolve"
  /\ IF NoDevice(request[i].ask)
       THEN pc' = [pc EXCEPT ![i] = "failed"] /\ UNCHANGED <<device, todo, cache>>
       ELSE /\ pc' = [pc EXCEPT ![i] = "serve"]
            /\ device' = [device EXCEPT ![i] = DeviceOf(i)]
            /\ todo' = [todo EXCEPT ![i] = request[i].ask.objects]
            /\ cache' = Remember(i)
  /\ UNCHANGED <<order, points, request, inbox, results, frames, outbox, answers, clientVars>>

Exists(d, o) == IF o.type = "Device" THEN o.inst = d ELSE o.inst \in Points

\* The error reading or writing object o of device d reports: nothing of a
\* Device object can be written.
Error(d, o, service) ==
  IF ~ Exists(d, o) THEN "UnknownObject"
  ELSE IF service = "WriteProperty" /\ o.type = "Device" THEN "WriteAccessDenied"
  ELSE "none"

\* What a task learns of object o: an error, or the value it has.
Outcome(d, o, service) ==
  [error |-> Error(d, o, service),
   val |-> IF Exists(d, o) /\ o.type = "Point" THEN points[d][o.inst] ELSE 0]

\* The first object that does not exist ends the list.
MoreObjects_UpToError(i) ==
  Len(todo[i]) > 1 /\ Error(device[i], Head(todo[i]), request[i].ask.service) = "none"

\* ReadPropertyMultiple goes on with the next object of its list.
MoreObjects(i) == Len(todo[i]) > 1

\* One object is read, or written, under its shard's lock; after the last,
\* the answer, an acknowledgement or an error, is encoded.
Serve(i) ==
  LET d == device[i]
      s == request[i].ask.service
      read == IF todo[i] = <<>> THEN results[i]
              ELSE Append(results[i], Outcome(d, Head(todo[i]), s))
  IN /\ pc[i] = "serve"
     /\ results' = [results EXCEPT ![i] = read]
     /\ IF MoreObjects(i)
          THEN todo' = [todo EXCEPT ![i] = Tail(@)] /\ UNCHANGED <<pc, frames>>
          ELSE /\ todo' = [todo EXCEPT ![i] = <<>>]
               /\ frames' = [frames EXCEPT ![i] = <<Frame(request[i].src, i, d, read)>>]
               /\ pc' = [pc EXCEPT ![i] = "respond"]
     /\ points' = IF s = "WriteProperty" /\ Error(d, Head(todo[i]), s) = "none"
                    THEN [points EXCEPT ![d][Head(todo[i]).inst] = i] ELSE points
     /\ UNCHANGED <<order, cache, request, inbox, device, outbox, answers, clientVars>>

\* Is the task of request i to send frame f?
Wanted(i, f) ==
  request[i].ask.service = "WhoIs" => InRange(f.dev, request[i].ask.range)

\* The task is done with its next frame.
NextFrame(i) ==
  /\ frames' = [frames EXCEPT ![i] = Tail(@)]
  /\ pc' = [pc EXCEPT ![i] = IF Len(frames[i]) = 1 THEN "done" ELSE @]

Respond_TrySend(i) ==
  /\ pc[i] = "respond" /\ Wanted(i, Head(frames[i]))
  /\ outbox' = IF Len(outbox) < OutCapacity THEN Append(outbox, Head(frames[i])) ELSE outbox
  /\ NextFrame(i)
  /\ UNCHANGED <<order, cache, points, request, inbox, device, todo, results, answers,
                 clientVars>>

\* The next frame goes to the outbound channel, once there is room.
Respond(i) ==
  /\ pc[i] = "respond" /\ Wanted(i, Head(frames[i])) /\ Len(outbox) < OutCapacity
  /\ outbox' = Append(outbox, Head(frames[i]))
  /\ NextFrame(i)
  /\ UNCHANGED <<order, cache, points, request, inbox, device, todo, results, answers,
                 clientVars>>

\* A device that is out of the range of a Who-Is announces nothing.
Skip(i) ==
  /\ pc[i] = "respond" /\ ~ Wanted(i, Head(frames[i]))
  /\ NextFrame(i)
  /\ UNCHANGED <<order, cache, points, request, inbox, device, todo, results, outbox, answers,
                 clientVars>>

-----------------------------------------------------------------------------
(* The send loop, and the clients.                                         *)

\* The send loop puts a frame on the socket.  An answer that comes too late,
\* or never arrives, is one its client does not wait for any more.
Transmit ==
  /\ outbox # <<>>
  /\ outbox' = Tail(outbox)
  /\ LET f == Head(outbox) IN
       /\ answers' = [answers EXCEPT ![f.id] = Append(@, f)]
       /\ open' = [c \in Clients |-> IF f.dst = c /\ open[c] = f.id THEN 0 ELSE open[c]]
  /\ UNCHANGED <<order, cache, points, request, inbox, taskVars, hasty>>

GiveUp(c) ==
  /\ open[c] # 0
  /\ open' = [open EXCEPT ![c] = 0]
  /\ hasty' = hasty \cup {c}
  /\ UNCHANGED <<order, cache, points, request, inbox, taskVars, outbox, answers>>

-----------------------------------------------------------------------------
Orders == {s \in [1..Cardinality(Devices) -> Devices] :
             \A i, j \in DOMAIN s : s[i] = s[j] => i = j}

Init ==
  /\ order \in Orders
  /\ cache = [c \in Clients |-> None]
  /\ points = [d \in Devices |-> [p \in Points |-> 0]]
  /\ request = <<>>
  /\ inbox = <<>>
  /\ pc = [i \in Ids |-> "none"]
  /\ device = [i \in Ids |-> None]
  /\ todo = [i \in Ids |-> <<>>]
  /\ results = [i \in Ids |-> <<>>]
  /\ frames = [i \in Ids |-> <<>>]
  /\ outbox = <<>>
  /\ answers = [i \in Ids |-> <<>>]
  /\ open = [c \in Clients |-> 0]
  /\ hasty = {}

Next ==
  \/ \E c \in Clients, a \in Asks : Send(c, a)
  \/ Receive
  \/ \E i \in Ids : Resolve(i)
  \/ \E i \in Ids : Serve(i)
  \/ \E i \in Ids : Respond(i)
  \/ \E i \in Ids : Skip(i)
  \/ Transmit
  \/ \E c \in Clients : GiveUp(c)

Spec == Init /\ [][Next]_vars

-----------------------------------------------------------------------------
(* Properties.                                                             *)

Outcomes == [error : {"none", "UnknownObject", "WriteAccessDenied"}, val : 0..MaxRequests]

Replies == [dst : Clients \cup {"all"}, id : Ids, dev : Devices, results : Seq(Outcomes)]

TypeOK ==
  /\ order \in Orders
  /\ cache \in [Clients -> Devices \cup {None}]
  /\ points \in [Devices -> [Points -> 0..MaxRequests]]
  /\ request \in Seq([src : Clients, ask : Asks]) /\ Len(request) <= MaxRequests
  /\ inbox \in Seq(Ids) /\ Len(inbox) <= InCapacity
  /\ pc \in [Ids -> {"none", "queued", "lost", "ignored", "resolve", "failed",
                     "serve", "respond", "done"}]
  /\ device \in [Ids -> Devices \cup {None}]
  /\ results \in [Ids -> Seq(Outcomes)]
  /\ frames \in [Ids -> Seq(Replies)]
  /\ outbox \in Seq(Replies) /\ Len(outbox) <= OutCapacity
  /\ answers \in [Ids -> Seq(Replies)]
  /\ open \in [Clients -> 0..MaxRequests]
  /\ hasty \subseteq Clients

\* The requests of req before the i-th in which client c has named a device.
NamedBefore(req, c, i) ==
  {j \in 1..i - 1 : req[j].src = c /\ Names(req[j].ask) /\ ~ NoDevice(req[j].ask)}

\* The device the i-th request of req is for, going by what its client has
\* sent; ord is the registry.
Addressed(req, ord, i) ==
  LET a == req[i].ask
      named == NamedBefore(req, req[i].src, i)
  IN IF Names(a) THEN Primary(a).inst
     ELSE IF a.service = "SubscribeCov" \/ named = {} THEN ord[1]
     ELSE Primary(req[CHOOSE j \in named : \A k \in named : k <= j].ask).inst

\* A client that waits for every answer is always served by the device it
\* named last, whatever other clients do in the meantime (resolve_device).
SessionKept ==
  \A i \in 1..Len(request) :
    device[i] # None /\ request[i].src \notin hasty =>
      device[i] = Addressed(request, order, i)

\* The session cache is "Used to route subsequent non-Device object reads to
\* the correct device", and its entry is "set by a prior Device-object read
\* from the same client": so is a client that did not wait.
SessionAlwaysKept ==
  \A i \in 1..Len(request) : device[i] # None => device[i] = Addressed(request, order, i)

\* Even a hasty client is never served by a device it has not named at all,
\* except the first: sessions do not leak between clients.
SessionIsolated ==
  \A i \in 1..Len(request) : device[i] # None =>
    \/ device[i] = order[1]
    \/ \E j \in 1..Len(request) :
         /\ request[j].src = request[i].src
         /\ Names(request[j].ask) /\ Primary(request[j].ask) = Device(device[i])

\* How many frames of s answer request i for device d and go to `to'.
Copies(s, i, to, d) ==
  Cardinality({k \in 1..Len(s) : s[k].id = i /\ s[k].dst = to /\ s[k].dev = d})

\* Is device d to send a frame to `to' because of request i?
Due(i, to, d) ==
  LET r == request[i]
  IN IF r.ask.service = "WhoIs" THEN to \in {"all", r.src} /\ InRange(d, r.ask.range)
     ELSE to = r.src /\ d = device[i]

\* When the task of a confirmed request has done its work, exactly one answer
\* has gone to the client, from the device it was resolved to, however full
\* the outbound channel was, and before that none; Who-Is makes each device in
\* range announce itself exactly once to everyone and once to the client, and
\* no other device (run, handle_frame).
AnsweredOnce ==
  \A i \in 1..Len(request), to \in Clients \cup {"all"}, d \in Devices :
    LET sent == Copies(answers[i], i, to, d) + Copies(outbox, i, to, d)
    IN CASE ~ Due(i, to, d) -> sent = 0
         [] Due(i, to, d) /\ pc[i] = "done" -> sent = 1
         [] Due(i, to, d) /\ pc[i] # "done" ->
              IF request[i].ask.service = "WhoIs" THEN sent <= 1 ELSE sent = 0

Service == INSTANCE DeviceService WITH values <- points, reads <- results

\* Tasks, channels and the session cache implement DeviceService: one device
\* serves a request; each object is accessed as a whole, after the request was
\* sent and in its order, though a ReadPropertyMultiple locks one object after
\* the other; and the client gets one answer, about all of them, that says what
\* these accesses found (handle_confirmed, read_property_multiple::handle).
ServiceSpec == Service!Spec
=============================================================================
