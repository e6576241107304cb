---------------------------- MODULE DeviceService ----------------------------
(***************************************************************************)
(* What BACnet clients can rely on, whatever channels, tasks and sessions  *)
(* there are in between.  A request is served by one device, its own if it *)
(* names one.  The objects it names are accessed in its order, each in one *)
(* step between the request and the answer; other clients may write in     *)
(* between, so that an answer about several objects is no snapshot.  The   *)
(* answer comes at most once and says what these accesses have found.      *)
(* Dispatcher implements this specification.                               *)
(***************************************************************************)
EXTENDS Naturals, Sequences

CONSTANTS Clients, Devices, Points, None, Asks, MaxRequests

VARIABLES
  request,  \* the requests so far
  device,   \* the device that serves each request, or None
  values,   \* the points' values: the request that wrote each last, or 0
  reads,    \* what the accesses for each request have found
  answers   \* the frames its client, or everyone, has got because of it

vars == <<request, device, values, reads, answers>>

Init ==
  /\ request = <<>>
  /\ device = [i \in 1..MaxRequests |-> None]
  /\ values = [d \in Devices |-> [p \in Points |-> 0]]
  /\ reads = [i \in 1..MaxRequests |-> <<>>]
  /\ answers = [i \in 1..MaxRequests |-> <<>>]

Ask(c, a) ==
  /\ request' = Append(request, [src |-> c, ask |-> a])
  /\ UNCHANGED <<device, values, reads, answers>>

Service(i) == request[i].ask.service

Objects(i) == request[i].ask.objects

\* A confirmed request gets a device, for good: the one its first object is of,
\* if that is a Device object.  A subscription is for any.
Assign(i, d) ==
  /\ device[i] = None
  /\ Service(i) \in {"ReadProperty", "ReadPropertyMultiple", "WriteProperty", "SubscribeCov"}
  /\ Service(i) # "SubscribeCov" /\ Objects(i) # <<>> /\ Objects(i)[1].type = "Device" =>
       d = Objects(i)[1].inst
  /\ device' = [device EXCEPT ![i] = d]
  /\ UNCHANGED <<request, values, reads, answers>>

\* What request i finds at object o of its device.
Found(i, o) ==
  [error |-> IF \/ o.type = "Device" /\ o.inst # device[i]
                \/ o.type = "Point" /\ o.inst \notin Points
               THEN "UnknownObject"
             ELSE IF o.type = "Device" /\ Service(i) = "WriteProperty"
               THEN "WriteAccessDenied"
             ELSE "none",
   val |-> IF o.type = "Point" /\ o.inst \in Points THEN values[device[i]][o.inst] ELSE 0]

\* The next object of request i is read, or written.
Access(i) ==
  LET o == Objects(i)[Len(reads[i]) + 1]
  IN /\ device[i] # None /\ Len(reads[i]) < Len(Objects(i))
     /\ reads' = [reads EXCEPT ![i] = Append(@, Found(i, o))]
     /\ values' = IF Service(i) = "WriteProperty" /\ Found(i, o).error = "none"
                    THEN [values EXCEPT ![device[i]][o.inst] = i] ELSE values
     /\ UNCHANGED <<request, device, answers>>

\* The client gets its answer, which it has not got before, about all objects.
Reply(i) ==
  /\ device[i] # None /\ Len(reads[i]) = Len(Objects(i)) /\ answers[i] = <<>>
  /\ answers' = [answers EXCEPT ![i] =
       <<[dst |-> request[i].src, id |-> i, dev |-> device[i], results |-> reads[i]]>>]
  /\ UNCHANGED <<request, device, values, reads>>

\* A device in the range of a Who-Is announces itself, once to each addressee.
Announce(i, to, d) ==
  /\ Service(i) = "WhoIs"
  /\ LET range == request[i].ask.range IN range # None => range.lo <= d /\ d <= range.hi
  /\ \A k \in 1..Len(answers[i]) : answers[i][k].dst # to \/ answers[i][k].dev # d
  /\ answers' = [answers EXCEPT ![i] =
       Append(@, [dst |-> to, id |-> i, dev |-> d, results |-> <<>>])]
  /\ UNCHANGED <<request, device, values, reads>>

Next ==
  \/ \E c \in Clients, a \in Asks : Ask(c, a)
  \/ \E i \in 1..Len(request) :
       \/ Access(i) \/ Reply(i)
       \/ \E d \in Devices :
            Assign(i, d) \/ \E to \in {"all", request[i].src} : Announce(i, to, d)

Spec == Init /\ [][Next]_vars
=============================================================================
