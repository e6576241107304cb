-------------------------------- MODULE Link --------------------------------
(***************************************************************************)
(* A message on its way through the codecs: a client's request down to the *)
(* frame of a medium and up into the simulator, the simulator's answer the *)
(* other way; an MS/TP line that flips bits; and a message that arrives in *)
(* segments (Segmentation).  One message is under way at a time: the       *)
(* codecs keep no state but that of the SegmentBuffer.                     *)
(***************************************************************************)
EXTENDS Apdu, Frames, Segmentation

CONSTANTS
  Requests,      \* what clients send (and the I-Am of a device)
  Answers,       \* what the simulator answers
  Routes,        \* how requests are routed: destination, source and hops
  Peer,          \* an address of six bytes, of BACnet/IP or BACnet/SC
  MaxFlips,      \* how many bits noise may flip ...
  MaxNoisyBytes  \* ... in frames of no more than so many bytes

VARIABLES
  message,  \* the message under way: a request, an answer or None
  medium,   \* the medium that carries it
  line,     \* the bytes of its frame
  flipped,  \* the bits of them that noise has flipped
  got       \* what the receiver made of it, None before

frame == <<message, medium, line, flipped, got>>

vars == <<frame, segmentVars>>

Media ==
  [kind : {"bvll"}, fn : Carriers] \cup [kind : {"mstp"}]
    \cup [kind : {"sc"}, orig : {None, Peer}, dest : {None, Peer}]

Idle == message = None /\ air = {}

-----------------------------------------------------------------------------
(* Down the layers of the sender and up those of the receiver.             *)

Envelope(m, npdu) ==
  CASE m.kind = "bvll" -> EncodeBvll([fn |-> m.fn, data |-> npdu,
                                      origin |-> IF m.fn = 4 THEN Peer ELSE <<>>])
    [] m.kind = "sc"   -> EncodeSc([fn |-> 1, id |-> 258, orig |-> m.orig, dest |-> m.dest,
                                    data |-> npdu])
    [] m.kind = "mstp" -> EncodeMstp([type |-> 6, dst |-> 255, src |-> 1, data |-> npdu])

Opened(m, s) ==
  LET f == CASE m.kind = "bvll" -> DecodeBvll(s)
             [] m.kind = "sc"   -> DecodeSc(s)
             [] m.kind = "mstp" -> DecodeMstp(s)
      carries == CASE m.kind = "bvll" -> Carriers
                   [] m.kind = "sc"   -> {1}
                   [] m.kind = "mstp" -> {5, 6}
  IN Then(f, LAMBDA x, r :
       IF (IF m.kind = "mstp" THEN x.type ELSE x.fn) \in carries THEN DecodeNpdu(x.data) ELSE Fail)

\* handle_frame ignores network messages and empty ones.
Understand(m, s, isRequest) ==
  Then(Opened(m, s), LAMBDA n, r :
    IF n.network THEN Fail
    ELSE IF isRequest THEN DecodeRequest(n.apdu) ELSE ReadAnswer(n.apdu))

Npdu(route, apdu) ==
  IF route.dst = None /\ route.src = None THEN EncodeLocal(TRUE, apdu)
  ELSE EncodeRouted(route.dst, route.src, route.hops, apdu)

-----------------------------------------------------------------------------
(* Actions.                                                                *)

SendRequest(r, m, route) ==
  /\ Idle
  /\ message' = r
  /\ medium' = m
  /\ line' = Envelope(m, Npdu(route, EncodeRequest(r)))
  /\ UNCHANGED <<flipped, got, segmentVars>>

SendAnswer(a, m) ==
  /\ Idle
  /\ m.kind = "bvll" => m.fn \in {10, 11}
  /\ message' = a
  /\ medium' = m
  /\ line' = Envelope(m, EncodeLocal(FALSE, EncodeAnswer(a)))
  /\ UNCHANGED <<flipped, got, segmentVars>>

\* Noise on an MS/TP line flips a bit.
Flip(i) ==
  /\ line # <<>> /\ medium.kind = "mstp" /\ Len(line) <= MaxNoisyBytes
  /\ Cardinality(flipped) < MaxFlips
  /\ i \in 1..8 * Len(line) /\ i \notin flipped
  /\ flipped' = flipped \cup {i}
  /\ line' = [line EXCEPT ![(i - 1) \div 8 + 1] =
                IF Bit(@, (i - 1) % 8) = 1 THEN @ - 2 ^ ((i - 1) % 8) ELSE @ + 2 ^ ((i - 1) % 8)]
  /\ UNCHANGED <<message, medium, got, segmentVars>>

Receive ==
  /\ line # <<>>
  /\ got' = Understand(medium, line, message \in Requests)
  /\ line' = <<>>
  /\ UNCHANGED <<message, medium, flipped, segmentVars>>

Segmented ==
  /\ message = None
  /\ SegmentNext
  /\ UNCHANGED frame

Finish ==
  /\ got # None
  /\ message' = None /\ medium' = None /\ flipped' = {} /\ got' = None
  /\ UNCHANGED <<line, segmentVars>>

Init ==
  /\ message = None /\ medium = None /\ line = <<>> /\ flipped = {} /\ got = None
  /\ SegmentInit

Next ==
  \/ \E r \in Requests, m \in Media, route \in Routes : SendRequest(r, m, route)
  \/ \E a \in Answers, m \in Media : SendAnswer(a, m)
  \/ \E i \in 1..8 * Len(line) : Flip(i)
  \/ Receive
  \/ Segmented
  \/ Finish

Spec == Init /\ [][Next]_vars

-----------------------------------------------------------------------------
(* Properties.                                                             *)

Elements(v) == IF v.tag \in {"Array", "List"} THEN v.val ELSE <<v>>

\* Values whose length does not fit into the single byte it is given.
TooLong(v) ==
  \/ v.tag = "CharacterString" /\ Len(v.val) > 254
  \/ v.tag = "OctetString" /\ Len(v.val) > 255

\* Values a WriteProperty request does not bring across: the decoder reads
\* one value only, an incomplete byte of bits from its wrong end, and an
\* unspecified weekday as Sunday.
LostInWrite(v) ==
  \/ TooLong(v) \/ v.tag \in {"Array", "List"}
  \/ v.tag = "BitString" /\ Len(v.val) % 8 # 0
  \/ v.tag = "Date" /\ v.val[4] = 255

\* Values an answer does not bring across: a Boolean takes a byte of its own,
\* which a reader takes for the next value.
LostInAnswer(v) == \E x \in ToSet(Elements(v)) : TooLong(x) \/ x.tag = "Boolean"

Lost ==
  \/ message \in Requests /\ message.svc = "WriteProperty" /\ LostInWrite(message.value)
  \/ message \in Answers /\ message.svc = "ReadAck" /\ LostInAnswer(message.value)

\* What a client should learn from the result of one property.
Learnt(p) ==
  [prop |-> p.prop, index |-> p.index] @@
    IF "value" \in DOMAIN p THEN [values |-> Elements(p.value)] ELSE [error |-> ErrorClassCode[p.error]]

Meaning(m) ==
  CASE m.svc = "ReadAck"   -> [svc |-> m.svc, invoke |-> m.invoke, what |-> [oid |-> m.oid] @@ Learnt(m)]
    [] m.svc = "RpmAck"    ->
         [svc |-> m.svc, invoke |-> m.invoke,
          what |-> [i \in DOMAIN m.specs |->
                      [oid |-> m.specs[i].oid,
                       props |-> [j \in DOMAIN m.specs[i].props |-> Learnt(m.specs[i].props[j])]]]]
    [] m.svc = "SimpleAck" -> [svc |-> m.svc, invoke |-> m.invoke, what |-> m.of]
    [] m.svc = "Error"     -> [svc |-> m.svc, invoke |-> m.invoke, what |-> <<m.of, ErrorClassCode[m.error]>>]
    [] OTHER -> m

\* Whatever the medium and the route, the simulator decodes the request the
\* client sent and the client reads the answer the simulator gave, but for the
\* values that the codecs are known to lose: encoders and decoders agree on
\* tags, lengths, optional fields and nesting at every boundary.
Understood ==
  got # None /\ flipped = {} /\ ~ Lost => got.ok /\ got.val = Meaning(message)

\* No one or two flipped bits of an MS/TP frame, in its header, data or
\* checksums, pass the two checksums: the frame is rejected.
NoiseDetected == got # None /\ flipped # {} => ~ got.ok
=============================================================================
