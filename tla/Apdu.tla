-------------------------------- MODULE Apdu --------------------------------
(***************************************************************************)
(* The application layer of bacnet-codec: how the simulator decodes the    *)
(* requests of clients and encodes its answers.  What the other side does  *)
(* (clients encode requests and read answers) is not in the repository and *)
(* follows the layouts the decoders and encoders state.                    *)
(***************************************************************************)
EXTENDS Wire

-----------------------------------------------------------------------------
(* Requests, as a client encodes them.                                     *)

Optional(tag, x) == IF x = None THEN <<>> ELSE EncodeContext(tag, UintBytes(x))

\* A client puts a Boolean into its tag.
ClientValue(v) == IF v.tag = "Boolean" THEN <<TagByte(1, v.val)>> ELSE EncodeValue(v)

Reference(tag, r) == EncodeContext(tag, UintBytes(r.prop)) \o Optional(tag + 1, r.index)

Body(r) ==
  CASE r.svc = "ReadProperty" -> EncodeContextObjectId(0, r.oid) \o Reference(1, r)
    [] r.svc = "WriteProperty" ->
         EncodeContextObjectId(0, r.oid) \o Reference(1, r) \o Opening(3)
           \o ClientValue(r.value) \o Closing(3) \o Optional(4, r.priority)
    [] r.svc = "ReadPropertyMultiple" ->
         FoldLeft(LAMBDA s, o : s \o EncodeContextObjectId(0, o.oid) \o Opening(1)
                                  \o FoldLeft(LAMBDA t, p : t \o Reference(0, p), <<>>, o.props)
                                  \o Closing(1),
                  <<>>, r.specs)
    [] r.svc = "SubscribeCov" ->
         EncodeContext(0, UintBytes(r.pid)) \o EncodeContextObjectId(1, r.oid)
           \o Optional(2, r.confirmed) \o Optional(3, r.lifetime)

Choice == [ReadProperty |-> 12, ReadPropertyMultiple |-> 14, WriteProperty |-> 15,
           SubscribeCov |-> 5]

\* ConfirmedRequest::encode writes this header and no body.
Header(r) ==
  <<(IF r.segmented THEN 8 ELSE 0) + (IF r.more THEN 4 ELSE 0), 4, r.invoke, Choice[r.svc]>>

\* UnconfirmedRequest::encode.  Who-Is limits go out in pairs; I-Am says no
\* segmentation, 1476 bytes and vendor 999.
EncodeUnconfirmed(r) ==
  IF r.svc = "WhoIs"
    THEN <<16, 8>> \o (IF None \in {r.low, r.high} THEN <<>>
                       ELSE Optional(0, r.low) \o Optional(1, r.high))
    ELSE <<16, 0>> \o Encode(Value("ObjectId", ObjectId(Device, r.device)))
           \o Encode(Value("Unsigned", 1476)) \o Encode(Value("Enumerated", 3))
           \o Encode(Value("Unsigned", 999))

EncodeRequest(r) ==
  IF r.svc \in {"WhoIs", "IAm"} THEN EncodeUnconfirmed(r) ELSE Header(r) \o Body(r)

-----------------------------------------------------------------------------
(* Requests, as the simulator decodes them.                                *)

DecodeReference(s, tag) ==
  Then(DecodeContextU32(s, tag), LAMBDA p, r :
    Then(DecodeOptional(r, tag + 1), LAMBDA i, q : Found([prop |-> p, index |-> i], q)))

DecodeReadProperty(s) ==
  Then(DecodeContextObjectId(s, 0), LAMBDA o, r :
    Then(DecodeReference(r, 1), LAMBDA p, q :
      Found([oid |-> o, prop |-> p.prop, index |-> p.index], q)))

\* The priority is cut to eight bits.
DecodeWriteProperty(s) ==
  Then(DecodeReadProperty(s), LAMBDA x, r :
    IF ~ IsOpening(r, 3) THEN Fail
    ELSE Then(DecodeValue(Tail(r)), LAMBDA v, q :
      IF ~ IsClosing(q, 3) THEN Fail
      ELSE Then(DecodeOptional(Tail(q), 4), LAMBDA p, e :
        Found([oid |-> x.oid, prop |-> x.prop, index |-> x.index, value |-> v,
               priority |-> IF p = None THEN None ELSE p % 256], e))))

RECURSIVE DecodeReferences(_, _)
DecodeReferences(s, done) ==
  IF IsClosing(s, 1) THEN Found(done, Tail(s))
  ELSE Then(DecodeReference(s, 0), LAMBDA p, r : DecodeReferences(r, Append(done, p)))

RECURSIVE DecodeSpecs(_, _)
DecodeSpecs(s, done) ==
  IF s = <<>> THEN Found([specs |-> done], s)
  ELSE Then(DecodeContextObjectId(s, 0), LAMBDA o, r :
         IF ~ IsOpening(r, 1) THEN Fail
         ELSE Then(DecodeReferences(Tail(r), <<>>), LAMBDA ps, q :
                DecodeSpecs(q, Append(done, [oid |-> o, props |-> ps]))))

DecodeSubscribeCov(s) ==
  Then(DecodeContextU32(s, 0), LAMBDA pid, r :
    Then(DecodeContextObjectId(r, 1), LAMBDA o, q :
      Then(DecodeOptional(q, 2), LAMBDA c, p :
        Then(DecodeOptional(p, 3), LAMBDA l, e :
          Found([pid |-> pid, oid |-> o, lifetime |-> l,
                 confirmed |-> IF c \in {None, 0} THEN c ELSE 1], e)))))

\* ConfirmedRequest::decode; whatever follows the body is ignored.
DecodeConfirmed(s) ==
  IF Len(s) < 4 THEN Fail
  ELSE LET body == Drop(s, 4)
           is == {svc \in DOMAIN Choice : Choice[svc] = s[4]}
           With(svc, x) == [svc |-> svc, invoke |-> s[3], segmented |-> (s[1] \div 8) % 2 = 1,
                            more |-> (s[1] \div 4) % 2 = 1] @@ x
       IN IF is = {} THEN Fail
          ELSE LET svc == CHOOSE x \in is : TRUE
                   b == CASE svc = "ReadProperty" -> DecodeReadProperty(body)
                          [] svc = "ReadPropertyMultiple" -> DecodeSpecs(body, <<>>)
                          [] svc = "WriteProperty" -> DecodeWriteProperty(body)
                          [] svc = "SubscribeCov" -> DecodeSubscribeCov(body)
               IN Then(b, LAMBDA x, r : Found(With(svc, x), <<>>))

\* UnconfirmedRequest::decode
DecodeUnconfirmed(s) ==
  IF Len(s) < 2 \/ s[1] # 16 \/ s[2] \notin {0, 8} THEN Fail
  ELSE LET body == Drop(s, 2)
       IN IF s[2] = 8
          THEN Then(DecodeOptional(body, 0), LAMBDA lo, r :
                 Then(DecodeOptional(r, 1), LAMBDA hi, q :
                   Found([svc |-> "WhoIs", low |-> lo, high |-> hi], q)))
          ELSE Found([svc |-> "IAm",
                      device |-> IF Len(body) >= 5 /\ body[1] = 196
                                   THEN Number(SubSeq(body, 2, 5)) % 2 ^ 22 ELSE 0], <<>>)

\* handle_frame, by the type of the PDU; other types are ignored.
DecodeRequest(s) ==
  IF s = <<>> THEN Fail
  ELSE CASE s[1] \div 16 = 0 -> DecodeConfirmed(s)
         [] s[1] \div 16 = 1 -> DecodeUnconfirmed(s)
         [] OTHER -> Fail

-----------------------------------------------------------------------------
(* Answers, as the simulator encodes them.                                 *)

ErrorClassCode ==
  [UnknownObject |-> <<1, 31>>, UnknownProperty |-> <<2, 32>>, WriteAccessDenied |-> <<2, 40>>,
   ValueOutOfRange |-> <<2, 37>>, InvalidDataType |-> <<2, 9>>, Other |-> <<5, 0>>]

\* One property of a ReadPropertyMultiple answer: its value, or its error.
EncodeResult(p) ==
  Reference(2, p) \o
    IF "value" \in DOMAIN p
      THEN Opening(4) \o EncodeValue(p.value) \o Closing(4)
      ELSE LET e == ErrorClassCode[p.error]
           IN Opening(5) \o EncodeContext(0, UintBytes(e[1])) \o EncodeContext(1, UintBytes(e[2]))
                \o Closing(5)

EncodeRpmAck(results) ==
  FoldLeft(LAMBDA s, o : s \o EncodeContextObjectId(0, o.oid) \o Opening(1)
                           \o FoldLeft(LAMBDA t, p : t \o EncodeResult(p), <<>>, o.props)
                           \o Closing(1),
           <<>>, results)

EncodeReadAck(a) ==
  EncodeContextObjectId(0, a.oid) \o Reference(1, a)
    \o Opening(3) \o EncodeValue(a.value) \o Closing(3)

\* encode_error_pdu and ErrorPdu::encode
EncodeError(a) == <<80, a.invoke, a.of>> \o
  <<145, ErrorClassCode[a.error][1], 145, ErrorClassCode[a.error][2]>>

EncodeAnswer(a) ==
  CASE a.svc = "ReadAck"   -> <<48, a.invoke, 12>> \o EncodeReadAck(a)
    [] a.svc = "RpmAck"    -> <<48, a.invoke, 14>> \o EncodeRpmAck(a.specs)
    [] a.svc = "SimpleAck" -> <<32, a.invoke, a.of>>
    [] a.svc = "Error"     -> EncodeError(a)

-----------------------------------------------------------------------------
(* Answers, as a client reads them.                                        *)

AsnTagOf == [t \in {2, 4, 8, 10, 12} |->
  CASE t = 2 -> "Unsigned" [] t = 4 -> "Real" [] t = 8 -> "BitString"
    [] t = 10 -> "Date" [] t = 12 -> "ObjectId"]

ClientDecode(s) ==
  IF s # <<>> /\ ~ IsContext(Head(s)) /\ TagOf(Head(s)) \in DOMAIN AsnTagOf
    THEN DecodeAsn(AsnTagOf[TagOf(Head(s))], s) ELSE DecodeValue(s)

\* The values up to the closing tag.
RECURSIVE ReadValues(_, _, _)
ReadValues(s, tag, done) ==
  IF IsClosing(s, tag) THEN Found(done, Tail(s))
  ELSE Then(ClientDecode(s), LAMBDA v, r : ReadValues(r, tag, Append(done, v)))

ReadResult(s) ==
  Then(DecodeReference(s, 2), LAMBDA p, r :
    IF IsOpening(r, 4)
      THEN Then(ReadValues(Tail(r), 4, <<>>), LAMBDA vs, q :
             Found([prop |-> p.prop, index |-> p.index, values |-> vs], q))
    ELSE IF IsOpening(r, 5)
      THEN Then(DecodeContextU32(Tail(r), 0), LAMBDA c, q :
             Then(DecodeContextU32(q, 1), LAMBDA e, t :
               IF IsClosing(t, 5)
                 THEN Found([prop |-> p.prop, index |-> p.index, error |-> <<c, e>>], Tail(t))
                 ELSE Fail))
    ELSE Fail)

RECURSIVE ReadResults(_, _)
ReadResults(s, done) ==
  IF IsClosing(s, 1) THEN Found(done, Tail(s))
  ELSE Then(ReadResult(s), LAMBDA p, r : ReadResults(r, Append(done, p)))

RECURSIVE ReadObjects(_, _)
ReadObjects(s, done) ==
  IF s = <<>> THEN Found(done, s)
  ELSE Then(DecodeContextObjectId(s, 0), LAMBDA o, r :
         IF ~ IsOpening(r, 1) THEN Fail
         ELSE Then(ReadResults(Tail(r), <<>>), LAMBDA ps, q :
                ReadObjects(q, Append(done, [oid |-> o, props |-> ps]))))

ReadReadAck(s) ==
  Then(DecodeReadProperty(s), LAMBDA x, r :
    IF ~ IsOpening(r, 3) THEN Fail
    ELSE Then(ReadValues(Tail(r), 3, <<>>), LAMBDA vs, q :
           Found([oid |-> x.oid, prop |-> x.prop, index |-> x.index, values |-> vs], q)))

ReadAnswer(s) ==
  IF Len(s) < 3 THEN Fail
  ELSE LET Whole(svc, r) ==
             Then(r, LAMBDA x, q : IF q # <<>> THEN Fail
                                   ELSE Found([svc |-> svc, invoke |-> s[2], what |-> x], q))
       IN CASE s[1] = 48 /\ s[3] = 12 -> Whole("ReadAck", ReadReadAck(Drop(s, 3)))
            [] s[1] = 48 /\ s[3] = 14 -> Whole("RpmAck", ReadObjects(Drop(s, 3), <<>>))
            [] s[1] = 32 -> Whole("SimpleAck", Found(s[3], Drop(s, 3)))
            [] s[1] = 80 -> Whole("Error",
                 Then(DecodeValue(Drop(s, 3)), LAMBDA c, r :
                   Then(DecodeValue(r), LAMBDA e, q : Found(<<s[3], <<c.val, e.val>>>>, q))))
            [] OTHER -> Fail
=============================================================================
