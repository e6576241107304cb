------------------------------- MODULE MCLink -------------------------------
(* Values at the boundaries of every length, and requests and answers with *)
(* every optional field present and absent.                                *)
EXTENDS Link

MCPeer == <<10, 0, 0, 7, 186, 192>>

Oid == ObjectId(2, 4194302)

Letters(n) == [i \in 1..n |-> 65 + (i % 26)]

Values ==
  {Value("Null", 0), Value("Boolean", 0), Value("Boolean", 1),
   Value("Real", <<66, 200, 0, 0>>), Value("Double", <<64, 9, 33, 251, 84, 68, 45, 24>>),
   Value("Integer", <<255, 255, 255, 254>>), Value("Time", <<23, 59, 59, 255>>),
   Value("Date", <<2024, 2, 29, 4>>), Value("Date", <<1900, 255, 255, 255>>),
   Value("ObjectId", ObjectId(8, 4194303)), Value("ObjectId", ObjectId(0, 0))}
  \cup {Value("Unsigned", n) : n \in {0, 255, 256, 65535, 65536, 16777215, 16777216, 2147483647}}
  \cup {Value("Enumerated", n) : n \in {0, 255, 256, 70000}}
  \cup {Value("CharacterString", Letters(n)) : n \in {0, 3, 4, 254, 255}}
  \cup {Value("OctetString", Letters(n)) : n \in {0, 4, 5, 255, 256}}
  \cup {Value("BitString", [i \in 1..n |-> IF i \in {2, 9} THEN 1 ELSE 0]) : n \in {4, 8, 9, 16, 40}}

Lists ==
  {Value("List", <<>>),
   Value("Array", <<Value("Unsigned", 7), Value("Null", 0), Value("CharacterString", Letters(6))>>)}

Indexes == {None, 0, 300}

MCRequests ==
  [svc : {"ReadProperty"}, invoke : {0, 255}, segmented : {FALSE}, more : {FALSE},
   oid : {Oid}, prop : {85, 512}, index : Indexes]
  \cup [svc : {"WriteProperty"}, invoke : {1}, segmented : {FALSE}, more : {FALSE},
        oid : {Oid}, prop : {85}, index : {None, 2}, value : Values \cup Lists, priority : {None, 16}]
  \cup [svc : {"ReadPropertyMultiple"}, invoke : {1}, segmented : {TRUE}, more : BOOLEAN,
        specs : {<<>>, <<[oid |-> Oid, props |-> <<>>]>>,
                 <<[oid |-> Oid, props |-> <<[prop |-> 85, index |-> None], [prop |-> 87, index |-> 16]>>],
                   [oid |-> ObjectId(8, 1), props |-> <<[prop |-> 76, index |-> 0]>>]>>}]
  \cup [svc : {"SubscribeCov"}, invoke : {1}, segmented : {FALSE}, more : {FALSE},
        pid : {0, 70000}, oid : {Oid}, confirmed : {None, 0, 1}, lifetime : Indexes]
  \cup {[svc |-> "WhoIs", low |-> l, high |-> l] : l \in {None, 0, 4194303}}
  \cup [svc : {"IAm"}, device : {1, 4194303}]

MCAnswers ==
  [svc : {"ReadAck"}, invoke : {1}, oid : {Oid}, prop : {85}, index : {None, 0}, value : Values \cup Lists]
  \cup [svc : {"RpmAck"}, invoke : {255},
        specs : {<<>>, <<[oid |-> Oid, props |-> <<>>]>>,
                 <<[oid |-> Oid, props |-> <<[prop |-> 85, index |-> None, value |-> Value("Null", 0)],
                                             [prop |-> 87, index |-> 16, error |-> "UnknownProperty"]>>],
                   [oid |-> ObjectId(8, 1), props |-> <<[prop |-> 76, index |-> 0, value |-> Value("Unsigned", 256)]>>]>>}]
  \cup [svc : {"SimpleAck"}, invoke : {0}, of : {15, 5}]
  \cup [svc : {"Error"}, invoke : {0}, of : {12, 15}, error : DOMAIN ErrorClassCode]

Far == [network |-> 300, mac |-> <<9>>]

Near == [network |-> 2, mac |-> MCPeer]

MCRoutes ==
  {[dst |-> None, src |-> None, hops |-> None], [dst |-> None, src |-> Near, hops |-> None],
   [dst |-> [network |-> 65535, mac |-> <<>>], src |-> None, hops |-> 255],
   [dst |-> Far, src |-> Near, hops |-> 4]}
=============================================================================
