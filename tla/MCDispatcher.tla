---------------------------- MODULE MCDispatcher ----------------------------
(* Two clients of two devices that have the same points.                   *)
EXTENDS Dispatcher, TLC

Ask(s, objs, r) == [service |-> s, objects |-> objs, range |-> r]

MCAsks ==
  {Ask("ReadProperty", <<Device(2)>>, None),
   Ask("WriteProperty", <<Point(7)>>, None),
   Ask("ReadPropertyMultiple", <<Device(3), Point(7)>>, None),
   Ask("ReadPropertyMultiple", <<Device(1), Point(9), Point(7)>>, None),
   Ask("ReadPropertyMultiple", <<>>, None),
   Ask("SubscribeCov", <<>>, None),
   Ask("Undecodable", <<>>, None),
   Ask("WhoIs", <<>>, [lo |-> 2, hi |-> 3])}

\* A client that reads a point of the device it has read before.
MCReads ==
  {Ask("ReadProperty", <<Device(2)>>, None),
   Ask("ReadProperty", <<Point(7)>>, None)}

MCSymmetry == Permutations(Clients)
=============================================================================
