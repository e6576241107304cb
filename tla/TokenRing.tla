----------------------------- MODULE TokenRing -----------------------------
(***************************************************************************)
(* What an MS/TP token ring promises, independently of frames, queues and  *)
(* timers: there is at most one token; it is either at a station or lost;  *)
(* it moves from a station to its successor only; and a new token appears  *)
(* at station 0, and only when there is none.  MstpRing implements this    *)
(* specification as long as no master task stalls longer than the ring     *)
(* timeout.                                                                *)
(***************************************************************************)
EXTENDS Integers

CONSTANT MaxMaster      \* highest station address of the ring

VARIABLE at             \* the station that has, or is about to get, the token

NoToken == -1

Successor(m) == (m + 1) % (MaxMaster + 1)

Init == at = NoToken

\* Station 0 creates a token: the bootstrap of the ring, or its restart.
Create == at = NoToken /\ at' = 0

\* The token goes to the next station of the ring.
Pass == at # NoToken /\ at' = Successor(at)

\* The token is lost: its addressee is not on the bus, or misses the frame.
Lose == at # NoToken /\ at' = NoToken

Next == Create \/ Pass \/ Lose

Spec == Init /\ [][Next]_at
=============================================================================
