------------------------------ MODULE MCScHub ------------------------------
(***************************************************************************)
(* The hub for TLC: two connections and two addresses in one shard, so     *)
(* that a call that waits for one node is in the way of the handlers of    *)
(* both.  Addresses are interchangeable, so the first connection's is va.  *)
(***************************************************************************)
EXTENDS ScHub

CONSTANTS c1, c2, va, vb

MCConns == {c1, c2}
MCVmacs == {va, vb}
MCAddress == [c \in MCConns |-> IF c = c1 THEN {va} ELSE MCVmacs]
MCShard == [v \in MCVmacs |-> 0]
=============================================================================
