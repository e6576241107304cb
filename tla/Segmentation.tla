---------------------------- MODULE Segmentation ----------------------------
(***************************************************************************)
(* The reassembly of a segmented APDU (bacnet-codec, apdu/segmentation.rs):*)
(* a peer's segments, which arrive in any order and more than once, and    *)
(* the SegmentBuffer of their receiver.  An Option is a set of at most one *)
(* element.                                                                *)
(***************************************************************************)
EXTENDS Integers, Sequences, FiniteSets

CONSTANTS
  SequenceNumbers,  \* how many sequence numbers there are (256)
  MaxSegments       \* how many segments a message may have

ASSUME SegmentationAssumption == SequenceNumbers \in Nat \ {0} /\ MaxSegments \in Nat

VARIABLES
  air,      \* the segments under way
  arrived,  \* those that have arrived
  buffer,   \* the receiver's SegmentBuffer
  returned  \* the latest message it returned

segmentVars == <<air, arrived, buffer, returned>>

-----------------------------------------------------------------------------
(* SegmentBuffer: the segments so far by their number, and their total     *)
(* once the last one is known.                                             *)

NewBuffer == [segments |-> <<>>, total |-> {}]

\* The loop runs to the total cut to the width of a sequence number.
Reassemble(segments, total) ==
  LET Upto[i \in 0..total % SequenceNumbers] ==
        IF i = 0 THEN <<>>
        ELSE Upto[i - 1] \o (IF i - 1 \in DOMAIN segments THEN segments[i - 1] ELSE <<>>)
  IN Upto[total % SequenceNumbers]

Insert(segments, s) ==
  [k \in DOMAIN segments \cup {s.seq} |-> IF k = s.seq THEN s.data ELSE segments[k]]

AddSegment_LastEnds(b, s) ==
  LET segments == Insert(b.segments, s)
      total == IF s.more THEN b.total ELSE {s.seq + 1}
  IN [buffer |-> [segments |-> segments, total |-> total],
      out |-> {Reassemble(segments, n) : n \in {m \in total : ~ s.more}}]

AddSegment(b, s) ==
  LET segments == Insert(b.segments, s)
      total == IF s.more THEN b.total ELSE {s.seq + 1}
  IN [buffer |-> [segments |-> segments, total |-> total],
      out |-> {Reassemble(segments, n) : n \in {m \in total : Cardinality(DOMAIN segments) = m}}]

-----------------------------------------------------------------------------
(* A message of n segments, each with data of its own.                     *)

Segments(n) ==
  {[seq |-> (i - 1) % SequenceNumbers, more |-> i < n, data |-> <<i>>] : i \in 1..n}

Whole(n) == [i \in 1..n |-> i]

SegmentInit == air = {} /\ arrived = {} /\ buffer = NewBuffer /\ returned = {}

SendSegments(n) ==
  /\ air = {}
  /\ air' = Segments(n)
  /\ UNCHANGED <<arrived, buffer, returned>>

\* A segment stays under way: it may arrive again.
DeliverSegment(s) ==
  LET added == AddSegment(buffer, s)
  IN /\ buffer' = added.buffer
     /\ arrived' = arrived \cup {s}
     /\ returned' = IF added.out = {} THEN returned ELSE added.out
     /\ UNCHANGED air

\* The next message has a buffer of its own.
FinishSegments ==
  /\ air # {}
  /\ air' = {} /\ arrived' = {} /\ buffer' = NewBuffer /\ returned' = {}

SegmentNext ==
  \/ \E n \in 1..MaxSegments : SendSegments(n)
  \/ \E s \in air : DeliverSegment(s)
  \/ FinishSegments

SegmentSpec == SegmentInit /\ [][SegmentNext]_segmentVars

-----------------------------------------------------------------------------

\* A message of fewer segments than there are sequence numbers is returned
\* (SegmentBuffer::add_segment) when its last missing segment arrives and not
\* before, and what is returned is the whole message in order, in whatever
\* order and however often its segments came.
Reassembled ==
  \A n \in 1..SequenceNumbers - 1 :
    air = Segments(n) => returned = IF arrived = air THEN {Whole(n)} ELSE {}
=============================================================================
