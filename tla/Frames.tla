------------------------------- MODULE Frames -------------------------------
(***************************************************************************)
(* The lower layers of bacnet-codec, as functions on bytes: the NPDU and   *)
(* the frames of BACnet/IP (BVLL), BACnet/SC and MS/TP with its checksums. *)
(* A slice out of range panics in the task of its frame, which is then as  *)
(* lost as one that fails to decode.                                       *)
(***************************************************************************)
EXTENDS Wire, Bitwise

-----------------------------------------------------------------------------
(* NPDU                                                                    *)

EncodeLocal(expecting, apdu) == <<1, IF expecting THEN 4 ELSE 0>> \o apdu

\* A router's NPDU (not in the repository): network and address of the
\* destination and of the source, each or None, and a hop count.
Station(a) == IF a = None THEN <<>> ELSE Bytes(a.network, 2) \o <<Len(a.mac)>> \o a.mac

EncodeRouted(dst, src, hops, apdu) ==
  <<1, (IF dst # None THEN 32 ELSE 0) + (IF src # None THEN 8 ELSE 0)>>
    \o Station(dst) \o Station(src) \o (IF dst # None THEN <<hops>> ELSE <<>>) \o apdu

DecodeStation(s, present) ==
  IF ~ present THEN Found(None, s)
  ELSE IF Len(s) < 3 THEN Fail
  ELSE Then(Split(Drop(s, 3), s[3]), LAMBDA mac, r :
         Found([network |-> Number(SubSeq(s, 1, 2)), mac |-> mac], r))

DecodeNpdu(s) ==
  IF Len(s) < 2 \/ s[1] # 1 THEN Fail
  ELSE Then(DecodeStation(Drop(s, 2), Bit(s[2], 5) = 1), LAMBDA dst, r :
    Then(DecodeStation(r, Bit(s[2], 3) = 1), LAMBDA src, q :
      Then(IF dst = None THEN Found(None, q)
           ELSE IF q = <<>> THEN Fail ELSE Found(Head(q), Tail(q)), LAMBDA hops, apdu :
        Found([network |-> Bit(s[2], 7) = 1, dst |-> dst, src |-> src, hops |-> hops,
               expecting |-> Bit(s[2], 2) = 1, apdu |-> apdu], <<>>))))

-----------------------------------------------------------------------------
(* BVLL.  A frame is its function code, the six bytes of the originating   *)
(* address in a Forwarded-NPDU, and its payload.                           *)

Carriers == {4, 9, 10, 11}

EncodeBvll(f) ==
  LET payload == f.origin \o f.data
  IN <<129, f.fn>> \o Bytes((4 + Len(payload)) % 65536, 2) \o payload

DecodeBvll(s) ==
  IF Len(s) < 4 \/ s[1] # 129 THEN Fail
  ELSE LET length == Number(SubSeq(s, 3, 4))
           payload == SubSeq(s, 5, length)
       IN IF Len(s) < length \/ length < 4 THEN Fail
          ELSE CASE s[2] \in {1, 5} ->
                      IF Len(payload) < 2 THEN Fail
                      ELSE Found([fn |-> s[2], origin |-> <<>>, data |-> SubSeq(payload, 1, 2)], <<>>)
                 [] s[2] = 4 ->
                      IF Len(payload) < 6 THEN Fail
                      ELSE Found([fn |-> 4, origin |-> SubSeq(payload, 1, 6),
                                  data |-> Drop(payload, 6)], <<>>)
                 [] s[2] \in {9, 10, 11} ->
                      Found([fn |-> s[2], origin |-> <<>>, data |-> payload], <<>>)
                 [] OTHER -> Fail

-----------------------------------------------------------------------------
(* BACnet/SC                                                               *)

EncodeSc(f) ==
  <<f.fn, (IF f.orig # None THEN 8 ELSE 0) + (IF f.dest # None THEN 4 ELSE 0)>>
    \o Bytes(f.id, 2) \o (IF f.orig # None THEN f.orig ELSE <<>>)
    \o (IF f.dest # None THEN f.dest ELSE <<>>) \o f.data

DecodeVmac(s, present) == IF present THEN Split(s, 6) ELSE Found(None, s)

DecodeSc(s) ==
  IF Len(s) < 4 THEN Fail
  ELSE Then(DecodeVmac(Drop(s, 4), Bit(s[2], 3) = 1), LAMBDA orig, r :
    Then(DecodeVmac(r, Bit(s[2], 2) = 1), LAMBDA dest, data :
      Found([fn |-> s[1], id |-> Number(SubSeq(s, 3, 4)), orig |-> orig, dest |-> dest,
             data |-> data], <<>>)))

-----------------------------------------------------------------------------
(* MS/TP                                                                   *)

\* Both checksums: a shift register of the width of ones, its complement at
\* the end.  The bytes i to j go in one half after the other.
Checksum(data, ones, polynomial) ==
  LET Shift[c \in 0..ones, i \in 0..8] ==
        IF i = 0 THEN c
        ELSE Shift[IF c % 2 = 1 THEN (c \div 2) ^^ polynomial ELSE c \div 2, i - 1]
      Run[c \in 0..ones, i \in Nat, j \in Nat] ==
        CASE i > j -> c
          [] i = j -> Shift[c ^^ data[i], 8]
          [] i < j -> LET mid == (i + j) \div 2 IN Run[Run[c, i, mid], mid + 1, j]
  IN ones - Run[ones, 1, Len(data)]

Crc8(data) == Checksum(data, 255, 224)

Crc16(data) == Checksum(data, 65535, 40961)

LowFirst(n) == <<n % 256, n \div 256>>

EncodeMstp(f) ==
  LET header == <<f.type, f.dst, f.src>> \o Bytes(Len(f.data) % 65536, 2)
  IN <<85, 255>> \o header \o <<Crc8(header)>>
       \o (IF f.data = <<>> THEN <<>> ELSE f.data \o LowFirst(Crc16(f.data)))

DecodeMstp_LowByteOnly(s) ==
  IF Len(s) < 8 \/ s[1] # 85 \/ s[2] # 255 \/ s[3] > 7 \/ s[8] # Crc8(SubSeq(s, 3, 7)) THEN Fail
  ELSE LET n == Number(SubSeq(s, 6, 7))
           data == SubSeq(s, 9, 8 + n)
       IN IF Len(s) < 8 + n + (IF n > 0 THEN 2 ELSE 0) THEN Fail
          ELSE IF n > 0 /\ s[9 + n] # LowFirst(Crc16(data))[1] THEN Fail
          ELSE Found([type |-> s[3], dst |-> s[4], src |-> s[5], data |-> data], <<>>)

DecodeMstp(s) ==
  IF Len(s) < 8 \/ s[1] # 85 \/ s[2] # 255 \/ s[3] > 7 \/ s[8] # Crc8(SubSeq(s, 3, 7)) THEN Fail
  ELSE LET n == Number(SubSeq(s, 6, 7))
           data == SubSeq(s, 9, 8 + n)
       IN IF Len(s) < 8 + n + (IF n > 0 THEN 2 ELSE 0) THEN Fail
          ELSE IF n > 0 /\ SubSeq(s, 9 + n, 10 + n) # LowFirst(Crc16(data)) THEN Fail
          ELSE Found([type |-> s[3], dst |-> s[4], src |-> s[5], data |-> data], <<>>)

=============================================================================
