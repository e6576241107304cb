-------------------------------- MODULE Wire --------------------------------
(***************************************************************************)
(* The tag encoding of bacnet-types: how a property value becomes bytes    *)
(* and what the two families of decoders (tags.rs and asn1.rs) make of     *)
(* them.  A byte is a number below 256; a value is its data type (tag)     *)
(* with its content: a number, or the bytes or bits it consists of for     *)
(* Integer, Real, Double, strings and Time, whose conversion to bytes is   *)
(* one to one.  A decoder takes bytes and returns the value it found and   *)
(* the bytes that are left, or fails.                                      *)
(***************************************************************************)
EXTENDS Integers, Sequences, SequencesExt

CONSTANT None  \* an absent optional field

Value(t, x) == [tag |-> t, val |-> x]

Found(v, rest) == [ok |-> TRUE, val |-> v, rest |-> rest]

Fail == [ok |-> FALSE]

\* The decoder F goes on where r left off.
Then(r, F(_, _)) == IF r.ok THEN F(r.val, r.rest) ELSE Fail

Drop(s, n) == SubSeq(s, n + 1, Len(s))

Split(s, n) == IF Len(s) < n THEN Fail ELSE Found(SubSeq(s, 1, n), Drop(s, n))

-----------------------------------------------------------------------------
(* Numbers and tag bytes.                                                  *)

\* The number with the given digits, the most significant one first.
OfDigits(base, digits) ==
  LET Upto[i \in 0..Len(digits)] == IF i = 0 THEN 0 ELSE Upto[i - 1] * base + digits[i]
  IN Upto[Len(digits)]

\* n as k bytes, most significant first, and back.
Bytes(n, k) == [i \in 1..k |-> (n \div 256 ^ (k - i)) % 256]

Number(bytes) == OfDigits(256, bytes)

\* An integer has 32 bits: of more bytes that are shifted in, the last four stay.
LastFour(bytes) == IF Len(bytes) > 4 THEN Drop(bytes, Len(bytes) - 4) ELSE bytes

\* read_uint
ReadUint(bytes) == Number(LastFour(bytes))

\* A fault (here and below): a form of a definition with a bug the code could
\* plausibly have, against which a property is tried.
UintBytes_OffByOne(n) ==
  Bytes(n, IF n <= 256 THEN 1 ELSE IF n < 256 ^ 2 THEN 2 ELSE IF n < 256 ^ 3 THEN 3 ELSE 4)

\* uint_bytes: as few bytes as the number needs, at least one.
UintBytes(n) ==
  Bytes(n, IF n < 256 THEN 1 ELSE IF n < 256 ^ 2 THEN 2 ELSE IF n < 256 ^ 3 THEN 3 ELSE 4)

TagByte(tag, len) == tag * 16 + (len % 8)

ContextByte(tag, len) == (tag % 16) * 16 + 8 + (len % 8)

TagOf(b) == b \div 16

IsContext(b) == (b \div 8) % 2 = 1

Lvt(b) == b % 8

EncodeContext(tag, bytes) == <<ContextByte(tag, Len(bytes))>> \o bytes

Opening(tag) == <<ContextByte(tag, 6)>>

Closing(tag) == <<ContextByte(tag, 7)>>

IsOpening(s, tag) == s # <<>> /\ Head(s) = ContextByte(tag, 6)

IsClosing(s, tag) == s # <<>> /\ Head(s) = ContextByte(tag, 7)

HasContextTag(s, tag) ==
  s # <<>> /\ IsContext(Head(s)) /\ TagOf(Head(s)) = tag /\ Lvt(Head(s)) < 6

\* decode_lvt_len, with the bytes after the tag byte.
DecodeLength(s, lvt) ==
  IF lvt < 5 THEN Found(lvt, s)
  ELSE IF lvt = 5 /\ s # <<>> THEN Found(Head(s), Tail(s))
  ELSE Fail

\* A value of the length the tag says, and one of a length of its own, which
\* only skips over what the tag says.
Sized(s, lvt) == Then(DecodeLength(s, lvt), LAMBDA n, r : Split(r, n))

Fixed(s, lvt, n) == Then(DecodeLength(s, lvt), LAMBDA len, r : Split(r, n))

DecodeContext(s, tag) ==
  IF s = <<>> \/ ~ IsContext(Head(s)) \/ TagOf(Head(s)) # tag THEN Fail
  ELSE Sized(Tail(s), Lvt(Head(s)))

DecodeContextU32(s, tag) ==
  Then(DecodeContext(s, tag), LAMBDA b, r : Found(ReadUint(b), r))

\* An optional context-tagged number.
DecodeOptional(s, tag) == IF HasContextTag(s, tag) THEN DecodeContextU32(s, tag) ELSE Found(None, s)

-----------------------------------------------------------------------------
(* Object identifiers.                                                     *)

ObjectId(type, instance) == [type |-> type, instance |-> instance]

\* The object types from_u16 knows, and two of them.
ObjectTypes == {0, 1, 2, 3, 4, 5, 8, 13, 14, 15, 17, 20}

Device == 8

ObjectIdBytes(oid) == Bytes(oid.type * 2 ^ 22 + (oid.instance % 2 ^ 22), 4)

\* An object type it does not know is taken for a Device ...
ReadObjectId(bytes) ==
  LET raw == Number(bytes)
      type == raw \div 2 ^ 22
  IN ObjectId(IF type \in ObjectTypes THEN type ELSE Device, raw % 2 ^ 22)

EncodeContextObjectId(tag, oid) == EncodeContext(tag, ObjectIdBytes(oid))

DecodeContextObjectId(s, tag) ==
  Then(DecodeContext(s, tag),
       LAMBDA b, r : IF Len(b) = 4 THEN Found(ReadObjectId(b), r) ELSE Fail)

-----------------------------------------------------------------------------
(* encode_property_value                                                   *)

\* Bits fill bytes from the most significant end.
BitBytes(bits) ==
  [i \in 1..(Len(bits) + 7) \div 8 |->
     OfDigits(2, [j \in 1..8 |-> IF 8 * (i - 1) + j \in DOMAIN bits THEN bits[8 * (i - 1) + j] ELSE 0])]

\* The tag of the given number with a length that fits it, or an extended one.
Tagged(tag, bytes) ==
  IF Len(bytes) <= 4 THEN <<TagByte(tag, Len(bytes))>> \o bytes
  ELSE <<TagByte(tag, 5), Len(bytes) % 256>> \o bytes

\* The list in the code's order of cases.  An enumerated value takes one or
\* four bytes, a string always an extended length.
Encode(v) ==
  CASE v.tag = "Null"        -> <<0>>
    [] v.tag = "Boolean"     -> <<17, v.val>>
    [] v.tag = "Unsigned"    -> Tagged(2, UintBytes(v.val))
    [] v.tag = "Real"        -> Tagged(4, v.val)
    [] v.tag = "CharacterString" -> <<TagByte(7, 5), (Len(v.val) + 1) % 256, 0>> \o v.val
    [] v.tag = "ObjectId"    -> Tagged(12, ObjectIdBytes(v.val))
    [] v.tag = "Date"        -> Tagged(10, [v.val EXCEPT ![1] = IF @ < 1900 THEN 0 ELSE (@ - 1900) % 256])
    [] v.tag = "BitString"   -> Tagged(8, <<(8 - (Len(v.val) % 8)) % 8>> \o BitBytes(v.val))
    [] v.tag = "Enumerated"  -> Tagged(9, Bytes(v.val, IF v.val < 256 THEN 1 ELSE 4))
    [] v.tag = "Any"         -> v.val
    [] v.tag = "Integer"     -> Tagged(3, v.val)
    [] v.tag = "Double"      -> Tagged(5, v.val)
    [] v.tag = "OctetString" -> Tagged(6, v.val)
    [] v.tag = "Time"        -> Tagged(11, v.val)

\* The elements of an array or a list follow each other.
EncodeValue(v) ==
  IF v.tag \in {"Array", "List"}
    THEN FoldLeft(LAMBDA s, x : s \o Encode(x), <<>>, v.val) ELSE Encode(v)

-----------------------------------------------------------------------------
(* decode_application_value                                                *)

Bit(byte, i) == (byte \div 2 ^ i) % 2

\* The number of unused bits, which comes first, is one the bytes have.  The
\* code does not look: it panics on another, where this gives no value.
UnusedFits(b) == Head(b) <= (IF Len(b) = 1 THEN 0 ELSE 8)

\* Of the last byte, as many bits as are used, from its least significant end.
BitsFromLow(unused, bytes) ==
  LET n == 8 * Len(bytes) - unused
      Used(i) == IF i = Len(bytes) THEN 8 - unused ELSE 8
  IN [k \in 1..n |-> LET i == (k - 1) \div 8 + 1
                     IN Bit(bytes[i], Used(i) - 1 - ((k - 1) % 8))]

\* A weekday it does not know is taken for Sunday.
ReadDate(b) == <<b[1] + 1900, b[2], b[3], IF b[4] \in 1..6 THEN b[4] ELSE 7>>

\* A shorter Integer is not sign extended.
ReadInteger(b) == [i \in 1..4 - Len(b) |-> 0] \o LastFour(b)

DecodeValue(s) ==
  IF s = <<>> \/ IsContext(Head(s)) \/ TagOf(Head(s)) > 12 THEN Fail
  ELSE LET t == TagOf(Head(s))
           l == Lvt(Head(s))
           rest == Tail(s)
       IN CASE t = 0  -> Found(Value("Null", 0), rest)
            [] t = 1  -> Found(Value("Boolean", IF l # 0 THEN 1 ELSE 0), rest)
            [] t = 2  -> Then(Sized(rest, l), LAMBDA b, r : Found(Value("Unsigned", ReadUint(b)), r))
            [] t = 3  -> Then(Sized(rest, l), LAMBDA b, r : Found(Value("Integer", ReadInteger(b)), r))
            [] t = 4  -> Then(Fixed(rest, l, 4), LAMBDA b, r : Found(Value("Real", b), r))
            [] t = 5  -> Then(Fixed(rest, l, 8), LAMBDA b, r : Found(Value("Double", b), r))
            [] t = 6  -> Then(Sized(rest, l), LAMBDA b, r : Found(Value("OctetString", b), r))
            [] t = 7  -> Then(Sized(rest, l), LAMBDA b, r :
                           IF b = <<>> THEN Fail ELSE Found(Value("CharacterString", Tail(b)), r))
            [] t = 8  -> Then(Sized(rest, l), LAMBDA b, r :
                           IF b = <<>> \/ ~ UnusedFits(b) THEN Fail
                           ELSE Found(Value("BitString", BitsFromLow(Head(b), Tail(b))), r))
            [] t = 9  -> Then(Sized(rest, l), LAMBDA b, r : Found(Value("Enumerated", ReadUint(b)), r))
            [] t = 10 -> Then(Fixed(rest, l, 4), LAMBDA b, r : Found(Value("Date", ReadDate(b)), r))
            [] t = 11 -> Then(Fixed(rest, l, 4), LAMBDA b, r : Found(Value("Time", b), r))
            [] t = 12 -> Then(Fixed(rest, l, 4), LAMBDA b, r : Found(Value("ObjectId", ReadObjectId(b)), r))

-----------------------------------------------------------------------------
(* The decoders of asn1.rs, one for each data type they know.              *)

DecodeAsnUnsigned(s) ==
  IF s = <<>> \/ TagOf(Head(s)) # 2 THEN Fail
  ELSE Then(Split(Tail(s), Lvt(Head(s))), LAMBDA b, r : Found(Value("Unsigned", ReadUint(b)), r))

DecodeAsnReal(s) ==
  IF Len(s) < 5 \/ TagOf(Head(s)) # 4 \/ Lvt(Head(s)) # 4 THEN Fail
  ELSE Then(Split(Tail(s), 4), LAMBDA b, r : Found(Value("Real", b), r))

\* ... but here it is an error.
DecodeAsnObjectId(s) ==
  IF Len(s) < 5 \/ Head(s) # 196 \/ Number(SubSeq(s, 2, 5)) \div 2 ^ 22 \notin ObjectTypes THEN Fail
  ELSE Then(Split(Tail(s), 4), LAMBDA b, r : Found(Value("ObjectId", ReadObjectId(b)), r))

\* A weekday it does not know is Unspecified.
DecodeAsnDate(s) ==
  IF Len(s) < 5 \/ TagOf(Head(s)) # 10 THEN Fail
  ELSE Then(Split(Tail(s), 4), LAMBDA b, r :
         Found(Value("Date", <<b[1] + 1900, b[2], b[3], IF b[4] \in 1..7 THEN b[4] ELSE 255>>), r))

\* Of the last byte, as many bits as are used, from its most significant end.
BitsFromHigh(unused, bytes) ==
  [k \in 1..(IF bytes = <<>> THEN 0 ELSE 8 * Len(bytes) - unused) |->
     Bit(bytes[(k - 1) \div 8 + 1], 7 - ((k - 1) % 8))]

DecodeAsnBitString(s) ==
  IF Len(s) < 2 \/ TagOf(Head(s)) # 8 THEN Fail
  ELSE Then(Sized(Tail(s), Lvt(Head(s))), LAMBDA b, r :
         IF b = <<>> \/ (Len(b) > 1 /\ ~ UnusedFits(b)) THEN Fail
         ELSE Found(Value("BitString", BitsFromHigh(Head(b), Tail(b))), r))

AsnTags == {"Unsigned", "Real", "ObjectId", "Date", "BitString"}

DecodeAsn(t, s) ==
  CASE t = "Unsigned"  -> DecodeAsnUnsigned(s)
    [] t = "Real"      -> DecodeAsnReal(s)
    [] t = "ObjectId"  -> DecodeAsnObjectId(s)
    [] t = "Date"      -> DecodeAsnDate(s)
    [] t = "BitString" -> DecodeAsnBitString(s)
=============================================================================
