------------------------- MODULE BacnetObjectProofs -------------------------
(***************************************************************************)
(* Lemmas on write_property, force_write_property and effective_value of   *)
(* the point objects, for every number of priorities and states.           *)
(***************************************************************************)
EXTENDS BacnetObject, WellFoundedInduction, TLAPS

\* What the proofs need of an object: its fields, and that it is in service
\* or not.
Shape(o) ==
  /\ o = [kind |-> o.kind, pv |-> o.pv, oos |-> o.oos, slots |-> o.slots]
  /\ o.kind \in Kinds
  /\ o.oos \in BOOLEAN
  /\ o.slots \in [1..NumPriorities -> Nat \cup {None}]

\* What is true of every write: it keeps the shape and the kind of the
\* object, changes out_of_service only when that is the property written,
\* and changes nothing when it fails.
Outcome(o, prop, w) ==
  /\ Shape(w.obj)
  /\ w.obj.kind = o.kind
  /\ prop # "OutOfService" => w.obj.oos = o.oos
  /\ w.result # "Ok" => w.obj = o

\* An object put in or out of service.
LEMMA SetService ==
  ASSUME NEW o, Shape(o), NEW b \in BOOLEAN
  PROVE  LET e == [o EXCEPT !.oos = b]
         IN /\ e = [kind |-> o.kind, pv |-> o.pv, oos |-> b, slots |-> o.slots]
            /\ Shape(e)
            /\ e.kind = o.kind
            /\ e.oos = b
<1> DEFINE e == [o EXCEPT !.oos = b]
<1>1. e = [kind |-> o.kind, pv |-> o.pv, oos |-> b, slots |-> o.slots]
  BY DEF Shape
<1> HIDE DEF e
<1>2. e.kind = o.kind /\ e.pv = o.pv /\ e.oos = b /\ e.slots = o.slots
  BY <1>1
<1>3. e = [kind |-> e.kind, pv |-> e.pv, oos |-> e.oos, slots |-> e.slots]
  BY <1>1, <1>2, Zenon
<1>4. e.kind \in Kinds /\ e.oos \in BOOLEAN /\ e.slots \in [1..NumPriorities -> Nat \cup {None}]
  BY <1>2, Zenon DEF Shape
<1>5. Shape(e)
  BY <1>3, <1>4, Zenon DEF Shape
<1> QED BY <1>1, <1>2, <1>5, Zenon DEF e

\* A value that is stored is a number.
LEMMA StoredType ==
  ASSUME NEW k, NEW v \in [tag : Tags, val : Nat]
  PROVE  Stored(k, v) \in Nat
BY DEF Stored

\* write_property.
LEMMA WriteFacts ==
  ASSUME NEW o, Shape(o), NEW prop, NEW v \in [tag : Tags, val : Nat], NEW pri
  PROVE  Outcome(o, prop, Write(o, prop, v, pri))
<1>1. CASE prop = "PresentValue"
  <2> DEFINE r == PresentError(o, v, pri)
             s == [o.slots EXCEPT ![Slot(o.kind, pri)] =
                     IF v.tag = "Null" THEN None ELSE Stored(o.kind, v)]
  <2>1. Write(o, prop, v, pri) = [result |-> r, obj |-> IF r = "Ok" THEN Put(o, v, pri) ELSE o]
    BY <1>1 DEF Write, Reply
  <2>2. s \in [1..NumPriorities -> Nat \cup {None}]
    BY StoredType DEF Shape
  <2>3. Shape(Put(o, v, pri)) /\ Put(o, v, pri).kind = o.kind /\ Put(o, v, pri).oos = o.oos
    <3>1. CASE o.kind \in Commandable
      <4> HIDE DEF s
      <4>1. Put(o, v, pri) = [o EXCEPT !.slots = s,
                 !.pv = IF o.kind = "AnalogOutput" THEN Effective(s) ELSE @]
        BY <3>1 DEF Put, s
      <4> QED BY <4>1, <2>2 DEF Shape
    <3>2. CASE o.kind \notin Commandable
      <4>1. Put(o, v, pri) = [o EXCEPT !.pv = Stored(o.kind, v)]
        BY <3>2 DEF Put
      <4> QED BY <4>1 DEF Shape
    <3> QED BY <3>1, <3>2
  <2> HIDE DEF r
  <2>4. CASE r = "Ok"
    <3>1. Write(o, prop, v, pri).obj = Put(o, v, pri) /\ Write(o, prop, v, pri).result = "Ok"
      BY <2>1, <2>4
    <3> QED BY <3>1, <2>3, Zenon DEF Outcome
  <2>5. CASE r # "Ok"
    <3>1. Write(o, prop, v, pri).obj = o
      BY <2>1, <2>5
    <3> QED BY <3>1, Zenon DEF Outcome
  <2> QED BY <2>4, <2>5
<1>2. CASE prop = "OutOfService"
  <2>1. Write(o, prop, v, pri) =
          IF TakesService(o.kind, v)
            THEN [result |-> "Ok", obj |-> [o EXCEPT !.oos = (v.val # 0)]]
            ELSE [result |-> "InvalidDataType", obj |-> o]
    BY <1>2 DEF Write, Reply
  <2>2. (v.val # 0) \in BOOLEAN
    OBVIOUS
  <2>3. Shape([o EXCEPT !.oos = (v.val # 0)]) /\ [o EXCEPT !.oos = (v.val # 0)].kind = o.kind
    BY <2>2, SetService, Zenon
  <2>4. CASE TakesService(o.kind, v)
    <3>1. /\ Write(o, prop, v, pri).obj = [o EXCEPT !.oos = (v.val # 0)]
          /\ Write(o, prop, v, pri).result = "Ok"
      BY <2>1, <2>4
    <3> QED BY <3>1, <1>2, <2>3, Zenon DEF Outcome
  <2>5. CASE ~ TakesService(o.kind, v)
    <3>1. Write(o, prop, v, pri).obj = o
      BY <2>1, <2>5
    <3> QED BY <3>1, Zenon DEF Outcome
  <2> QED BY <2>4, <2>5
<1>3. CASE prop \notin {"PresentValue", "OutOfService"}
  <2>1. Write(o, prop, v, pri) = [result |-> "WriteAccessDenied", obj |-> o]
    BY <1>3 DEF Write, Reply
  <2>2. Write(o, prop, v, pri).obj = o
    BY <2>1
  <2> QED BY <2>2, Zenon DEF Outcome
<1> QED BY <1>1, <1>2, <1>3

\* Every object can be put out of service and back.
LEMMA ServiceWrite ==
  ASSUME NEW o, NEW b \in BOOLEAN
  PROVE  Write(o, "OutOfService", Bool(b), None).obj = [o EXCEPT !.oos = b]
<1>1. TakesService(o.kind, Bool(b)) /\ (Bool(b).val # 0) = b
  BY DEF TakesService, AsBool, Bool
<1> HIDE DEF TakesService, Bool
<1> QED BY <1>1 DEF Write, Reply

\* The same facts for force_write_property.
LEMMA ForceFacts ==
  ASSUME NEW o, Shape(o), NEW prop, NEW v \in [tag : Tags, val : Nat]
  PROVE  Outcome(o, prop, ForceWrite(o, prop, v))
<1> DEFINE w   == Write(o, prop, v, None)
           on  == [o EXCEPT !.oos = TRUE]
           x   == Write(on, prop, v, None)
           off == [x.obj EXCEPT !.oos = FALSE]
<1>1. ForceWrite(o, prop, v) =
        IF w.result = "Ok" THEN w
        ELSE IF prop = "PresentValue" /\ ~ o.oos THEN [result |-> x.result, obj |-> off]
        ELSE [result |-> "WriteAccessDenied", obj |-> o]
  BY ServiceWrite, Zenon DEF ForceWrite, Reply
<1>2. Shape(on) /\ on.kind = o.kind /\ on.oos = TRUE
  BY SetService, Zenon
<1>3. Outcome(on, prop, x)
  BY <1>2, WriteFacts, Zenon
<1>4. Outcome(o, prop, w)
  BY WriteFacts, Zenon
<1> HIDE DEF w, x
<1>5. Shape(off) /\ off.kind = o.kind /\ off.oos = FALSE
  BY <1>2, <1>3, SetService, Zenon DEF Outcome
<1>6. x.result # "Ok" /\ ~ o.oos => off = o
  <2> SUFFICES ASSUME x.result # "Ok", o.oos = FALSE
               PROVE  off = o
    BY Zenon DEF Shape
  <2>1. on = [kind |-> o.kind, pv |-> o.pv, oos |-> TRUE, slots |-> o.slots]
    BY SetService, Zenon
  <2>2. off = [kind |-> on.kind, pv |-> on.pv, oos |-> FALSE, slots |-> on.slots]
    <3>1. Shape(x.obj) /\ x.obj = on
      BY <1>3, Zenon DEF Outcome
    <3>2. off = [kind |-> x.obj.kind, pv |-> x.obj.pv, oos |-> FALSE, slots |-> x.obj.slots]
      BY <3>1, SetService, Zenon
    <3> QED BY <3>1, <3>2, Zenon
  <2>3. o = [kind |-> o.kind, pv |-> o.pv, oos |-> FALSE, slots |-> o.slots]
    BY Zenon DEF Shape
  <2> HIDE DEF on, off
  <2>4. on.kind = o.kind /\ on.pv = o.pv /\ on.slots = o.slots
    BY <2>1
  <2> QED BY <2>2, <2>3, <2>4, Zenon
<1> HIDE DEF off, on
<1>7. CASE w.result = "Ok"
  BY <1>1, <1>4, <1>7, Zenon
<1>8. CASE w.result # "Ok" /\ prop = "PresentValue" /\ ~ o.oos
  <2>1. ForceWrite(o, prop, v).obj = off /\ ForceWrite(o, prop, v).result = x.result
    BY <1>1, <1>8
  <2> QED BY <2>1, <1>5, <1>6, <1>8, Zenon DEF Outcome, Shape
<1>9. CASE w.result # "Ok" /\ ~ (prop = "PresentValue" /\ ~ o.oos)
  <2>1. ForceWrite(o, prop, v).obj = o
    BY <1>1, <1>9
  <2> QED BY <2>1, Zenon DEF Outcome
<1> QED BY <1>7, <1>8, <1>9, Zenon

-----------------------------------------------------------------------------
\* The values an object of kind k can hold, and the objects that have a
\* command of a higher priority than the simulator's.
Fits(k, v) == Takes(k, v) /\ (k = "MultiStateInput" => v.val \in 1..NumStates)

Overruled(o) == /\ o.kind \in Commandable
                /\ \E p \in 1..NumPriorities - 1 : o.slots[p] # None

\* When a write of present_value without a priority succeeds.
LEMMA PresentOk ==
  ASSUME NEW o, NEW v
  PROVE  PresentError(o, v, None) = "Ok"
           <=> ~ (o.kind \in Inputs /\ ~ o.oos) /\ Fits(o.kind, v)
<1>1. Slot(o.kind, None) \in 1..NumPriorities
  BY ObjectAssumption DEF Slot
<1> QED BY <1>1 DEF PresentError, Fits

\* The lowest slot decides when no other is filled.
LEMMA LowestSlot ==
  ASSUME NEW s \in [1..NumPriorities -> Nat \cup {None}],
         s[NumPriorities] # None,
         \A p \in 1..NumPriorities - 1 : s[p] = None
  PROVE  Effective(s) = s[NumPriorities]
<1> DEFINE Best(p) == p \in 1..NumPriorities /\ s[p] # None /\ \A r \in 1..p - 1 : s[r] = None
           b == CHOOSE p \in 1..NumPriorities : s[p] # None /\ \A r \in 1..p - 1 : s[r] = None
<1>1. NumPriorities \in 1..NumPriorities
  BY ObjectAssumption
<1>2. Best(NumPriorities)
  BY <1>1
<1>3. b \in 1..NumPriorities /\ s[b] # None
  BY <1>2
<1> HIDE DEF b
<1>4. b = NumPriorities
  BY <1>3, ObjectAssumption
<1>5. Effective(s) = s[b]
  BY <1>1, Zenon DEF Effective, b
<1> QED BY <1>4, <1>5

\* A value that is put into an object without a priority shows.
LEMMA PutIsShown ==
  ASSUME NEW o, Shape(o), NEW v \in [tag : Tags, val : Nat], v.tag # "Null", ~ Overruled(o)
  PROVE  Present(Put(o, v, None)) = Stored(o.kind, v)
<1>1. CASE o.kind \in Commandable
  <2> DEFINE s == [o.slots EXCEPT ![NumPriorities] = Stored(o.kind, v)]
  <2>1. Stored(o.kind, v) \in Nat /\ Stored(o.kind, v) # None
    BY StoredType, ObjectAssumption
  <2>2. NumPriorities \in 1..NumPriorities
    BY ObjectAssumption
  <2>3. s \in [1..NumPriorities -> Nat \cup {None}] /\ s[NumPriorities] = Stored(o.kind, v)
    BY <2>1, <2>2 DEF Shape
  <2>4. \A p \in 1..NumPriorities - 1 : s[p] = None
    BY <1>1, ObjectAssumption DEF Shape, Overruled
  <2>5. Effective(s) = Stored(o.kind, v)
    BY <2>1, <2>3, <2>4, LowestSlot
  <2>6. Slot(o.kind, None) = NumPriorities
    BY DEF Slot
  <2> HIDE DEF s
  <2>7. Put(o, v, None) = [o EXCEPT !.slots = s,
             !.pv = IF o.kind = "AnalogOutput" THEN Effective(s) ELSE @]
    BY <1>1, <2>6 DEF Put, s
  <2>8. Put(o, v, None).slots = s /\ Put(o, v, None).kind = o.kind
    BY <2>7 DEF Shape
  <2> QED BY <1>1, <2>5, <2>8 DEF Present
<1>2. CASE o.kind \notin Commandable
  <2>1. Put(o, v, None) = [o EXCEPT !.pv = Stored(o.kind, v)]
    BY <1>2 DEF Put
  <2>2. Put(o, v, None).pv = Stored(o.kind, v) /\ Put(o, v, None).kind = o.kind
    BY <2>1 DEF Shape
  <2> QED BY <1>2, <2>2 DEF Present
<1> QED BY <1>1, <1>2

\* force_write_property of present_value: it succeeds exactly for the values
\* the object can hold, and the value shows.
LEMMA ForceApplies ==
  ASSUME NEW o, Shape(o), NEW v \in [tag : Tags, val : Nat]
  PROVE  LET w == ForceWrite(o, "PresentValue", v)
         IN /\ Fits(o.kind, v) <=> w.result = "Ok"
            /\ Fits(o.kind, v) /\ ~ Overruled(o) /\ v.tag # "Null" =>
                 Present(w.obj) = Stored(o.kind, v)
<1> DEFINE w  == Write(o, "PresentValue", v, None)
           on == [o EXCEPT !.oos = TRUE]
           x  == Write(on, "PresentValue", v, None)
           f  == ForceWrite(o, "PresentValue", v)
<1>1. /\ w.result = PresentError(o, v, None)
      /\ w.result = "Ok" => w.obj = Put(o, v, None)
  BY DEF Write, Reply
<1>2. /\ x.result = PresentError(on, v, None)
      /\ x.result = "Ok" => x.obj = Put(on, v, None)
  BY DEF Write, Reply
<1>3. Shape(on) /\ on.kind = o.kind /\ on.oos = TRUE /\ on.slots = o.slots
  <2>1. on = [kind |-> o.kind, pv |-> o.pv, oos |-> TRUE, slots |-> o.slots]
    BY SetService, Zenon
  <2>2. on.slots = o.slots
    BY <2>1
  <2> QED BY <2>2, SetService, Zenon
<1>4. f = IF w.result = "Ok" THEN w
          ELSE IF ~ o.oos THEN [result |-> x.result, obj |-> [x.obj EXCEPT !.oos = FALSE]]
          ELSE [result |-> "WriteAccessDenied", obj |-> o]
  BY ServiceWrite, Zenon DEF ForceWrite, Reply
<1>5. Shape(x.obj)
  BY <1>3, WriteFacts, Zenon DEF Outcome
<1>6. Overruled(on) <=> Overruled(o)
  BY <1>3, Zenon DEF Overruled
<1> HIDE DEF w, x, on, f
<1>7. w.result = "Ok" <=> ~ (o.kind \in Inputs /\ ~ o.oos) /\ Fits(o.kind, v)
  BY <1>1, PresentOk, Zenon
<1>8. x.result = "Ok" <=> Fits(o.kind, v)
  BY <1>2, <1>3, PresentOk, Zenon
<1>9. CASE w.result = "Ok"
  <2>1. f = w
    BY <1>4, <1>9, Zenon
  <2> QED BY <2>1, <1>1, <1>7, <1>9, PutIsShown, Zenon DEF f
<1>10. CASE w.result # "Ok" /\ o.oos
  <2>1. f.result = "WriteAccessDenied"
    BY <1>4, <1>10
  <2>2. f.result # "Ok"
    BY <2>1
  <2>3. ~ Fits(o.kind, v)
    BY <1>7, <1>10, Zenon
  <2> QED BY <2>2, <2>3, Zenon DEF f
<1>11. CASE w.result # "Ok" /\ ~ o.oos
  <2>1. f.result = x.result /\ f.obj = [x.obj EXCEPT !.oos = FALSE]
    BY <1>4, <1>11
  <2>2. Present(f.obj) = Present(x.obj)
    <3>1. f.obj = [kind |-> x.obj.kind, pv |-> x.obj.pv, oos |-> FALSE, slots |-> x.obj.slots]
      BY <1>5, <2>1, SetService, Zenon
    <3>2. f.obj.kind = x.obj.kind /\ f.obj.pv = x.obj.pv /\ f.obj.slots = x.obj.slots
      BY <3>1
    <3> QED BY <3>2, Zenon DEF Present
  <2>3. Fits(o.kind, v) /\ ~ Overruled(o) /\ v.tag # "Null" => Present(x.obj) = Stored(o.kind, v)
    BY <1>2, <1>3, <1>6, <1>8, PutIsShown, Zenon
  <2> QED BY <2>1, <2>2, <2>3, <1>8, Zenon DEF f
<1> QED BY <1>9, <1>10, <1>11, Zenon

-----------------------------------------------------------------------------
(* What a write leaves of the values of an object.                         *)

\* A set of numbers has a least element ...
LEMMA LeastNat ==
  ASSUME NEW T \in SUBSET Nat, T # {}
  PROVE  \E x \in T : \A y \in T : x <= y
<1> DEFINE R == OpToRel(<, Nat)
<1>1. IsWellFoundedOn(R, Nat)
  BY NatLessThanWellFounded
<1>2. \A x, y \in Nat : x < y => <<x, y>> \in R
  BY DEF OpToRel
<1> HIDE DEF R
<1>3. PICK x \in T : \A y \in T : ~ (<<y, x>> \in R)
  BY <1>1, WFMin
<1>4. \A y \in T : x \in Nat /\ y \in Nat
  OBVIOUS
<1>5. \A y \in T : ~ (y < x)
  BY <1>2, <1>3, <1>4
<1>6. \A y \in T : x <= y
  BY <1>4, <1>5
<1> QED BY <1>6

\* ... and a bounded one a greatest.
LEMMA GreatestBelow ==
  ASSUME NEW n \in Nat, NEW T \in SUBSET (0..n), T # {}
  PROVE  \E x \in T : \A y \in T : y <= x
<1> DEFINE D == {k \in Nat : \E y \in T : k = n - y}
<1>1. \A y \in T : n - y \in D
  OBVIOUS
<1>2. D \in SUBSET Nat /\ D # {}
  <2>1. PICK y \in T : TRUE
    OBVIOUS
  <2>2. n - y \in D
    BY <1>1
  <2> QED BY <2>2
<1>3. \A k \in D : \E y \in T : k = n - y
  OBVIOUS
<1> HIDE DEF D
<1>4. PICK k \in D : \A j \in D : k <= j
  BY <1>2, LeastNat
<1>5. PICK x \in T : k = n - x
  BY <1>3
<1>6. ASSUME NEW y \in T PROVE y <= x
  <2>1. n - x <= n - y
    BY <1>1, <1>4, <1>5
  <2> QED BY <2>1
<1> QED BY <1>6

\* effective_value: the filled slot of the highest priority, if one is filled.
LEMMA EffectiveFacts ==
  ASSUME NEW s \in [1..NumPriorities -> Nat \cup {None}]
  PROVE  /\ Effective(s) \in Nat
         /\ \/ (\A p \in 1..NumPriorities : s[p] = None) /\ Effective(s) = 0
            \/ \E p \in 1..NumPriorities :
                 /\ s[p] # None
                 /\ \A r \in 1..NumPriorities : s[r] # None => p <= r
                 /\ Effective(s) = s[p]
<1>1. CASE \A p \in 1..NumPriorities : s[p] = None
  BY <1>1 DEF Effective
<1>2. CASE ~ \A p \in 1..NumPriorities : s[p] = None
  <2> DEFINE F == {p \in 1..NumPriorities : s[p] # None}
             b == CHOOSE p \in 1..NumPriorities : s[p] # None /\ \A r \in 1..p - 1 : s[r] = None
  <2>1. F \in SUBSET Nat /\ F # {}
    BY <1>2
  <2>2. PICK p \in F : \A r \in F : p <= r
    <3> HIDE DEF F
    <3> QED BY <2>1, LeastNat
  <2>3. p \in 1..NumPriorities /\ s[p] # None /\ \A r \in 1..p - 1 : s[r] = None
    BY <2>2, ObjectAssumption
  <2>4. b \in 1..NumPriorities /\ s[b] # None /\ \A r \in 1..b - 1 : s[r] = None
    BY <2>3
  <2>5. Effective(s) = s[b]
    BY <1>2, Zenon DEF Effective, b
  <2> HIDE DEF b
  <2>6. \A r \in 1..NumPriorities : s[r] # None => b <= r
    BY <2>4, ObjectAssumption
  <2>7. s[b] \in Nat
    BY <2>4
  <2> QED BY <2>4, <2>5, <2>6, <2>7
<1> QED BY <1>1, <1>2

\* What an accepted write of present_value leaves of the priority array and
\* of the stored present_value.
NewSlots(o, v, pri) ==
  IF o.kind \in Commandable
    THEN [o.slots EXCEPT ![Slot(o.kind, pri)] =
            IF v.tag = "Null" THEN None ELSE Stored(o.kind, v)]
    ELSE o.slots

NewPv(o, v, pri) ==
  IF o.kind \notin Commandable THEN Stored(o.kind, v)
  ELSE IF o.kind = "AnalogOutput" THEN Effective(NewSlots(o, v, pri))
  ELSE o.pv

\* The writes of present_value that are accepted.
Accepted(o, v, pri) ==
  /\ Fits(o.kind, v)
  /\ o.kind = "AnalogOutput" => Slot(o.kind, pri) \in 1..NumPriorities

\* What a write that returned w did to the value of the object.
Effect(o, prop, v, pri, w) ==
  IF prop = "PresentValue" /\ w.result = "Ok"
    THEN /\ Accepted(o, v, pri)
         /\ w.obj.kind = o.kind
         /\ w.obj.slots = NewSlots(o, v, pri)
         /\ w.obj.pv = NewPv(o, v, pri)
    ELSE w.obj.kind = o.kind /\ w.obj.slots = o.slots /\ w.obj.pv = o.pv

LEMMA PutEffect ==
  ASSUME NEW o, Shape(o), NEW v, NEW pri
  PROVE  /\ Put(o, v, pri).kind = o.kind
         /\ Put(o, v, pri).slots = NewSlots(o, v, pri)
         /\ Put(o, v, pri).pv = NewPv(o, v, pri)
<1>1. CASE o.kind \in Commandable
  <2> DEFINE s == NewSlots(o, v, pri)
  <2>1. Put(o, v, pri) = [o EXCEPT !.slots = s,
             !.pv = IF o.kind = "AnalogOutput" THEN Effective(s) ELSE @]
    BY <1>1 DEF Put, NewSlots
  <2> HIDE DEF s
  <2> QED BY <1>1, <2>1 DEF Shape, NewPv, s
<1>2. CASE o.kind \notin Commandable
  <2>1. Put(o, v, pri) = [o EXCEPT !.pv = Stored(o.kind, v)]
    BY <1>2 DEF Put
  <2> QED BY <1>2, <2>1 DEF Shape, NewPv, NewSlots
<1> QED BY <1>1, <1>2

LEMMA WriteEffect ==
  ASSUME NEW o, Shape(o), NEW prop, NEW v \in [tag : Tags, val : Nat], NEW pri
  PROVE  Effect(o, prop, v, pri, Write(o, prop, v, pri))
<1> DEFINE w == Write(o, prop, v, pri)
<1>1. CASE prop = "PresentValue"
  <2>1. w = [result |-> PresentError(o, v, pri),
             obj |-> IF PresentError(o, v, pri) = "Ok" THEN Put(o, v, pri) ELSE o]
    BY <1>1 DEF Write, Reply
  <2>2. w.result = PresentError(o, v, pri)
        /\ w.obj = IF PresentError(o, v, pri) = "Ok" THEN Put(o, v, pri) ELSE o
    BY <2>1
  <2>3. PresentError(o, v, pri) = "Ok" => Accepted(o, v, pri)
    BY DEF PresentError, Accepted, Fits
  <2> HIDE DEF w
  <2>4. CASE w.result = "Ok"
    <3>1. Accepted(o, v, pri) /\ w.obj = Put(o, v, pri)
      BY <2>2, <2>3, <2>4, Zenon
    <3>2. /\ w.obj.kind = o.kind
          /\ w.obj.slots = NewSlots(o, v, pri)
          /\ w.obj.pv = NewPv(o, v, pri)
      <4>1. /\ Put(o, v, pri).kind = o.kind
            /\ Put(o, v, pri).slots = NewSlots(o, v, pri)
            /\ Put(o, v, pri).pv = NewPv(o, v, pri)
        BY PutEffect, Zenon
      <4> QED BY <3>1, <4>1
    <3>3. Effect(o, prop, v, pri, w)
      BY <1>1, <2>4, <3>1, <3>2, Zenon DEF Effect
    <3> QED BY <3>3 DEF w
  <2>5. CASE w.result # "Ok"
    <3>1. w.obj = o
      BY <2>2, <2>5, Zenon
    <3> QED BY <2>5, <3>1, Zenon DEF Effect, w
  <2> QED BY <2>4, <2>5
<1>2. CASE prop = "OutOfService"
  <2>1. w.obj = o \/ w.obj = [o EXCEPT !.oos = (v.val # 0)]
    BY <1>2 DEF Write, Reply
  <2>2. (v.val # 0) \in BOOLEAN
    OBVIOUS
  <2>3. LET e == [o EXCEPT !.oos = (v.val # 0)]
        IN e = [kind |-> o.kind, pv |-> o.pv, oos |-> (v.val # 0), slots |-> o.slots]
    BY <2>2, SetService, Zenon
  <2> HIDE DEF w
  <2>4. w.obj.kind = o.kind /\ w.obj.slots = o.slots /\ w.obj.pv = o.pv
    BY <2>1, <2>3
  <2>5. prop # "PresentValue"
    BY <1>2
  <2> QED BY <2>4, <2>5, Zenon DEF Effect, w
<1>3. CASE prop \notin {"PresentValue", "OutOfService"}
  <2>1. w = [result |-> "WriteAccessDenied", obj |-> o]
    BY <1>3 DEF Write, Reply
  <2>2. w.obj = o
    BY <2>1
  <2> HIDE DEF w
  <2>3. prop # "PresentValue"
    BY <1>3
  <2> QED BY <2>2, <2>3, Zenon DEF Effect, w
<1> QED BY <1>1, <1>2, <1>3

LEMMA ForceEffect ==
  ASSUME NEW o, Shape(o), NEW prop, NEW v \in [tag : Tags, val : Nat]
  PROVE  Effect(o, prop, v, None, ForceWrite(o, prop, v))
<1> DEFINE w   == Write(o, prop, v, None)
           on  == [o EXCEPT !.oos = TRUE]
           x   == Write(on, prop, v, None)
           off == [x.obj EXCEPT !.oos = FALSE]
           f   == ForceWrite(o, prop, v)
<1>1. f = IF w.result = "Ok" THEN w
          ELSE IF prop = "PresentValue" /\ ~ o.oos THEN [result |-> x.result, obj |-> off]
          ELSE [result |-> "WriteAccessDenied", obj |-> o]
  BY ServiceWrite, Zenon DEF ForceWrite, Reply
<1>2. Shape(on) /\ on = [kind |-> o.kind, pv |-> o.pv, oos |-> TRUE, slots |-> o.slots]
  BY SetService, Zenon
<1>3. Effect(on, prop, v, None, x) /\ Effect(o, prop, v, None, w) /\ Shape(x.obj)
  BY <1>2, WriteEffect, WriteFacts, Zenon DEF Outcome
<1>4. off = [kind |-> x.obj.kind, pv |-> x.obj.pv, oos |-> FALSE, slots |-> x.obj.slots]
  BY <1>3, SetService, Zenon
<1> HIDE DEF w, on, x, off, f
<1>5. on.kind = o.kind /\ on.pv = o.pv /\ on.slots = o.slots
  BY <1>2
<1>6. off.kind = x.obj.kind /\ off.pv = x.obj.pv /\ off.slots = x.obj.slots
  BY <1>4
<1>7. /\ NewSlots(on, v, None) = NewSlots(o, v, None)
      /\ NewPv(on, v, None) = NewPv(o, v, None)
      /\ Accepted(on, v, None) <=> Accepted(o, v, None)
  BY <1>5, Zenon DEF NewSlots, NewPv, Accepted
<1>8. CASE w.result = "Ok"
  BY <1>1, <1>3, <1>8, Zenon DEF f
<1>9. CASE w.result # "Ok" /\ prop = "PresentValue" /\ ~ o.oos
  <2>1. f.obj = off /\ f.result = x.result
    BY <1>1, <1>9
  <2> QED BY <1>3, <1>5, <1>6, <1>7, <1>9, <2>1, Zenon DEF Effect, f
<1>10. CASE w.result # "Ok" /\ ~ (prop = "PresentValue" /\ ~ o.oos)
  <2>1. f.obj = o /\ f.result = "WriteAccessDenied"
    BY <1>1, <1>10
  <2>2. f.result # "Ok"
    BY <2>1
  <2> QED BY <2>1, <2>2, Zenon DEF Effect, f
<1> QED BY <1>8, <1>9, <1>10, Zenon

-----------------------------------------------------------------------------
(* The type of an object.                                                  *)

LEMMA ObjectShape ==
  ASSUME NEW o \in Objects
  PROVE  Shape(o) /\ o.pv \in Nat
BY DEF Objects, Shape

LEMMA ShapeObject ==
  ASSUME NEW o, Shape(o), o.pv \in Nat
  PROVE  o \in Objects
BY DEF Objects, Shape

\* A new object.
LEMMA NewObjectType ==
  ASSUME NEW k \in Kinds
  PROVE  NewObject(k) \in Objects /\ NewObject(k).kind = k
BY DEF NewObject, Objects

\* What a write leaves is an object of the same kind.
LEMMA EffectType ==
  ASSUME NEW o \in Objects, NEW prop, NEW v \in [tag : Tags, val : Nat], NEW pri, NEW w,
         Outcome(o, prop, w), Effect(o, prop, v, pri, w)
  PROVE  w.obj \in Objects /\ w.obj.kind = o.kind
<1>1. o.pv \in Nat
  BY ObjectShape
<1>2. Shape(w.obj) /\ w.obj.kind = o.kind
  BY Zenon DEF Outcome
<1>3. CASE prop = "PresentValue" /\ w.result = "Ok"
  <2>1. w.obj.pv = NewPv(o, v, pri) /\ w.obj.slots = NewSlots(o, v, pri)
    BY <1>3, Zenon DEF Effect
  <2>2. Stored(o.kind, v) \in Nat
    BY StoredType
  <2>3. w.obj.slots \in [1..NumPriorities -> Nat \cup {None}]
    BY <1>2, Zenon DEF Shape
  <2>4. Effective(w.obj.slots) \in Nat
    BY <2>3, EffectiveFacts
  <2>5. w.obj.pv \in Nat
    BY <1>1, <2>1, <2>2, <2>4, Zenon DEF NewPv
  <2> QED BY <1>2, <2>5, ShapeObject, Zenon
<1>4. CASE ~ (prop = "PresentValue" /\ w.result = "Ok")
  <2>1. w.obj.pv = o.pv
    BY <1>4, Zenon DEF Effect
  <2> QED BY <1>1, <1>2, <2>1, ShapeObject, Zenon
<1> QED BY <1>3, <1>4, Zenon

LEMMA WriteType ==
  ASSUME NEW o \in Objects, NEW prop, NEW v \in [tag : Tags, val : Nat], NEW pri
  PROVE  /\ Write(o, prop, v, pri).obj \in Objects
         /\ Write(o, prop, v, pri).obj.kind = o.kind
<1>1. Shape(o)
  BY ObjectShape
<1>2. /\ Outcome(o, prop, Write(o, prop, v, pri))
      /\ Effect(o, prop, v, pri, Write(o, prop, v, pri))
  BY <1>1, WriteFacts, WriteEffect, Zenon
<1> DEFINE w == Write(o, prop, v, pri)
<1> HIDE DEF w
<1>3. Outcome(o, prop, w) /\ Effect(o, prop, v, pri, w)
  BY <1>2 DEF w
<1>4. w.obj \in Objects /\ w.obj.kind = o.kind
  BY <1>3, EffectType
<1> QED BY <1>4 DEF w

LEMMA ForceType ==
  ASSUME NEW o \in Objects, NEW prop, NEW v \in [tag : Tags, val : Nat]
  PROVE  /\ ForceWrite(o, prop, v).obj \in Objects
         /\ ForceWrite(o, prop, v).obj.kind = o.kind
<1>1. Shape(o)
  BY ObjectShape
<1>2. /\ Outcome(o, prop, ForceWrite(o, prop, v))
      /\ Effect(o, prop, v, None, ForceWrite(o, prop, v))
  BY <1>1, ForceFacts, ForceEffect, Zenon
<1> DEFINE w == ForceWrite(o, prop, v)
<1> HIDE DEF w
<1>3. Outcome(o, prop, w) /\ Effect(o, prop, v, None, w)
  BY <1>2 DEF w
<1>4. w.obj \in Objects /\ w.obj.kind = o.kind
  BY <1>3, EffectType
<1> QED BY <1>4 DEF w

\* An object shows a number.
LEMMA PresentType ==
  ASSUME NEW o \in Objects
  PROVE  Present(o) \in Nat
<1>1. o.pv \in Nat /\ o.slots \in [1..NumPriorities -> Nat \cup {None}]
  BY DEF Objects
<1>2. Effective(o.slots) \in Nat
  BY <1>1, EffectiveFacts
<1> QED BY <1>1, <1>2 DEF Present

\* A write without a priority leaves every slot but the lowest alone.
LEMMA LowestOnly ==
  ASSUME NEW o \in Objects, NEW prop, NEW v, NEW w, Effect(o, prop, v, None, w),
         NEW p \in 1..NumPriorities - 1
  PROVE  w.obj.slots[p] = o.slots[p]
<1>1. w.obj.slots = o.slots \/ w.obj.slots = NewSlots(o, v, None)
  BY Zenon DEF Effect
<1>2. Slot(o.kind, None) = NumPriorities
  BY DEF Slot
<1>3. p \in 1..NumPriorities /\ p # NumPriorities
  BY ObjectAssumption
<1>4. o.slots \in [1..NumPriorities -> Nat \cup {None}]
  BY DEF Objects
<1>5. NewSlots(o, v, None)[p] = o.slots[p]
  BY <1>2, <1>3, <1>4 DEF NewSlots
<1> QED BY <1>1, <1>5
=============================================================================
