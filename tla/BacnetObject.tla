---------------------------- MODULE BacnetObject ----------------------------
(***************************************************************************)
(* The point objects of bacnet-object: what write_property and             *)
(* force_write_property do to one object.  An object is a record of its    *)
(* kind, present_value, out_of_service and priority_array; a property      *)
(* value is its data type (tag) with a number.  A write returns the Result *)
(* it reports together with the object it leaves behind.                   *)
(***************************************************************************)
EXTENDS Integers

CONSTANTS
  NumPriorities,  \* NUM_PRIORITIES, slots of a priority array; 1 is highest
  NumStates,      \* number_of_states of a multi-state object
  None            \* an empty slot; a write without a priority

ASSUME ObjectAssumption ==
  /\ NumPriorities \in Nat \ {0}
  /\ NumStates \in Nat \ {0}
  /\ None \notin Int

Inputs == {"AnalogInput", "BinaryInput", "MultiStateInput"}

Commandable == {"AnalogOutput", "BinaryOutput"}

Binaries == {"BinaryInput", "BinaryOutput", "BinaryValue"}

Kinds == Inputs \cup Commandable \cup {"AnalogValue", "BinaryValue"}

Tags == {"Null", "Boolean", "Unsigned", "Integer", "Real", "Double",
         "Enumerated", "CharacterString"}

Objects == [kind : Kinds, pv : Nat, oos : BOOLEAN,
            slots : [1..NumPriorities -> Nat \cup {None}]]

NewObject(k) == [kind |-> k, pv |-> IF k = "MultiStateInput" THEN 1 ELSE 0,
                 oos |-> FALSE, slots |-> [p \in 1..NumPriorities |-> None]]

Bool(b) == [tag |-> "Boolean", val |-> IF b THEN 1 ELSE 0]

-----------------------------------------------------------------------------
(* Data types.                                                             *)

AsF32(v) == v.tag \in {"Real", "Double", "Unsigned", "Integer"}

AsBool(v) == v.tag \in {"Boolean", "Enumerated"}

\* The data types an object takes for present_value ...
Takes(k, v) ==
  CASE k = "AnalogInput"     -> AsF32(v)
    [] k = "AnalogOutput"    -> AsF32(v) \/ v.tag = "Null"
    [] k = "AnalogValue"     -> v.tag = "Real"
    [] k = "BinaryInput"     -> AsBool(v)
    [] k = "BinaryOutput"    -> v.tag \in {"Null", "Enumerated", "Unsigned", "Boolean"}
    [] k = "BinaryValue"     -> v.tag \in {"Boolean", "Enumerated", "Unsigned"}
    [] k = "MultiStateInput" -> v.tag = "Unsigned"

\* ... and for out_of_service.
TakesService(k, v) ==
  IF k \in {"AnalogInput", "AnalogOutput", "BinaryInput"}
    THEN AsBool(v) ELSE v.tag = "Boolean"

Stored(k, v) == IF k \in Binaries /\ v.val # 0 THEN 1 ELSE v.val

-----------------------------------------------------------------------------
(* The priority array.                                                     *)

\* Faults (here and below): forms of a definition with a bug the code could
\* plausibly have, against which the properties are tried.
Effective_Lowest(slots) ==
  IF \A p \in 1..NumPriorities : slots[p] = None THEN 0
  ELSE slots[CHOOSE p \in 1..NumPriorities :
               slots[p] # None /\ \A r \in p + 1..NumPriorities : slots[r] = None]

\* effective_value: the filled slot of the highest priority, or
\* relinquish_default, which nothing ever changes from 0.
Effective(slots) ==
  IF \A p \in 1..NumPriorities : slots[p] = None THEN 0
  ELSE slots[CHOOSE p \in 1..NumPriorities :
               slots[p] # None /\ \A r \in 1..p - 1 : slots[r] = None]

\* A write without a priority is one of the lowest.  AnalogOutput refuses a
\* priority that has no slot; BinaryOutput takes the nearest slot.
Slot(k, pri) ==
  IF pri = None THEN NumPriorities
  ELSE IF k = "BinaryOutput" /\ pri < 1 THEN 1
  ELSE IF k = "BinaryOutput" /\ pri > NumPriorities THEN NumPriorities
  ELSE pri

Present(o) == IF o.kind \in Commandable THEN Effective(o.slots) ELSE o.pv

-----------------------------------------------------------------------------
(* write_property                                                          *)

PresentError_OffByOne(o, v, pri) ==
  IF o.kind \in Inputs /\ ~ o.oos THEN "WriteAccessDenied"
  ELSE IF o.kind = "AnalogOutput" /\ Slot(o.kind, pri) \notin 1..NumPriorities
    THEN "ValueOutOfRange"
  ELSE IF ~ Takes(o.kind, v) THEN "InvalidDataType"
  ELSE IF o.kind = "MultiStateInput" /\ v.val > NumStates + 1 THEN "ValueOutOfRange"
  ELSE "Ok"

PresentError(o, v, pri) ==
  IF o.kind \in Inputs /\ ~ o.oos THEN "WriteAccessDenied"
  ELSE IF o.kind = "AnalogOutput" /\ Slot(o.kind, pri) \notin 1..NumPriorities
    THEN "ValueOutOfRange"
  ELSE IF ~ Takes(o.kind, v) THEN "InvalidDataType"
  ELSE IF o.kind = "MultiStateInput" /\ v.val \notin 1..NumStates
    THEN "ValueOutOfRange"
  ELSE "Ok"

\* A Null relinquishes a slot.  Only AnalogOutput keeps a present_value
\* beside its priority array.
Put(o, v, pri) ==
  IF o.kind \notin Commandable THEN [o EXCEPT !.pv = Stored(o.kind, v)]
  ELSE LET s == [o.slots EXCEPT ![Slot(o.kind, pri)] =
                   IF v.tag = "Null" THEN None ELSE Stored(o.kind, v)]
       IN [o EXCEPT !.slots = s, !.pv = IF o.kind = "AnalogOutput" THEN Effective(s) ELSE @]

Reply(r, o) == [result |-> r, obj |-> o]

Write(o, prop, v, pri) ==
  CASE prop = "PresentValue" ->
         LET r == PresentError(o, v, pri)
         IN Reply(r, IF r = "Ok" THEN Put(o, v, pri) ELSE o)
    [] prop = "OutOfService" ->
         IF TakesService(o.kind, v)
           THEN Reply("Ok", [o EXCEPT !.oos = (v.val # 0)])
           ELSE Reply("InvalidDataType", o)
    [] OTHER -> Reply("WriteAccessDenied", o)

-----------------------------------------------------------------------------
(* force_write_property, the simulation's own write                        *)

\* It leaves early when the write in between fails.
ForceWrite_EarlyReturn(o, prop, v) ==
  LET w   == Write(o, prop, v, None)
      on  == Write(o, "OutOfService", Bool(TRUE), None).obj
      x   == Write(on, prop, v, None)
      off == Write(x.obj, "OutOfService", Bool(FALSE), None).obj
  IN IF w.result = "Ok" THEN w
     ELSE IF prop = "PresentValue" /\ ~ o.oos
       THEN Reply(x.result, IF x.result = "Ok" THEN off ELSE x.obj)
     ELSE Reply("WriteAccessDenied", o)

\* It does not take the object out of service.
ForceWrite_NoBypass(o, prop, v) == Write(o, prop, v, None)

\* It puts the object in service whatever it was before.
ForceWrite_AlwaysRestore(o, prop, v) ==
  LET on  == Write(o, "OutOfService", Bool(TRUE), None).obj
      x   == Write(on, prop, v, None)
  IN IF prop = "PresentValue"
       THEN Reply(x.result, Write(x.obj, "OutOfService", Bool(FALSE), None).obj)
     ELSE Write(o, prop, v, None)

\* An ordinary write first; if it fails, a present_value is written once
\* more with the object out of service, which is put back afterwards.
ForceWrite(o, prop, v) ==
  LET w   == Write(o, prop, v, None)
      on  == Write(o, "OutOfService", Bool(TRUE), None).obj
      x   == Write(on, prop, v, None)
      off == Write(x.obj, "OutOfService", Bool(FALSE), None).obj
  IN IF w.result = "Ok" THEN w
     ELSE IF prop = "PresentValue" /\ ~ o.oos THEN Reply(x.result, off)
     ELSE Reply("WriteAccessDenied", o)
=============================================================================
