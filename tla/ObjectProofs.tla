---------------------------- MODULE ObjectProofs ----------------------------
(***************************************************************************)
(* Theorems about one point object: about its writes, for every number of  *)
(* priorities and states and every set of values and priorities written;   *)
(* and about the alarm that is evaluated with its values, for all limits,  *)
(* delays and times of evaluation.  The two specifications share nothing.  *)
(***************************************************************************)
EXTENDS ObjectWrites, AlarmEngine, BacnetObjectProofs

\* Every step is one write of a value by a client or by the simulator.
LEMMA StepIsWrite ==
  ASSUME Next
  PROVE  \E prop \in Props, v \in Values :
           \/ \E pri \in Priorities :
                 /\ obj' = Write(obj, prop, v, pri).obj
                 /\ reply' = [by |-> "client", prop |-> prop, val |-> v,
                              result |-> Write(obj, prop, v, pri).result]
           \/ /\ obj' = ForceWrite(obj, prop, v).obj
              /\ reply' = [by |-> "simulator", prop |-> prop, val |-> v,
                           result |-> ForceWrite(obj, prop, v).result]
BY Zenon DEF Next, ClientWrite, SimulatorWrite, Finish

\* What a step does to the object, and what it replies.
LEMMA StepOutcome ==
  ASSUME Shape(obj), Next
  PROVE  /\ Shape(obj')
         /\ reply'.prop # "OutOfService" => obj'.oos = obj.oos
         /\ reply'.result # "Ok" => obj' = obj
<1>1. \E prop \in Props : \E w :
        /\ Outcome(obj, prop, w)
        /\ obj' = w.obj
        /\ reply'.prop = prop
        /\ reply'.result = w.result
  <2>1. PICK prop \in Props, v \in Values :
          \/ \E pri \in Priorities :
                /\ obj' = Write(obj, prop, v, pri).obj
                /\ reply' = [by |-> "client", prop |-> prop, val |-> v,
                             result |-> Write(obj, prop, v, pri).result]
          \/ /\ obj' = ForceWrite(obj, prop, v).obj
             /\ reply' = [by |-> "simulator", prop |-> prop, val |-> v,
                          result |-> ForceWrite(obj, prop, v).result]
    BY StepIsWrite
  <2>2. v \in [tag : Tags, val : Nat]
    BY WritesAssumption
  <2>3. CASE \E pri \in Priorities :
               /\ obj' = Write(obj, prop, v, pri).obj
               /\ reply' = [by |-> "client", prop |-> prop, val |-> v,
                            result |-> Write(obj, prop, v, pri).result]
    <3>1. PICK pri \in Priorities :
            /\ obj' = Write(obj, prop, v, pri).obj
            /\ reply' = [by |-> "client", prop |-> prop, val |-> v,
                         result |-> Write(obj, prop, v, pri).result]
      BY <2>3
    <3>2. Outcome(obj, prop, Write(obj, prop, v, pri))
      BY <2>2, WriteFacts, Zenon
    <3>3. reply'.prop = prop /\ reply'.result = Write(obj, prop, v, pri).result
      BY <3>1
    <3> QED BY <3>1, <3>2, <3>3, Zenon
  <2>4. CASE /\ obj' = ForceWrite(obj, prop, v).obj
             /\ reply' = [by |-> "simulator", prop |-> prop, val |-> v,
                          result |-> ForceWrite(obj, prop, v).result]
    <3>1. Outcome(obj, prop, ForceWrite(obj, prop, v))
      BY <2>2, ForceFacts, Zenon
    <3>2. reply'.prop = prop /\ reply'.result = ForceWrite(obj, prop, v).result
      BY <2>4
    <3> QED BY <2>4, <3>1, <3>2, Zenon
  <2> QED BY <2>1, <2>3, <2>4
<1> QED BY <1>1, Zenon DEF Outcome

\* A new object has the shape.
LEMMA InitShape ==
  ASSUME Init
  PROVE  Shape(obj)
<1>1. PICK k \in Kinds : obj = NewObject(k)
  BY DEF Init
<1> QED BY <1>1 DEF NewObject, Shape

\* The object always has the shape.
LEMMA ShapeInvariant == Spec => []Shape(obj)
<1>1. Init => Shape(obj)
  BY InitShape
<1>2. Shape(obj) /\ [Next]_vars => Shape(obj)'
  <2> SUFFICES ASSUME Shape(obj), [Next]_vars
               PROVE  Shape(obj')
    BY DEF Shape
  <2>1. CASE Next
    BY <2>1, StepOutcome
  <2>2. CASE UNCHANGED vars
    BY <2>2 DEF vars
  <2> QED BY <2>1, <2>2
<1> QED BY <1>1, <1>2, PTL DEF Spec

\* A write of a client or of the simulator that reports an error leaves the
\* object as it was.
THEOREM FailedWrites == Spec => FailedWriteChangesNothing
<1>1. Shape(obj) /\ [Next]_vars => [reply'.result # "Ok" => obj' = obj]_vars
  BY StepOutcome
<1> QED BY <1>1, ShapeInvariant, PTL DEF Spec, FailedWriteChangesNothing

\* Only a write of out_of_service takes an object out of service or back.
THEOREM ServiceKept == Spec => ServiceIsKept
<1>1. Shape(obj) /\ [Next]_vars => [reply'.prop # "OutOfService" => obj'.oos = obj.oos]_vars
  BY StepOutcome
<1> QED BY <1>1, ShapeInvariant, PTL DEF Spec, ServiceIsKept

\* The simulator's writes always reach the object, in service or not,
\* unless a client's command overrules them or the value does not fit.
THEOREM ForcedValues == Spec => ForceWriteApplies
<1> DEFINE Applies ==
      reply'.by = "simulator" /\ reply'.prop = "PresentValue" =>
        LET v == reply'.val
            fits == /\ Takes(obj.kind, v)
                    /\ obj.kind = "MultiStateInput" => v.val \in 1..NumStates
            overruled == /\ obj.kind \in Commandable
                         /\ \E p \in 1..NumPriorities - 1 : obj.slots[p] # None
        IN /\ fits <=> reply'.result = "Ok"
           /\ fits /\ ~ overruled /\ v.tag # "Null" =>
                Present(obj') = Stored(obj.kind, v)
<1>1. Shape(obj) /\ [Next]_vars => [Applies]_vars
  <2> SUFFICES ASSUME Shape(obj), Next, reply'.by = "simulator", reply'.prop = "PresentValue"
               PROVE  Applies
    BY Zenon
  <2>1. PICK v \in Values :
          /\ obj' = ForceWrite(obj, "PresentValue", v).obj
          /\ reply'.val = v
          /\ reply'.result = ForceWrite(obj, "PresentValue", v).result
    <3>1. PICK prop \in Props, v \in Values :
            \/ \E pri \in Priorities :
                  /\ obj' = Write(obj, prop, v, pri).obj
                  /\ reply' = [by |-> "client", prop |-> prop, val |-> v,
                               result |-> Write(obj, prop, v, pri).result]
            \/ /\ obj' = ForceWrite(obj, prop, v).obj
               /\ reply' = [by |-> "simulator", prop |-> prop, val |-> v,
                            result |-> ForceWrite(obj, prop, v).result]
      BY StepIsWrite
    <3>2. ~ \E pri \in Priorities :
              reply' = [by |-> "client", prop |-> prop, val |-> v,
                        result |-> Write(obj, prop, v, pri).result]
      OBVIOUS
    <3>3. /\ obj' = ForceWrite(obj, prop, v).obj
          /\ reply' = [by |-> "simulator", prop |-> prop, val |-> v,
                       result |-> ForceWrite(obj, prop, v).result]
      BY <3>1, <3>2, Zenon
    <3>4. prop = "PresentValue" /\ reply'.val = v
            /\ reply'.result = ForceWrite(obj, prop, v).result
      BY <3>3
    <3> QED BY <3>3, <3>4, Zenon
  <2>2. v \in [tag : Tags, val : Nat]
    BY WritesAssumption
  <2>3. LET w == ForceWrite(obj, "PresentValue", v)
        IN /\ Fits(obj.kind, v) <=> w.result = "Ok"
           /\ Fits(obj.kind, v) /\ ~ Overruled(obj) /\ v.tag # "Null" =>
                Present(w.obj) = Stored(obj.kind, v)
    BY <2>2, ForceApplies, Zenon
  <2> QED BY <2>1, <2>3, Zenon DEF Fits, Overruled
<1> QED BY <1>1, ShapeInvariant, PTL DEF Spec, ForceWriteApplies

-----------------------------------------------------------------------------
(* What the commands of the log leave.                                     *)

\* Every step leaves the value and the log alone, or is an accepted write of
\* present_value, which it adds to the log.
LEMMA StepEffect ==
  ASSUME Shape(obj), Next
  PROVE  /\ obj'.kind = obj.kind
         /\ \/ obj'.slots = obj.slots /\ obj'.pv = obj.pv /\ log' = log
            \/ \E v \in Values, pri \in Priorities \cup {None} :
                 /\ Len(log) < MaxCommands
                 /\ Accepted(obj, v, pri)
                 /\ obj'.slots = NewSlots(obj, v, pri)
                 /\ obj'.pv = NewPv(obj, v, pri)
                 /\ log' = Append(log, [pri |-> IF pri = None THEN NumPriorities ELSE pri,
                                        val |-> IF v.tag = "Null" THEN None
                                                ELSE Stored(obj.kind, v)])
<1>1. \E prop \in Props, v \in Values, pri \in Priorities \cup {None} : \E who, w :
        /\ Len(log) < MaxCommands
        /\ Effect(obj, prop, v, pri, w)
        /\ Finish(who, prop, v, pri, w)
  <2>1. Values \subseteq [tag : Tags, val : Nat]
    BY WritesAssumption
  <2>2. ASSUME NEW prop \in Props, NEW v \in Values, NEW pri \in Priorities,
               ClientWrite(prop, v, pri)
        PROVE  <1>1!:
    BY <2>1, <2>2, WriteEffect, Zenon DEF ClientWrite
  <2>3. ASSUME NEW prop \in Props, NEW v \in Values, SimulatorWrite(prop, v)
        PROVE  <1>1!:
    BY <2>1, <2>3, ForceEffect, Zenon DEF SimulatorWrite
  <2> QED BY <2>2, <2>3, Zenon DEF Next
<1> PICK prop \in Props, v \in Values, pri \in Priorities \cup {None} : \E who, w :
        /\ Len(log) < MaxCommands
        /\ Effect(obj, prop, v, pri, w)
        /\ Finish(who, prop, v, pri, w)
  BY <1>1
<1>2. PICK who, w : /\ Len(log) < MaxCommands
                    /\ Effect(obj, prop, v, pri, w)
                    /\ Finish(who, prop, v, pri, w)
  OBVIOUS
<1>3. CASE prop = "PresentValue" /\ w.result = "Ok"
  BY <1>2, <1>3, Zenon DEF Effect, Finish
<1>4. CASE ~ (prop = "PresentValue" /\ w.result = "Ok")
  BY <1>2, <1>4, Zenon DEF Effect, Finish
<1> QED BY <1>3, <1>4

\* The history is a sequence of commands.
Command == [pri : Int, val : Nat \cup {None}]

\* The commands of the log have a priority that has a slot.
Ranged == \A i \in 1..Len(log) : log[i].pri \in 1..NumPriorities

\* The inductive invariant: the slots of an output hold the commands in force,
\* AnalogOutput's present_value is what they amount to, and any other object
\* holds the last value of the log.
SlotInv ==
  /\ Shape(obj)
  /\ log \in Seq(Command)
  /\ obj.kind \in Commandable =>
       \A p \in 1..NumPriorities : obj.slots[p] = InForce(p)
  /\ obj.kind = "AnalogOutput" => obj.pv = Effective(obj.slots) /\ Ranged
  /\ obj.kind \notin Commandable /\ log # <<>> => obj.pv = log[Len(log)].val

\* The command that is added is the one in force at the priority it counts for.
LEMMA InForceAppend ==
  ASSUME log \in Seq(Command), NEW e \in Command, log' = Append(log, e), NEW p
  PROVE  InForce(p)' = IF Counts(e.pri, p) THEN e.val ELSE InForce(p)
<1> DEFINE n    == Len(log)
           mine == {i \in 1..n : Counts(log[i].pri, p)}
           new  == {i \in 1..Len(log') : Counts(log'[i].pri, p)}
<1>1. n \in Nat /\ Len(log') = n + 1 /\ log'[n + 1] = e /\ \A i \in 1..n : log'[i] = log[i]
  OBVIOUS
<1>2. InForce(p)' = IF new = {} THEN None
                    ELSE log'[CHOOSE i \in new : \A j \in new : j <= i].val
  BY DEF InForce
<1>3. InForce(p) = IF mine = {} THEN None
                   ELSE log[CHOOSE i \in mine : \A j \in mine : j <= i].val
  BY DEF InForce
<1>4. CASE Counts(e.pri, p)
  <2>1. n + 1 \in new /\ \A j \in new : j \in Nat /\ j <= n + 1
    BY <1>1, <1>4
  <2> HIDE DEF new, n
  <2> DEFINE c == CHOOSE i \in new : \A j \in new : j <= i
  <2>2. c \in new /\ \A j \in new : j <= c
    BY <2>1
  <2> HIDE DEF c
  <2>3. c = n + 1
    BY <1>1, <2>1, <2>2
  <2> QED BY <1>1, <1>2, <1>4, <2>1, <2>3 DEF c
<1>5. CASE ~ Counts(e.pri, p)
  <2>1. new = mine
    BY <1>1, <1>5
  <2>2. CASE mine = {}
    BY <1>2, <1>3, <1>5, <2>1, <2>2
  <2>3. CASE mine # {}
    <3> DEFINE c == CHOOSE i \in mine : \A j \in mine : j <= i
    <3>1. mine \in SUBSET (0..n) /\ mine \subseteq 1..n
      OBVIOUS
    <3> HIDE DEF mine, n
    <3>2. \E i \in mine : \A j \in mine : j <= i
      BY <1>1, <2>3, <3>1, GreatestBelow
    <3>3. c \in mine
      BY <3>2
    <3> HIDE DEF c, new
    <3>4. InForce(p)' = log'[c].val /\ InForce(p) = log[c].val
      BY <1>2, <1>3, <2>1, <2>3, Zenon DEF c
    <3> QED BY <1>1, <1>5, <3>1, <3>3, <3>4
  <2> QED BY <2>2, <2>3
<1> QED BY <1>4, <1>5

LEMMA SlotInit == Init => SlotInv
<1> SUFFICES ASSUME Init PROVE SlotInv
  OBVIOUS
<1>1. Shape(obj)
  BY InitShape
<1>2. log = <<>>
  BY DEF Init
<1>3. PICK k \in Kinds : obj = NewObject(k)
  BY DEF Init
<1>4. obj.pv = (IF k = "MultiStateInput" THEN 1 ELSE 0) /\ obj.kind = k
      /\ obj.slots = [p \in 1..NumPriorities |-> None]
  BY <1>3 DEF NewObject
<1>5. \A p \in 1..NumPriorities : obj.slots[p] = InForce(p)
  BY <1>2, <1>4 DEF InForce
<1>6. (obj.kind = "AnalogOutput" => obj.pv = Effective(obj.slots)) /\ Ranged
  BY <1>2, <1>4 DEF Effective, Ranged
<1> QED BY <1>1, <1>2, <1>5, <1>6 DEF SlotInv

LEMMA SlotStep ==
  ASSUME SlotInv, Next
  PROVE  SlotInv'
<1>1. Shape(obj')
  BY StepOutcome DEF SlotInv
<1>2. obj'.kind = obj.kind
  BY StepEffect DEF SlotInv
<1>3. CASE obj'.slots = obj.slots /\ obj'.pv = obj.pv /\ log' = log
  <2>1. (\A p : InForce(p)' = InForce(p)) /\ (Ranged' <=> Ranged)
    BY <1>3 DEF InForce, Ranged
  <2> QED BY <1>1, <1>2, <1>3, <2>1 DEF SlotInv
<1>4. ASSUME NEW v \in Values, NEW pri \in Priorities \cup {None},
             Accepted(obj, v, pri),
             obj'.slots = NewSlots(obj, v, pri),
             obj'.pv = NewPv(obj, v, pri),
             log' = Append(log, [pri |-> IF pri = None THEN NumPriorities ELSE pri,
                                 val |-> IF v.tag = "Null" THEN None ELSE Stored(obj.kind, v)])
      PROVE  SlotInv'
  <2> DEFINE e == [pri |-> IF pri = None THEN NumPriorities ELSE pri,
                   val |-> IF v.tag = "Null" THEN None ELSE Stored(obj.kind, v)]
  <2>1. v \in [tag : Tags, val : Nat] /\ pri \in Int \cup {None}
    BY WritesAssumption
  <2>2. Stored(obj.kind, v) \in Nat
    BY <2>1, StoredType
  <2>3. e \in Command
    BY <2>1, <2>2, ObjectAssumption DEF Command
  <2>4. /\ e.pri = (IF pri = None THEN NumPriorities ELSE pri)
        /\ e.val = (IF v.tag = "Null" THEN None ELSE Stored(obj.kind, v))
    OBVIOUS
  <2> HIDE DEF e
  <2>5. log \in Seq(Command) /\ log' = Append(log, e) /\ log' \in Seq(Command)
    BY <1>4, <2>3 DEF SlotInv, e
  <2>6. /\ Len(log') = Len(log) + 1 /\ Len(log) \in Nat /\ log'[Len(log')] = e
        /\ \A i \in 1..Len(log) : log'[i] = log[i]
    BY <2>3, <2>5
  <2>7. CASE obj.kind \in Commandable
    <3>1. \A p \in 1..NumPriorities : obj'.slots[p] = InForce(p)'
      <4> DEFINE slot == Slot(obj.kind, pri)
      <4>1. e.pri \in Int /\ NumPriorities \in Nat \ {0}
        BY <2>1, <2>4, ObjectAssumption
      <4>2. \A p \in 1..NumPriorities : Counts(e.pri, p) <=> slot = p
        <5>1. CASE obj.kind = "BinaryOutput"
          BY <2>1, <2>4, <4>1, <5>1, ObjectAssumption DEF Slot, Counts
        <5>2. CASE obj.kind = "AnalogOutput"
          <6>1. slot = e.pri /\ slot \in 1..NumPriorities
            BY <1>4, <2>4, <5>2 DEF Slot, Accepted
          <6> QED BY <4>1, <6>1 DEF Counts
        <5> QED BY <2>7, <5>1, <5>2 DEF Commandable
      <4>3. obj'.slots = [obj.slots EXCEPT ![slot] = e.val]
        BY <1>4, <2>4, <2>7 DEF NewSlots
      <4> HIDE DEF slot
      <4>4. obj.slots \in [1..NumPriorities -> Nat \cup {None}]
        BY DEF SlotInv, Shape
      <4>5. \A p \in 1..NumPriorities : obj'.slots[p] = IF slot = p THEN e.val ELSE obj.slots[p]
        BY <4>3, <4>4
      <4>6. \A p \in 1..NumPriorities : obj.slots[p] = InForce(p)
        BY <2>7 DEF SlotInv
      <4>7. \A p : InForce(p)' = IF Counts(e.pri, p) THEN e.val ELSE InForce(p)
        BY <2>3, <2>5, InForceAppend
      <4> QED BY <4>2, <4>5, <4>6, <4>7
    <3>2. obj'.kind = "AnalogOutput" => obj'.pv = Effective(obj'.slots) /\ Ranged'
      <4>1. ASSUME obj'.kind = "AnalogOutput" PROVE e.pri \in 1..NumPriorities
        BY <1>2, <1>4, <2>4, <4>1 DEF Slot, Accepted
      <4>2. ASSUME obj'.kind = "AnalogOutput" PROVE Ranged'
        BY <1>2, <2>6, <4>1, <4>2 DEF SlotInv, Ranged
      <4> QED BY <1>2, <1>4, <2>7, <4>2 DEF NewPv
    <3> QED BY <1>1, <1>2, <2>5, <2>7, <3>1, <3>2 DEF SlotInv
  <2>8. CASE obj.kind \notin Commandable
    <3>1. v.tag # "Null"
      BY <1>4, <2>8 DEF Accepted, Fits, Takes, AsF32, AsBool, Kinds, Commandable, Inputs, SlotInv, Shape
    <3>2. obj'.pv = log'[Len(log')].val
      BY <1>4, <2>4, <2>6, <2>8, <3>1 DEF NewPv
    <3>3. obj'.kind # "AnalogOutput"
      BY <1>2, <2>8 DEF Commandable
    <3> QED BY <1>1, <1>2, <2>5, <2>8, <3>2, <3>3 DEF SlotInv
  <2> QED BY <2>7, <2>8
<1> QED BY <1>3, <1>4, StepEffect DEF SlotInv

LEMMA SlotInvariance == Spec => []SlotInv
<1>1. SlotInv /\ [Next]_vars => SlotInv'
  <2> SUFFICES ASSUME SlotInv, [Next]_vars PROVE SlotInv'
    OBVIOUS
  <2>1. CASE Next
    BY <2>1, SlotStep
  <2>2. CASE UNCHANGED vars
    <3>1. obj' = obj /\ log' = log
      BY <2>2 DEF vars
    <3>2. (\A p : InForce(p)' = InForce(p)) /\ (Ranged' <=> Ranged)
      BY <3>1 DEF InForce, Ranged
    <3>3. Shape(obj)'
      BY <3>1, Zenon DEF SlotInv
    <3> QED BY <3>1, <3>2, <3>3 DEF SlotInv
  <2> QED BY <2>1, <2>2
<1> QED BY SlotInit, <1>1, PTL DEF Spec

\* The stored present_value and the history keep their types: a multi-state
\* object never leaves its states, a binary one is 0 or 1, and effective_value
\* is a number.
THEOREM ObjectTypes == Spec => []TypeOK
<1> DEFINE PvOK == /\ obj.pv \in Nat
                   /\ obj.kind = "MultiStateInput" => obj.pv \in 1..NumStates
                   /\ obj.kind \in Binaries => obj.pv \in {0, 1}
                   /\ Len(log) <= MaxCommands
<1>1. Init => PvOK
  <2> SUFFICES ASSUME Init PROVE PvOK
    OBVIOUS
  <2>1. PICK k \in Kinds : obj = NewObject(k)
    BY DEF Init
  <2>2. obj.pv = (IF k = "MultiStateInput" THEN 1 ELSE 0) /\ obj.kind = k
    BY <2>1 DEF NewObject
  <2> QED BY <2>2, ObjectAssumption, WritesAssumption DEF Init, Binaries
<1>2. SlotInv /\ PvOK /\ [Next]_vars => PvOK'
  <2> SUFFICES ASSUME SlotInv, PvOK, [Next]_vars PROVE PvOK'
    OBVIOUS
  <2>1. CASE UNCHANGED vars
    BY <2>1 DEF vars
  <2>2. CASE Next /\ obj'.pv = obj.pv /\ obj'.kind = obj.kind /\ log' = log
    BY <2>2
  <2>3. ASSUME NEW v \in Values, NEW pri \in Priorities \cup {None}, NEW e,
               Len(log) < MaxCommands,
               Accepted(obj, v, pri),
               obj'.kind = obj.kind,
               obj'.slots = NewSlots(obj, v, pri),
               obj'.pv = NewPv(obj, v, pri),
               log' = Append(log, e), Next
        PROVE  PvOK'
    <3>1. v \in [tag : Tags, val : Nat]
      BY WritesAssumption
    <3>2. Shape(obj')
      BY <2>3, StepOutcome DEF SlotInv
    <3>3. Effective(obj'.slots) \in Nat
      BY <3>2, EffectiveFacts DEF Shape
    <3>4. /\ Stored(obj.kind, v) \in Nat
          /\ obj.kind \in Binaries => Stored(obj.kind, v) \in {0, 1}
          /\ obj.kind \notin Binaries => Stored(obj.kind, v) = v.val
      BY <3>1 DEF Stored
    <3>5. Len(log') = Len(log) + 1 /\ Len(log) \in Nat
      BY <2>3 DEF SlotInv
    <3>6. Len(log') <= MaxCommands
      BY <2>3, <3>5, WritesAssumption
    <3>7. CASE obj.kind \notin Commandable
      <4>1. obj'.pv = Stored(obj.kind, v)
        BY <2>3, <3>7 DEF NewPv
      <4>2. obj.kind = "MultiStateInput" => v.val \in 1..NumStates /\ obj.kind \notin Binaries
        BY <2>3 DEF Accepted, Fits, Binaries
      <4> QED BY <2>3, <3>4, <3>6, <4>1, <4>2
    <3>8. CASE obj.kind \in Commandable
      <4>1. obj'.pv = IF obj.kind = "AnalogOutput" THEN Effective(obj'.slots) ELSE obj.pv
        BY <2>3, <3>8 DEF NewPv
      <4>2. obj.kind # "MultiStateInput" /\ ~ (obj.kind = "AnalogOutput" /\ obj.kind \in Binaries)
        BY <3>8 DEF Commandable, Binaries
      <4> QED BY <2>3, <3>3, <3>6, <4>1, <4>2
    <3> QED BY <3>7, <3>8
  <2> QED BY <2>1, <2>2, <2>3, StepEffect DEF SlotInv
<1>3. SlotInv /\ PvOK => TypeOK
  <2> SUFFICES ASSUME SlotInv, PvOK PROVE TypeOK
    OBVIOUS
  <2>1. obj \in [kind : Kinds, pv : Nat, oos : BOOLEAN, slots : [1..NumPriorities -> Nat \cup {None}]]
    BY DEF SlotInv, Shape
  <2> QED BY <2>1 DEF TypeOK
<1> QED BY <1>1, <1>2, <1>3, SlotInvariance, PTL DEF Spec

\* An output shows the last command of the highest priority in force, and
\* AnalogOutput's present_value says the same; any other object shows the last
\* value that was accepted.
THEOREM LastCommand == Spec => []LastCommandWins
<1>1. SlotInv => LastCommandWins
  <2> SUFFICES ASSUME SlotInv PROVE LastCommandWins
    OBVIOUS
  <2>1. CASE obj.kind \in Commandable
    <3>1. obj.slots \in [1..NumPriorities -> Nat \cup {None}]
      BY DEF SlotInv, Shape
    <3>2. Present(obj) = Effective(obj.slots)
      BY <2>1 DEF Present
    <3>3. \A p \in 1..NumPriorities : obj.slots[p] = InForce(p)
      BY <2>1 DEF SlotInv
    <3>4. \A p : p \in Ranked <=> p \in 1..NumPriorities /\ obj.slots[p] # None
      BY <3>3 DEF Ranked
    <3>5. \/ Ranked = {} /\ Present(obj) = 0
          \/ \E p \in Ranked : /\ \A r \in Ranked : p <= r
                               /\ Present(obj) = InForce(p)
      BY <3>1, <3>2, <3>3, <3>4, EffectiveFacts
    <3> QED BY <2>1, <3>2, <3>5 DEF SlotInv, LastCommandWins, Ranged
  <2>2. CASE obj.kind \notin Commandable
    BY <2>2 DEF SlotInv, LastCommandWins, Present
  <2> QED BY <2>1, <2>2
<1> QED BY <1>1, SlotInvariance, PTL

-----------------------------------------------------------------------------
(* The alarm of an object.                                                 *)

\* A value asks for the current state exactly when it justifies it.
LEMMA KeepsJustified ==
  ASSUME AlarmTypes, NEW v \in Readings
  PROVE  /\ NewState(v) \in States
         /\ NewState(v) = state <=> Justifies(v)
<1>1. v \in Int /\ state \in States
  BY AlarmAssumption DEF AlarmTypes
<1>2. CASE state = "Normal"
  BY <1>1, <1>2, AlarmAssumption DEF NewState, Justifies, States
<1>3. CASE state = "HighLimit"
  BY <1>1, <1>3, AlarmAssumption DEF NewState, Justifies, States
<1>4. CASE state = "LowLimit"
  BY <1>1, <1>4, AlarmAssumption DEF NewState, Justifies, States
<1> QED BY <1>1, <1>2, <1>3, <1>4 DEF States

\* The timer is a time, and it did not start in the future.
LEMMA TimerStart ==
  ASSUME TimerInv
  PROVE  start # Stopped => start \in Nat /\ start <= clock
BY AlarmAssumption DEF TimerInv, AlarmTypes

\* What began later has lasted less long.
LEMMA LaterIsShorter ==
  ASSUME NEW a \in Nat, NEW b \in Nat, NEW n \in Nat, NEW d \in Nat, a <= b, n - a < d
  PROVE  ~ (n - b >= d)
OBVIOUS

\* What one evaluation does, in each of its three outcomes.
LEMMA EvaluateStep ==
  ASSUME TimerInv, NEW v \in Readings, NEW now \in Nat, clock \in Nat, now > clock,
         Evaluate(v, now)
  PROVE  /\ TimerInv'
         /\ state' # state => clock' - kept > TimeDelay
<1> DEFINE new == NewState(v)
           began == IF start = Stopped THEN now ELSE start
<1>1. new \in States /\ (new = state <=> Justifies(v))
  BY KeepsJustified DEF TimerInv
<1>2. /\ clock' = now /\ target' = new
      /\ since' = IF new = target THEN since ELSE now
      /\ kept' = IF state' # state \/ new = state THEN now ELSE kept
  BY <1>1 DEF Evaluate
<1>3. began \in Nat /\ began <= now /\ kept < began
  BY TimerStart DEF TimerInv, AlarmTypes
<1>4. new # state => began <= since'
  BY <1>2, <1>3, TimerStart DEF TimerInv, AlarmTypes
<1>5. since' \in 0..now /\ kept' \in 0..now
  BY <1>2 DEF TimerInv, AlarmTypes
<1> HIDE DEF new
<1>6. CASE new = state
  <2>1. start' = Stopped /\ state' = state
    BY <1>6 DEF Evaluate, Gate, new
  <2> QED BY <2>1, <1>1, <1>2, <1>5, <1>6 DEF TimerInv, AlarmTypes, AlarmFollows
<1>7. CASE new # state /\ now - began < TimeDelay
  <2>1. start' = began /\ state' = state
    BY <1>7 DEF Evaluate, Gate, new
  <2>2. kept' = kept /\ target' # state' /\ start' # Stopped
    BY <1>2, <1>3, <1>7, <2>1, AlarmAssumption
  <2>3. ~ (clock' - since' >= TimeDelay)
    <3>1. since' \in Nat /\ TimeDelay \in Nat /\ began \in Nat
      BY <1>3, <1>5, AlarmAssumption
    <3>2. clock' = now
      BY <1>2, Zenon
    <3>3. began <= since' /\ now - began < TimeDelay
      BY <1>4, <1>7, Zenon
    <3>4. ~ (now - since' >= TimeDelay)
      BY <3>1, <3>3, LaterIsShorter, Zenon
    <3> QED BY <3>2, <3>4, Zenon
  <2> QED BY <2>1, <2>2, <2>3, <1>1, <1>2, <1>3, <1>4, <1>5, <1>7
          DEF TimerInv, AlarmTypes, AlarmFollows
<1>8. CASE new # state /\ ~ (now - began < TimeDelay)
  <2>1. start' = Stopped /\ state' = new
    BY <1>8 DEF Evaluate, Gate, new
  <2>2. clock' - kept > TimeDelay
    BY <1>2, <1>3, <1>8, AlarmAssumption DEF TimerInv, AlarmTypes
  <2> QED BY <2>1, <2>2, <1>1, <1>2, <1>5, <1>8 DEF TimerInv, AlarmTypes, AlarmFollows
<1> QED BY <1>6, <1>7, <1>8

\* A step evaluates some value at some later time.
LEMMA AlarmStep ==
  ASSUME TimerInv, AlarmNext
  PROVE  /\ TimerInv'
         /\ state' # state => clock' - kept > TimeDelay
<1>1. PICK v \in Readings, gap \in 1..MaxGap : Evaluate(v, clock + gap)
  BY DEF AlarmNext
<1>2. clock \in Nat /\ clock + gap \in Nat /\ clock + gap > clock
  BY AlarmAssumption DEF TimerInv, AlarmTypes
<1> QED BY <1>1, <1>2, EvaluateStep

\* TimerInv is an invariant.
LEMMA TimerInvariant == AlarmSpec => []TimerInv
<1>1. AlarmInit => TimerInv
  BY AlarmAssumption DEF AlarmInit, TimerInv, AlarmTypes, AlarmFollows, States
<1>2. TimerInv /\ [AlarmNext]_alarmVars => TimerInv'
  <2>1. CASE AlarmNext
    BY <2>1, AlarmStep
  <2>2. CASE UNCHANGED alarmVars
    BY <2>2 DEF alarmVars, TimerInv, AlarmTypes, AlarmFollows
  <2> QED BY <2>1, <2>2
<1> QED BY <1>1, <1>2, PTL DEF AlarmSpec

\* Once the value has asked for a state for the length of the time delay,
\* evaluate() has made it the current one.
THEOREM AlarmIsRaised == AlarmSpec => []AlarmFollows
<1>1. TimerInv => AlarmFollows
  BY DEF TimerInv
<1> QED BY <1>1, TimerInvariant, PTL

\* evaluate() never changes the state within the time delay of a value that
\* justified the current one.
THEOREM AlarmDoesNotChatter == AlarmSpec => NoChatter
<1>1. TimerInv /\ [AlarmNext]_alarmVars => [state' # state => clock' - kept > TimeDelay]_alarmVars
  BY AlarmStep
<1> QED BY <1>1, TimerInvariant, PTL DEF AlarmSpec, NoChatter
=============================================================================
