---------------------------- MODULE ObjectWrites ----------------------------
(***************************************************************************)
(* One point object of the store under writes from BACnet clients          *)
(* (handle_write_property) and from the simulator itself (the tick loop,   *)
(* scenario scripts and the REST API, all through force_write_property).   *)
(* Every write holds the write lock of the object's shard from start to    *)
(* end, so it is one step.                                                 *)
(***************************************************************************)
EXTENDS BacnetObject, Sequences, FiniteSets

CONSTANTS
  Values,      \* the property values that are written
  Priorities,  \* the priorities clients write with
  MaxCommands  \* bound: accepted writes of present_value in a behaviour

ASSUME WritesAssumption ==
  /\ Values \subseteq [tag : Tags, val : Nat]
  /\ Priorities \subseteq Int \cup {None}
  /\ MaxCommands \in Nat

VARIABLES
  obj,     \* the object
  reply,   \* the Result of the last write
  log      \* history: the accepted writes of present_value, oldest first

vars == <<obj, reply, log>>

Props == {"PresentValue", "OutOfService", "ObjectName"}

\* What a write leaves behind, by whoever made it.
Finish(who, prop, v, pri, w) ==
  /\ obj' = w.obj
  /\ reply' = [by |-> who, prop |-> prop, val |-> v, result |-> w.result]
  /\ log' = IF prop = "PresentValue" /\ w.result = "Ok"
              THEN Append(log, [pri |-> IF pri = None THEN NumPriorities ELSE pri,
                                val |-> IF v.tag = "Null" THEN None ELSE Stored(obj.kind, v)])
              ELSE log

ClientWrite(prop, v, pri) ==
  /\ Len(log) < MaxCommands
  /\ Finish("client", prop, v, pri, Write(obj, prop, v, pri))

SimulatorWrite(prop, v) ==
  /\ Len(log) < MaxCommands
  /\ Finish("simulator", prop, v, None, ForceWrite(obj, prop, v))

Init ==
  /\ obj \in {NewObject(k) : k \in Kinds}
  /\ reply = None
  /\ log = <<>>

Next ==
  \/ \E prop \in Props, v \in Values, pri \in Priorities : ClientWrite(prop, v, pri)
  \/ \E prop \in Props, v \in Values : SimulatorWrite(prop, v)

Spec == Init /\ [][Next]_vars

-----------------------------------------------------------------------------
(* Properties.                                                             *)

TypeOK ==
  /\ obj \in [kind : Kinds, pv : Nat, oos : BOOLEAN,
              slots : [1..NumPriorities -> Nat \cup {None}]]
  /\ obj.kind = "MultiStateInput" => obj.pv \in 1..NumStates
  /\ obj.kind \in Binaries => obj.pv \in {0, 1}
  /\ Len(log) <= MaxCommands

\* A command without a slot of its own is one of the nearest slot.
Counts(pri, p) ==
  \/ pri = p
  \/ p = 1 /\ pri < 1
  \/ p = NumPriorities /\ pri > NumPriorities

\* The value of the last command of priority p, None if it relinquished.
InForce(p) ==
  LET mine == {i \in 1..Len(log) : Counts(log[i].pri, p)}
  IN IF mine = {} THEN None ELSE log[CHOOSE i \in mine : \A j \in mine : j <= i].val

Ranked == {p \in 1..NumPriorities : InForce(p) # None}

\* An output shows the last command of the highest priority that has not
\* been relinquished, however clients and the simulator interleave.  A
\* priority below the first or beyond the last is the nearest one to
\* BinaryOutput; AnalogOutput accepts none, and its own present_value says
\* the same as its priority array.  Any other object shows the last value
\* that was accepted.
LastCommandWins ==
  IF obj.kind \in Commandable
    THEN /\ \/ Ranked = {} /\ Present(obj) = 0
            \/ \E p \in Ranked : /\ \A r \in Ranked : p <= r
                                 /\ Present(obj) = InForce(p)
         /\ obj.kind = "AnalogOutput" =>
              /\ obj.pv = Present(obj)
              /\ \A i \in 1..Len(log) : log[i].pri \in 1..NumPriorities
    ELSE log # <<>> => Present(obj) = log[Len(log)].val

\* A write that reports an error has changed nothing, even when the
\* simulator's write took the object out of service on the way.
FailedWriteChangesNothing == [][reply'.result # "Ok" => obj' = obj]_vars

\* Only a write of out_of_service changes it: force_write_property puts it
\* back, and no client is let in by a write of the simulator.
ServiceIsKept == [][reply'.prop # "OutOfService" => obj'.oos = obj.oos]_vars

\* A value an object can hold always reaches it when the simulator writes
\* it, in service or not, unless a client's command of a higher priority is
\* in force.
ForceWriteApplies ==
  [][reply'.by = "simulator" /\ reply'.prop = "PresentValue" =>
       LET v == reply'.val
           fits == /\ Takes(obj.kind, v)
                   /\ obj.kind = "MultiStateInput" => v.val \in 1..NumStates
           overruled == /\ obj.kind \in Commandable
                        /\ \E p \in 1..NumPriorities - 1 : obj.slots[p] # None
       IN /\ fits <=> reply'.result = "Ok"
          /\ fits /\ ~ overruled /\ v.tag # "Null" =>
               Present(obj') = Stored(obj.kind, v)]_vars
=============================================================================
