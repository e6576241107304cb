--------------------------- MODULE ScheduleEngine ---------------------------
(***************************************************************************)
(* A schedule drives an object and a trend log watches it: the simulation  *)
(* engine ticks the Schedule object by the system clock, the               *)
(* ScheduleEngine of bacnet-sim-engine carries its present value to the    *)
(* objects it is bound to, and a caller of record() logs what the first of *)
(* them shows.  Clients write all of them at any time: every object has a  *)
(* lock of its own, and the engine holds none between reading a schedule   *)
(* and writing a target.                                                   *)
(***************************************************************************)
EXTENDS BacnetObject, Schedule, TrendLog

CONSTANTS
  Week,            \* weekly_schedule
  KindOf,          \* the objects a schedule drives, with their kinds
  Outputs,         \* outputs of the engine: sequence of records of sched (is there
                   \* such a schedule?), target and prop
  Instants,        \* the times the system clock shows
  ScheduleWrites,  \* what clients write to the schedule: records of prop and val
  TargetWrites,    \* ... to a target: records of prop, val and pri
  LogWrites,       \* ... to the log: records of prop and val
  MaxWrites,       \* bound: writes by clients
  MaxRecords       \* bound: calls of record()

Values == [tag : Tags, val : Nat]

ASSUME ScheduleEngineAssumption ==
  /\ Week \in [Days -> Seq([start : Nat, value : Values])]
  /\ Instants \subseteq Int
  /\ \A t \in DOMAIN KindOf : KindOf[t] \in Kinds
  /\ Len(Outputs) \in Nat
  /\ \A w \in ScheduleWrites \cup TargetWrites \cup LogWrites : w.val \in Values
  /\ MaxWrites \in Nat /\ MaxRecords \in Nat

VARIABLES
  sched,     \* the schedule
  targets,   \* the objects it drives
  log,       \* the trend log
  clock,     \* the system clock
  at,        \* the output the engine is at; 0 between ticks
  held,      \* the value it has read for that output, or None
  shown,     \* history: what last set the schedule's present value: [by |-> "clock",
             \* at |-> time, default |-> schedule_default], or [by |-> "client", val |-> value]
  accepted,  \* history: the values logged since the log was cleared
  logged,    \* history: the values logged at all
  writes,    \* number of writes so far
  records    \* number of calls of record() so far

Targets == DOMAIN KindOf

engineVars == <<at, held>>
logVars == <<log, accepted, logged, records>>
vars == <<sched, targets, clock, shown, engineVars, logVars, writes>>

-----------------------------------------------------------------------------
(* Time, and the tick of the schedule.                                     *)

\* The system clock may be set, too, so it shows any time next.
SetClock(t) ==
  /\ t # clock
  /\ clock' = t
  /\ UNCHANGED <<sched, targets, shown, engineVars, logVars, writes>>

\* The tick loop of the simulation engine ticks the schedule.
Tick ==
  /\ sched' = TickSchedule(sched, clock)
  /\ shown' = IF sched.oos THEN shown
              ELSE [by |-> "clock", at |-> clock, default |-> sched.default]
  /\ UNCHANGED <<targets, clock, engineVars, logVars, writes>>

-----------------------------------------------------------------------------
(* ScheduleEngine::tick                                                    *)

EngineStart ==
  /\ at = 0 /\ Outputs # <<>>
  /\ at' = 1
  /\ UNCHANGED <<sched, targets, clock, shown, held, logVars, writes>>

Following(i) == IF i < Len(Outputs) THEN i + 1 ELSE 0

\* Faults (here and below): forms of a definition with a bug the code could
\* plausibly have, against which the properties are tried.
EngineRead_Null ==
  /\ at # 0 /\ held = None
  /\ IF Outputs[at].sched
       THEN /\ held' = sched.pv
            /\ at' = at
       ELSE /\ at' = Following(at)
            /\ held' = held
  /\ UNCHANGED <<sched, targets, clock, shown, logVars, writes>>

\* A missing schedule and a Null are passed over.
EngineRead ==
  /\ at # 0 /\ held = None
  /\ IF Outputs[at].sched /\ sched.pv # Null
       THEN /\ held' = sched.pv
            /\ at' = at
       ELSE /\ at' = Following(at)
            /\ held' = held
  /\ UNCHANGED <<sched, targets, clock, shown, logVars, writes>>

EngineWrite_Highest ==
  LET o == Outputs[at]
  IN /\ at # 0 /\ held # None
     /\ targets' = IF o.target \in Targets
          THEN [targets EXCEPT ![o.target] = Write(@, o.prop, held, 1).obj]
          ELSE targets
     /\ at' = Following(at)
     /\ held' = None
     /\ UNCHANGED <<sched, clock, shown, logVars, writes>>

EngineWrite_StopAtMissing ==
  LET o == Outputs[at]
  IN /\ at # 0 /\ held # None
     /\ targets' = IF o.target \in Targets
          THEN [targets EXCEPT ![o.target] = Write(@, o.prop, held, None).obj]
          ELSE targets
     /\ at' = IF o.target \in Targets THEN Following(at) ELSE 0
     /\ held' = None
     /\ UNCHANGED <<sched, clock, shown, logVars, writes>>

\* write_property_once without a priority; a missing target and a refused
\* write are passed over.
EngineWrite ==
  LET o == Outputs[at]
  IN /\ at # 0 /\ held # None
     /\ targets' = IF o.target \in Targets
          THEN [targets EXCEPT ![o.target] = Write(@, o.prop, held, None).obj]
          ELSE targets
     /\ at' = Following(at)
     /\ held' = None
     /\ UNCHANGED <<sched, clock, shown, logVars, writes>>

-----------------------------------------------------------------------------
(* Everybody else.                                                         *)

Shows(reply, w) ==
  shown' = IF w.prop = "PresentValue" /\ reply.result = "Ok"
             THEN [by |-> "client", val |-> w.val] ELSE shown

ClientWriteSchedule(w) ==
  /\ writes < MaxWrites
  /\ writes' = writes + 1
  /\ LET r == WriteSchedule(sched, w.prop, w.val)
     IN sched' = r.obj /\ Shows(r, w)
  /\ UNCHANGED <<targets, clock, engineVars, logVars>>

\* The REST API and scripts.
ForcedWriteSchedule(w) ==
  /\ writes < MaxWrites
  /\ writes' = writes + 1
  /\ LET r == ForceSchedule(sched, w.prop, w.val)
     IN sched' = r.obj /\ Shows(r, w)
  /\ UNCHANGED <<targets, clock, engineVars, logVars>>

ClientWriteTarget(t, w) ==
  /\ writes < MaxWrites
  /\ writes' = writes + 1
  /\ targets' = [targets EXCEPT ![t] = Write(@, w.prop, w.val, w.pri).obj]
  /\ UNCHANGED <<sched, clock, shown, engineVars, logVars>>

ClientWriteLog(w) ==
  /\ writes < MaxWrites
  /\ writes' = writes + 1
  /\ log' = WriteLog(log, w.prop, w.val).obj
  /\ accepted' = IF w.prop = "RecordCount" /\ w.val.tag = "Unsigned" /\ w.val.val = 0
                   THEN <<>> ELSE accepted
  /\ UNCHANGED <<sched, targets, clock, shown, engineVars, logged, records>>

\* The caller that "can also call record() directly" logs what t shows.
Sample(t) ==
  /\ records < MaxRecords
  /\ records' = records + 1
  /\ LET v == Present(targets[t])
     IN /\ log' = Record(log, v)
        /\ IF Recording(log)
             THEN /\ accepted' = Append(accepted, v)
                  /\ logged' = logged + 1
             ELSE UNCHANGED <<accepted, logged>>
  /\ UNCHANGED <<sched, targets, clock, shown, engineVars, writes>>

-----------------------------------------------------------------------------
Init ==
  /\ sched = NewSchedule(Week)
  /\ targets = [t \in Targets |-> NewObject(KindOf[t])]
  /\ log = NewLog
  /\ clock \in Instants
  /\ at = 0
  /\ held = None
  /\ shown = [by |-> "client", val |-> Null]
  /\ accepted = <<>>
  /\ logged = 0
  /\ writes = 0
  /\ records = 0

Engine == EngineStart \/ EngineRead \/ EngineWrite

Next ==
  \/ \E t \in Instants : SetClock(t)
  \/ Tick
  \/ Engine
  \/ \E w \in ScheduleWrites : ClientWriteSchedule(w) \/ ForcedWriteSchedule(w)
  \/ \E t \in Targets, w \in TargetWrites : ClientWriteTarget(t, w)
  \/ \E w \in LogWrites : ClientWriteLog(w)
  \/ \E t \in Targets : Sample(t)

\* The tick loop goes on for ever, and so does the caller of the engine.
Spec == Init /\ [][Next]_vars /\ WF_vars(Tick) /\ WF_vars(Engine)

-----------------------------------------------------------------------------
(* Properties.                                                             *)

TypeOK ==
  /\ sched.pv \in Values /\ sched.default \in Values
  /\ sched.oos \in BOOLEAN /\ sched.week = Week
  /\ targets \in [Targets -> Objects]
  /\ log \in [buffer : Seq(Nat), count : Nat, total : 0..MaxTotal,
              enable : BOOLEAN, oos : BOOLEAN, interval : Nat]
  /\ clock \in Instants
  /\ at \in 0..Len(Outputs)
  /\ held \in Values \cup {None}
  /\ held # None => at # 0 /\ held # Null
  /\ accepted \in Seq(Nat)
  /\ logged \in Nat
  /\ writes \in 0..MaxWrites
  /\ records \in 0..MaxRecords

\* However records, refusals and clears follow each other, the buffer holds
\* exactly the newest values logged since it was last cleared, oldest first,
\* as many as fit; record_count is their number and total_record_count the
\* number of all values ever logged, or where its width ends.
LogIsRecent ==
  LET kept == IF BufferSize = 0 THEN 1 ELSE BufferSize
      n == Len(accepted)
  IN /\ Len(log.buffer) = IF n < kept THEN n ELSE kept
     /\ \A i \in 1..Len(log.buffer) : log.buffer[i] = accepted[n - Len(log.buffer) + i]
     /\ log.count = Len(log.buffer)
     /\ log.total = IF logged < MaxTotal THEN logged ELSE MaxTotal

\* A day, counted from a Monday that the tests of the schedule name
\* (1 January 2024 is day 19 723 of the epoch).
Weekday(day) == (day - 19723) % 7

InOrder(slots) == \A i, j \in 1..Len(slots) : i < j => slots[i].start < slots[j].start

\* Whether a client or the clock set it last, the schedule shows what that
\* one says: a value written while out of service stays until the schedule is
\* back in service, and a tick shows the value of the slot that started last
\* on that weekday, or the default before the first.  (Said of days whose
\* slots are in order of their time: on others the code takes the last slot in
\* the sequence that has started.)
ShowsProgramme ==
  CASE shown.by = "client" -> sched.pv = shown.val
    [] shown.by = "clock" ->
         LET now == IF shown.at < 0 THEN 0 ELSE shown.at
             slots == Week[Weekday(now \div DayLength)]
             begun == {i \in 1..Len(slots) : slots[i].start <= now % DayLength}
         IN InOrder(slots) =>
              IF begun = {} THEN sched.pv = shown.default
              ELSE \E i \in begun : /\ \A j \in begun : slots[j].start <= slots[i].start
                                    /\ sched.pv = slots[i].value

\* What a commandable target was commanded at a priority above the lowest, and
\* every target's out-of-service, survive whatever the schedule engine does
\* between its reads and writes.
CommandsKept ==
  [][Engine => \A t \in Targets :
       /\ targets'[t].oos = targets[t].oos
       /\ \A p \in 1..NumPriorities - 1 : targets'[t].slots[p] = targets[t].slots[p]]_vars

\* The values a schedule can show, and the outputs that can carry a value to
\* their target: no other output drives it, and it takes such a value.
Programmed == {w.val : w \in ScheduleWrites} \cup
              UNION {{Week[d][i].value : i \in 1..Len(Week[d])} : d \in Days}

Driven == {[target |-> o.target, val |-> v] :
             o \in {Outputs[i] : i \in {j \in 1..Len(Outputs) :
                      /\ Outputs[j].sched /\ Outputs[j].prop = "PresentValue"
                      /\ Outputs[j].target \in Targets
                      /\ KindOf[Outputs[j].target] \notin Inputs
                      /\ \A k \in 1..Len(Outputs) :
                           Outputs[k].target = Outputs[j].target => k = j}},
             v \in Programmed \ {Null}}

Overridden(t) == /\ KindOf[t] \in Commandable
                 /\ \E p \in 1..NumPriorities - 1 : targets[t].slots[p] # None

\* Once the schedule shows one value for good, every target that takes it
\* shows it for good too, unless a higher priority commands it: missing
\* schedules and targets, and the writes of others between the engine's read
\* and its write, do not keep it from that.
TargetFollows ==
  \A d \in {e \in Driven : Takes(KindOf[e.target], e.val)} :
    <>[](sched.pv = d.val) =>
      <>[](Present(targets[d.target]) = Stored(KindOf[d.target], d.val) \/ Overridden(d.target))
=============================================================================
