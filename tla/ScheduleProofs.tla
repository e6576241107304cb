--------------------------- MODULE ScheduleProofs ---------------------------
(***************************************************************************)
(* Theorems about ScheduleEngine: what the trend log holds, what the       *)
(* schedule shows and what its engine leaves alone, for every size of the  *)
(* log, every programme and set of outputs, and all writes by clients.     *)
(***************************************************************************)
EXTENDS ScheduleEngine, BacnetObjectProofs

\* How many records the buffer keeps: a size of 0 holds one.
Kept == IF BufferSize = 0 THEN 1 ELSE BufferSize

\* The shape of a log whose records are members of S.
LogShape(S, l) ==
  l \in [buffer : Seq(S), count : Nat, total : Nat,
         enable : BOOLEAN, oos : BOOLEAN, interval : {l.interval}]

\* b holds the newest members of a, as many as are kept.
Recent(b, a) ==
  /\ Len(b) = IF Len(a) < Kept THEN Len(a) ELSE Kept
  /\ \A i \in 1..Len(b) : b[i] = a[Len(a) - Len(b) + i]

\* The inductive invariant.  The values logged are of no particular type, so
\* it says that there is a set they are from.
LogInv ==
  /\ \E S : LogShape(S, log) /\ accepted \in Seq(S)
  /\ logged \in Nat
  /\ Recent(log.buffer, accepted)
  /\ log.count = Len(log.buffer)
  /\ log.total = IF logged < MaxTotal THEN logged ELSE MaxTotal

-----------------------------------------------------------------------------
(* Lemmas on the operators of TrendLog.                                    *)

\* A sequence over a set is one over any larger set.
LEMMA LargerSeq ==
  ASSUME NEW S, NEW T, S \subseteq T, NEW s \in Seq(S)
  PROVE  s \in Seq(T)
OBVIOUS

\* A log given other records and counts is a log.
LEMMA ReshapeLog ==
  ASSUME NEW S, NEW T, NEW l, LogShape(S, l),
         NEW b \in Seq(T), NEW c \in Nat, NEW n \in Nat
  PROVE  LogShape(T, [l EXCEPT !.buffer = b, !.count = c, !.total = n])
<1> DEFINE m == [l EXCEPT !.buffer = b, !.count = c, !.total = n]
           I == {l.interval}
<1>1. l \in [buffer : Seq(S), count : Nat, total : Nat,
             enable : BOOLEAN, oos : BOOLEAN, interval : I]
  BY DEF LogShape
<1>2. l.interval \in I
  OBVIOUS
<1> HIDE DEF I
<1>3. m \in [buffer : Seq(T), count : Nat, total : Nat,
             enable : BOOLEAN, oos : BOOLEAN, interval : I]
      /\ m.interval = l.interval
  BY <1>1, <1>2
<1> HIDE DEF m
<1>4. m \in [buffer : Seq(T), count : Nat, total : Nat,
             enable : BOOLEAN, oos : BOOLEAN, interval : {m.interval}]
  BY <1>3 DEF I
<1> QED BY <1>4 DEF LogShape, m

\* record() makes room by dropping the oldest record of a full buffer only, so
\* that appending keeps the newest values.
LEMMA RecordKeepsNewest ==
  ASSUME NEW S, NEW b \in Seq(S), NEW a \in Seq(S), NEW v \in S, Recent(b, a)
  PROVE  /\ Append(Room(b), v) \in Seq(S)
         /\ Recent(Append(Room(b), v), Append(a, v))
<1> DEFINE r == Room(b)
           c == Append(r, v)
           d == Append(a, v)
<1>1. Kept \in Nat \ {0} /\ (BufferSize # 0 => Kept = BufferSize)
  BY LogAssumption DEF Kept
<1>2. /\ Len(d) = Len(a) + 1 /\ d[Len(a) + 1] = v
      /\ \A i \in 1..Len(a) : d[i] = a[i]
  OBVIOUS
<1>3. /\ Len(b) = IF Len(a) < Kept THEN Len(a) ELSE Kept
      /\ \A i \in 1..Len(b) : b[i] = a[Len(a) - Len(b) + i]
  BY DEF Recent
<1>4. \/ r = Tail(b) /\ b # <<>> /\ Len(b) >= BufferSize
      \/ r = b /\ (b = <<>> \/ Len(b) < BufferSize)
  BY LogAssumption DEF Room
<1>5. Len(a) \in Nat /\ Len(b) \in Nat
  OBVIOUS
\* What is left of the buffer is the newest Kept - 1 values, at most.
<1>6. /\ r \in Seq(S)
      /\ Len(r) = IF Len(a) < Kept THEN Len(a) ELSE Kept - 1
      /\ \A i \in 1..Len(r) : r[i] = a[Len(a) - Len(r) + i]
  <2> HIDE DEF r
  <2>1. CASE r = Tail(b) /\ b # <<>> /\ Len(b) >= BufferSize
    <3>1. Len(b) = Kept /\ Len(a) >= Kept
      BY <2>1, <1>1, <1>3, <1>5, LogAssumption DEF Kept
    <3>2. /\ r \in Seq(S) /\ Len(r) = Len(b) - 1
          /\ \A i \in 1..Len(r) : r[i] = b[i + 1]
      BY <2>1
    <3>3. ASSUME NEW i \in 1..Len(r)
          PROVE  r[i] = a[Len(a) - Len(r) + i]
      <4>1. i + 1 \in 1..Len(b) /\ Len(a) - Len(b) + (i + 1) = Len(a) - Len(r) + i
        BY <3>2, <1>5
      <4> QED BY <4>1, <3>2, <1>3
    <3> QED BY <3>1, <3>2, <3>3, <1>1, <1>5
  <2>2. CASE r = b /\ (b = <<>> \/ Len(b) < BufferSize)
    <3>1. Len(b) < Kept
      BY <2>2, <1>1, <1>5, LogAssumption
    <3>2. Len(b) = Len(a) /\ Len(a) < Kept
      BY <3>1, <1>1, <1>3, <1>5
    <3> QED BY <2>2, <3>2, <1>3
  <2> QED BY <1>4, <2>1, <2>2
<1> HIDE DEF r
<1>7. /\ c \in Seq(S) /\ Len(c) = Len(r) + 1 /\ c[Len(r) + 1] = v
      /\ \A i \in 1..Len(r) : c[i] = r[i]
  BY <1>6
<1>8. Len(r) \in Nat /\ Len(r) <= Len(a)
  BY <1>6, <1>1, <1>5
<1> HIDE DEF c, d
<1>9. ASSUME NEW i \in 1..Len(c)
      PROVE  c[i] = d[Len(d) - Len(c) + i]
  <2>1. Len(d) - Len(c) + i = Len(a) - Len(r) + i
    BY <1>2, <1>5, <1>7, <1>8
  <2>2. CASE i = Len(r) + 1
    <3>1. Len(a) - Len(r) + i = Len(a) + 1
      BY <2>2, <1>5, <1>8
    <3> QED BY <2>1, <2>2, <3>1, <1>2, <1>7
  <2>3. CASE i # Len(r) + 1
    <3>1. i \in 1..Len(r) /\ Len(a) - Len(r) + i \in 1..Len(a)
      BY <2>3, <1>5, <1>7, <1>8
    <3>2. c[i] = a[Len(a) - Len(r) + i]
      BY <3>1, <1>6, <1>7
    <3>3. d[Len(a) - Len(r) + i] = a[Len(a) - Len(r) + i]
      BY <3>1, <1>2
    <3> QED BY <2>1, <3>2, <3>3
  <2> QED BY <2>2, <2>3
<1>10. Len(c) = IF Len(d) < Kept THEN Len(d) ELSE Kept
  BY <1>1, <1>2, <1>5, <1>6, <1>7
<1>11. c \in Seq(S) /\ Recent(c, d)
  BY <1>7, <1>9, <1>10 DEF Recent
<1> QED BY <1>11 DEF c, d, r

-----------------------------------------------------------------------------
(* Every step keeps the invariant.                                         *)

LEMMA LogInit == Init => LogInv
<1> SUFFICES ASSUME Init PROVE LogInv
  OBVIOUS
<1> USE LogAssumption DEF Init, NewLog
<1>1. LogShape({}, log) /\ accepted \in Seq({})
  BY DEF LogShape
<1>2. Recent(log.buffer, accepted)
  BY DEF Recent, Kept
<1> QED BY <1>1, <1>2 DEF LogInv

\* A call of record().
LEMMA SampleKeeps ==
  ASSUME LogInv, NEW t \in Targets, Sample(t)
  PROVE  LogInv'
<1> DEFINE v == Present(targets[t])
<1>1. log' = Record(log, v)
  BY DEF Sample
<1>2. CASE ~ Recording(log)
  <2>1. UNCHANGED <<log, accepted, logged>>
    BY <1>1, <1>2 DEF Record, Sample
  <2> QED BY <2>1 DEF LogInv, LogShape, Recent
<1>3. CASE Recording(log)
  <2> DEFINE b == Append(Room(log.buffer), v)
  <2>1. accepted' = Append(accepted, v) /\ logged' = logged + 1
    BY <1>3 DEF Sample
  <2>2. PICK S : LogShape(S, log) /\ accepted \in Seq(S)
    BY DEF LogInv
  <2> DEFINE T == S \cup {v}
  <2>3. log.buffer \in Seq(S)
    BY <2>2 DEF LogShape
  <2>4. log.buffer \in Seq(T) /\ accepted \in Seq(T) /\ v \in T
    BY <2>2, <2>3, LargerSeq
  <2>5. b \in Seq(T) /\ Recent(b, accepted')
    <3> HIDE DEF T, v
    <3>1. v \in T /\ Recent(log.buffer, accepted)
      BY <2>4 DEF LogInv
    <3> QED BY <2>1, <2>4, <3>1, RecordKeepsNewest
  <2>6. log' = [log EXCEPT !.buffer = b, !.count = Len(b),
                           !.total = IF @ < MaxTotal THEN @ + 1 ELSE @]
    BY <1>1, <1>3 DEF Record
  <2> HIDE DEF b, T, v
  <2>7. /\ log'.buffer = b /\ log'.count = Len(b)
        /\ log'.total = (IF log.total < MaxTotal THEN log.total + 1 ELSE log.total)
        /\ log'.enable = log.enable /\ log'.oos = log.oos /\ log'.interval = log.interval
    BY <2>2, <2>6 DEF LogShape
  <2>8. LogShape(T, log')
    <3> DEFINE n == IF log.total < MaxTotal THEN log.total + 1 ELSE log.total
    <3>1. b \in Seq(T) /\ Len(b) \in Nat
      BY <2>5
    <3>2. n \in Nat
      BY <2>2, LogAssumption DEF LogShape
    <3>3. log' = [log EXCEPT !.buffer = b, !.count = Len(b), !.total = n]
      BY <2>2, <2>6 DEF LogShape
    <3> HIDE DEF n
    <3> QED BY <2>2, <3>1, <3>2, <3>3, ReshapeLog
  <2>9. accepted' \in Seq(T)
    BY <2>1, <2>4 DEF T
  <2>10. /\ logged' \in Nat
         /\ log'.total = IF logged' < MaxTotal THEN logged' ELSE MaxTotal
    BY <2>1, <2>7, LogAssumption DEF LogInv
  <2> QED BY <2>5, <2>7, <2>8, <2>9, <2>10 DEF LogInv
<1> QED BY <1>2, <1>3

\* A write to the log clears both the buffer and the history, or neither.
LEMMA WriteKeeps ==
  ASSUME LogInv, NEW w \in LogWrites, ClientWriteLog(w)
  PROVE  LogInv'
<1> DEFINE v == w.val
           clears == w.prop = "RecordCount" /\ v.tag = "Unsigned" /\ v.val = 0
<1>1. PICK S : LogShape(S, log) /\ accepted \in Seq(S)
  BY DEF LogInv
<1>2. /\ log' = WriteLog(log, w.prop, v).obj
      /\ accepted' = IF clears THEN <<>> ELSE accepted
      /\ logged' = logged
  BY DEF ClientWriteLog
<1>3. CASE clears
  <2>1. log' = Clear(log)
    BY <1>2, <1>3 DEF WriteLog, LogReply
  <2>2. /\ log'.buffer = <<>> /\ log'.count = 0 /\ log'.total = log.total
        /\ LogShape(S, log')
    <3>1. log' = [log EXCEPT !.buffer = <<>>, !.count = 0, !.total = log.total]
      BY <1>1, <2>1 DEF Clear, LogShape
    <3>2. <<>> \in Seq(S) /\ log.total \in Nat
      BY <1>1 DEF LogShape
    <3>3. LogShape(S, log')
      BY <1>1, <3>1, <3>2, ReshapeLog
    <3> QED BY <1>1, <3>1, <3>3 DEF LogShape
  <2>3. Recent(log'.buffer, accepted')
    BY <2>2, <1>2, <1>3, LogAssumption DEF Recent, Kept
  <2> QED BY <2>2, <2>3, <1>2, <1>3 DEF LogInv
<1>4. CASE ~ clears
  <2>1. accepted' = accepted
    BY <1>2, <1>4
  <2>2. /\ log'.buffer = log.buffer /\ log'.count = log.count /\ log'.total = log.total
        /\ LogShape(S, log')
    <3>1. CASE w.prop = "Enable"
      BY <1>1, <1>2, <3>1 DEF WriteLog, LogReply, LogShape
    <3>2. CASE w.prop = "OutOfService"
      BY <1>1, <1>2, <3>2 DEF WriteLog, LogReply, LogShape
    <3>3. CASE w.prop = "RecordCount"
      BY <1>1, <1>2, <1>4, <3>3 DEF WriteLog, LogReply, LogShape
    <3>4. CASE w.prop = "LogInterval"
      BY <1>1, <1>2, <3>4 DEF WriteLog, LogReply, LogShape
    <3>5. CASE w.prop \notin {"Enable", "OutOfService", "RecordCount", "LogInterval"}
      BY <1>1, <1>2, <3>5 DEF WriteLog, LogReply, LogShape
    <3> QED BY <3>1, <3>2, <3>3, <3>4, <3>5
  <2> QED BY <1>1, <1>2, <2>1, <2>2 DEF LogInv, Recent
<1> QED BY <1>3, <1>4

LEMMA LogStep == LogInv /\ [Next]_vars => LogInv'
<1> SUFFICES ASSUME LogInv, [Next]_vars PROVE LogInv'
  OBVIOUS
<1>1. ASSUME UNCHANGED <<log, accepted, logged>> PROVE LogInv'
  BY <1>1 DEF LogInv, LogShape, Recent
<1>2. CASE \E t \in Targets : Sample(t)
  BY <1>2, SampleKeeps
<1>3. CASE \E w \in LogWrites : ClientWriteLog(w)
  BY <1>3, WriteKeeps
<1>4. CASE Engine
  BY <1>1, <1>4 DEF Engine, EngineStart, EngineRead, EngineWrite, logVars
<1>5. CASE Tick \/ \E t \in Instants : SetClock(t)
  BY <1>1, <1>5 DEF Tick, SetClock, logVars
<1>6. CASE \E w \in ScheduleWrites : ClientWriteSchedule(w) \/ ForcedWriteSchedule(w)
  BY <1>1, <1>6 DEF ClientWriteSchedule, ForcedWriteSchedule, logVars
<1>7. CASE \E t \in Targets, w \in TargetWrites : ClientWriteTarget(t, w)
  BY <1>1, <1>7 DEF ClientWriteTarget, logVars
<1>8. CASE UNCHANGED vars
  BY <1>1, <1>8 DEF vars, logVars
<1> QED BY <1>2, <1>3, <1>4, <1>5, <1>6, <1>7, <1>8 DEF Next

\* TrendLog::record and write_property, from whatever callers: the buffer is
\* the newest values since the last clear, and both counters are right.
THEOREM LogHoldsNewest == Spec => []LogIsRecent
<1>1. LogInv => LogIsRecent
  BY DEF LogInv, LogIsRecent, Recent, Kept
<1> QED BY <1>1, LogInit, LogStep, PTL DEF Spec

-----------------------------------------------------------------------------
(* The Schedule object.                                                    *)

Schedules == [pv : Values, oos : BOOLEAN, default : Values, week : {Week}]

\* active_at: nothing before the first slot has started, and else the last
\* of the sequence that has.
LEMMA ActiveFacts ==
  ASSUME NEW S, NEW slots \in Seq([start : Nat, value : S]), NEW t \in Int
  PROVE  LET begun == {i \in 1..Len(slots) : slots[i].start <= t}
         IN \/ begun = {} /\ ActiveAt(slots, t) = {}
            \/ \E i \in begun : /\ \A j \in begun : j <= i
                                /\ ActiveAt(slots, t) = {slots[i].value}
<1> DEFINE begun == {i \in 1..Len(slots) : slots[i].start <= t}
           c == CHOOSE i \in begun : \A j \in begun : j <= i
<1>1. begun = {i \in 1..Len(slots) : t >= slots[i].start}
  OBVIOUS
<1>2. ActiveAt(slots, t) = IF begun = {} THEN {} ELSE {slots[c].value}
  BY <1>1 DEF ActiveAt
<1>3. begun \in SUBSET (0..Len(slots)) /\ Len(slots) \in Nat
  OBVIOUS
<1> HIDE DEF begun
<1>4. ASSUME begun # {}
      PROVE  c \in begun /\ \A j \in begun : j <= c
  <2>1. \E i \in begun : \A j \in begun : j <= i
    BY <1>3, <1>4, GreatestBelow
  <2> QED BY <2>1
<1> HIDE DEF c
<1>5. \/ begun = {} /\ ActiveAt(slots, t) = {}
      \/ \E i \in begun : /\ \A j \in begun : j <= i
                          /\ ActiveAt(slots, t) = {slots[i].value}
  BY <1>2, <1>4
<1> QED BY <1>5 DEF begun

\* The two ways to find the weekday of a day of the epoch agree.
LEMMA SameWeekday ==
  ASSUME NEW day \in Int
  PROVE  (day + 3) % 7 = Weekday(day) /\ Weekday(day) \in Days
BY DEF Weekday, Days

\* evaluate_at: the value of the last slot that has started, or the default.
LEMMA EvaluateFacts ==
  ASSUME NEW s \in Schedules, NEW now \in Int
  PROVE  LET slots == Week[Weekday(now \div DayLength)]
             begun == {i \in 1..Len(slots) : slots[i].start <= now % DayLength}
         IN /\ slots \in Seq([start : Nat, value : Values])
            /\ \/ begun = {} /\ EvaluateAt(s, now) = s.default
               \/ \E i \in begun : /\ \A j \in begun : j <= i
                                   /\ EvaluateAt(s, now) = slots[i].value
<1> DEFINE slots == Week[Weekday(now \div DayLength)]
           t == now % DayLength
           begun == {i \in 1..Len(slots) : slots[i].start <= t}
<1>1. now \div DayLength \in Int /\ t \in Int
  BY DayAssumption
<1>2. (now \div DayLength + 3) % 7 = Weekday(now \div DayLength)
      /\ Weekday(now \div DayLength) \in Days
  BY <1>1, SameWeekday
<1>3. slots \in Seq([start : Nat, value : Values])
  BY <1>2, ScheduleEngineAssumption
<1>4. s.week = Week
  BY DEF Schedules
<1>5. EvaluateAt(s, now) = IF ActiveAt(slots, t) = {} THEN s.default
                           ELSE CHOOSE v \in ActiveAt(slots, t) : TRUE
  <2> DEFINE d == (now \div DayLength + 3) % 7
  <2>1. EvaluateAt(s, now) = IF ActiveAt(s.week[d], t) = {} THEN s.default
                             ELSE CHOOSE v \in ActiveAt(s.week[d], t) : TRUE
    BY Zenon DEF EvaluateAt
  <2>2. s.week[d] = slots
    BY <1>2, <1>4
  <2> QED BY <2>1, <2>2, Zenon
<1> HIDE DEF slots, t
<1>6. \/ begun = {} /\ ActiveAt(slots, t) = {}
      \/ \E i \in begun : /\ \A j \in begun : j <= i
                          /\ ActiveAt(slots, t) = {slots[i].value}
  BY <1>1, <1>3, ActiveFacts
<1> HIDE DEF begun
<1>7. CASE begun = {} /\ ActiveAt(slots, t) = {}
  BY <1>3, <1>5, <1>7, Zenon DEF begun, slots, t
<1>8. ASSUME NEW i \in begun, \A j \in begun : j <= i,
             ActiveAt(slots, t) = {slots[i].value}
      PROVE  EvaluateAt(s, now) = slots[i].value
  BY <1>5, <1>8
<1>9. \/ begun = {} /\ EvaluateAt(s, now) = s.default
      \/ \E i \in begun : /\ \A j \in begun : j <= i
                          /\ EvaluateAt(s, now) = slots[i].value
  BY <1>5, <1>6, <1>8
<1> QED BY <1>3, <1>9 DEF begun, slots, t

\* tick leaves a schedule, and changes its present value only.
LEMMA TickFacts ==
  ASSUME NEW s \in Schedules, NEW now \in Int
  PROVE  LET n == IF now < 0 THEN 0 ELSE now
             x == TickSchedule(s, now)
         IN /\ x \in Schedules
            /\ s.oos => x = s
            /\ ~ s.oos => x.pv = EvaluateAt(s, n)
<1> DEFINE n == IF now < 0 THEN 0 ELSE now
           v == EvaluateAt(s, n)
<1>1. n \in Int
  OBVIOUS
<1> HIDE DEF n
<1>2. v \in Values
  <2> DEFINE slots == Week[Weekday(n \div DayLength)]
  <2>1. slots \in Seq([start : Nat, value : Values])
    BY <1>1, EvaluateFacts
  <2>2. v = s.default \/ \E i \in 1..Len(slots) : v = slots[i].value
    BY <1>1, EvaluateFacts
  <2> HIDE DEF slots, v
  <2>3. s.default \in Values
    BY DEF Schedules
  <2>4. ASSUME NEW i \in 1..Len(slots) PROVE slots[i].value \in Values
    <3> DEFINE S == [start : Nat, value : Values]
    <3>1. slots \in Seq(S)
      BY <2>1
    <3> HIDE DEF S
    <3>2. slots[i] \in S
      BY <3>1, <2>4
    <3> QED BY <3>2 DEF S
  <2>5. v \in Values
    BY <2>2, <2>3, <2>4
  <2> QED BY <2>5 DEF v
<1>3. TickSchedule(s, now) = IF s.oos THEN s ELSE [s EXCEPT !.pv = v]
  BY Zenon DEF TickSchedule, n
<1> HIDE DEF v
<1>4. [s EXCEPT !.pv = v] \in Schedules /\ [s EXCEPT !.pv = v].pv = v
  BY <1>2 DEF Schedules
<1> QED BY <1>3, <1>4, Zenon DEF v, n

\* What a write does to a schedule: a schedule is left, and its present value
\* is another only when an accepted write of it says so.
ScheduleOutcome(s, prop, v, w) ==
  /\ w.obj \in Schedules
  /\ w.obj.pv = IF prop = "PresentValue" /\ w.result = "Ok" THEN v ELSE s.pv

LEMMA SetScheduleService ==
  ASSUME NEW s \in Schedules, NEW b \in BOOLEAN
  PROVE  [s EXCEPT !.oos = b] \in Schedules /\ [s EXCEPT !.oos = b].pv = s.pv
         /\ [s EXCEPT !.oos = b].oos = b
<1>1. [s EXCEPT !.oos = b] = [pv |-> s.pv, oos |-> b, default |-> s.default, week |-> s.week]
  BY DEF Schedules
<1>2. s.pv \in Values /\ s.default \in Values /\ s.week \in {Week}
  BY DEF Schedules
<1> QED BY <1>1, <1>2 DEF Schedules

LEMMA WriteScheduleFacts ==
  ASSUME NEW s \in Schedules, NEW prop, NEW v \in Values
  PROVE  ScheduleOutcome(s, prop, v, WriteSchedule(s, prop, v))
<1> DEFINE w == WriteSchedule(s, prop, v)
<1>1. CASE prop = "PresentValue"
  <2>1. [s EXCEPT !.pv = v] \in Schedules /\ [s EXCEPT !.pv = v].pv = v
    BY DEF Schedules
  <2>2. \/ w.result = "Ok" /\ w.obj = [s EXCEPT !.pv = v]
        \/ w.result # "Ok" /\ w.obj = s
    BY <1>1 DEF WriteSchedule, ScheduleReply
  <2> QED BY <1>1, <2>1, <2>2, Zenon DEF ScheduleOutcome
<1>2. CASE prop = "OutOfService"
  <2>1. (v.val # 0) \in BOOLEAN
    OBVIOUS
  <2>2. w.obj = s \/ w.obj = [s EXCEPT !.oos = (v.val # 0)]
    BY <1>2 DEF WriteSchedule, ScheduleReply
  <2>3. prop # "PresentValue"
    BY <1>2
  <2> QED BY <2>1, <2>2, <2>3, SetScheduleService, Zenon DEF ScheduleOutcome
<1>3. CASE prop = "ScheduleDefault"
  <2>1. [s EXCEPT !.default = v] \in Schedules /\ [s EXCEPT !.default = v].pv = s.pv
    BY DEF Schedules
  <2>2. w.obj = [s EXCEPT !.default = v] /\ prop # "PresentValue"
    BY <1>3 DEF WriteSchedule, ScheduleReply
  <2> QED BY <2>1, <2>2, Zenon DEF ScheduleOutcome
<1>4. CASE prop \notin {"PresentValue", "OutOfService", "ScheduleDefault"}
  <2>1. w.obj = s /\ prop # "PresentValue"
    BY <1>4 DEF WriteSchedule, ScheduleReply
  <2> QED BY <2>1, Zenon DEF ScheduleOutcome
<1> QED BY <1>1, <1>2, <1>3, <1>4

LEMMA ForceScheduleFacts ==
  ASSUME NEW s \in Schedules, NEW prop, NEW v \in Values
  PROVE  ScheduleOutcome(s, prop, v, ForceSchedule(s, prop, v))
<1> DEFINE w  == WriteSchedule(s, prop, v)
           on == [s EXCEPT !.oos = TRUE]
           x  == WriteSchedule(on, prop, v)
           off == [x.obj EXCEPT !.oos = FALSE]
           f  == ForceSchedule(s, prop, v)
<1>1. f = IF w.result = "Ok" THEN w
          ELSE IF prop = "PresentValue" /\ ~ s.oos THEN [result |-> x.result, obj |-> off]
          ELSE [result |-> "WriteAccessDenied", obj |-> s]
  BY Zenon DEF ForceSchedule, ScheduleReply
<1>2. on \in Schedules /\ on.pv = s.pv
  BY SetScheduleService, Zenon
<1>3. ScheduleOutcome(s, prop, v, w) /\ ScheduleOutcome(on, prop, v, x)
  BY <1>2, WriteScheduleFacts, Zenon
<1>4. off \in Schedules /\ off.pv = x.obj.pv
  BY <1>3, SetScheduleService, Zenon DEF ScheduleOutcome
<1> HIDE DEF w, on, x, off, f
<1>5. CASE w.result = "Ok"
  BY <1>1, <1>3, <1>5, Zenon DEF f
<1>6. CASE w.result # "Ok" /\ prop = "PresentValue" /\ ~ s.oos
  <2>1. f.result = x.result /\ f.obj = off
    BY <1>1, <1>6
  <2>2. ScheduleOutcome(s, prop, v, f)
    BY <1>2, <1>3, <1>4, <2>1, Zenon DEF ScheduleOutcome
  <2> QED BY <2>2 DEF f
<1>7. CASE w.result # "Ok" /\ ~ (prop = "PresentValue" /\ ~ s.oos)
  <2>1. f.result = "WriteAccessDenied" /\ f.obj = s
    BY <1>1, <1>7
  <2>2. f.result # "Ok"
    BY <2>1
  <2>3. ScheduleOutcome(s, prop, v, f)
    BY <2>1, <2>2, Zenon DEF ScheduleOutcome
  <2> QED BY <2>3 DEF f
<1> QED BY <1>5, <1>6, <1>7, Zenon

-----------------------------------------------------------------------------
(* Types.                                                                  *)

Logs == [buffer : Seq(Nat), count : Nat, total : 0..MaxTotal,
         enable : BOOLEAN, oos : BOOLEAN, interval : Nat]

\* record() of a number leaves a log.
LEMMA RecordType ==
  ASSUME NEW l \in Logs, NEW v \in Nat
  PROVE  Record(l, v) \in Logs
<1> DEFINE b == Append(Room(l.buffer), v)
           n == IF l.total < MaxTotal THEN l.total + 1 ELSE l.total
<1>1. l.buffer \in Seq(Nat) /\ l.total \in 0..MaxTotal
  BY DEF Logs
<1>2. Room(l.buffer) \in Seq(Nat)
  BY <1>1 DEF Room
<1>3. b \in Seq(Nat) /\ Len(b) \in Nat
  BY <1>2
<1>4. n \in 0..MaxTotal
  BY <1>1, LogAssumption
<1>5. Record(l, v) = IF ~ Recording(l) THEN l
                     ELSE [l EXCEPT !.buffer = b, !.count = Len(b), !.total = n]
  BY DEF Record, Logs
<1> HIDE DEF b, n
<1>6. [l EXCEPT !.buffer = b, !.count = Len(b), !.total = n] \in Logs
  BY <1>3, <1>4 DEF Logs
<1> QED BY <1>5, <1>6, Zenon

\* So does a write.
LEMMA WriteLogType ==
  ASSUME NEW l \in Logs, NEW prop, NEW v \in Values
  PROVE  WriteLog(l, prop, v).obj \in Logs
<1>1. v.val \in Nat
  BY DEF Values
<1>2. CASE prop = "Enable"
  BY <1>1, <1>2 DEF WriteLog, LogReply, Logs
<1>3. CASE prop = "OutOfService"
  BY <1>1, <1>3 DEF WriteLog, LogReply, Logs
<1>4. CASE prop = "RecordCount"
  <2>1. Clear(l) \in Logs
    <3>1. <<>> \in Seq(Nat)
      OBVIOUS
    <3> QED BY <3>1 DEF Clear, Logs
  <2>2. WriteLog(l, prop, v).obj \in {l, Clear(l)}
    BY <1>4 DEF WriteLog, LogReply
  <2> QED BY <2>1, <2>2
<1>5. CASE prop = "LogInterval"
  BY <1>1, <1>5 DEF WriteLog, LogReply, Logs
<1>6. CASE prop \notin {"Enable", "OutOfService", "RecordCount", "LogInterval"}
  BY <1>6 DEF WriteLog, LogReply
<1> QED BY <1>2, <1>3, <1>4, <1>5, <1>6

\* The parts of the type invariant, by who keeps them.
ScheduleOK == sched \in Schedules /\ clock \in Instants

TargetsOK == targets \in [Targets -> Objects]

EngineOK ==
  /\ at \in 0..Len(Outputs)
  /\ held \in Values \cup {None}
  /\ held # None => at # 0 /\ held # Null

HistoryOK ==
  /\ log \in Logs
  /\ accepted \in Seq(Nat)
  /\ logged \in Nat
  /\ writes \in 0..MaxWrites
  /\ records \in 0..MaxRecords

LEMMA WrittenValues ==
  ASSUME NEW w \in ScheduleWrites \cup TargetWrites \cup LogWrites
  PROVE  w.val \in Values /\ w.val \in [tag : Tags, val : Nat]
BY ScheduleEngineAssumption DEF Values

LEMMA ScheduleStep ==
  ASSUME ScheduleOK, [Next]_vars
  PROVE  ScheduleOK'
<1>1. clock \in Int
  BY ScheduleEngineAssumption DEF ScheduleOK
<1>2. CASE Tick
  <2>1. TickSchedule(sched, clock) \in Schedules
    BY <1>1, TickFacts DEF ScheduleOK
  <2> QED BY <1>2, <2>1 DEF Tick, ScheduleOK
<1>3. ASSUME NEW w \in ScheduleWrites, ClientWriteSchedule(w) PROVE ScheduleOK'
  <2>1. WriteSchedule(sched, w.prop, w.val).obj \in Schedules
    BY WrittenValues, WriteScheduleFacts DEF ScheduleOK, ScheduleOutcome
  <2> QED BY <1>3, <2>1 DEF ClientWriteSchedule, ScheduleOK
<1>4. ASSUME NEW w \in ScheduleWrites, ForcedWriteSchedule(w) PROVE ScheduleOK'
  <2>1. ForceSchedule(sched, w.prop, w.val).obj \in Schedules
    BY WrittenValues, ForceScheduleFacts DEF ScheduleOK, ScheduleOutcome
  <2> QED BY <1>4, <2>1 DEF ForcedWriteSchedule, ScheduleOK
<1>5. CASE \E t \in Instants : SetClock(t)
  BY <1>5 DEF SetClock, ScheduleOK
<1>6. CASE UNCHANGED <<sched, clock>>
  BY <1>6 DEF ScheduleOK
<1> QED
  BY <1>2, <1>3, <1>4, <1>5, <1>6
  DEF Next, Engine, EngineStart, EngineRead, EngineWrite, ClientWriteTarget, ClientWriteLog,
      Sample, vars

LEMMA TargetsStep ==
  ASSUME TargetsOK, EngineOK, [Next]_vars
  PROVE  TargetsOK'
<1>1. ASSUME NEW t \in Targets, NEW prop, NEW v \in [tag : Tags, val : Nat], NEW pri,
             targets' = [targets EXCEPT ![t] = Write(@, prop, v, pri).obj]
      PROVE  TargetsOK'
  <2>1. Write(targets[t], prop, v, pri).obj \in Objects
    BY WriteType DEF TargetsOK
  <2> HIDE DEF Targets
  <2> QED BY <1>1, <2>1 DEF TargetsOK
<1>2. CASE EngineWrite
  <2>1. CASE Outputs[at].target \in Targets
    <3>1. held \in [tag : Tags, val : Nat]
      BY <1>2 DEF EngineWrite, EngineOK, Values
    <3>2. targets' = [targets EXCEPT ![Outputs[at].target] =
                        Write(@, Outputs[at].prop, held, None).obj]
      BY <1>2, <2>1 DEF EngineWrite
    <3> HIDE DEF Targets
    <3> QED BY <1>1, <2>1, <3>1, <3>2
  <2>2. CASE Outputs[at].target \notin Targets
    BY <1>2, <2>2 DEF EngineWrite, TargetsOK
  <2> QED BY <2>1, <2>2
<1>3. ASSUME NEW t \in Targets, NEW w \in TargetWrites, ClientWriteTarget(t, w)
      PROVE  TargetsOK'
  <2>1. w.val \in [tag : Tags, val : Nat]
    BY WrittenValues
  <2>2. targets' = [targets EXCEPT ![t] = Write(@, w.prop, w.val, w.pri).obj]
    BY <1>3 DEF ClientWriteTarget
  <2> HIDE DEF Targets
  <2> QED BY <1>1, <2>1, <2>2
<1>4. CASE UNCHANGED targets
  BY <1>4 DEF TargetsOK
<1> QED
  BY <1>2, <1>3, <1>4
  DEF Next, Engine, EngineStart, EngineRead, SetClock, Tick, ClientWriteSchedule,
      ForcedWriteSchedule, ClientWriteLog, Sample, vars

LEMMA EngineStep ==
  ASSUME ScheduleOK, EngineOK, [Next]_vars
  PROVE  EngineOK'
<1>1. Len(Outputs) \in Nat /\ sched.pv \in Values
  BY ScheduleEngineAssumption DEF ScheduleOK, Schedules
<1>2. at # 0 => Following(at) \in 0..Len(Outputs)
  BY <1>1 DEF EngineOK, Following
<1>3. CASE EngineStart
  <2>1. Len(Outputs) # 0 /\ at' = 1 /\ held' = held
    BY <1>3, <1>1 DEF EngineStart
  <2> QED BY <1>1, <2>1 DEF EngineOK
<1>4. CASE EngineRead
  BY <1>1, <1>2, <1>4 DEF EngineRead, EngineOK
<1>5. CASE EngineWrite
  BY <1>2, <1>5 DEF EngineWrite, EngineOK
<1>6. CASE UNCHANGED engineVars
  BY <1>6 DEF engineVars, EngineOK
<1> QED
  BY <1>3, <1>4, <1>5, <1>6
  DEF Next, Engine, SetClock, Tick, ClientWriteSchedule, ForcedWriteSchedule,
      ClientWriteTarget, ClientWriteLog, Sample, vars

LEMMA HistoryStep ==
  ASSUME TargetsOK, HistoryOK, [Next]_vars
  PROVE  HistoryOK'
<1>1. writes < MaxWrites => writes + 1 \in 0..MaxWrites
  BY ScheduleEngineAssumption DEF HistoryOK
<1>2. records < MaxRecords => records + 1 \in 0..MaxRecords
  BY ScheduleEngineAssumption DEF HistoryOK
<1>3. ASSUME NEW t \in Targets, Sample(t) PROVE HistoryOK'
  <2> DEFINE v == Present(targets[t])
  <2>1. v \in Nat
    BY PresentType DEF TargetsOK
  <2>2. log' = Record(log, v) /\ writes' = writes /\ records' \in 0..MaxRecords
        /\ \/ accepted' = Append(accepted, v) /\ logged' = logged + 1
           \/ UNCHANGED <<accepted, logged>>
    BY <1>2, <1>3 DEF Sample
  <2> HIDE DEF v
  <2>3. log' \in Logs
    BY <2>1, <2>2, RecordType DEF HistoryOK
  <2>4. accepted' \in Seq(Nat) /\ logged' \in Nat
    <3>1. Append(accepted, v) \in Seq(Nat) /\ logged + 1 \in Nat
      BY <2>1 DEF HistoryOK
    <3>2. accepted \in Seq(Nat) /\ logged \in Nat
      BY DEF HistoryOK
    <3> QED BY <2>2, <3>1, <3>2
  <2> QED BY <2>2, <2>3, <2>4 DEF HistoryOK
<1>4. ASSUME NEW w \in LogWrites, ClientWriteLog(w) PROVE HistoryOK'
  <2>1. WriteLog(log, w.prop, w.val).obj \in Logs
    BY WrittenValues, WriteLogType DEF HistoryOK
  <2>2. log' = WriteLog(log, w.prop, w.val).obj /\ writes' = writes + 1 /\ writes < MaxWrites
        /\ (accepted' = <<>> \/ accepted' = accepted) /\ UNCHANGED <<logged, records>>
    BY <1>4 DEF ClientWriteLog
  <2>3. <<>> \in Seq(Nat) /\ accepted \in Seq(Nat)
    BY DEF HistoryOK
  <2>4. accepted' \in Seq(Nat)
    BY <2>2, <2>3
  <2> QED BY <1>1, <2>1, <2>2, <2>4 DEF HistoryOK
<1>5. ASSUME UNCHANGED <<log, accepted, logged, records>>,
             writes' = writes \/ (writes < MaxWrites /\ writes' = writes + 1)
      PROVE  HistoryOK'
  <2>1. writes' \in 0..MaxWrites
    BY <1>1, <1>5 DEF HistoryOK
  <2> QED BY <1>5, <2>1 DEF HistoryOK
<1>6. CASE Engine \/ Tick \/ \E t \in Instants : SetClock(t)
  BY <1>5, <1>6 DEF Engine, EngineStart, EngineRead, EngineWrite, Tick, SetClock, logVars
<1>7. CASE \E w \in ScheduleWrites : ClientWriteSchedule(w) \/ ForcedWriteSchedule(w)
  BY <1>5, <1>7 DEF ClientWriteSchedule, ForcedWriteSchedule, logVars
<1>8. CASE \E t \in Targets, w \in TargetWrites : ClientWriteTarget(t, w)
  BY <1>5, <1>8 DEF ClientWriteTarget, logVars
<1>9. CASE UNCHANGED vars
  BY <1>5, <1>9 DEF vars, logVars
<1> QED BY <1>3, <1>4, <1>6, <1>7, <1>8, <1>9 DEF Next

LEMMA TypesInit == Init => ScheduleOK /\ TargetsOK /\ EngineOK /\ HistoryOK
<1> SUFFICES ASSUME Init PROVE ScheduleOK /\ TargetsOK /\ EngineOK /\ HistoryOK
  OBVIOUS
<1>1. ScheduleOK
  BY DEF Init, ScheduleOK, NewSchedule, Schedules, Null, Values, Tags
<1>2. TargetsOK
  <2>1. \A t \in Targets : NewObject(KindOf[t]) \in Objects
    BY NewObjectType, ScheduleEngineAssumption DEF Targets
  <2> HIDE DEF Targets
  <2> QED BY <2>1 DEF Init, TargetsOK
<1>3. EngineOK
  BY ScheduleEngineAssumption DEF Init, EngineOK
<1>4. HistoryOK
  BY ScheduleEngineAssumption, LogAssumption DEF Init, HistoryOK, NewLog, Logs
<1> QED BY <1>1, <1>2, <1>3, <1>4

LEMMA TypesInvariance == Spec => [](ScheduleOK /\ TargetsOK /\ EngineOK /\ HistoryOK)
<1>1. ScheduleOK /\ TargetsOK /\ EngineOK /\ HistoryOK /\ [Next]_vars
        => (ScheduleOK /\ TargetsOK /\ EngineOK /\ HistoryOK)'
  BY ScheduleStep, TargetsStep, EngineStep, HistoryStep
<1> QED BY TypesInit, <1>1, PTL DEF Spec

\* The schedule, its targets, the log and the engine between its reads and
\* writes keep their types, whatever is written to them and whatever the
\* programme holds.
THEOREM ScheduleTypes == Spec => []TypeOK
<1>1. ScheduleOK /\ TargetsOK /\ EngineOK /\ HistoryOK => TypeOK
  BY DEF ScheduleOK, Schedules, TargetsOK, EngineOK, HistoryOK, Logs, TypeOK
<1> QED BY <1>1, TypesInvariance, PTL

-----------------------------------------------------------------------------
(* What the schedule shows, and what its engine leaves alone.              *)

\* On a day whose slots are in order, the last that has started is the one
\* that started last.
LEMMA ShowsOnTick ==
  ASSUME ScheduleOK, Tick
  PROVE  ShowsProgramme' \/ UNCHANGED <<sched, shown>>
<1>1. clock \in Int
  BY ScheduleEngineAssumption DEF ScheduleOK
<1>2. CASE sched.oos
  BY <1>1, <1>2, TickFacts DEF Tick, ScheduleOK
<1>3. CASE ~ sched.oos
  <2> DEFINE now == IF clock < 0 THEN 0 ELSE clock
             slots == Week[Weekday(now \div DayLength)]
             begun == {i \in 1..Len(slots) : slots[i].start <= now % DayLength}
  <2>1. now \in Int
    BY <1>1
  <2>2. shown' = [by |-> "clock", at |-> clock, default |-> sched.default]
        /\ sched' = TickSchedule(sched, clock)
    BY <1>3 DEF Tick
  <2>3. sched'.pv = EvaluateAt(sched, now)
    BY <1>1, <1>3, <2>2, TickFacts DEF ScheduleOK
  <2> HIDE DEF now
  <2>4. /\ slots \in Seq([start : Nat, value : Values])
        /\ \/ begun = {} /\ sched'.pv = sched.default
           \/ \E i \in begun : /\ \A j \in begun : j <= i
                               /\ sched'.pv = slots[i].value
    BY <2>1, <2>3, EvaluateFacts DEF ScheduleOK
  <2>5. \A i \in 1..Len(slots) : slots[i].start \in Nat
    <3> DEFINE S == [start : Nat, value : Values]
    <3> HIDE DEF slots, S
    <3>1. slots \in Seq(S)
      BY <2>4 DEF S
    <3>2. \A i \in 1..Len(slots) : slots[i] \in S
      BY <3>1
    <3> QED BY <3>2 DEF S
  <2>6. InOrder(slots) =>
          IF begun = {} THEN sched'.pv = shown'.default
          ELSE \E i \in begun : /\ \A j \in begun : slots[j].start <= slots[i].start
                                /\ sched'.pv = slots[i].value
    <3> SUFFICES ASSUME InOrder(slots)
                 PROVE  IF begun = {} THEN sched'.pv = shown'.default
                        ELSE \E i \in begun : /\ \A j \in begun : slots[j].start <= slots[i].start
                                              /\ sched'.pv = slots[i].value
      OBVIOUS
    <3>1. CASE begun = {} /\ sched'.pv = sched.default
      BY <2>2, <3>1
    <3>2. ASSUME NEW i \in begun, \A j \in begun : j <= i, sched'.pv = slots[i].value
          PROVE  \A j \in begun : slots[j].start <= slots[i].start
      <4> SUFFICES ASSUME NEW j \in begun PROVE slots[j].start <= slots[i].start
        OBVIOUS
      <4>1. i \in 1..Len(slots) /\ j \in 1..Len(slots) /\ j <= i
        BY <3>2
      <4>2. slots[i].start \in Nat /\ slots[j].start \in Nat
        BY <2>5, <4>1
      <4>3. CASE j = i
        BY <4>2, <4>3
      <4>4. CASE j < i
        BY <4>1, <4>2, <4>4 DEF InOrder
      <4> HIDE DEF slots
      <4>5. i \in Int /\ j \in Int
        BY <4>1
      <4> QED BY <4>1, <4>3, <4>4, <4>5
    <3> HIDE DEF begun, slots
    <3> QED BY <2>4, <3>1, <3>2
  <2>7. shown'.by = "clock" /\ shown'.at = clock
    BY <2>2
  <2>8. ShowsProgramme'
    BY <2>6, <2>7 DEF ShowsProgramme, now
  <2> QED BY <2>8
<1> QED BY <1>2, <1>3

\* The schedule shows what set it last, a client or the clock.
THEOREM ProgrammeShown == Spec => []ShowsProgramme
<1>1. Init => ShowsProgramme
  BY DEF Init, ShowsProgramme, NewSchedule
<1>2. ScheduleOK /\ ShowsProgramme /\ [Next]_vars => ShowsProgramme'
  <2> SUFFICES ASSUME ScheduleOK, ShowsProgramme, [Next]_vars PROVE ShowsProgramme'
    OBVIOUS
  <2>1. ASSUME sched'.pv = sched.pv, shown' = shown PROVE ShowsProgramme'
    <3> DEFINE P(pv, sh) ==
          CASE sh.by = "client" -> pv = sh.val
            [] sh.by = "clock" ->
                 LET now == IF sh.at < 0 THEN 0 ELSE sh.at
                     slots == Week[Weekday(now \div DayLength)]
                     begun == {i \in 1..Len(slots) : slots[i].start <= now % DayLength}
                 IN InOrder(slots) =>
                      IF begun = {} THEN pv = sh.default
                      ELSE \E i \in begun : /\ \A j \in begun : slots[j].start <= slots[i].start
                                            /\ pv = slots[i].value
    <3>1. P(sched.pv, shown)
      BY Zenon DEF ShowsProgramme
    <3>2. P(sched'.pv, shown')
      <4> HIDE DEF P
      <4> QED BY <2>1, <3>1
    <3> QED BY <3>2, Zenon DEF ShowsProgramme
  <2>2. CASE Tick
    BY <2>1, <2>2, ShowsOnTick
  <2>3. ASSUME NEW w \in ScheduleWrites, NEW r, Shows(r, w), sched' = r.obj,
               ScheduleOutcome(sched, w.prop, w.val, r)
        PROVE  ShowsProgramme'
    <3>1. CASE w.prop = "PresentValue" /\ r.result = "Ok"
      <4>1. shown' = [by |-> "client", val |-> w.val] /\ sched'.pv = w.val
        BY <2>3, <3>1 DEF Shows, ScheduleOutcome
      <4> QED BY <4>1 DEF ShowsProgramme
    <3>2. CASE ~ (w.prop = "PresentValue" /\ r.result = "Ok")
      BY <2>1, <2>3, <3>2 DEF Shows, ScheduleOutcome
    <3> QED BY <3>1, <3>2
  <2>4. ASSUME NEW w \in ScheduleWrites, ClientWriteSchedule(w) PROVE ShowsProgramme'
    <3>1. ScheduleOutcome(sched, w.prop, w.val, WriteSchedule(sched, w.prop, w.val))
      BY WrittenValues, WriteScheduleFacts DEF ScheduleOK
    <3> QED BY <2>3, <2>4, <3>1 DEF ClientWriteSchedule
  <2>5. ASSUME NEW w \in ScheduleWrites, ForcedWriteSchedule(w) PROVE ShowsProgramme'
    <3>1. ScheduleOutcome(sched, w.prop, w.val, ForceSchedule(sched, w.prop, w.val))
      BY WrittenValues, ForceScheduleFacts DEF ScheduleOK
    <3> QED BY <2>3, <2>5, <3>1 DEF ForcedWriteSchedule
  <2>6. CASE UNCHANGED <<sched, shown>>
    BY <2>1, <2>6
  <2> QED
    BY <2>2, <2>4, <2>5, <2>6
    DEF Next, Engine, EngineStart, EngineRead, EngineWrite, SetClock, ClientWriteTarget,
        ClientWriteLog, Sample, vars
<1> QED BY <1>1, <1>2, TypesInvariance, PTL DEF Spec

\* The engine's writes touch neither a command of a higher priority nor
\* out_of_service, unless an output is bound to out_of_service itself.
THEOREM CommandsSurvive ==
  (\A i \in 1..Len(Outputs) : Outputs[i].prop # "OutOfService") /\ Spec => CommandsKept
<1> DEFINE Bound == \A i \in 1..Len(Outputs) : Outputs[i].prop # "OutOfService"
           Keeps == \A t \in Targets :
                      /\ targets'[t].oos = targets[t].oos
                      /\ \A p \in 1..NumPriorities - 1 :
                           targets'[t].slots[p] = targets[t].slots[p]
<1>1. Bound /\ TargetsOK /\ EngineOK /\ [Next]_vars => [Engine => Keeps]_vars
  <2> SUFFICES ASSUME Bound, TargetsOK, EngineOK, Engine PROVE Keeps
    OBVIOUS
  <2>1. CASE UNCHANGED targets
    BY <2>1
  <2>2. CASE EngineWrite /\ Outputs[at].target \in Targets
    <3> DEFINE u == Outputs[at].target
               prop == Outputs[at].prop
               w == Write(targets[u], prop, held, None)
    <3>1. held \in [tag : Tags, val : Nat] /\ at \in 1..Len(Outputs)
      BY <2>2, ScheduleEngineAssumption DEF EngineWrite, EngineOK, Values
    <3>2. targets' = [targets EXCEPT ![u] = w.obj]
      BY <2>2 DEF EngineWrite
    <3>3. prop # "OutOfService" /\ targets[u] \in Objects
      BY <2>2, <3>1 DEF TargetsOK
    <3>4. w.obj.oos = targets[u].oos
      <4>1. Shape(targets[u])
        BY <3>3, ObjectShape
      <4>2. Outcome(targets[u], prop, w)
        BY <3>1, <4>1, WriteFacts, Zenon
      <4> HIDE DEF w, prop, u
      <4> QED BY <3>3, <4>2, Zenon DEF Outcome
    <3>5. \A p \in 1..NumPriorities - 1 : w.obj.slots[p] = targets[u].slots[p]
      <4>1. Effect(targets[u], prop, held, None, w)
        BY <3>1, <3>3, ObjectShape, WriteEffect, Zenon
      <4> HIDE DEF w, prop, u
      <4> QED BY <3>3, <4>1, LowestOnly
    <3> HIDE DEF u, w, prop, Targets
    <3>6. \A t \in Targets : targets'[t] = IF t = u THEN w.obj ELSE targets[t]
      BY <3>2 DEF TargetsOK
    <3> QED BY <3>4, <3>5, <3>6, Zenon
  <2> QED BY <2>1, <2>2 DEF Engine, EngineStart, EngineRead, EngineWrite
<1>2. Bound => Bound'
  OBVIOUS
<1> QED BY <1>1, <1>2, TypesInvariance, PTL DEF Spec, CommandsKept
=============================================================================
