------------------------------ MODULE Schedule ------------------------------
(***************************************************************************)
(* The Schedule object of bacnet-object: the weekly programme, what it     *)
(* says at a time, and what write_property, force_write_property and tick  *)
(* do.  A schedule is a record of its present value (pv), out_of_service   *)
(* (oos), schedule_default (default) and weekly_schedule (week), which     *)
(* maps each day, Monday = 0, to its sequence of slots.                    *)
(***************************************************************************)
EXTENDS Integers, Sequences

CONSTANT DayLength  \* units of time in a day (86 400 seconds in the code)

ASSUME DayAssumption == DayLength \in Nat \ {0}

Days == 0..6

Null == [tag |-> "Null", val |-> 0]

NewSchedule(week) == [pv |-> Null, oos |-> FALSE, default |-> Null, week |-> week]

-----------------------------------------------------------------------------
(* The programme.                                                          *)

\* A fault: a form of the definition below with a bug the code could plausibly
\* have, against which a property is tried.
ActiveAt_Strict(slots, t) ==
  LET started == {i \in 1..Len(slots) : t > slots[i].start}
  IN IF started = {} THEN {}
     ELSE {slots[CHOOSE i \in started : \A j \in started : j <= i].value}

\* active_at: the last slot of the sequence that has started at time of day t,
\* if there is one.
ActiveAt(slots, t) ==
  LET started == {i \in 1..Len(slots) : t >= slots[i].start}
  IN IF started = {} THEN {}
     ELSE {slots[CHOOSE i \in started : \A j \in started : j <= i].value}

\* evaluate_at: day 0 of the epoch was a Thursday.
EvaluateAt(s, secs) ==
  LET active == ActiveAt(s.week[(secs \div DayLength + 3) % 7], secs % DayLength)
  IN IF active = {} THEN s.default ELSE CHOOSE v \in active : TRUE

\* tick: a time before the epoch counts as the epoch.
TickSchedule(s, now) ==
  IF s.oos THEN s ELSE [s EXCEPT !.pv = EvaluateAt(s, IF now < 0 THEN 0 ELSE now)]

-----------------------------------------------------------------------------
(* Writes.  The present value and the default take any data type.          *)

ScheduleReply(r, s) == [result |-> r, obj |-> s]

WriteSchedule(s, prop, v) ==
  CASE prop = "PresentValue" ->
         IF s.oos THEN ScheduleReply("Ok", [s EXCEPT !.pv = v])
                  ELSE ScheduleReply("WriteAccessDenied", s)
    [] prop = "OutOfService" ->
         IF v.tag = "Boolean" THEN ScheduleReply("Ok", [s EXCEPT !.oos = (v.val # 0)])
                              ELSE ScheduleReply("InvalidDataType", s)
    [] prop = "ScheduleDefault" -> ScheduleReply("Ok", [s EXCEPT !.default = v])
    [] OTHER -> ScheduleReply("WriteAccessDenied", s)

\* The simulation's write: a refused present value is written with the
\* schedule out of service for the time of the write.
ForceSchedule(s, prop, v) ==
  LET w  == WriteSchedule(s, prop, v)
      on == [s EXCEPT !.oos = TRUE]
  IN IF w.result = "Ok" THEN w
     ELSE IF prop = "PresentValue" /\ ~ s.oos
       THEN LET x == WriteSchedule(on, prop, v)
            IN ScheduleReply(x.result, [x.obj EXCEPT !.oos = FALSE])
     ELSE ScheduleReply("WriteAccessDenied", s)
=============================================================================
