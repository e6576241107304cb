---------------------------- MODULE AlarmEngine ----------------------------
(***************************************************************************)
(* The intrinsic alarm state machine of an object (alarm_engine.rs), which *)
(* SimEngine evaluates with every value its model produces: OutOfRange     *)
(* with a deadband and a time delay.  The other algorithms do nothing.     *)
(***************************************************************************)
EXTENDS Integers

CONSTANTS
  LowLimit, HighLimit, Deadband,
  TimeDelay,   \* time_delay
  Readings,    \* the values that are evaluated
  MaxGap,      \* longest time between two evaluations
  MaxTime,     \* bound: time of a behaviour
  Stopped      \* no transition has started

ASSUME AlarmAssumption ==
  /\ LowLimit \in Int /\ HighLimit \in Int /\ LowLimit <= HighLimit
  /\ Deadband \in Nat
  /\ TimeDelay \in Nat
  /\ Readings \subseteq Int
  /\ MaxGap \in Nat \ {0} /\ MaxTime \in Nat
  /\ Stopped \notin Int

VARIABLES
  state,   \* current_state
  start,   \* transition_start
  clock,   \* the time of the last evaluation
  target,  \* history: the state the last evaluation asked for
  since,   \* history: since when every evaluation has asked for it
  kept     \* history: when a value last justified the current state

alarmVars == <<state, start, clock, target, since, kept>>

States == {"Normal", "HighLimit", "LowLimit"}

\* Faults (here and below): forms of a definition with a bug the code could
\* plausibly have, against which the properties are tried.
NewState_NoDeadband(v) ==
  IF v > HighLimit THEN "HighLimit"
  ELSE IF v < LowLimit THEN "LowLimit"
  ELSE "Normal"

\* The state a value asks for; within the deadband an alarm stays.
NewState(v) ==
  IF v > HighLimit THEN "HighLimit"
  ELSE IF v < LowLimit THEN "LowLimit"
  ELSE IF \/ state = "HighLimit" /\ v > HighLimit - Deadband
          \/ state = "LowLimit" /\ v < LowLimit + Deadband
    THEN state
  ELSE "Normal"

Gate_Restart(now, new) ==
  IF new = state THEN start' = Stopped /\ UNCHANGED state
  ELSE IF start # Stopped /\ now - start >= TimeDelay
    THEN state' = new /\ start' = Stopped
  ELSE start' = now /\ UNCHANGED state

\* The time delay: asking for the current state stops the timer; asking for
\* another starts it, and changes the state once the delay has passed.
Gate(now, new) ==
  LET began == IF start = Stopped THEN now ELSE start
  IN IF new = state THEN start' = Stopped /\ UNCHANGED state
     ELSE IF now - began < TimeDelay THEN start' = began /\ UNCHANGED state
     ELSE state' = new /\ start' = Stopped

\* Reference: the values that justify staying in the current state.
Justifies(v) ==
  CASE state = "Normal"    -> v \in LowLimit..HighLimit
    [] state = "HighLimit" -> v > HighLimit \/ (v > HighLimit - Deadband /\ v >= LowLimit)
    [] state = "LowLimit"  -> v < LowLimit \/ (v < LowLimit + Deadband /\ v <= HighLimit)

Evaluate(v, now) ==
  /\ Gate(now, NewState(v))
  /\ clock' = now
  /\ target' = NewState(v)
  /\ since' = IF NewState(v) = target THEN since ELSE now
  /\ kept' = IF state' # state \/ Justifies(v) THEN now ELSE kept

AlarmInit ==
  /\ state = "Normal"
  /\ start = Stopped
  /\ clock = 0
  /\ target = "Normal"
  /\ since = 0
  /\ kept = 0

AlarmNext == \E v \in Readings, gap \in 1..MaxGap :
          clock + gap <= MaxTime /\ Evaluate(v, clock + gap)

AlarmSpec == AlarmInit /\ [][AlarmNext]_alarmVars

-----------------------------------------------------------------------------
(* Properties.                                                             *)

AlarmTypes ==
  /\ state \in States
  /\ start \in Nat \cup {Stopped}
  /\ clock \in Nat
  /\ target \in States
  /\ since \in 0..clock
  /\ kept \in 0..clock

\* An alarm state is neither missed nor forgotten: once every evaluation for
\* the length of the time delay has asked for a state, it is the current
\* one, whatever timers earlier excursions of the value had started.
AlarmFollows == clock - since >= TimeDelay => state = target

\* The state never changes on a passing excursion: no value has justified
\* the current state, deadband included, for more than the time delay.
NoChatter == [][state' # state => clock' - kept > TimeDelay]_alarmVars

\* The inductive strengthening of both: the timer runs exactly while the
\* value asks for another state, since no later than it first did so and
\* only after the last value that justified the current state.
TimerInv ==
  /\ AlarmTypes
  /\ AlarmFollows
  /\ start # Stopped <=> target # state
  /\ start # Stopped => start <= since /\ kept < start
=============================================================================
