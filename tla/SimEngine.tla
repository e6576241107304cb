----------------------------- MODULE SimEngine -----------------------------
(***************************************************************************)
(* The simulation engine of bacnet-sim-engine: the tick loop of SimEngine  *)
(* with its value models, the object store it writes, and the CovEngine's  *)
(* subscriptions, while BACnet clients, scripts and the REST API write     *)
(* objects and subscribers come and go.                                    *)
(*                                                                         *)
(* A tick visits the objects under their shards' write locks, collects the *)
(* changes, checks each of them against the subscriptions after the locks  *)
(* are released, and now and then sweeps out expired subscriptions.  Every *)
(* object and every subscription is locked on its own, so anyone else can  *)
(* get in between two of them.                                             *)
(***************************************************************************)
EXTENDS BacnetObject, Sequences, FiniteSets

CONSTANTS
  Points,       \* the objects in the store
  KindOf,       \* the kind of each
  Increment,    \* cov_increment of each point that has a value model
  Samples,      \* the values the models produce
  Writes,       \* what others write: records of prop, val and pri
  Subscribers,  \* a subscriber address with its process id
  Requests,     \* what subscribers ask for: records of incr (cov_increment, 0 if
                \* not given), prop (monitored_prop, None for any property), life
                \* (lifetime_secs, None for ever) and last (last_value)
  SweepPeriod,  \* time between two sweeps of the subscriptions
  MaxTime,      \* bound: ticks in a behaviour
  MaxWrites,    \* bound: writes by others
  MaxSubscribes \* bound: subscribe calls

ASSUME EngineAssumption ==
  /\ KindOf \in [Points -> Kinds]
  /\ DOMAIN Increment \subseteq Points
  /\ \A p \in DOMAIN Increment : Increment[p] \in Nat
  /\ Samples \subseteq Nat
  /\ \A w \in Writes : w.val \in [tag : Tags, val : Nat]
  /\ \A r \in Requests : /\ r.incr \in Nat /\ r.last \in Nat
                          /\ r.life \in Nat \cup {None}
  /\ SweepPeriod \in Nat \ {0}
  /\ MaxTime \in Nat /\ MaxWrites \in Nat /\ MaxSubscribes \in Nat

VARIABLES
  store,      \* the objects
  phase,      \* where run() is: idle, tick, notify
  todo,       \* the points this tick has still to visit
  changed,    \* the changes this tick has collected and not yet checked
  visit,      \* the subscribers check_and_notify has still to visit
  notified,   \* what this check_and_notify will return
  covSent,    \* cov_sent of this tick
  lastValue,  \* last_value of each model entry
  subs,       \* the subscriptions
  clock,      \* time, in tick periods
  due,        \* has the ticker fired?
  lastExpire, \* time of the last sweep
  touched,    \* history: the points somebody else has written
  writes,     \* number of writes by others so far
  subscribes  \* number of subscribe calls so far

engineVars == <<phase, todo, changed, visit, notified, covSent, lastValue, lastExpire>>
timeVars == <<clock, due>>
boundVars == <<writes, subscribes>>
vars == <<store, engineVars, subs, timeVars, touched, boundVars>>

Modelled == DOMAIN Increment

Keys == [who : Subscribers, point : Points]

Real(x) == [tag |-> "Real", val |-> x]

Distance(x, y) == IF x < y THEN y - x ELSE x - y

-----------------------------------------------------------------------------
(* The tick loop.                                                          *)

\* The ticker fires once a period; a tick is over before the next is due.
Advance ==
  /\ phase = "idle" /\ ~ due
  /\ clock < MaxTime
  /\ clock' = clock + 1
  /\ due' = TRUE
  /\ UNCHANGED <<store, engineVars, subs, touched, boundVars>>

TickStart ==
  /\ phase = "idle" /\ due
  /\ due' = FALSE
  /\ phase' = "tick"
  /\ todo' = Points
  /\ UNCHANGED <<store, changed, visit, notified, covSent, lastValue, lastExpire, subs,
                 clock, touched, boundVars>>

\* A new model value is a change if it is at least an increment away from
\* the last one that was.
Observe(p, x) ==
  IF Distance(x, lastValue[p]) >= Increment[p]
    THEN /\ lastValue' = [lastValue EXCEPT ![p] = x]
         /\ changed' = Append(changed, [point |-> p, val |-> x])
    ELSE UNCHANGED <<lastValue, changed>>

\* The next value of p's model is forced into the object, and the result of
\* that write ignored.  The tick() of a point object does nothing.
TickObject(p) ==
  /\ phase = "tick" /\ p \in todo
  /\ todo' = todo \ {p}
  /\ IF p \in Modelled
       THEN \E x \in Samples :
              /\ store' = [store EXCEPT ![p] = ForceWrite(@, "PresentValue", Real(x)).obj]
              /\ Observe(p, x)
       ELSE UNCHANGED <<store, lastValue, changed>>
  /\ UNCHANGED <<phase, visit, notified, covSent, lastExpire, subs, timeVars,
                 touched, boundVars>>

\* Faults (here and below): forms of a definition with a bug the code could
\* plausibly have, against which the properties are tried.
CheckStart_Unguarded ==
  /\ phase = "tick" /\ todo = {}
  /\ phase' = "notify"
  /\ visit' = Subscribers
  /\ UNCHANGED <<store, todo, changed, notified, covSent, lastValue, lastExpire, subs, timeVars,
                 touched, boundVars>>

\* check_and_notify of the next change begins.
CheckStart ==
  /\ phase = "tick" /\ todo = {} /\ changed # <<>>
  /\ phase' = "notify"
  /\ visit' = Subscribers
  /\ UNCHANGED <<store, todo, changed, notified, covSent, lastValue, lastExpire, subs, timeVars,
                 touched, boundVars>>

\* Does a change of the present value to x concern subscription s?
Concerns(s) == s # None /\ s.prop \in {None, "PresentValue"}

CheckEntry_Drift(w) ==
  LET c == Head(changed)
      k == [who |-> w, point |-> c.point]
      s == subs[k]
      tell == Concerns(s) /\ Distance(c.val, s.last) >= s.incr
  IN /\ phase = "notify" /\ w \in visit
     /\ visit' = visit \ {w}
     /\ notified' = (notified \/ tell)
     /\ subs' = IF ~ Concerns(s) THEN subs
                ELSE [subs EXCEPT ![k] = [s EXCEPT !.seen = TRUE, !.last = c.val,
                                                   !.told = IF tell THEN c.val ELSE @]]
     /\ UNCHANGED <<store, phase, todo, changed, covSent, lastValue, lastExpire, timeVars,
                    touched, boundVars>>

\* One entry of the iteration of check_and_notify.
CheckEntry(w) ==
  LET c == Head(changed)
      k == [who |-> w, point |-> c.point]
      s == subs[k]
      tell == Concerns(s) /\ Distance(c.val, s.last) >= s.incr
  IN /\ phase = "notify" /\ w \in visit
     /\ visit' = visit \ {w}
     /\ notified' = (notified \/ tell)
     /\ subs' = IF ~ Concerns(s) THEN subs
                ELSE [subs EXCEPT ![k] = [s EXCEPT !.seen = TRUE,
                                                   !.last = IF tell THEN c.val ELSE @,
                                                   !.told = IF tell THEN c.val ELSE @]]
     /\ UNCHANGED <<store, phase, todo, changed, covSent, lastValue, lastExpire, timeVars,
                    touched, boundVars>>

CheckDone ==
  /\ phase = "notify" /\ visit = {}
  /\ phase' = "tick"
  /\ changed' = Tail(changed)
  /\ covSent' = IF notified THEN covSent + 1 ELSE covSent
  /\ notified' = FALSE
  /\ UNCHANGED <<store, todo, visit, lastValue, lastExpire, subs, timeVars,
                 touched, boundVars>>

\* expire_old
Live(s) == s = None \/ s.life = None \/ clock - s.at < s.life

TickEnd_SweepClockAlways ==
  /\ phase = "tick" /\ todo = {} /\ changed = <<>>
  /\ phase' = "idle"
  /\ covSent' = 0
  /\ lastExpire' = clock
  /\ subs' = IF clock - lastExpire >= SweepPeriod
               THEN [k \in Keys |-> IF Live(subs[k]) THEN subs[k] ELSE None] ELSE subs
  /\ UNCHANGED <<store, todo, changed, visit, notified, lastValue, timeVars, touched,
                 boundVars>>

\* The end of the tick: cov_sent is added to cov_notifications_total (and
\* starts again from 0 with the next tick), and a sweep of the subscriptions when
\* the last one is long enough ago.
TickEnd ==
  /\ phase = "tick" /\ todo = {} /\ changed = <<>>
  /\ phase' = "idle"
  /\ covSent' = 0
  /\ IF clock - lastExpire >= SweepPeriod
       THEN /\ subs' = [k \in Keys |-> IF Live(subs[k]) THEN subs[k] ELSE None]
            /\ lastExpire' = clock
       ELSE UNCHANGED <<subs, lastExpire>>
  /\ UNCHANGED <<store, todo, changed, visit, notified, lastValue, timeVars, touched,
                 boundVars>>

-----------------------------------------------------------------------------
(* Everybody else.                                                         *)

\* A client's WriteProperty, or a schedule's output.
ClientWrite(p, w) ==
  /\ writes < MaxWrites
  /\ writes' = writes + 1
  /\ store' = [store EXCEPT ![p] = Write(@, w.prop, w.val, w.pri).obj]
  /\ touched' = touched \cup {p}
  /\ UNCHANGED <<engineVars, subs, timeVars, subscribes>>

\* A scenario script or the REST API.
ForcedWrite(p, w) ==
  /\ writes < MaxWrites
  /\ writes' = writes + 1
  /\ store' = [store EXCEPT ![p] = ForceWrite(@, w.prop, w.val).obj]
  /\ touched' = touched \cup {p}
  /\ UNCHANGED <<engineVars, subs, timeVars, subscribes>>

\* subscribe replaces a subscription of the same key; the caller supplies
\* last_value.  History: no check has seen it, and it was told last_value.
Subscribe(k, r) ==
  /\ subscribes < MaxSubscribes
  /\ subscribes' = subscribes + 1
  /\ subs' = [subs EXCEPT ![k] = [incr |-> r.incr, prop |-> r.prop, life |-> r.life,
                                  last |-> r.last, at |-> clock,
                                  seen |-> FALSE, told |-> r.last]]
  /\ UNCHANGED <<store, engineVars, timeVars, touched, writes>>

Unsubscribe(k) ==
  /\ subs[k] # None
  /\ subs' = [subs EXCEPT ![k] = None]
  /\ UNCHANGED <<store, engineVars, timeVars, touched, boundVars>>

-----------------------------------------------------------------------------
Init ==
  /\ store = [p \in Points |-> NewObject(KindOf[p])]
  /\ phase = "idle"
  /\ todo = {}
  /\ changed = <<>>
  /\ visit = {}
  /\ notified = FALSE
  /\ covSent = 0
  /\ lastValue = [p \in Modelled |-> 0]
  /\ subs = [k \in Keys |-> None]
  /\ clock = 0
  /\ due = TRUE
  /\ lastExpire = 0
  /\ touched = {}
  /\ writes = 0
  /\ subscribes = 0

Next ==
  \/ Advance
  \/ TickStart
  \/ \E p \in Points : TickObject(p)
  \/ CheckStart
  \/ \E w \in Subscribers : CheckEntry(w)
  \/ CheckDone
  \/ TickEnd
  \/ \E p \in Points, w \in Writes : ClientWrite(p, w)
  \/ \E p \in Points, w \in Writes : ForcedWrite(p, w)
  \/ \E k \in Keys, r \in Requests : Subscribe(k, r)
  \/ \E k \in Keys : Unsubscribe(k)

Spec == Init /\ [][Next]_vars

-----------------------------------------------------------------------------
(* Properties.                                                             *)

Subscriptions == [incr : Nat, prop : {r.prop : r \in Requests}, life : Nat \cup {None},
                  last : Nat, at : 0..clock, seen : BOOLEAN, told : Nat]

TypeOK ==
  /\ store \in [Points -> Objects]
  /\ \A p \in Points : store[p].kind = KindOf[p]
  /\ phase \in {"idle", "tick", "notify"}
  /\ todo \subseteq Points
  /\ changed \in Seq([point : Modelled, val : Samples])
  /\ phase = "notify" => changed # <<>>
  /\ visit \subseteq Subscribers
  /\ notified \in BOOLEAN
  /\ covSent \in Nat
  /\ lastValue \in [Modelled -> Nat]
  /\ subs \in [Keys -> Subscriptions \cup {None}]
  /\ clock \in 0..MaxTime
  /\ due \in BOOLEAN
  /\ lastExpire \in 0..clock
  /\ touched \subseteq Points
  /\ writes \in 0..MaxWrites
  /\ subscribes \in 0..MaxSubscribes

\* Between ticks, every subscriber that a check has seen since it subscribed
\* was told a value close to what the object shows: the difference is less
\* than the engine's and the subscription's increments together, however
\* slowly the value drifts and whoever subscribes or leaves while the engine
\* is notifying.  (Objects that somebody else wrote are out of its reach.)
CovAccuracy ==
  phase = "idle" =>
    \A k \in Keys :
      (/\ Concerns(subs[k]) /\ subs[k].seen
       /\ k.point \notin touched
       /\ KindOf[k.point] \in {"AnalogInput", "AnalogOutput", "AnalogValue"})
      => LET error == Distance(Present(store[k.point]), subs[k].told)
         IN error = 0 \/ error < Increment[k.point] + subs[k].incr

\* Between ticks, no subscription is older than its lifetime and the time
\* between two sweeps together.
ExpiryBound ==
  phase = "idle" /\ ~ due =>
    \A k \in Keys : subs[k] # None /\ subs[k].life # None =>
      clock - subs[k].at < subs[k].life + SweepPeriod
=============================================================================
