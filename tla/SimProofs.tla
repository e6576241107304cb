----------------------------- MODULE SimProofs -----------------------------
(***************************************************************************)
(* Theorems about SimEngine: how far a COV subscriber can be behind what   *)
(* an object shows, and how long a subscription can outlive its lifetime,  *)
(* for every set of points, subscribers, increments and lifetimes.         *)
(***************************************************************************)
EXTENDS SimEngine, BacnetObjectProofs

\* The points the property is about: nobody but the engine has written them.
Plain(p) == /\ p \in Modelled
            /\ p \notin touched
            /\ KindOf[p] \in {"AnalogInput", "AnalogOutput", "AnalogValue"}

\* Less than d apart, or the same.
Near(x, y, d) == x = y \/ Distance(x, y) < d

\* A change of k's point waits to be checked against k.
Pending(k) ==
  \E i \in 1..Len(changed) : /\ changed[i].point = k.point
                             /\ i = 1 /\ phase = "notify" => k.who \in visit

\* Between ticks nothing is collected, and every change collected is of a
\* point the tick has visited, and is the last the point's model made.
QueueInv ==
  /\ phase = "idle" => todo = {} /\ changed = <<>>
  /\ \A i \in 1..Len(changed) : /\ changed[i].point \notin todo
                                /\ changed[i].val = lastValue[changed[i].point]

\* A point shows a value near the last change of its model ...
ShownInv ==
  \A p \in Points : Plain(p) => /\ ~ Overruled(store[p])
                                /\ Near(Present(store[p]), lastValue[p], Increment[p])

\* ... and a subscriber was told one near that change, unless the change is
\* still to be checked against its subscription.
ToldInv ==
  \A k \in Keys : subs[k] # None =>
    /\ subs[k].last = subs[k].told
    /\ subs[k].seen => k.point \in Modelled
    /\ subs[k].seen /\ Concerns(subs[k]) =>
         Pending(k) \/ Near(lastValue[k.point], subs[k].told, subs[k].incr)

\* Every subscription was alive at the last sweep or is younger, and between
\* ticks the last sweep is less than a period ago.
SweepInv ==
  /\ phase = "idle" /\ ~ due => clock - lastExpire < SweepPeriod
  /\ \A k \in Keys : subs[k] # None /\ subs[k].life # None =>
       lastExpire <= subs[k].at \/ lastExpire - subs[k].at < subs[k].life

-----------------------------------------------------------------------------
(* Types.                                                                  *)

SubscriptionsAt(n) ==
  [incr : Nat, prop : {r.prop : r \in Requests}, life : Nat \cup {None},
   last : Nat, at : 0..n, seen : BOOLEAN, told : Nat]

Changes == [point : Modelled, val : Samples]

\* The parts of the type invariant.
StoreOK ==
  /\ store \in [Points -> Objects]
  /\ \A p \in Points : store[p].kind = KindOf[p]

LoopOK ==
  /\ phase \in {"idle", "tick", "notify"}
  /\ todo \subseteq Points
  /\ changed \in Seq(Changes)
  /\ phase = "notify" => changed # <<>>
  /\ visit \subseteq Subscribers
  /\ lastValue \in [Modelled -> Nat]

SubsOK ==
  /\ subs \in [Keys -> SubscriptionsAt(clock) \cup {None}]
  /\ clock \in 0..MaxTime
  /\ lastExpire \in 0..clock

CountsOK ==
  /\ notified \in BOOLEAN
  /\ covSent \in Nat
  /\ due \in BOOLEAN
  /\ touched \subseteq Points
  /\ writes \in 0..MaxWrites
  /\ subscribes \in 0..MaxSubscribes

Types == StoreOK /\ LoopOK /\ SubsOK /\ CountsOK

\* The model of a point, or somebody else, writes it.
LEMMA StoreStep ==
  ASSUME StoreOK, [Next]_vars
  PROVE  StoreOK'
<1>1. ASSUME NEW p \in Points, NEW o \in Objects, o.kind = store[p].kind,
             store' = [store EXCEPT ![p] = o]
      PROVE  StoreOK'
  <2>1. store' \in [Points -> Objects]
    BY <1>1 DEF StoreOK
  <2>2. \A q \in Points : store'[q] = IF q = p THEN o ELSE store[q]
    BY <1>1 DEF StoreOK
  <2> QED BY <1>1, <2>1, <2>2 DEF StoreOK
<1>2. \A p \in Points : store[p] \in Objects
  BY DEF StoreOK
<1>3. ASSUME NEW p \in Points, TickObject(p) PROVE StoreOK'
  <2>1. CASE p \in Modelled
    <3>1. PICK x \in Samples :
            store' = [store EXCEPT ![p] = ForceWrite(@, "PresentValue", Real(x)).obj]
      BY <1>3, <2>1 DEF TickObject
    <3>2. Real(x) \in [tag : Tags, val : Nat]
      BY EngineAssumption DEF Real, Tags
    <3>3. /\ ForceWrite(store[p], "PresentValue", Real(x)).obj \in Objects
          /\ ForceWrite(store[p], "PresentValue", Real(x)).obj.kind = store[p].kind
      BY <1>2, <3>2, ForceType
    <3> QED BY <1>1, <3>1, <3>3
  <2>2. CASE p \notin Modelled
    BY <1>3, <2>2 DEF TickObject, StoreOK
  <2> QED BY <2>1, <2>2
<1>4. ASSUME NEW p \in Points, NEW w \in Writes, ClientWrite(p, w) \/ ForcedWrite(p, w)
      PROVE  StoreOK'
  <2>1. w.val \in [tag : Tags, val : Nat]
    BY EngineAssumption
  <2>2. /\ Write(store[p], w.prop, w.val, w.pri).obj \in Objects
        /\ Write(store[p], w.prop, w.val, w.pri).obj.kind = store[p].kind
    BY <1>2, <2>1, WriteType
  <2>3. /\ ForceWrite(store[p], w.prop, w.val).obj \in Objects
        /\ ForceWrite(store[p], w.prop, w.val).obj.kind = store[p].kind
    BY <1>2, <2>1, ForceType
  <2>4. CASE ClientWrite(p, w)
    BY <1>1, <2>2, <2>4 DEF ClientWrite
  <2>5. CASE ForcedWrite(p, w)
    BY <1>1, <2>3, <2>5 DEF ForcedWrite
  <2> QED BY <1>4, <2>4, <2>5
<1>5. CASE UNCHANGED store
  BY <1>5 DEF StoreOK
<1> QED
  BY <1>3, <1>4, <1>5
  DEF Next, Advance, TickStart, CheckStart, CheckEntry, CheckDone, TickEnd, Subscribe,
      Unsubscribe, vars

LEMMA LoopStep ==
  ASSUME LoopOK, [Next]_vars
  PROVE  LoopOK'
<1>1. CASE TickStart
  BY <1>1 DEF TickStart, LoopOK
<1>2. ASSUME NEW p \in Points, TickObject(p) PROVE LoopOK'
  <2>1. phase = "tick" /\ phase' = "tick" /\ todo' \subseteq Points /\ visit' = visit
    BY <1>2 DEF TickObject, LoopOK
  <2>2. CASE UNCHANGED <<lastValue, changed>>
    BY <2>1, <2>2 DEF LoopOK
  <2>3. ASSUME NEW x \in Samples, p \in Modelled,
               lastValue' = [lastValue EXCEPT ![p] = x],
               changed' = Append(changed, [point |-> p, val |-> x])
        PROVE  LoopOK'
    <3>1. [point |-> p, val |-> x] \in Changes
      BY <2>3 DEF Changes
    <3>2. changed' \in Seq(Changes)
      BY <2>3, <3>1 DEF LoopOK
    <3>3. x \in Nat
      BY EngineAssumption
    <3>4. lastValue' \in [Modelled -> Nat]
      <4> HIDE DEF Modelled
      <4> QED BY <2>3, <3>3 DEF LoopOK
    <3> QED BY <2>1, <3>2, <3>4 DEF LoopOK
  <2> QED BY <1>2, <2>2, <2>3 DEF TickObject, Observe
<1>3. CASE CheckStart
  BY <1>3 DEF CheckStart, LoopOK
<1>4. ASSUME NEW w \in Subscribers, CheckEntry(w) PROVE LoopOK'
  BY <1>4 DEF CheckEntry, LoopOK
<1>5. CASE CheckDone
  <2>1. changed' \in Seq(Changes)
    BY <1>5 DEF CheckDone, LoopOK
  <2> QED BY <1>5, <2>1 DEF CheckDone, LoopOK
<1>6. CASE TickEnd
  BY <1>6 DEF TickEnd, LoopOK
<1>7. CASE UNCHANGED <<phase, todo, changed, visit, lastValue>>
  BY <1>7 DEF LoopOK
<1> QED
  BY <1>1, <1>2, <1>3, <1>4, <1>5, <1>6, <1>7
  DEF Next, Advance, ClientWrite, ForcedWrite, Subscribe, Unsubscribe, vars, engineVars

LEMMA CountsStep ==
  ASSUME CountsOK, [Next]_vars
  PROVE  CountsOK'
<1>1. /\ writes < MaxWrites => writes + 1 \in 0..MaxWrites
      /\ subscribes < MaxSubscribes => subscribes + 1 \in 0..MaxSubscribes
  BY EngineAssumption DEF CountsOK
<1>2. CASE UNCHANGED <<touched, boundVars>>
  <2>1. due' \in BOOLEAN
    BY <1>2, Zenon DEF CountsOK, Next, Advance, TickStart, TickObject, CheckStart, CheckEntry,
       CheckDone, TickEnd, ClientWrite, ForcedWrite, Subscribe, Unsubscribe, vars, timeVars
  <2>2. notified' \in BOOLEAN
    <3>1. ASSUME NEW w \in Subscribers, CheckEntry(w) PROVE notified' \in BOOLEAN
      BY <3>1 DEF CheckEntry
    <3>2. CASE CheckDone
      BY <3>2, Zenon DEF CheckDone
    <3>3. CASE ~ CheckDone /\ ~ \E w \in Subscribers : CheckEntry(w)
      <4>1. notified' = notified
        BY <3>3
        DEF Next, Advance, TickStart, TickObject, CheckStart, TickEnd, ClientWrite,
            ForcedWrite, Subscribe, Unsubscribe, vars, engineVars
      <4> QED BY <4>1, Zenon DEF CountsOK
    <3> QED BY <3>1, <3>2, <3>3, Zenon
  <2>3. covSent' \in Nat
    <3>1. CheckDone => covSent' = covSent + 1 \/ covSent' = covSent
      BY Zenon DEF CheckDone
    <3>2. ~ CheckDone => covSent' = 0 \/ covSent' = covSent
      BY DEF Next, Advance, TickStart, TickObject, CheckStart, CheckEntry, TickEnd, ClientWrite,
             ForcedWrite, Subscribe, Unsubscribe, vars, engineVars
    <3> QED BY <3>1, <3>2 DEF CountsOK
  <2> QED BY <1>2, <2>1, <2>2, <2>3 DEF CountsOK, boundVars
<1>3. ASSUME NEW p \in Points, NEW w \in Writes, ClientWrite(p, w) \/ ForcedWrite(p, w)
      PROVE  CountsOK'
  BY <1>1, <1>3 DEF ClientWrite, ForcedWrite, CountsOK, engineVars, timeVars
<1>4. ASSUME NEW k \in Keys, NEW r \in Requests, Subscribe(k, r) PROVE CountsOK'
  BY <1>1, <1>4 DEF Subscribe, CountsOK, engineVars, timeVars
<1> QED
  BY <1>2, <1>3, <1>4
  DEF Next, Advance, TickStart, TickObject, CheckStart, CheckEntry, CheckDone, TickEnd,
      Unsubscribe, vars

-----------------------------------------------------------------------------
(* Subscriptions.                                                          *)

\* A subscription that a change to x has been checked against.
Checked(s, x) ==
  LET tell == Distance(x, s.last) >= s.incr
  IN [s EXCEPT !.seen = TRUE, !.last = IF tell THEN x ELSE @, !.told = IF tell THEN x ELSE @]

\* A check compares the value with the last one told, so that the subscriber
\* was told a value near x when it is over.
LEMMA CheckedFacts ==
  ASSUME NEW n \in Nat, NEW s \in SubscriptionsAt(n), NEW x \in Nat
  PROVE  LET c == Checked(s, x)
         IN /\ c \in SubscriptionsAt(n)
            /\ c.incr = s.incr /\ c.prop = s.prop /\ c.life = s.life /\ c.at = s.at
            /\ s.last = s.told => c.last = c.told /\ Near(x, c.told, c.incr)
<1> DEFINE tell == Distance(x, s.last) >= s.incr
           l == IF tell THEN x ELSE s.last
           t == IF tell THEN x ELSE s.told
           c == Checked(s, x)
<1>1. /\ s.incr \in Nat /\ s.last \in Nat /\ s.told \in Nat /\ s.at \in 0..n
      /\ s.life \in Nat \cup {None} /\ s.prop \in {r.prop : r \in Requests}
  BY DEF SubscriptionsAt
<1>2. c = [incr |-> s.incr, prop |-> s.prop, life |-> s.life, last |-> l, at |-> s.at,
           seen |-> TRUE, told |-> t]
  <2>1. c = [s EXCEPT !.seen = TRUE, !.last = l, !.told = t]
    BY DEF Checked, SubscriptionsAt
  <2> HIDE DEF l, t, c
  <2> QED BY <2>1 DEF SubscriptionsAt
<1>3. l \in Nat /\ t \in Nat
  BY <1>1
<1>4. s.last = s.told => l = t /\ Near(x, t, s.incr)
  BY <1>1 DEF Near, Distance
<1> HIDE DEF l, t, c
<1>5. c \in SubscriptionsAt(n)
  <2> DEFINE P == {r.prop : r \in Requests}
  <2>1. s.prop \in P
    BY <1>1
  <2> HIDE DEF P
  <2>2. c \in [incr : Nat, prop : P, life : Nat \cup {None}, last : Nat, at : 0..n,
               seen : BOOLEAN, told : Nat]
    BY <1>1, <1>2, <1>3, <2>1
  <2> QED BY <2>2 DEF SubscriptionsAt, P
<1>6. /\ c.incr = s.incr /\ c.prop = s.prop /\ c.life = s.life /\ c.at = s.at
      /\ c.last = l /\ c.told = t
  BY <1>2
<1> QED BY <1>4, <1>5, <1>6, Zenon DEF c

\* One entry of check_and_notify changes the subscription of one key.
LEMMA CheckEffect ==
  ASSUME LoopOK, SubsOK, NEW w \in Subscribers, CheckEntry(w)
  PROVE  LET c == Head(changed)
             k == [who |-> w, point |-> c.point]
         IN /\ k \in Keys /\ c \in Changes /\ c.point \in Modelled /\ c.val \in Nat
            /\ Len(changed) \in Nat /\ Len(changed) > 0 /\ c = changed[1]
            /\ Concerns(subs[k]) => subs[k] \in SubscriptionsAt(clock)
            /\ subs' \in [Keys -> SubscriptionsAt(clock) \cup {None}]
            /\ \A j \in Keys : subs'[j] = IF j = k /\ Concerns(subs[k])
                                            THEN Checked(subs[k], c.val) ELSE subs[j]
<1> DEFINE c == Head(changed)
           k == [who |-> w, point |-> c.point]
           s == subs[k]
<1>1. changed \in Seq(Changes) /\ changed # <<>>
  BY DEF CheckEntry, LoopOK
<1>2. c \in Changes /\ Len(changed) \in Nat /\ Len(changed) > 0 /\ c = changed[1]
  BY <1>1
<1>3. c.point \in Modelled /\ c.val \in Nat /\ c.point \in Points
  BY <1>2, EngineAssumption DEF Changes, Modelled
<1>4. k \in Keys
  BY <1>3 DEF Keys
<1>5. Concerns(s) => s \in SubscriptionsAt(clock)
  <2> HIDE DEF k
  <2> QED BY <1>4 DEF SubsOK, Concerns
<1>6. clock \in Nat
  BY EngineAssumption DEF SubsOK
<1>7. Concerns(s) => Checked(s, c.val) \in SubscriptionsAt(clock)
  BY <1>3, <1>5, <1>6, CheckedFacts, Zenon
<1>8. subs' = IF ~ Concerns(s) THEN subs ELSE [subs EXCEPT ![k] = Checked(s, c.val)]
  BY DEF CheckEntry, Checked
<1> HIDE DEF c, k, s, Keys
<1>9. subs \in [Keys -> SubscriptionsAt(clock) \cup {None}]
  BY DEF SubsOK
<1>10. CASE Concerns(s)
  <2>1. subs' = [subs EXCEPT ![k] = Checked(s, c.val)]
    BY <1>8, <1>10
  <2>2. /\ subs' \in [Keys -> SubscriptionsAt(clock) \cup {None}]
        /\ \A j \in Keys : subs'[j] = IF j = k THEN Checked(s, c.val) ELSE subs[j]
    BY <1>4, <1>7, <1>9, <1>10, <2>1
  <2> QED BY <1>2, <1>3, <1>4, <1>5, <1>10, <2>2 DEF c, k, s
<1>11. CASE ~ Concerns(s)
  <2>1. subs' = subs
    BY <1>8, <1>11
  <2> QED BY <1>2, <1>3, <1>4, <1>5, <1>9, <1>11, <2>1 DEF c, k, s
<1> QED BY <1>10, <1>11

\* What subscribe stores.
NewSub(r) == [incr |-> r.incr, prop |-> r.prop, life |-> r.life, last |-> r.last, at |-> clock,
              seen |-> FALSE, told |-> r.last]

LEMMA SubscribeEffect ==
  ASSUME SubsOK, NEW k \in Keys, NEW r \in Requests, Subscribe(k, r)
  PROVE  /\ subs' \in [Keys -> SubscriptionsAt(clock) \cup {None}]
         /\ \A j \in Keys : subs'[j] = IF j = k THEN NewSub(r) ELSE subs[j]
<1>1. subs' = [subs EXCEPT ![k] = NewSub(r)]
  BY DEF Subscribe, NewSub
<1>2. clock \in 0..clock
  BY EngineAssumption DEF SubsOK
<1>3. NewSub(r) \in SubscriptionsAt(clock)
  <2> DEFINE P == {q.prop : q \in Requests}
  <2>1. r.prop \in P /\ r.incr \in Nat /\ r.last \in Nat /\ r.life \in Nat \cup {None}
    BY EngineAssumption
  <2> HIDE DEF P
  <2>2. NewSub(r) \in [incr : Nat, prop : P, life : Nat \cup {None}, last : Nat, at : 0..clock,
                       seen : BOOLEAN, told : Nat]
    BY <1>2, <2>1 DEF NewSub
  <2> QED BY <2>2 DEF SubscriptionsAt, P
<1> HIDE DEF NewSub, Keys
<1> QED BY <1>1, <1>3 DEF SubsOK

LEMMA UnsubscribeEffect ==
  ASSUME SubsOK, NEW k \in Keys, Unsubscribe(k)
  PROVE  /\ subs' \in [Keys -> SubscriptionsAt(clock) \cup {None}]
         /\ \A j \in Keys : subs'[j] = IF j = k THEN None ELSE subs[j]
BY DEF Unsubscribe, SubsOK

\* A sweep of the subscriptions, if it is time for one.
LEMMA EndEffect ==
  ASSUME SubsOK, TickEnd
  PROVE  /\ subs' \in [Keys -> SubscriptionsAt(clock) \cup {None}]
         /\ \/ /\ clock - lastExpire >= SweepPeriod
               /\ lastExpire' = clock
               /\ \A k \in Keys : \/ subs'[k] = None
                                  \/ subs'[k] = subs[k] /\ Live(subs[k])
            \/ /\ ~ (clock - lastExpire >= SweepPeriod)
               /\ lastExpire' = lastExpire
               /\ subs' = subs
<1>1. CASE clock - lastExpire >= SweepPeriod
  <2>1. lastExpire' = clock
        /\ subs' = [k \in Keys |-> IF Live(subs[k]) THEN subs[k] ELSE None]
    BY <1>1 DEF TickEnd
  <2> HIDE DEF Keys
  <2>2. \A k \in Keys : subs[k] \in SubscriptionsAt(clock) \cup {None}
    BY DEF SubsOK
  <2>3. \A k \in Keys : \/ subs'[k] = None
                        \/ subs'[k] = subs[k] /\ Live(subs[k])
    BY <2>1
  <2>4. subs' \in [Keys -> SubscriptionsAt(clock) \cup {None}]
    BY <2>1, <2>2
  <2> QED BY <1>1, <2>1, <2>3, <2>4
<1>2. CASE ~ (clock - lastExpire >= SweepPeriod)
  BY <1>2 DEF TickEnd, SubsOK
<1> QED BY <1>1, <1>2

LEMMA SubsStep ==
  ASSUME LoopOK, SubsOK, [Next]_vars
  PROVE  SubsOK'
<1>1. clock \in Nat /\ lastExpire \in Nat
  BY EngineAssumption DEF SubsOK
<1>2. CASE Advance
  <2>1. clock' = clock + 1 /\ clock < MaxTime /\ UNCHANGED <<subs, lastExpire>>
    BY <1>2 DEF Advance, engineVars
  <2>2. \A s \in SubscriptionsAt(clock) : s \in SubscriptionsAt(clock')
    <3> DEFINE P == {q.prop : q \in Requests}
    <3> HIDE DEF P
    <3>1. \A i \in 0..clock : i \in 0..clock'
      BY <1>1, <2>1
    <3> QED BY <3>1 DEF SubscriptionsAt
  <2>3. subs' \in [Keys -> SubscriptionsAt(clock') \cup {None}]
    <3> HIDE DEF Keys, SubscriptionsAt
    <3> QED BY <2>1, <2>2 DEF SubsOK
  <2> QED BY <1>1, <2>1, <2>3, EngineAssumption DEF SubsOK
<1>3. ASSUME clock' = clock, lastExpire' \in 0..clock,
             subs' \in [Keys -> SubscriptionsAt(clock) \cup {None}]
      PROVE  SubsOK'
  BY <1>3 DEF SubsOK, SubscriptionsAt
<1>4. ASSUME NEW w \in Subscribers, CheckEntry(w) PROVE SubsOK'
  BY <1>3, <1>4, CheckEffect DEF CheckEntry, timeVars, SubsOK
<1>5. ASSUME NEW k \in Keys, NEW r \in Requests, Subscribe(k, r) PROVE SubsOK'
  BY <1>3, <1>5, SubscribeEffect DEF Subscribe, timeVars, engineVars, SubsOK
<1>6. ASSUME NEW k \in Keys, Unsubscribe(k) PROVE SubsOK'
  BY <1>3, <1>6, UnsubscribeEffect DEF Unsubscribe, timeVars, engineVars, SubsOK
<1>7. CASE TickEnd
  <2>1. clock' = clock
    BY <1>7 DEF TickEnd, timeVars
  <2>2. lastExpire' \in 0..clock
    BY <1>1, <1>7, EndEffect DEF SubsOK
  <2> QED BY <1>3, <1>7, <2>1, <2>2, EndEffect
<1>8. CASE UNCHANGED <<subs, clock, lastExpire>>
  BY <1>3, <1>8 DEF SubsOK
<1>9. CASE TickStart \/ CheckStart \/ CheckDone \/ UNCHANGED vars
  BY <1>8, <1>9 DEF TickStart, CheckStart, CheckDone, vars, engineVars, timeVars
<1>10. ASSUME NEW p \in Points, TickObject(p) PROVE SubsOK'
  BY <1>8, <1>10 DEF TickObject, timeVars
<1>11. ASSUME NEW p \in Points, NEW w \in Writes, ClientWrite(p, w) \/ ForcedWrite(p, w)
       PROVE  SubsOK'
  BY <1>8, <1>11 DEF ClientWrite, ForcedWrite, engineVars, timeVars
<1> QED BY <1>2, <1>4, <1>5, <1>6, <1>7, <1>9, <1>10, <1>11 DEF Next

LEMMA TypesInit == Init => Types
<1> SUFFICES ASSUME Init PROVE Types
  OBVIOUS
<1>1. StoreOK
  <2>1. \A p \in Points : NewObject(KindOf[p]) \in Objects /\ NewObject(KindOf[p]).kind = KindOf[p]
    BY NewObjectType, EngineAssumption
  <2> QED BY <2>1 DEF Init, StoreOK
<1>2. LoopOK
  BY DEF Init, LoopOK
<1>3. SubsOK
  BY EngineAssumption DEF Init, SubsOK
<1>4. CountsOK
  <2>1. notified \in BOOLEAN /\ due \in BOOLEAN
    BY Zenon DEF Init
  <2> QED BY <2>1, EngineAssumption DEF Init, CountsOK
<1> QED BY <1>1, <1>2, <1>3, <1>4 DEF Types

LEMMA TypesInvariance == Spec => []Types
<1>1. Types /\ [Next]_vars => Types'
  BY StoreStep, LoopStep, SubsStep, CountsStep DEF Types
<1> QED BY TypesInit, <1>1, PTL DEF Spec

\* The engine, the store and the subscriptions keep their types, and a change
\* is only ever checked against the subscriptions while there is one.
THEOREM SimTypes == Spec => []TypeOK
<1>1. Types => TypeOK
  BY DEF Types, StoreOK, LoopOK, SubsOK, CountsOK, TypeOK, Changes, SubscriptionsAt, Subscriptions
<1> QED BY <1>1, TypesInvariance, PTL

-----------------------------------------------------------------------------
(* Expiry.                                                                 *)

LEMMA SweepStep ==
  ASSUME Types, SweepInv, [Next]_vars
  PROVE  SweepInv'
<1> DEFINE Young(s) == s # None /\ s.life # None =>
                         lastExpire <= s.at \/ lastExpire - s.at < s.life
<1>1. /\ clock \in Nat /\ lastExpire \in Nat /\ lastExpire <= clock
      /\ LoopOK /\ SubsOK
  BY EngineAssumption DEF Types, SubsOK
<1>2. \A k \in Keys : Young(subs[k])
  BY DEF SweepInv
<1>3. ASSUME lastExpire' = lastExpire, \A k \in Keys : Young(subs'[k]),
             phase' = "idle" /\ ~ due' => phase = "idle" /\ ~ due /\ clock' = clock
      PROVE  SweepInv'
  BY <1>3 DEF SweepInv
<1>4. CASE UNCHANGED subs /\ lastExpire' = lastExpire
           /\ (phase' = "idle" /\ ~ due' => phase = "idle" /\ ~ due /\ clock' = clock)
  BY <1>2, <1>3, <1>4
<1>5. CASE TickEnd
  <2>1. clock' = clock /\ phase' = "idle"
    BY <1>5 DEF TickEnd, timeVars
  <2>2. CASE /\ clock - lastExpire >= SweepPeriod
             /\ lastExpire' = clock
             /\ \A k \in Keys : \/ subs'[k] = None
                                \/ subs'[k] = subs[k] /\ Live(subs[k])
    <3>1. clock' - lastExpire' < SweepPeriod
      BY <1>1, <2>1, <2>2, EngineAssumption
    <3>2. \A k \in Keys : subs'[k] # None /\ subs'[k].life # None =>
            clock - subs'[k].at < subs'[k].life
      BY <2>2 DEF Live
    <3> QED BY <2>2, <3>1, <3>2 DEF SweepInv
  <2>3. CASE /\ ~ (clock - lastExpire >= SweepPeriod)
             /\ lastExpire' = lastExpire
             /\ subs' = subs
    <3>1. clock' - lastExpire' < SweepPeriod
      BY <1>1, <2>1, <2>3, EngineAssumption
    <3> QED BY <2>3, <3>1 DEF SweepInv
  <2> QED BY <1>1, <1>5, <2>2, <2>3, EndEffect
<1>6. ASSUME NEW w \in Subscribers, CheckEntry(w) PROVE SweepInv'
  <2> DEFINE c == Head(changed)
             k == [who |-> w, point |-> c.point]
  <2>1. /\ k \in Keys /\ c.val \in Nat
        /\ Concerns(subs[k]) => subs[k] \in SubscriptionsAt(clock)
        /\ \A j \in Keys : subs'[j] = IF j = k /\ Concerns(subs[k])
                                        THEN Checked(subs[k], c.val) ELSE subs[j]
    BY <1>1, <1>6, CheckEffect
  <2>2. phase' = "notify" /\ lastExpire' = lastExpire
    BY <1>6 DEF CheckEntry
  <2> HIDE DEF c, k
  <2>3. Concerns(subs[k]) => Young(Checked(subs[k], c.val))
    <3> SUFFICES ASSUME Concerns(subs[k]) PROVE Young(Checked(subs[k], c.val))
      OBVIOUS
    <3>1. /\ Checked(subs[k], c.val).life = subs[k].life
          /\ Checked(subs[k], c.val).at = subs[k].at
      BY <1>1, <2>1, CheckedFacts
    <3>2. Young(subs[k]) /\ subs[k] # None
      BY <1>2, <2>1 DEF Concerns
    <3> QED BY <3>1, <3>2
  <2>4. \A j \in Keys : Young(subs'[j])
    <3> HIDE DEF Young
    <3> QED BY <1>2, <2>1, <2>3
  <2> QED BY <1>3, <2>2, <2>4
<1>7. ASSUME NEW k \in Keys, NEW r \in Requests, Subscribe(k, r) PROVE SweepInv'
  <2>1. \A j \in Keys : subs'[j] = IF j = k THEN NewSub(r) ELSE subs[j]
    BY <1>1, <1>7, SubscribeEffect
  <2>2. Young(NewSub(r))
    BY <1>1 DEF NewSub
  <2>3. \A j \in Keys : Young(subs'[j])
    <3> HIDE DEF Young
    <3> QED BY <1>2, <2>1, <2>2
  <2> QED BY <1>3, <1>7, <2>3 DEF Subscribe, engineVars, timeVars
<1>8. ASSUME NEW k \in Keys, Unsubscribe(k) PROVE SweepInv'
  <2>1. \A j \in Keys : subs'[j] = IF j = k THEN None ELSE subs[j]
    BY <1>1, <1>8, UnsubscribeEffect
  <2>2. Young(None)
    OBVIOUS
  <2>3. \A j \in Keys : Young(subs'[j])
    <3> HIDE DEF Young
    <3> QED BY <1>2, <2>1, <2>2
  <2> QED BY <1>3, <1>8, <2>3 DEF Unsubscribe, engineVars, timeVars
<1>9. CASE Advance \/ TickStart \/ CheckStart \/ CheckDone \/ UNCHANGED vars
  BY <1>4, <1>9 DEF Advance, TickStart, CheckStart, CheckDone, vars, engineVars, timeVars
<1>10. ASSUME NEW p \in Points, TickObject(p) PROVE SweepInv'
  BY <1>4, <1>10 DEF TickObject, timeVars
<1>11. ASSUME NEW p \in Points, NEW w \in Writes, ClientWrite(p, w) \/ ForcedWrite(p, w)
       PROVE  SweepInv'
  BY <1>4, <1>11 DEF ClientWrite, ForcedWrite, engineVars, timeVars
<1> QED BY <1>5, <1>6, <1>7, <1>8, <1>9, <1>10, <1>11 DEF Next

\* Between ticks no subscription has outlived its lifetime by a sweep period
\* or more, whenever it was made or renewed (run, expire_old).
THEOREM ExpiryIsBounded == Spec => []ExpiryBound
<1>1. Init => SweepInv
  BY DEF Init, SweepInv
<1>2. Types /\ SweepInv /\ [Next]_vars => SweepInv'
  BY SweepStep
<1>3. Types /\ SweepInv => ExpiryBound
  <2> SUFFICES ASSUME Types, SweepInv, phase = "idle", ~ due,
                      NEW k \in Keys, subs[k] # None, subs[k].life # None
               PROVE  clock - subs[k].at < subs[k].life + SweepPeriod
    BY DEF ExpiryBound
  <2>1. /\ clock \in Nat /\ lastExpire \in Nat /\ SweepPeriod \in Nat \ {0}
        /\ subs[k] \in SubscriptionsAt(clock)
    BY EngineAssumption DEF Types, SubsOK
  <2>2. subs[k].at \in Nat /\ subs[k].life \in Nat
    BY <2>1 DEF SubscriptionsAt
  <2>3. clock - lastExpire < SweepPeriod
    BY DEF SweepInv
  <2>4. lastExpire <= subs[k].at \/ lastExpire - subs[k].at < subs[k].life
    BY DEF SweepInv
  <2> QED BY <2>1, <2>2, <2>3, <2>4
<1> QED BY <1>1, <1>2, <1>3, TypesInvariance, PTL DEF Spec

-----------------------------------------------------------------------------
(* The accuracy of notifications.                                          *)

\* What a visit of a tick does to the changes.
LEMMA VisitEffect ==
  ASSUME LoopOK, NEW p \in Points, TickObject(p)
  PROVE  /\ phase = "tick" /\ phase' = "tick" /\ p \in todo /\ todo' = todo \ {p}
         /\ subs' = subs /\ touched' = touched
         /\ \/ /\ changed' = changed /\ lastValue' = lastValue
               /\ p \notin Modelled /\ store' = store
            \/ \E x \in Samples :
                 /\ p \in Modelled /\ x \in Nat
                 /\ store' = [store EXCEPT ![p] = ForceWrite(@, "PresentValue", Real(x)).obj]
                 /\ \/ /\ changed' = changed /\ lastValue' = lastValue
                       /\ ~ (Distance(x, lastValue[p]) >= Increment[p])
                    \/ /\ lastValue' = [lastValue EXCEPT ![p] = x]
                       /\ changed' = Append(changed, [point |-> p, val |-> x])
<1>1. \A x \in Samples : x \in Nat
  BY EngineAssumption
<1>2. CASE p \in Modelled
  <2>1. PICK x \in Samples :
          /\ store' = [store EXCEPT ![p] = ForceWrite(@, "PresentValue", Real(x)).obj]
          /\ Observe(p, x)
    BY <1>2 DEF TickObject
  <2>2. \/ /\ changed' = changed /\ lastValue' = lastValue
           /\ ~ (Distance(x, lastValue[p]) >= Increment[p])
        \/ /\ lastValue' = [lastValue EXCEPT ![p] = x]
           /\ changed' = Append(changed, [point |-> p, val |-> x])
    BY <2>1 DEF Observe
  <2> QED BY <1>1, <1>2, <2>1, <2>2 DEF TickObject
<1>3. CASE p \notin Modelled
  BY <1>3 DEF TickObject
<1> QED BY <1>2, <1>3

LEMMA QueueStep ==
  ASSUME LoopOK, QueueInv, [Next]_vars
  PROVE  QueueInv'
<1>1. changed \in Seq(Changes) /\ Len(changed) \in Nat
  BY DEF LoopOK
<1>2. \A i \in 1..Len(changed) : changed[i] \in Changes
  BY <1>1
<1>3. ASSUME NEW p \in Points, TickObject(p) PROVE QueueInv'
  <2>1. phase' = "tick" /\ p \in todo /\ todo' = todo \ {p}
    BY <1>3, VisitEffect
  <2>2. CASE changed' = changed /\ lastValue' = lastValue
    BY <2>1, <2>2 DEF QueueInv
  <2>3. ASSUME NEW x \in Samples, p \in Modelled,
               lastValue' = [lastValue EXCEPT ![p] = x],
               changed' = Append(changed, [point |-> p, val |-> x])
        PROVE  QueueInv'
    <3>1. \A q \in Modelled : lastValue'[q] = IF q = p THEN x ELSE lastValue[q]
      <4> HIDE DEF Modelled
      <4> QED BY <2>3 DEF LoopOK
    <3>2. Len(changed') = Len(changed) + 1
          /\ changed'[Len(changed) + 1] = [point |-> p, val |-> x]
          /\ \A i \in 1..Len(changed) : changed'[i] = changed[i]
      BY <1>1, <2>3
    <3>3. ASSUME NEW i \in 1..Len(changed')
          PROVE  changed'[i].point \notin todo' /\ changed'[i].val = lastValue'[changed'[i].point]
      <4>1. CASE i = Len(changed) + 1
        <5>1. changed'[i].point = p /\ changed'[i].val = x
          BY <3>2, <4>1
        <5> QED BY <2>1, <2>3, <3>1, <5>1
      <4>2. CASE i \in 1..Len(changed)
        <5>1. changed'[i] = changed[i] /\ changed[i].point \in Modelled
          BY <1>2, <3>2, <4>2 DEF Changes
        <5>2. changed[i].point \notin todo /\ changed[i].val = lastValue[changed[i].point]
          BY <4>2 DEF QueueInv
        <5> QED BY <2>1, <3>1, <5>1, <5>2
      <4> QED BY <1>1, <3>2, <4>1, <4>2
    <3> QED BY <2>1, <3>3 DEF QueueInv
  <2> QED BY <1>3, <2>2, <2>3, VisitEffect
<1>4. CASE CheckDone
  <2>1. changed # <<>> /\ changed' = Tail(changed) /\ phase' = "tick"
        /\ UNCHANGED <<todo, lastValue>>
    BY <1>4 DEF CheckDone, LoopOK
  <2>2. Len(changed') = Len(changed) - 1
        /\ \A i \in 1..Len(changed') : changed'[i] = changed[i + 1] /\ i + 1 \in 1..Len(changed)
    BY <1>1, <2>1
  <2> QED BY <2>1, <2>2 DEF QueueInv
<1>5. CASE TickStart
  <2>1. changed = <<>> /\ changed' = changed /\ phase' = "tick"
    BY <1>5 DEF TickStart, QueueInv
  <2> QED BY <2>1 DEF QueueInv
<1>6. CASE TickEnd
  BY <1>6 DEF TickEnd, QueueInv
<1>7. CASE CheckStart
  BY <1>7 DEF CheckStart, QueueInv
<1>8. CASE UNCHANGED <<phase, todo, changed, lastValue>>
  BY <1>8 DEF QueueInv
<1>9. ASSUME NEW w \in Subscribers, CheckEntry(w) PROVE QueueInv'
  BY <1>8, <1>9 DEF CheckEntry
<1> QED
  BY <1>3, <1>4, <1>5, <1>6, <1>7, <1>8, <1>9
  DEF Next, Advance, ClientWrite, ForcedWrite, Subscribe, Unsubscribe, vars, engineVars

\* A value forced into a plain point shows, and leaves it without a command
\* of a higher priority.
LEMMA ForcedShows ==
  ASSUME NEW o \in Objects, o.kind \in {"AnalogInput", "AnalogOutput", "AnalogValue"},
         ~ Overruled(o), NEW x \in Nat
  PROVE  LET f == ForceWrite(o, "PresentValue", Real(x)).obj
         IN Present(f) = x /\ ~ Overruled(f)
<1> DEFINE w == ForceWrite(o, "PresentValue", Real(x))
<1>1. Real(x) \in [tag : Tags, val : Nat] /\ Real(x).tag # "Null"
  BY DEF Real, Tags
<1>2. Fits(o.kind, Real(x)) /\ Stored(o.kind, Real(x)) = x
  BY DEF Fits, Takes, AsF32, Stored, Binaries, Real
<1>3. Shape(o)
  BY ObjectShape
<1>4. Present(w.obj) = Stored(o.kind, Real(x))
  BY <1>1, <1>2, <1>3, ForceApplies, Zenon
<1>5. Effect(o, "PresentValue", Real(x), None, w)
  BY <1>1, <1>3, ForceEffect, Zenon
<1>6. w.obj.kind = o.kind
  BY <1>1, ForceType
<1> HIDE DEF w
<1>7. \A p \in 1..NumPriorities - 1 : w.obj.slots[p] = o.slots[p]
  BY <1>5, LowestOnly
<1>8. ~ Overruled(w.obj)
  BY <1>6, <1>7, Zenon DEF Overruled
<1> QED BY <1>2, <1>4, <1>8, Zenon DEF w

LEMMA ShownStep ==
  ASSUME StoreOK, LoopOK, ShownInv, [Next]_vars
  PROVE  ShownInv'
<1>1. \A p \in Points : store[p] \in Objects /\ store[p].kind = KindOf[p]
  BY DEF StoreOK
<1>2. ASSUME NEW p \in Points, TickObject(p) PROVE ShownInv'
  <2> SUFFICES ASSUME NEW q \in Points, Plain(q)'
               PROVE  ~ Overruled(store'[q]) /\ Near(Present(store'[q]), lastValue'[q], Increment[q])
    BY DEF ShownInv
  <2>1. Plain(q) /\ q \in Modelled
    BY <1>2, VisitEffect DEF Plain
  <2>2. ~ Overruled(store[q]) /\ Near(Present(store[q]), lastValue[q], Increment[q])
    BY <2>1 DEF ShownInv
  <2>3. CASE store'[q] = store[q] /\ lastValue'[q] = lastValue[q]
    BY <2>2, <2>3
  <2>4. ASSUME NEW x \in Samples, p \in Modelled, x \in Nat,
               store' = [store EXCEPT ![p] = ForceWrite(@, "PresentValue", Real(x)).obj],
               \/ /\ lastValue' = lastValue
                  /\ ~ (Distance(x, lastValue[p]) >= Increment[p])
               \/ lastValue' = [lastValue EXCEPT ![p] = x]
        PROVE  ~ Overruled(store'[q]) /\ Near(Present(store'[q]), lastValue'[q], Increment[q])
    <3>1. CASE q # p
      <4>1. store'[q] = store[q]
        BY <2>4, <3>1 DEF StoreOK
      <4>2. lastValue'[q] = lastValue[q]
        <5> HIDE DEF Modelled
        <5> QED BY <2>1, <2>4, <3>1 DEF LoopOK
      <4> QED BY <2>3, <4>1, <4>2
    <3>2. CASE q = p
      <4>1. store'[p] = ForceWrite(store[p], "PresentValue", Real(x)).obj
        BY <2>4 DEF StoreOK
      <4>2. Present(store'[p]) = x /\ ~ Overruled(store'[p])
        BY <1>1, <2>1, <2>2, <2>4, <3>2, <4>1, ForcedShows DEF Plain
      <4>3. lastValue[p] \in Nat /\ Increment[p] \in Nat
        BY <2>4, EngineAssumption DEF LoopOK, Modelled
      <4>4. Near(x, lastValue'[p], Increment[p])
        <5>1. CASE lastValue' = [lastValue EXCEPT ![p] = x]
          <6>1. lastValue'[p] = x
            <7> HIDE DEF Modelled
            <7> QED BY <2>4, <5>1 DEF LoopOK
          <6> QED BY <6>1 DEF Near
        <5>2. CASE lastValue' = lastValue /\ ~ (Distance(x, lastValue[p]) >= Increment[p])
          BY <2>4, <4>3, <5>2 DEF Near, Distance
        <5> QED BY <2>4, <5>1, <5>2
      <4> QED BY <3>2, <4>2, <4>4
    <3> QED BY <3>1, <3>2
  <2> QED BY <1>2, <2>3, <2>4, VisitEffect
<1>3. ASSUME NEW p \in Points, NEW w \in Writes, ClientWrite(p, w) \/ ForcedWrite(p, w)
      PROVE  ShownInv'
  <2>1. /\ touched' = touched \cup {p} /\ lastValue' = lastValue
        /\ \A q \in Points \ {p} : store'[q] = store[q]
    BY <1>3 DEF ClientWrite, ForcedWrite, engineVars, StoreOK
  <2>2. \A q \in Points : Plain(q)' => Plain(q) /\ q # p
    BY <2>1 DEF Plain
  <2> QED BY <2>1, <2>2 DEF ShownInv
<1>4. CASE UNCHANGED <<store, lastValue, touched>>
  BY <1>4 DEF ShownInv, Plain
<1>5. CASE Advance \/ TickStart \/ CheckStart \/ CheckDone \/ TickEnd \/ UNCHANGED vars
  BY <1>4, <1>5 DEF Advance, TickStart, CheckStart, CheckDone, TickEnd, vars, engineVars
<1>6. ASSUME NEW w \in Subscribers, CheckEntry(w) PROVE ShownInv'
  BY <1>4, <1>6 DEF CheckEntry
<1>7. CASE \E k \in Keys, r \in Requests : Subscribe(k, r) \/ Unsubscribe(k)
  BY <1>4, <1>7 DEF Subscribe, Unsubscribe, engineVars
<1> QED BY <1>2, <1>3, <1>4, <1>5, <1>6, <1>7 DEF Next, Unsubscribe, engineVars

\* What ToldInv says of one key.
Told(k) ==
  subs[k] # None =>
    /\ subs[k].last = subs[k].told
    /\ subs[k].seen => k.point \in Modelled
    /\ subs[k].seen /\ Concerns(subs[k]) =>
         Pending(k) \/ Near(lastValue[k.point], subs[k].told, subs[k].incr)

LEMMA ToldStep ==
  ASSUME Types, QueueInv, ToldInv, [Next]_vars
  PROVE  ToldInv'
<1>1. StoreOK /\ LoopOK /\ SubsOK
  BY DEF Types
<1>2. \A k \in Keys : Told(k)
  BY DEF ToldInv, Told
<1>3. changed \in Seq(Changes) /\ Len(changed) \in Nat
  BY <1>1 DEF LoopOK
<1>4. ASSUME NEW k \in Keys, subs'[k] = subs[k],
             subs[k] # None /\ subs[k].seen /\ Concerns(subs[k]) =>
               \/ Pending(k)'
               \/ ~ Pending(k) /\ lastValue'[k.point] = lastValue[k.point]
      PROVE  Told(k)'
  BY <1>2, <1>4 DEF Told
<1>5. ASSUME NEW k \in Keys, subs'[k] = None PROVE Told(k)'
  BY <1>5 DEF Told
<1>6. (\A k \in Keys : Told(k)') => ToldInv'
  BY DEF ToldInv, Told
<1>7. ASSUME UNCHANGED <<phase, changed, visit, lastValue>>
      PROVE  \A k \in Keys : Pending(k)' = Pending(k)
  BY <1>7 DEF Pending
<1>8. CASE UNCHANGED <<phase, changed, visit, lastValue, subs>>
  BY <1>4, <1>6, <1>7, <1>8
<1>9. ASSUME NEW p \in Points, TickObject(p) PROVE ToldInv'
  <2> SUFFICES ASSUME NEW k \in Keys PROVE Told(k)'
    BY <1>6
  <2>1. subs' = subs /\ phase = "tick" /\ phase' = "tick"
    BY <1>1, <1>9, VisitEffect
  <2>2. CASE changed' = changed /\ lastValue' = lastValue
    <3>1. Pending(k)' <=> Pending(k)
      BY <2>1, <2>2 DEF Pending
    <3> QED BY <1>4, <2>1, <2>2, <3>1
  <2>3. ASSUME NEW x \in Samples, p \in Modelled,
               lastValue' = [lastValue EXCEPT ![p] = x],
               changed' = Append(changed, [point |-> p, val |-> x])
        PROVE  Told(k)'
    <3>1. Len(changed') = Len(changed) + 1
          /\ changed'[Len(changed) + 1] = [point |-> p, val |-> x]
          /\ \A i \in 1..Len(changed) : changed'[i] = changed[i]
      BY <1>3, <2>3
    <3>2. Len(changed) + 1 \in 1..Len(changed') /\ \A i \in 1..Len(changed) : i \in 1..Len(changed')
      BY <1>3, <3>1
    <3>3. CASE k.point = p
      <4>1. Pending(k)'
        BY <2>1, <3>1, <3>2, <3>3 DEF Pending
      <4> QED BY <1>4, <2>1, <4>1
    <3>4. CASE k.point # p
      <4>1. Pending(k) => Pending(k)'
        BY <2>1, <3>1, <3>2 DEF Pending
      <4>2. ASSUME subs[k] # None, subs[k].seen PROVE lastValue'[k.point] = lastValue[k.point]
        <5>1. k.point \in Modelled
          BY <1>2, <4>2 DEF Told
        <5> HIDE DEF Modelled
        <5> QED BY <1>1, <2>3, <3>4, <5>1 DEF LoopOK
      <4> QED BY <1>4, <2>1, <4>1, <4>2
    <3> QED BY <3>3, <3>4
  <2> QED BY <1>1, <1>9, <2>2, <2>3, VisitEffect
<1>10. CASE CheckStart
  <2> SUFFICES ASSUME NEW k \in Keys PROVE Told(k)'
    BY <1>6
  <2>1. visit' = Subscribers /\ phase = "tick" /\ UNCHANGED <<changed, lastValue, subs>>
    BY <1>10 DEF CheckStart
  <2>2. k.who \in Subscribers
    BY DEF Keys
  <2>3. Pending(k)' <=> Pending(k)
    BY <2>1, <2>2 DEF Pending
  <2> QED BY <1>4, <2>1, <2>3
<1>11. ASSUME NEW w \in Subscribers, CheckEntry(w) PROVE ToldInv'
  <2> SUFFICES ASSUME NEW j \in Keys PROVE Told(j)'
    BY <1>6
  <2> DEFINE c == Head(changed)
             k == [who |-> w, point |-> c.point]
  <2>1. /\ k \in Keys /\ c.val \in Nat /\ c.point \in Modelled /\ c = changed[1]
        /\ Len(changed) > 0
        /\ Concerns(subs[k]) => subs[k] \in SubscriptionsAt(clock)
        /\ subs'[j] = IF j = k /\ Concerns(subs[k])
                        THEN Checked(subs[k], c.val) ELSE subs[j]
    BY <1>1, <1>11, CheckEffect
  <2>2. /\ phase = "notify" /\ visit' = visit \ {w}
        /\ UNCHANGED <<phase, changed, lastValue>>
    BY <1>11 DEF CheckEntry
  <2>3. k.point = c.point /\ k.who = w
    OBVIOUS
  <2>4. j = k <=> j.who = w /\ j.point = c.point
    BY DEF Keys
  <2> HIDE DEF c, k
  <2>5. CASE j = k /\ Concerns(subs[k])
    <3>1. clock \in Nat
      BY <1>1, EngineAssumption DEF SubsOK
    <3>2. subs[k].last = subs[k].told
      BY <1>2, <2>1, <2>5 DEF Told, Concerns
    <3>3. subs'[j].last = subs'[j].told /\ Near(c.val, subs'[j].told, subs'[j].incr)
      <4> DEFINE z == Checked(subs[k], c.val)
      <4>1. z.last = z.told /\ Near(c.val, z.told, z.incr)
        BY <2>1, <2>5, <3>1, <3>2, CheckedFacts, Zenon
      <4>2. subs'[j] = z
        BY <2>1, <2>5
      <4> HIDE DEF z
      <4> QED BY <4>1, <4>2
    <3>4. lastValue'[c.point] = c.val
      BY <1>3, <2>1, <2>2 DEF QueueInv
    <3> QED BY <2>1, <2>3, <2>5, <3>3, <3>4 DEF Told
  <2>6. CASE ~ (j = k /\ Concerns(subs[k]))
    <3>1. subs'[j] = subs[j]
      BY <2>1, <2>6
    <3>2. Concerns(subs[j]) => (Pending(j) => Pending(j)')
      <4> SUFFICES ASSUME Concerns(subs[j]), Pending(j) PROVE Pending(j)'
        OBVIOUS
      <4>1. j # k
        BY <2>6
      <4>2. PICK i \in 1..Len(changed) : /\ changed[i].point = j.point
                                         /\ i = 1 /\ phase = "notify" => j.who \in visit
        BY DEF Pending
      <4>3. i = 1 => j.who # w
        BY <2>1, <2>4, <4>1, <4>2
      <4>4. i = 1 /\ phase' = "notify" => j.who \in visit'
        BY <2>2, <4>2, <4>3
      <4> QED BY <2>2, <4>2, <4>4 DEF Pending
    <3> QED BY <1>4, <2>2, <3>1, <3>2
  <2> QED BY <2>5, <2>6
<1>12. CASE CheckDone
  <2> SUFFICES ASSUME NEW k \in Keys PROVE Told(k)'
    BY <1>6
  <2>1. /\ phase = "notify" /\ visit = {} /\ phase' = "tick" /\ changed # <<>>
        /\ changed' = Tail(changed) /\ UNCHANGED <<lastValue, subs>>
    BY <1>1, <1>12 DEF CheckDone, LoopOK
  <2>2. Len(changed') = Len(changed) - 1
        /\ \A i \in 1..Len(changed') : changed'[i] = changed[i + 1]
    BY <1>3, <2>1
  <2>3. Pending(k) => Pending(k)'
    <3> SUFFICES ASSUME Pending(k) PROVE Pending(k)'
      OBVIOUS
    <3>1. PICK i \in 1..Len(changed) : /\ changed[i].point = k.point
                                       /\ i = 1 /\ phase = "notify" => k.who \in visit
      BY DEF Pending
    <3>2. i # 1
      BY <2>1, <3>1
    <3>3. i - 1 \in 1..Len(changed') /\ (i - 1) + 1 = i
      BY <1>3, <2>2, <3>2
    <3>4. changed'[i - 1].point = k.point
      BY <2>2, <3>1, <3>3
    <3>5. phase' # "notify"
      BY <2>1
    <3> QED BY <3>3, <3>4, <3>5 DEF Pending
  <2> QED BY <1>4, <2>1, <2>3
<1>13. CASE TickEnd
  <2> SUFFICES ASSUME NEW k \in Keys PROVE Told(k)'
    BY <1>6
  <2>1. changed = <<>> /\ UNCHANGED <<changed, visit, lastValue>>
    BY <1>13 DEF TickEnd
  <2>2. ~ Pending(k)
    BY <2>1 DEF Pending
  <2>3. subs'[k] = subs[k] \/ subs'[k] = None
    BY <1>1, <1>13, EndEffect
  <2> QED BY <1>4, <1>5, <2>1, <2>2, <2>3
<1>14. ASSUME NEW j \in Keys, NEW r \in Requests, Subscribe(j, r) PROVE ToldInv'
  <2> SUFFICES ASSUME NEW k \in Keys PROVE Told(k)'
    BY <1>6
  <2>1. subs'[k] = IF k = j THEN NewSub(r) ELSE subs[k]
    BY <1>1, <1>14, SubscribeEffect
  <2>2. UNCHANGED <<phase, changed, visit, lastValue>>
    BY <1>14 DEF Subscribe, engineVars
  <2>3. CASE k = j
    <3>1. subs'[k] = NewSub(r)
      BY <2>1, <2>3
    <3>2. NewSub(r).last = NewSub(r).told
      BY DEF NewSub
    <3>3. NewSub(r).seen = FALSE
      BY DEF NewSub
    <3> HIDE DEF NewSub
    <3>4. subs'[k].last = subs'[k].told /\ ~ subs'[k].seen
      BY <3>1, <3>2, <3>3, Zenon
    <3> QED BY <3>4, Zenon DEF Told
  <2>4. CASE k # j
    BY <1>4, <1>7, <2>1, <2>2, <2>4
  <2> QED BY <2>3, <2>4
<1>15. ASSUME NEW j \in Keys, Unsubscribe(j) PROVE ToldInv'
  <2> SUFFICES ASSUME NEW k \in Keys PROVE Told(k)'
    BY <1>6
  <2>1. subs'[k] = IF k = j THEN None ELSE subs[k]
    BY <1>1, <1>15, UnsubscribeEffect
  <2>2. UNCHANGED <<phase, changed, visit, lastValue>>
    BY <1>15 DEF Unsubscribe, engineVars
  <2> QED BY <1>4, <1>5, <1>7, <2>1, <2>2
<1>16. CASE TickStart
  <2> SUFFICES ASSUME NEW k \in Keys PROVE Told(k)'
    BY <1>6
  <2>1. phase = "idle" /\ phase' = "tick" /\ UNCHANGED <<changed, visit, lastValue, subs>>
    BY <1>16 DEF TickStart
  <2>2. Pending(k)' <=> Pending(k)
    BY <2>1 DEF Pending
  <2> QED BY <1>4, <2>1, <2>2
<1>17. CASE Advance \/ UNCHANGED vars
  BY <1>8, <1>17 DEF Advance, vars, engineVars
<1>18. ASSUME NEW p \in Points, NEW w \in Writes, ClientWrite(p, w) \/ ForcedWrite(p, w)
       PROVE  ToldInv'
  BY <1>8, <1>18 DEF ClientWrite, ForcedWrite, engineVars
<1> QED
  BY <1>9, <1>10, <1>11, <1>12, <1>13, <1>14, <1>15, <1>16, <1>17, <1>18 DEF Next

\* However slowly a value drifts, and whoever subscribes or leaves during a
\* check, a subscriber that was checked once is never further behind what an
\* object shows than the engine's and its own increment together (SimEngine's
\* last_value and CovEngine's last_value, each compared on its own).
THEOREM CovIsAccurate == Spec => []CovAccuracy
<1>1. Init => QueueInv /\ ShownInv /\ ToldInv
  <2> SUFFICES ASSUME Init PROVE QueueInv /\ ShownInv /\ ToldInv
    OBVIOUS
  <2>1. QueueInv /\ ToldInv
    BY DEF Init, QueueInv, ToldInv
  <2>2. ASSUME NEW p \in Points, Plain(p)
        PROVE  ~ Overruled(store[p]) /\ Near(Present(store[p]), lastValue[p], Increment[p])
    <3>1. store[p] = NewObject(KindOf[p]) /\ lastValue[p] = 0
      BY <2>2 DEF Init, Plain
    <3>2. /\ store[p].slots = [q \in 1..NumPriorities |-> None]
          /\ store[p].pv = 0
      BY <2>2, <3>1 DEF NewObject, Plain
    <3>3. \A q \in 1..NumPriorities : store[p].slots[q] = None
      BY <3>2
    <3>4. Effective(store[p].slots) = 0 /\ ~ Overruled(store[p])
      BY <3>3, ObjectAssumption DEF Effective, Overruled
    <3>5. Present(store[p]) = 0
      BY <3>2, <3>4 DEF Present
    <3> QED BY <3>1, <3>4, <3>5 DEF Near
  <2> QED BY <2>1, <2>2 DEF ShownInv
<1>2. Types /\ QueueInv /\ ShownInv /\ ToldInv /\ [Next]_vars
        => (QueueInv /\ ShownInv /\ ToldInv)'
  BY QueueStep, ShownStep, ToldStep DEF Types
<1>3. Types /\ QueueInv /\ ShownInv /\ ToldInv => CovAccuracy
  <2> SUFFICES ASSUME Types, QueueInv, ShownInv, ToldInv, phase = "idle",
                      NEW k \in Keys, Concerns(subs[k]), subs[k].seen, k.point \notin touched,
                      KindOf[k.point] \in {"AnalogInput", "AnalogOutput", "AnalogValue"}
               PROVE  LET error == Distance(Present(store[k.point]), subs[k].told)
                      IN error = 0 \/ error < Increment[k.point] + subs[k].incr
    BY DEF CovAccuracy
  <2>1. subs[k] # None /\ k.point \in Points
    BY DEF Concerns, Keys
  <2>2. k.point \in Modelled
    BY <2>1 DEF ToldInv
  <2>3. ~ Pending(k)
    BY DEF QueueInv, Pending
  <2>4. Near(lastValue[k.point], subs[k].told, subs[k].incr)
    BY <2>1, <2>3 DEF ToldInv
  <2>5. Near(Present(store[k.point]), lastValue[k.point], Increment[k.point])
    BY <2>1, <2>2 DEF ShownInv, Plain
  <2>6. Present(store[k.point]) \in Nat
    BY <2>1, PresentType DEF Types, StoreOK
  <2>7. lastValue[k.point] \in Nat /\ Increment[k.point] \in Nat
    BY <2>2, EngineAssumption DEF Types, LoopOK, Modelled
  <2>8. subs[k] \in SubscriptionsAt(clock)
    BY <2>1 DEF Types, SubsOK
  <2>9. subs[k].told \in Nat /\ subs[k].incr \in Nat
    BY <2>8 DEF SubscriptionsAt
  <2> QED BY <2>4, <2>5, <2>6, <2>7, <2>9 DEF Near, Distance
<1> QED BY <1>1, <1>2, <1>3, TypesInvariance, PTL DEF Spec
=============================================================================
