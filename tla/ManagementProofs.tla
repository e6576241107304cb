-------------------------- MODULE ManagementProofs --------------------------
(***************************************************************************)
(* Theorems about the start of the program, its REST API and the date of   *)
(* its Device objects, for every configuration, every request and every    *)
(* day a date can hold.                                                    *)
(***************************************************************************)
EXTENDS Management, BacnetObjectProofs, SequenceTheorems, FiniteSetTheorems

-----------------------------------------------------------------------------
(* Recursion and induction.                                                *)

\* A set of numbers that has 0 and with each number the next has them all.
LEMMA Induction ==
  ASSUME NEW T, 0 \in T, \A n \in Nat : n \in T => n + 1 \in T
  PROVE  Nat \subseteq T
<1> SUFFICES ASSUME Nat \ T # {} PROVE FALSE
  OBVIOUS
<1>1. PICK x \in Nat \ T : \A y \in Nat \ T : x <= y
  BY LeastNat
<1>2. x # 0 /\ x - 1 \in Nat
  BY <1>1
<1>3. x - 1 \in T
  BY <1>1, <1>2
<1>4. (x - 1) + 1 = x
  BY <1>1
<1> QED BY <1>1, <1>2, <1>3, <1>4

\* The values f of a recursion from x, whose n-th step is F[n].
Solves(f, D, x, F, len) ==
  f \in [0..len -> D] /\ f[0] = x /\ \A n \in 1..len : f[n] = F[n][f[n - 1]]

\* A recursion over the numbers to len has a solution.
LEMMA Recursion ==
  ASSUME NEW D, NEW x \in D, NEW F \in [Nat -> [D -> D]], NEW len \in Nat
  PROVE  \E f : Solves(f, D, x, F, len)
<1> DEFINE Sol(n) == {f \in [0..n -> D] : f[0] = x /\ \A m \in 1..n : f[m] = F[m][f[m - 1]]}
           T == {n \in Nat : Sol(n) # {}}
<1>1. 0 \in T
  <2> DEFINE f == [m \in 0..0 |-> x]
  <2>1. f \in Sol(0)
    OBVIOUS
  <2> QED BY <2>1
<1>2. ASSUME NEW n \in Nat, n \in T PROVE n + 1 \in T
  <2>1. PICK f \in Sol(n) : TRUE
    BY <1>2
  <2>2. f \in [0..n -> D] /\ f[0] = x /\ \A m \in 1..n : f[m] = F[m][f[m - 1]]
    BY <2>1
  <2> DEFINE y == F[n + 1][f[n]]
             g == [m \in 0..n + 1 |-> IF m = n + 1 THEN y ELSE f[m]]
  <2>3. f[n] \in D
    BY <2>2
  <2>4. y \in D
    BY <2>3
  <2> HIDE DEF y
  <2>5. g \in [0..n + 1 -> D]
    <3>1. ASSUME NEW m \in 0..n + 1, m # n + 1 PROVE f[m] \in D
      BY <2>2, <3>1
    <3> QED BY <2>4, <3>1
  <2>6. g[n + 1] = y /\ \A m \in 0..n : g[m] = f[m]
    OBVIOUS
  <2> HIDE DEF g
  <2>7. ASSUME NEW m \in 1..n + 1 PROVE g[m] = F[m][g[m - 1]]
    <3>1. m - 1 \in 0..n /\ g[m - 1] = f[m - 1]
      BY <2>6
    <3>2. CASE m = n + 1
      <4>1. m - 1 = n
        BY <3>2
      <4> QED BY <2>6, <3>1, <3>2, <4>1 DEF y
    <3>3. CASE m # n + 1
      <4>1. m \in 1..n
        BY <3>3
      <4>2. g[m] = f[m] /\ f[m] = F[m][f[m - 1]]
        BY <2>2, <2>6, <4>1
      <4> QED BY <3>1, <4>2
    <3> QED BY <3>2, <3>3
  <2>8. g[0] = x
    BY <2>2, <2>6
  <2>9. g \in Sol(n + 1)
    BY <2>5, <2>7, <2>8
  <2> QED BY <2>9
<1> HIDE DEF T
<1>3. len \in T
  BY <1>1, <1>2, Induction
<1> QED BY <1>3 DEF T, Solves

\* What is in a sequence that is put together of two.
LEMMA ConcatSet ==
  ASSUME NEW S, NEW s \in Seq(S), NEW t \in Seq(S)
  PROVE  ToSet(s \o t) = ToSet(s) \cup ToSet(t)
<1>1. Range(s \o t) = Range(s) \cup Range(t)
  BY RangeConcatenation
<1>2. Range(s) = ToSet(s) /\ Range(t) = ToSet(t) /\ Range(s \o t) = ToSet(s \o t)
  BY DEF ToSet, Range
<1> QED BY <1>1, <1>2

\* An element of a sequence is of the kind its elements are.
LEMMA SeqElement ==
  ASSUME NEW S, NEW s \in Seq(S), NEW n \in DOMAIN s
  PROVE  s[n] \in S
OBVIOUS

\* The empty sequence.
LEMMA EmptyFacts ==
  ASSUME NEW S
  PROVE  <<>> \in Seq(S) /\ ToSet(<<>>) = {} /\ DOMAIN <<>> = {}
BY DEF ToSet

\* A sequence of sequences, flattened, has the elements of all of them.
LEMMA Flattened ==
  ASSUME NEW S, NEW seqs \in Seq(Seq(S))
  PROVE  /\ FlattenSeq(seqs) \in Seq(S)
         /\ ToSet(FlattenSeq(seqs)) = UNION {ToSet(seqs[j]) : j \in DOMAIN seqs}
<1>1. CASE Len(seqs) = 0
  <2>1. seqs = <<>>
    BY <1>1
  <2>2. FlattenSeq(seqs) = <<>>
    BY <2>1 DEF FlattenSeq
  <2>3. UNION {ToSet(seqs[j]) : j \in DOMAIN seqs} = {}
    BY <2>1, EmptyFacts
  <2> QED BY <2>2, <2>3, EmptyFacts
<1>2. CASE Len(seqs) # 0
  <2>1. PICK len \in Nat : len = Len(seqs) /\ len >= 1
    BY <1>2
  <2>2. DOMAIN seqs = 1..len /\ \A i \in 1..len : seqs[i] \in Seq(S)
    BY <2>1
  <2> DEFINE D == Seq(S)
             F == [n \in Nat |-> [y \in D |-> IF n + 1 \in 1..len THEN y \o seqs[n + 1] ELSE y]]
             Rec(f) == f = [i \in 1..len |-> IF i = 1 THEN seqs[i] ELSE f[i - 1] \o seqs[i]]
             flatten == CHOOSE f : Rec(f)
  <2>3. F \in [Nat -> [D -> D]]
    <3> SUFFICES ASSUME NEW n \in Nat, NEW y \in D, n + 1 \in 1..len
                 PROVE  y \o seqs[n + 1] \in D
      OBVIOUS
    <3>1. seqs[n + 1] \in Seq(S)
      BY <2>2
    <3> QED BY <3>1
  <2>4. ASSUME NEW n \in 1..len - 1, NEW y \in D PROVE F[n][y] = y \o seqs[n + 1]
    OBVIOUS
  <2> HIDE DEF F
  <2>5. PICK f \in [0..len -> D] : f[0] = seqs[1] /\ \A n \in 1..len : f[n] = F[n][f[n - 1]]
    <3>1. seqs[1] \in D
      BY <2>1, <2>2
    <3>2. \E f : Solves(f, D, seqs[1], F, len)
      <4> HIDE DEF D
      <4> QED BY <2>3, <3>1, Recursion
    <3> HIDE DEF D
    <3> QED BY <3>2, Zenon DEF Solves
  <2>6. \E g : Rec(g)
    <3> DEFINE g == [i \in 1..len |-> f[i - 1]]
               h == [i \in 1..len |-> IF i = 1 THEN seqs[i] ELSE g[i - 1] \o seqs[i]]
    <3>1. ASSUME NEW i \in 1..len PROVE g[i] = h[i]
      <4>1. h[i] = IF i = 1 THEN seqs[i] ELSE g[i - 1] \o seqs[i]
        <5> HIDE DEF g
        <5> QED OBVIOUS
      <4>2. g[i] = f[i - 1]
        OBVIOUS
      <4>3. CASE i = 1
        <5>1. f[i - 1] = seqs[1]
          BY <2>5, <4>3
        <5> HIDE DEF g, h
        <5> QED BY <4>1, <4>2, <4>3, <5>1
      <4>4. CASE i # 1
        <5>1. i - 1 \in 1..len - 1 /\ (i - 1) + 1 = i /\ i - 1 \in 1..len
          BY <4>4
        <5>2. g[i - 1] = f[(i - 1) - 1] /\ f[(i - 1) - 1] \in D
          <6>1. (i - 1) - 1 \in 0..len
            BY <5>1
          <6> HIDE DEF D
          <6> QED BY <2>5, <5>1, <6>1
        <5>3. f[i - 1] = f[(i - 1) - 1] \o seqs[i]
          <6> HIDE DEF D
          <6> QED BY <2>4, <2>5, <5>1, <5>2
        <5> HIDE DEF g, h
        <5> QED BY <4>1, <4>2, <4>4, <5>2, <5>3
      <4> QED BY <4>3, <4>4
    <3>2. g = [i \in 1..len |-> g[i]] /\ h = [i \in 1..len |-> h[i]]
      OBVIOUS
    <3>3. g = h
      <4> HIDE DEF g, h
      <4> QED BY <3>1, <3>2
    <3>4. Rec(g)
      BY <3>3
    <3> HIDE DEF g
    <3> QED BY <3>4
  <2>7. Rec(flatten)
    <3> HIDE DEF Rec
    <3> QED BY <2>6, Zenon
  <2> HIDE DEF flatten
  <2>8. flatten[1] = seqs[1] /\ \A i \in 1..len - 1 : flatten[i + 1] = flatten[i] \o seqs[i + 1]
    <3>1. flatten[1] = seqs[1]
      BY <2>1, <2>7
    <3>2. ASSUME NEW i \in 1..len - 1 PROVE flatten[i + 1] = flatten[i] \o seqs[i + 1]
      <4>1. i + 1 \in 1..len /\ i + 1 # 1 /\ (i + 1) - 1 = i
        BY <2>1
      <4> QED BY <2>7, <4>1
    <3> QED BY <3>1, <3>2
  <2> HIDE DEF Rec
  <2> DEFINE All(n) == UNION {ToSet(seqs[j]) : j \in 1..n}
             U == {n \in Nat : n + 1 \in 1..len =>
                     flatten[n + 1] \in Seq(S) /\ ToSet(flatten[n + 1]) = All(n + 1)}
  <2>9. All(1) = ToSet(seqs[1]) /\ \A n \in Nat : All((n + 1) + 1) = All(n + 1) \cup ToSet(seqs[(n + 1) + 1])
    <3>1. ASSUME NEW n \in Nat PROVE All(n + 1) = All(n) \cup ToSet(seqs[n + 1])
      <4>1. 1..n + 1 = (1..n) \cup {n + 1}
        OBVIOUS
      <4> QED BY <4>1
    <3>2. All(0) = {}
      OBVIOUS
    <3>3. All(1) = All(0) \cup ToSet(seqs[1])
      BY ONLY <3>1 DEF All
    <3> HIDE DEF All
    <3>4. ASSUME NEW n \in Nat PROVE All((n + 1) + 1) = All(n + 1) \cup ToSet(seqs[(n + 1) + 1])
      BY <3>1
    <3> QED BY <3>2, <3>3, <3>4
  <2> HIDE DEF All
  <2>10. 0 \in U
    BY <2>1, <2>2, <2>8, <2>9
  <2>11. ASSUME NEW n \in Nat, n \in U PROVE n + 1 \in U
    <3> SUFFICES ASSUME (n + 1) + 1 \in 1..len
                 PROVE  /\ flatten[(n + 1) + 1] \in Seq(S)
                        /\ ToSet(flatten[(n + 1) + 1]) = All((n + 1) + 1)
      OBVIOUS
    <3>1. n + 1 \in 1..len - 1 /\ n + 1 \in 1..len
      BY <2>1
    <3>2. flatten[(n + 1) + 1] = flatten[n + 1] \o seqs[(n + 1) + 1]
      BY <2>8, <3>1
    <3>3. /\ flatten[n + 1] \in Seq(S) /\ seqs[(n + 1) + 1] \in Seq(S)
          /\ ToSet(flatten[n + 1]) = All(n + 1)
      BY <2>2, <2>11, <3>1
    <3>4. ToSet(flatten[(n + 1) + 1]) = ToSet(flatten[n + 1]) \cup ToSet(seqs[(n + 1) + 1])
      BY <3>2, <3>3, ConcatSet
    <3>5. flatten[(n + 1) + 1] \in Seq(S)
      BY <3>2, <3>3
    <3> QED BY <2>9, <3>3, <3>4, <3>5
  <2>12. len - 1 \in U
    <3> HIDE DEF U
    <3>1. len - 1 \in Nat
      BY <2>1
    <3> QED BY <2>10, <2>11, <3>1, Induction
  <2>13. FlattenSeq(seqs) = flatten[len]
    BY <1>2, <2>1, Zenon DEF FlattenSeq, flatten, Rec
  <2>14. (len - 1) + 1 = len /\ len \in 1..len
    BY <2>1
  <2>15. flatten[len] \in Seq(S) /\ ToSet(flatten[len]) = All(len)
    BY <2>12, <2>14
  <2> QED BY <2>2, <2>13, <2>15 DEF All
<1> QED BY <1>1, <1>2

-----------------------------------------------------------------------------
(* The ids that are registered.                                            *)

Distinct(s) == \A i, j \in DOMAIN s : s[i] = s[j] => i = j

\* Registering one device.
LEMMA RegisterOne ==
  ASSUME NEW S, NEW ids \in Seq(S), Distinct(ids), NEW id \in S
  PROVE  LET r == RegisterDevice(ids, id)
         IN r \in Seq(S) /\ Distinct(r) /\ ToSet(r) = ToSet(ids) \cup {id}
<1>1. CASE id \in ToSet(ids)
  BY <1>1 DEF RegisterDevice
<1>2. CASE id \notin ToSet(ids)
  <2> DEFINE r == Append(ids, id)
  <2>1. RegisterDevice(ids, id) = r
    BY <1>2 DEF RegisterDevice
  <2>2. PICK n \in Nat : n = Len(ids) /\ DOMAIN ids = 1..n
    OBVIOUS
  <2>3. r \in Seq(S) /\ DOMAIN r = 1..n + 1 /\ r[n + 1] = id /\ \A i \in 1..n : r[i] = ids[i]
    BY <2>2
  <2> HIDE DEF r
  <2>4. Distinct(r)
    <3> SUFFICES ASSUME NEW i \in 1..n + 1, NEW j \in 1..n + 1, r[i] = r[j] PROVE i = j
      BY <2>3 DEF Distinct
    <3>1. ASSUME NEW k \in 1..n PROVE r[k] # id
      BY <1>2, <2>2, <2>3 DEF ToSet
    <3>2. CASE i = n + 1
      BY <2>3, <3>1, <3>2
    <3>3. CASE j = n + 1
      BY <2>3, <3>1, <3>3
    <3>4. CASE i \in 1..n /\ j \in 1..n
      BY <2>2, <2>3, <3>4 DEF Distinct
    <3> QED BY <3>2, <3>3, <3>4
  <2>5. ToSet(r) = ToSet(ids) \cup {id}
    <3>1. 1..n + 1 = (1..n) \cup {n + 1}
      OBVIOUS
    <3> QED BY <2>2, <2>3, <3>1 DEF ToSet
  <2> QED BY <2>1, <2>3, <2>4, <2>5
<1> QED BY <1>1, <1>2

\* register_device in a loop: every device is registered, and none twice.
LEMMA Registered ==
  ASSUME NEW S, NEW ids \in Seq(S), Distinct(ids), NEW new \in Seq(S)
  PROVE  LET r == RegisterAll(ids, new)
         IN r \in Seq(S) /\ Distinct(r) /\ ToSet(r) = ToSet(ids) \cup ToSet(new)
<1>1. PICK len \in Nat : len = Len(new) /\ DOMAIN new = 1..len /\ \A n \in 1..len : new[n] \in S
  OBVIOUS
<1> DEFINE D == {s \in Seq(S) : Distinct(s)}
           F == [n \in Nat |-> [y \in D |-> IF n \in 1..len THEN RegisterDevice(y, new[n]) ELSE y]]
           Rec(f) == f = [n \in 0..len |-> IF n = 0 THEN ids ELSE RegisterDevice(f[n - 1], new[n])]
           registered == CHOOSE f : Rec(f)
<1>2. ASSUME NEW y \in D, NEW n \in 1..len
      PROVE  /\ RegisterDevice(y, new[n]) \in D
             /\ ToSet(RegisterDevice(y, new[n])) = ToSet(y) \cup {new[n]}
  <2>1. y \in Seq(S) /\ Distinct(y) /\ new[n] \in S
    BY <1>1
  <2> HIDE DEF D
  <2>2. PICK id \in S : id = new[n]
    BY <2>1
  <2>3. LET r == RegisterDevice(y, id)
        IN r \in Seq(S) /\ Distinct(r) /\ ToSet(r) = ToSet(y) \cup {id}
    BY <2>1, RegisterOne
  <2> QED BY <2>2, <2>3 DEF D
<1>3. F \in [Nat -> [D -> D]] /\ \A n \in 1..len : \A y \in D : F[n][y] = RegisterDevice(y, new[n])
  <2> HIDE DEF D
  <2> QED BY <1>2
<1> HIDE DEF F
<1>4. PICK f \in [0..len -> D] :
        f[0] = ids /\ \A n \in 1..len : f[n] = RegisterDevice(f[n - 1], new[n])
  <2>1. ids \in D
    OBVIOUS
  <2> HIDE DEF D
  <2>2. \E f : Solves(f, D, ids, F, len)
    BY <1>3, <2>1, Recursion
  <2>3. PICK f : Solves(f, D, ids, F, len)
    BY <2>2
  <2>4. ASSUME NEW n \in 1..len PROVE f[n] = RegisterDevice(f[n - 1], new[n])
    <3>1. n - 1 \in 0..len
      OBVIOUS
    <3> QED BY <1>3, <2>3, <3>1 DEF Solves
  <2> QED BY <2>3, <2>4 DEF Solves
<1> HIDE DEF D
<1>5. Rec(f)
  <2> DEFINE h == [n \in 0..len |-> IF n = 0 THEN ids ELSE RegisterDevice(f[n - 1], new[n])]
  <2>1. ASSUME NEW n \in 0..len PROVE f[n] = h[n]
    BY <1>4
  <2>2. f = [n \in 0..len |-> f[n]] /\ h = [n \in 0..len |-> h[n]]
    BY <1>4
  <2>3. f = h
    <3> HIDE DEF h
    <3> QED BY <2>1, <2>2
  <2> QED BY <2>3
<1>6. Rec(registered)
  <2> HIDE DEF Rec
  <2> QED BY <1>5, Zenon
<1> HIDE DEF registered
<1>7. registered[0] = ids /\ \A n \in 1..len : registered[n] = RegisterDevice(registered[n - 1], new[n])
  BY <1>6
<1> HIDE DEF Rec
<1> DEFINE T == {n \in Nat : n \in 0..len =>
                   /\ registered[n] \in D
                   /\ ToSet(registered[n]) = ToSet(ids) \cup {new[i] : i \in 1..n}}
<1>8. 0 \in T
  BY <1>7 DEF D
<1>9. ASSUME NEW n \in Nat, n \in T PROVE n + 1 \in T
  <2> SUFFICES ASSUME n + 1 \in 0..len
               PROVE  /\ registered[n + 1] \in D
                      /\ ToSet(registered[n + 1]) = ToSet(ids) \cup {new[i] : i \in 1..n + 1}
    OBVIOUS
  <2>1. n + 1 \in 1..len /\ n \in 0..len /\ (n + 1) - 1 = n
    OBVIOUS
  <2>2. registered[n + 1] = RegisterDevice(registered[n], new[n + 1])
    BY <1>7, <2>1
  <2>3. registered[n] \in D /\ ToSet(registered[n]) = ToSet(ids) \cup {new[i] : i \in 1..n}
    BY <1>9, <2>1
  <2>4. 1..n + 1 = (1..n) \cup {n + 1}
    OBVIOUS
  <2>5. {new[i] : i \in 1..n + 1} = {new[i] : i \in 1..n} \cup {new[n + 1]}
    BY <2>4
  <2> HIDE DEF T
  <2> QED BY <1>2, <2>1, <2>2, <2>3, <2>5
<1>10. len \in T
  <2> HIDE DEF T
  <2> QED BY <1>8, <1>9, Induction
<1>11. RegisterAll(ids, new) = registered[len]
  BY <1>1, Zenon DEF RegisterAll, registered, Rec
<1>12. registered[len] \in D /\ ToSet(registered[len]) = ToSet(ids) \cup {new[i] : i \in 1..len}
  BY <1>10
<1> QED BY <1>1, <1>11, <1>12 DEF ToSet, D

\* As many ids are registered as there are in the sequence.
LEMMA DistinctLen ==
  ASSUME NEW S, NEW s \in Seq(S), Distinct(s)
  PROVE  Cardinality(ToSet(s)) = Len(s)
<1>1. PICK n \in Nat : n = Len(s) /\ DOMAIN s = 1..n
  OBVIOUS
<1>2. s \in Bijection(1..n, ToSet(s))
  <2>1. s \in [1..n -> ToSet(s)]
    BY <1>1 DEF ToSet
  <2>2. \A x, y \in 1..n : s[x] = s[y] => x = y
    BY <1>1 DEF Distinct
  <2>3. \A t \in ToSet(s) : \E x \in 1..n : s[x] = t
    BY <1>1 DEF ToSet
  <2> QED BY <2>1, <2>2, <2>3 DEF Bijection, Injection, Surjection, IsInjective
<1>3. IsFiniteSet(1..n) /\ Cardinality(1..n) = n
  BY FS_Interval
<1>4. ExistsBijection(1..n, ToSet(s))
  BY <1>2 DEF ExistsBijection
<1> QED BY <1>1, <1>3, <1>4, FS_Bijection

-----------------------------------------------------------------------------
(* What the simulation builder makes.                                      *)

PointIds == [type : Kinds, instance : Instances]

Oids == [type : DOMAIN TypeCode, instance : Instances]

DeviceObjects == [kind : {"Device"}, list : Seq(Oids)]

\* An entry for device d: its Device object or one of its points.
IsEntry(d, e) ==
  /\ e = Entry(e.oid, e.obj)
  /\ \/ e.oid = Oid("Device", d) /\ e.obj \in DeviceObjects
     \/ e.oid \in PointIds /\ e.obj \in Objects /\ e.obj.kind = e.oid.type

Items == [dev : Instances, entry : [oid : Oids, obj : Objects \cup DeviceObjects]]

\* What add_profile_objects and its caller put in for device d.
BatchSet(d, points) ==
  {[dev |-> d, entry |-> DeviceEntry(d, points)]}
    \cup {[dev |-> d, entry |-> Entry(oid, NewObject(oid.type))] : oid \in ToSet(points)}

\* Identifiers are equal when their parts are.
LEMMA OidFacts ==
  /\ PointIds \subseteq Oids
  /\ \A d \in Instances : Oid("Device", d) \in Oids /\ Oid("Device", d) \notin PointIds
BY DEF PointIds, Oids, Kinds, Inputs, Commandable, TypeCode, Oid

\* What the proofs use of the number of instances.
LEMMA InstanceFacts ==
  /\ InstanceLimit \in Nat
  /\ \A i \in Int : i \in Instances <=> 0 <= i /\ i < InstanceLimit
  /\ \A i \in Instances : i \in Nat /\ i < InstanceLimit
<1>1. InstanceLimit \in Nat
  BY SMT DEF InstanceLimit
<1> QED BY <1>1 DEF Instances

\* An instance number leaves the bits of the type alone.
LEMMA Digits ==
  ASSUME NEW m \in Nat, NEW n \in Nat, NEW i \in Instances, NEW j \in Instances,
         m * InstanceLimit + i = n * InstanceLimit + j
  PROVE  m = n /\ i = j
<1>1. /\ i \in Nat /\ i < InstanceLimit /\ j \in Nat /\ j < InstanceLimit
      /\ InstanceLimit \in Nat
  BY InstanceFacts
<1>2. ASSUME NEW p \in Nat, NEW q \in Nat, p < q
      PROVE  q * InstanceLimit >= p * InstanceLimit + InstanceLimit
  <2>1. PICK k \in Nat : q = p + 1 + k
    <3>1. q = p + 1 + (q - p - 1) /\ q - p - 1 \in Nat
      BY <1>2
    <3> QED BY <3>1
  <2>2. q * InstanceLimit = p * InstanceLimit + InstanceLimit + k * InstanceLimit
    BY <1>1, <2>1
  <2>3. k * InstanceLimit \in Nat /\ p * InstanceLimit \in Nat
    BY <1>1
  <2> QED BY <1>1, <2>2, <2>3
<1>3. m * InstanceLimit \in Nat /\ n * InstanceLimit \in Nat
  BY <1>1
<1>4. ~ (m < n)
  <2> SUFFICES ASSUME m < n PROVE FALSE
    OBVIOUS
  <2>1. n * InstanceLimit >= m * InstanceLimit + InstanceLimit
    BY <1>2
  <2> QED BY <1>1, <1>3, <2>1
<1>5. ~ (n < m)
  <2> SUFFICES ASSUME n < m PROVE FALSE
    OBVIOUS
  <2>1. m * InstanceLimit >= n * InstanceLimit + InstanceLimit
    BY <1>2
  <2> QED BY <1>1, <1>3, <2>1
<1>6. m = n
  BY <1>4, <1>5
<1> QED BY <1>1, <1>3, <1>6

\* Two objects of a device have the same key only if they are the same.
LEMMA KeyInjective ==
  ASSUME NEW d, NEW e, NEW a \in Oids, NEW b \in Oids, Key(d, a) = Key(e, b)
  PROVE  d = e /\ a = b
<1>1. ASSUME NEW s \in DOMAIN TypeCode, NEW t \in DOMAIN TypeCode, NEW i \in Instances, NEW j \in Instances,
             TypeCode[s] * InstanceLimit + i = TypeCode[t] * InstanceLimit + j
      PROVE  s = t /\ i = j
  <2>1. TypeCode[s] \in Nat /\ TypeCode[t] \in Nat /\ (TypeCode[s] = TypeCode[t] => s = t)
    BY DEF TypeCode
  <2>2. TypeCode[s] = TypeCode[t] /\ i = j
    BY <1>1, <2>1, Digits
  <2> QED BY <2>1, <2>2
<1>2. d = e /\ TypeCode[a.type] * InstanceLimit + a.instance = TypeCode[b.type] * InstanceLimit + b.instance
  BY DEF Key
<1>3. a.type = b.type /\ a.instance = b.instance
  BY <1>1, <1>2 DEF Oids
<1> QED BY <1>2, <1>3 DEF Oids

\* The two tables of type names say the same: a type is listed as what is made.
LEMMA TablesAgree ==
  ASSUME NEW name
  PROVE  /\ ObjectMade(name) = ParseObjectType(name)
         /\ ParseObjectType(name) # None => ParseObjectType(name) \in Kinds
BY DEF ObjectMade, ParseObjectType, Kinds, Inputs, Commandable

\* The points that are listed are those that are made.
LEMMA PointsAgree ==
  ASSUME NEW profile
  PROVE  ProfilePoints(profile) = ListedPoints(profile)
<1> DEFINE Made(n) == Numbered(ObjectMade(profile[n].type), profile[n].count)
           Listed(n) == Numbered(ParseObjectType(profile[n].type), profile[n].count)
<1>1. ASSUME NEW n \in DOMAIN profile PROVE Made(n) = Listed(n)
  BY TablesAgree
<1> HIDE DEF Made, Listed
<1>2. [n \in DOMAIN profile |-> Made(n)] = [n \in DOMAIN profile |-> Listed(n)]
  BY <1>1
<1> QED BY <1>2, Zenon DEF ProfilePoints, ListedPoints, Made, Listed

\* Points of one type, numbered from 1.
LEMMA NumberedType ==
  ASSUME NEW type \in Kinds \cup {None}, NEW count \in Instances
  PROVE  Numbered(type, count) \in Seq(PointIds)
<1>1. count \in Nat /\ count < InstanceLimit
  BY InstanceFacts
<1>2. CASE type # None
  <2> DEFINE run == [i \in 1..count |-> Oid(type, i)]
  <2>1. ASSUME NEW i \in 1..count PROVE Oid(type, i) \in PointIds
    BY <1>1, <1>2, InstanceFacts DEF Oid, PointIds
  <2>2. run \in [1..count -> PointIds]
    BY <2>1
  <2> HIDE DEF run
  <2>3. run \in Seq(PointIds)
    BY <1>1, <2>2
  <2> QED BY <1>2, <2>3 DEF Numbered, run
<1>3. CASE type = None
  BY <1>3, EmptyFacts DEF Numbered
<1> QED BY <1>2, <1>3

\* The points of a profile: types that are not known leave nothing.
LEMMA PointsType ==
  ASSUME NEW profile \in ProfileConfig
  PROVE  ListedPoints(profile) \in Seq(PointIds)
<1> DEFINE Run(n) == Numbered(ParseObjectType(profile[n].type), profile[n].count)
           runs == [n \in DOMAIN profile |-> Run(n)]
<1>1. ASSUME NEW n \in DOMAIN profile PROVE Run(n) \in Seq(PointIds)
  <2>1. profile[n] \in [type : STRING, count : Instances]
    BY SeqElement DEF ProfileConfig
  <2>2. profile[n].count \in Instances /\ ParseObjectType(profile[n].type) \in Kinds \cup {None}
    BY <2>1, TablesAgree
  <2> QED BY <2>2, NumberedType
<1> HIDE DEF Run
<1>2. runs \in Seq(Seq(PointIds))
  <2>1. PICK len \in Nat : DOMAIN profile = 1..len
    BY DEF ProfileConfig
  <2>2. runs \in [1..len -> Seq(PointIds)]
    BY <1>1, <2>1
  <2> HIDE DEF runs
  <2> QED BY <2>2
<1>3. ListedPoints(profile) = FlattenSeq(runs)
  BY Zenon DEF ListedPoints, Run
<1> QED BY <1>2, <1>3, Flattened

\* What the demo device lists is what is inserted.
LEMMA DemoFacts == DemoObjects = DemoListed /\ DemoListed \in Seq(PointIds)
<1>1. 8 \in Instances /\ 4 \in Instances
  <2>1. 8 < InstanceLimit /\ 4 < InstanceLimit
    BY SMT DEF InstanceLimit
  <2> QED BY <2>1, InstanceFacts
<1>2. PICK a \in Seq(PointIds) : a = Numbered("AnalogInput", 8)
  BY <1>1, NumberedType DEF Kinds, Inputs
<1>3. PICK b \in Seq(PointIds) : b = Numbered("BinaryInput", 4)
  BY <1>1, NumberedType DEF Kinds, Inputs
<1>4. DemoListed = a \o b /\ DemoObjects = a \o b
  BY <1>2, <1>3 DEF DemoListed, DemoObjects
<1> QED BY <1>4

\* The entries of one device.
LEMMA DeviceBatchFacts ==
  ASSUME NEW d \in Instances, NEW points \in Seq(PointIds)
  PROVE  /\ DeviceBatch(d, points, points) \in Seq(Items)
         /\ ToSet(DeviceBatch(d, points, points)) = BatchSet(d, points)
         /\ \A b \in BatchSet(d, points) : b.dev = d /\ IsEntry(d, b.entry)
<1> DEFINE Item(oid) == [dev |-> d, entry |-> Entry(oid, NewObject(oid.type))]
           first == <<[dev |-> d, entry |-> DeviceEntry(d, points)]>>
           rest == [i \in DOMAIN points |-> Item(points[i])]
<1>1. ASSUME NEW oid \in PointIds PROVE Item(oid) \in Items /\ IsEntry(d, Item(oid).entry)
  <2>1. NewObject(oid.type) \in Objects /\ NewObject(oid.type).kind = oid.type
    BY NewObjectType DEF PointIds
  <2> QED BY <2>1, OidFacts DEF Items, Entry, IsEntry
<1>2. /\ [dev |-> d, entry |-> DeviceEntry(d, points)] \in Items
      /\ IsEntry(d, DeviceEntry(d, points))
  <2>1. <<Oid("Device", d)>> \o points \in Seq(Oids)
    BY OidFacts
  <2> QED BY <2>1, OidFacts DEF DeviceEntry, Items, Entry, DeviceObjects, IsEntry
<1>3. PICK len \in Nat : DOMAIN points = 1..len /\ \A i \in 1..len : points[i] \in PointIds
  OBVIOUS
<1>4. rest \in Seq(Items) /\ ToSet(rest) = {Item(oid) : oid \in ToSet(points)}
  <2> HIDE DEF Item
  <2>1. rest \in [1..len -> Items]
    BY <1>1, <1>3
  <2>2. ToSet(rest) = {Item(points[i]) : i \in 1..len}
    BY <1>3 DEF ToSet
  <2>3. {Item(oid) : oid \in ToSet(points)} = {Item(points[i]) : i \in 1..len}
    BY <1>3 DEF ToSet
  <2> HIDE DEF rest
  <2> QED BY <2>1, <2>2, <2>3
<1>5. first \in Seq(Items) /\ ToSet(first) = {[dev |-> d, entry |-> DeviceEntry(d, points)]}
  BY <1>2 DEF ToSet
<1>6. DeviceBatch(d, points, points) = first \o rest
  BY DEF DeviceBatch
<1>7. BatchSet(d, points) = ToSet(first) \cup ToSet(rest)
  BY <1>4, <1>5 DEF BatchSet
<1> HIDE DEF first, rest
<1>8. DeviceBatch(d, points, points) \in Seq(Items) /\ ToSet(DeviceBatch(d, points, points)) = BatchSet(d, points)
  BY <1>4, <1>5, <1>6, <1>7, ConcatSet
<1>9. ASSUME NEW b \in BatchSet(d, points) PROVE b.dev = d /\ IsEntry(d, b.entry)
  <2>1. CASE b \in ToSet(first)
    BY <1>2, <1>5, <2>1
  <2>2. CASE b \in ToSet(rest)
    <3>1. PICK oid \in ToSet(points) : b = Item(oid)
      BY <1>4, <2>2
    <3>2. oid \in PointIds
      BY <1>3 DEF ToSet
    <3> QED BY <1>1, <3>1, <3>2
  <2> QED BY <1>7, <2>1, <2>2
<1> QED BY <1>8, <1>9

\* The ids of a group of devices.
LEMMA IdRangeType ==
  ASSUME NEW g \in DeviceGroup
  PROVE  IdRange(g) \in Seq(Instances)
<1>1. g.lo \in Instances /\ g.hi \in Instances
  BY DEF DeviceGroup
<1>2. PICK lo \in Instances, hi \in Instances : lo = g.lo /\ hi = g.hi
  BY <1>1
<1>3. lo \in Nat /\ hi \in Nat /\ lo < InstanceLimit /\ hi < InstanceLimit
  BY InstanceFacts
<1> DEFINE len == IF hi < lo THEN 0 ELSE hi - lo + 1
           ids == [i \in 1..len |-> lo + i - 1]
<1>4. len \in Nat
  BY <1>3
<1>5. ASSUME NEW i \in 1..len PROVE lo + i - 1 \in Instances
  <2>1. 0 <= lo + i - 1 /\ lo + i - 1 < InstanceLimit /\ lo + i - 1 \in Int
    BY <1>3, InstanceFacts
  <2> QED BY <2>1, InstanceFacts
<1> HIDE DEF len
<1>6. ids \in [1..len -> Instances]
  BY <1>5
<1> HIDE DEF ids
<1>7. ids \in Seq(Instances)
  BY <1>4, <1>6
<1> QED BY <1>2, <1>7 DEF IdRange, ids, len

\* The devices built for a configuration, each with its points.
Built(c) ==
  {b \in Instances \X Seq(PointIds) :
     \E n \in DOMAIN c : /\ Known(c[n]) /\ b[1] \in ToSet(IdRange(c[n]))
                         /\ b[2] = ListedPoints(Profiles[c[n].profile])}

\* Everything there is to put in the store for these devices.
AllItems(built) == UNION {BatchSet(b[1], b[2]) : b \in built}

\* What the builder collects from its configuration.
LEMMA BatchFacts ==
  ASSUME NEW c \in Seq(DeviceGroup)
  PROVE  Batch(c) \in Seq(Items) /\ ToSet(Batch(c)) = AllItems(Built(c))
<1> DEFINE Of(n) == ListedPoints(Profiles[c[n].profile])
           Parts(n) == [i \in DOMAIN IdRange(c[n]) |-> DeviceBatch(IdRange(c[n])[i], Of(n), Of(n))]
           Part(n) == IF Known(c[n]) THEN FlattenSeq(Parts(n)) ELSE <<>>
           all == [n \in DOMAIN c |-> Part(n)]
<1>1. ASSUME NEW n \in DOMAIN c, Known(c[n])
      PROVE  /\ Of(n) \in Seq(PointIds)
             /\ Part(n) \in Seq(Items)
             /\ ToSet(Part(n)) = UNION {BatchSet(d, Of(n)) : d \in ToSet(IdRange(c[n]))}
  <2>1. PICK ids \in Seq(Instances) : ids = IdRange(c[n])
    <3>1. c[n] \in DeviceGroup
      BY SeqElement
    <3> QED BY <3>1, IdRangeType
  <2>2. Of(n) \in Seq(PointIds)
    <3>1. Profiles[c[n].profile] \in ProfileConfig
      BY <1>1, ManagementAssumption DEF Known
    <3> QED BY <3>1, PointsType
  <2> HIDE DEF Of
  <2>3. PICK len \in Nat : DOMAIN ids = 1..len /\ \A i \in 1..len : ids[i] \in Instances
    OBVIOUS
  <2> DEFINE parts == [i \in 1..len |-> DeviceBatch(ids[i], Of(n), Of(n))]
  <2>4. ASSUME NEW i \in 1..len
        PROVE  parts[i] \in Seq(Items) /\ ToSet(parts[i]) = BatchSet(ids[i], Of(n))
    BY <2>2, <2>3, DeviceBatchFacts
  <2>5. Part(n) = FlattenSeq(parts)
    BY <1>1, <2>1, <2>3
  <2>6. parts = [i \in 1..len |-> parts[i]] /\ DOMAIN parts = 1..len
    OBVIOUS
  <2> HIDE DEF parts, Part
  <2>7. parts \in Seq(Seq(Items))
    <3>1. parts \in [1..len -> Seq(Items)]
      BY <2>4, <2>6
    <3> QED BY <3>1
  <2>8. Part(n) \in Seq(Items) /\ ToSet(Part(n)) = UNION {ToSet(parts[i]) : i \in 1..len}
    BY <2>5, <2>6, <2>7, Flattened
  <2>9. UNION {ToSet(parts[i]) : i \in 1..len} = UNION {BatchSet(d, Of(n)) : d \in ToSet(ids)}
    <3>1. UNION {ToSet(parts[i]) : i \in 1..len} = UNION {BatchSet(ids[i], Of(n)) : i \in 1..len}
      BY <2>4
    <3>2. {BatchSet(ids[i], Of(n)) : i \in 1..len} = {BatchSet(d, Of(n)) : d \in ToSet(ids)}
      BY <2>3 DEF ToSet
    <3> QED BY <3>1, <3>2
  <2> QED BY <2>1, <2>2, <2>8, <2>9
<1>2. ASSUME NEW n \in DOMAIN c, ~ Known(c[n]) PROVE Part(n) \in Seq(Items) /\ ToSet(Part(n)) = {}
  BY <1>2, EmptyFacts
<1> HIDE DEF Of, Part
<1>3. all \in Seq(Seq(Items))
  <2>1. PICK len \in Nat : DOMAIN c = 1..len
    OBVIOUS
  <2>2. all \in [1..len -> Seq(Items)]
    BY <1>1, <1>2, <2>1
  <2> HIDE DEF all
  <2> QED BY <2>2
<1>4. Batch(c) = FlattenSeq(all)
  <2> DEFINE Made(n) == ProfilePoints(Profiles[c[n].profile])
             Batches(n) == [i \in DOMAIN IdRange(c[n]) |-> DeviceBatch(IdRange(c[n])[i], Of(n), Made(n))]
             Item(n) == IF Known(c[n]) THEN FlattenSeq(Batches(n)) ELSE <<>>
  <2>1. ASSUME NEW n \in DOMAIN c PROVE Item(n) = Part(n)
    <3>1. Made(n) = Of(n)
      BY PointsAgree DEF Of
    <3> HIDE DEF Made
    <3> QED BY <3>1, Zenon DEF Part
  <2>2. Batch(c) = FlattenSeq([n \in DOMAIN c |-> Item(n)])
    BY Zenon DEF Batch, Of
  <2> HIDE DEF Item
  <2>3. [n \in DOMAIN c |-> Item(n)] = all
    BY <2>1
  <2> QED BY <2>2, <2>3, Zenon
<1>5. DOMAIN all = DOMAIN c /\ \A n \in DOMAIN c : all[n] = Part(n)
  OBVIOUS
<1> HIDE DEF all
<1>6. Batch(c) \in Seq(Items) /\ ToSet(Batch(c)) = UNION {Part1 : Part1 \in {ToSet(all[n]) : n \in DOMAIN all}}
  BY <1>3, <1>4, Flattened
<1>7. ASSUME NEW x PROVE x \in ToSet(Batch(c)) <=> \E n \in DOMAIN c : x \in ToSet(Part(n))
  BY <1>5, <1>6
<1>8. ASSUME NEW x
      PROVE  x \in AllItems(Built(c))
               <=> \E n \in DOMAIN c : Known(c[n]) /\ \E d \in ToSet(IdRange(c[n])) : x \in BatchSet(d, Of(n))
  <2>1. ASSUME NEW n \in DOMAIN c, Known(c[n]), NEW d \in ToSet(IdRange(c[n]))
        PROVE  <<d, Of(n)>> \in Built(c)
    <3>1. d \in Instances
      <4>1. c[n] \in DeviceGroup
        BY SeqElement
      <4>2. IdRange(c[n]) \in Seq(Instances)
        BY <4>1, IdRangeType
      <4> QED BY <4>2, SeqElement DEF ToSet
    <3> QED BY <1>1, <2>1, <3>1 DEF Built, Of
  <2>2. ASSUME NEW b \in Built(c)
        PROVE  \E n \in DOMAIN c : Known(c[n]) /\ b[1] \in ToSet(IdRange(c[n])) /\ b[2] = Of(n)
    BY DEF Built, Of
  <2>3. ASSUME NEW n \in DOMAIN c, Known(c[n]), NEW d \in ToSet(IdRange(c[n])), x \in BatchSet(d, Of(n))
        PROVE  x \in AllItems(Built(c))
    <3> DEFINE b == <<d, Of(n)>>
    <3>1. b \in Built(c) /\ b[1] = d /\ b[2] = Of(n)
      BY <2>1, <2>3
    <3> HIDE DEF b
    <3> QED BY <2>3, <3>1 DEF AllItems
  <2>4. ASSUME x \in AllItems(Built(c))
        PROVE  \E n \in DOMAIN c : Known(c[n]) /\ \E d \in ToSet(IdRange(c[n])) : x \in BatchSet(d, Of(n))
    <3>1. PICK b \in Built(c) : x \in BatchSet(b[1], b[2])
      BY <2>4 DEF AllItems
    <3> QED BY <2>2, <3>1
  <2> QED BY <2>3, <2>4
<1>9. ASSUME NEW x PROVE x \in ToSet(Batch(c)) <=> x \in AllItems(Built(c))
  <2>1. ASSUME NEW n \in DOMAIN c
        PROVE  x \in ToSet(Part(n))
                 <=> Known(c[n]) /\ \E d \in ToSet(IdRange(c[n])) : x \in BatchSet(d, Of(n))
    BY <1>1, <1>2
  <2> QED BY <1>7, <1>8, <2>1
<1> QED BY <1>6, <1>9

\* insert into the empty store: each key has the last entry that has it.
LEMMA Inserted ==
  ASSUME NEW batch \in Seq(Items)
  PROVE  LET t == Insert(<<>>, batch)
         IN /\ \A b \in ToSet(batch) : Key(b.dev, b.entry.oid) \in DOMAIN t
            /\ \A k \in DOMAIN t : \E b \in ToSet(batch) : k = Key(b.dev, b.entry.oid) /\ t[k] = b.entry
<1> DEFINE K(n) == Key(batch[n].dev, batch[n].entry.oid)
           keys == {K(n) : n \in DOMAIN batch}
           Of(k) == {n \in DOMAIN batch : K(n) = k}
           Latest(k) == CHOOSE n \in Of(k) : \A m \in Of(k) : m <= n
           t == [k \in keys |-> batch[Latest(k)].entry]
<1>1. PICK len \in Nat : DOMAIN batch = 1..len
  OBVIOUS
<1>2. ASSUME NEW k \in keys PROVE Of(k) # {} /\ Latest(k) \in Of(k)
  <2>1. Of(k) # {} /\ Of(k) \in SUBSET (0..len)
    BY <1>1
  <2>2. \E n \in Of(k) : \A m \in Of(k) : m <= n
    <3> HIDE DEF Of
    <3> QED BY <2>1, GreatestBelow
  <2> QED BY <2>1, <2>2
<1>3. Insert(<<>>, batch) = t
  <2> DEFINE u == [k \in DOMAIN <<>> \cup keys |-> IF Of(k) = {} THEN <<>>[k] ELSE batch[Latest(k)].entry]
  <2>1. Insert(<<>>, batch) = u
    BY Zenon DEF Insert
  <2>2. DOMAIN <<>> \cup keys = keys
    BY EmptyFacts
  <2>3. u = t
    <3> HIDE DEF keys, Latest
    <3> QED BY <1>2, <2>2
  <2> QED BY <2>1, <2>3
<1>4. DOMAIN t = keys /\ \A k \in keys : t[k] = batch[Latest(k)].entry
  <2> HIDE DEF keys, Latest
  <2> QED OBVIOUS
<1> HIDE DEF t
<1>5. ASSUME NEW b \in ToSet(batch) PROVE Key(b.dev, b.entry.oid) \in keys
  BY DEF ToSet
<1>6. ASSUME NEW k \in keys PROVE \E b \in ToSet(batch) : k = Key(b.dev, b.entry.oid) /\ t[k] = b.entry
  <2>1. Latest(k) \in DOMAIN batch /\ K(Latest(k)) = k
    BY <1>2
  <2>2. t[k] = batch[Latest(k)].entry
    BY <1>4
  <2> HIDE DEF Latest, keys
  <2>3. batch[Latest(k)] \in ToSet(batch)
    BY <2>1 DEF ToSet
  <2> QED BY <2>1, <2>2, <2>3
<1> HIDE DEF keys
<1> QED BY <1>3, <1>4, <1>5, <1>6

\* The key of the Device object of device d.
Own(d) == Key(d, Oid("Device", d))

\* The list of a Device object.
LEMMA ListFacts ==
  ASSUME NEW d \in Instances, NEW points \in Seq(PointIds)
  PROVE  /\ DeviceEntry(d, points).oid = Oid("Device", d)
         /\ ToSet(DeviceEntry(d, points).obj.list) = {Oid("Device", d)} \cup ToSet(points)
<1>1. points \in Seq(Oids) /\ <<Oid("Device", d)>> \in Seq(Oids)
  BY OidFacts
<1>2. ToSet(<<Oid("Device", d)>> \o points) = ToSet(<<Oid("Device", d)>>) \cup ToSet(points)
  <2>1. PICK first \in Seq(Oids) : first = <<Oid("Device", d)>>
    BY <1>1
  <2>2. ToSet(first \o points) = ToSet(first) \cup ToSet(points)
    BY <1>1, ConcatSet
  <2> QED BY <2>1, <2>2
<1>3. ToSet(<<Oid("Device", d)>>) = {Oid("Device", d)}
  BY DEF ToSet
<1> QED BY <1>2, <1>3 DEF DeviceEntry, Entry

\* What the store t holds once everything is put in.
Stocked(built, t) ==
  /\ \A k \in DOMAIN t : /\ k = Key(k[1], t[k].oid) /\ IsEntry(k[1], t[k])
                         /\ \E b \in built : k[1] = b[1]
  /\ \A b \in built : /\ Own(b[1]) \in DOMAIN t
                      /\ \A oid \in ToSet(t[Own(b[1])].obj.list) : Key(b[1], oid) \in DOMAIN t
  /\ \A k \in DOMAIN t :
       (\A a, b \in built : a[1] = k[1] /\ b[1] = k[1] => a[2] = b[2])
         => t[k].oid \in ToSet(t[Own(k[1])].obj.list)

\* The store after the builder: what is in it, and where.
LEMMA StoreBuilt ==
  ASSUME NEW built \in SUBSET (Instances \X Seq(PointIds)), NEW batch \in Seq(Items),
         ToSet(batch) = AllItems(built), NEW t, t = Insert(<<>>, batch)
  PROVE  Stocked(built, t)
<1>1. ASSUME NEW b \in built PROVE b[1] \in Instances /\ b[2] \in Seq(PointIds)
  OBVIOUS
<1>2. ASSUME NEW b \in built, NEW x \in BatchSet(b[1], b[2])
      PROVE  x.dev = b[1] /\ IsEntry(b[1], x.entry) /\ Key(b[1], x.entry.oid) \in DOMAIN t
  <2>1. x.dev = b[1] /\ IsEntry(b[1], x.entry)
    BY <1>1, DeviceBatchFacts
  <2>2. x \in ToSet(batch)
    BY DEF AllItems
  <2> QED BY <2>1, <2>2, Inserted
<1>3. ASSUME NEW k \in DOMAIN t
      PROVE  \E b \in built : \E x \in BatchSet(b[1], b[2]) :
               k = Key(b[1], x.entry.oid) /\ t[k] = x.entry /\ IsEntry(b[1], x.entry)
  <2>1. PICK x \in ToSet(batch) : k = Key(x.dev, x.entry.oid) /\ t[k] = x.entry
    BY Inserted
  <2>2. PICK b \in built : x \in BatchSet(b[1], b[2])
    BY DEF AllItems
  <2>3. x.dev = b[1] /\ IsEntry(b[1], x.entry)
    BY <1>2, <2>2
  <2> QED BY <2>1, <2>2, <2>3
<1>4. ASSUME NEW b \in built
      PROVE  Own(b[1]) \in DOMAIN t /\ \E a \in built : a[1] = b[1] /\ t[Own(b[1])] = DeviceEntry(a[1], a[2])
  <2>1. Own(b[1]) \in DOMAIN t
    <3> DEFINE x == [dev |-> b[1], entry |-> DeviceEntry(b[1], b[2])]
    <3>1. x \in BatchSet(b[1], b[2])
      BY DEF BatchSet
    <3>2. x.entry.oid = Oid("Device", b[1])
      BY <1>1, ListFacts
    <3> HIDE DEF x
    <3> QED BY <1>2, <3>1, <3>2 DEF Own
  <2>2. PICK a \in built : \E x \in BatchSet(a[1], a[2]) :
          /\ Own(b[1]) = Key(a[1], x.entry.oid)
          /\ t[Own(b[1])] = x.entry /\ IsEntry(a[1], x.entry)
    BY <1>3, <2>1
  <2>2a. PICK x \in BatchSet(a[1], a[2]) :
          /\ Own(b[1]) = Key(a[1], x.entry.oid)
          /\ t[Own(b[1])] = x.entry /\ IsEntry(a[1], x.entry)
    BY <2>2
  <2>3. x.entry.oid \in Oids /\ Oid("Device", b[1]) \in Oids
    BY <1>1, <2>2a, OidFacts DEF IsEntry
  <2>4. a[1] = b[1] /\ x.entry.oid = Oid("Device", b[1])
    BY <2>2a, <2>3, KeyInjective DEF Own
  <2>5. x.entry = DeviceEntry(a[1], a[2])
    <3> SUFFICES ASSUME NEW oid \in ToSet(a[2]), x = [dev |-> a[1], entry |-> Entry(oid, NewObject(oid.type))]
                 PROVE  FALSE
      BY DEF BatchSet
    <3>1. x.entry.oid = oid
      BY DEF Entry
    <3>2. oid \in PointIds
      BY <1>1, SeqElement DEF ToSet
    <3> QED BY <1>1, <2>4, <3>1, <3>2, OidFacts
  <2> QED BY <2>1, <2>2a, <2>4, <2>5
<1>5. ASSUME NEW k \in DOMAIN t
      PROVE  /\ k = Key(k[1], t[k].oid) /\ IsEntry(k[1], t[k])
             /\ \E b \in built : k[1] = b[1]
  BY <1>3 DEF Key
<1>6. ASSUME NEW b \in built, NEW oid \in ToSet(t[Own(b[1])].obj.list)
      PROVE  Key(b[1], oid) \in DOMAIN t
  <2>1. PICK a \in built : a[1] = b[1] /\ t[Own(b[1])] = DeviceEntry(a[1], a[2])
    BY <1>4
  <2>2. oid = Oid("Device", a[1]) \/ oid \in ToSet(a[2])
    BY <1>1, <2>1, ListFacts
  <2>3. CASE oid = Oid("Device", a[1])
    BY <1>4, <2>1, <2>3 DEF Own
  <2>4. CASE oid \in ToSet(a[2])
    <3> DEFINE x == [dev |-> a[1], entry |-> Entry(oid, NewObject(oid.type))]
    <3>1. x \in BatchSet(a[1], a[2])
      BY <2>4 DEF BatchSet
    <3>2. x.entry.oid = oid
      BY DEF Entry
    <3> HIDE DEF x
    <3> QED BY <1>2, <2>1, <3>1, <3>2
  <2> QED BY <2>2, <2>3, <2>4
<1>7. ASSUME NEW k \in DOMAIN t,
             \A a, b \in built : a[1] = k[1] /\ b[1] = k[1] => a[2] = b[2]
      PROVE  t[k].oid \in ToSet(t[Own(k[1])].obj.list)
  <2>0. PICK b \in built : \E x \in BatchSet(b[1], b[2]) : k = Key(b[1], x.entry.oid) /\ t[k] = x.entry
    BY <1>3
  <2>1. PICK x \in BatchSet(b[1], b[2]) : k = Key(b[1], x.entry.oid) /\ t[k] = x.entry
    BY <2>0
  <2>2. k[1] = b[1]
    BY <2>1 DEF Key
  <2>3. PICK a \in built : a[1] = b[1] /\ t[Own(b[1])] = DeviceEntry(a[1], a[2])
    BY <1>4
  <2>4. a[2] = b[2]
    BY <1>7, <2>2, <2>3
  <2>5. x.entry.oid = Oid("Device", b[1]) \/ x.entry.oid \in ToSet(b[2])
    <3>1. DeviceEntry(b[1], b[2]).oid = Oid("Device", b[1])
      BY <1>1, ListFacts
    <3> QED BY <3>1 DEF BatchSet, Entry
  <2>6. ToSet(DeviceEntry(a[1], a[2]).obj.list) = {Oid("Device", a[1])} \cup ToSet(a[2])
    BY <1>1, ListFacts
  <2>7. t[k].oid = x.entry.oid /\ t[Own(k[1])] = DeviceEntry(a[1], a[2])
    BY <2>1, <2>2, <2>3
  <2> QED BY <2>3, <2>4, <2>5, <2>6, <2>7
<1> QED BY <1>4, <1>5, <1>6, <1>7 DEF Stocked

-----------------------------------------------------------------------------
(* The calendar.                                                           *)

\* The days before year y, in closed form.
DaysTo(y) == 365 * (y - 1970) + LeapDays(y) - LeapDays(1970)

\* A year is as long as the calendar says.
LEMMA YearStep ==
  ASSUME NEW y \in Nat, y >= 1970
  PROVE  /\ DaysTo(y) \in Int
         /\ DaysTo(y + 1) = DaysTo(y) + YearLength(y)
         /\ IsLeap(y) <=> Gregorian(y)
         /\ YearLength(y) \in {365, 366}
<1>1. LeapDays(y + 1) = LeapDays(y) + (IF IsLeap(y) THEN 1 ELSE 0)
  <2>1. y \div 4 = (y - 1) \div 4 + (IF y % 4 = 0 THEN 1 ELSE 0)
    OBVIOUS
  <2>2. y \div 100 = (y - 1) \div 100 + (IF y % 100 = 0 THEN 1 ELSE 0)
    OBVIOUS
  <2>3. y \div 400 = (y - 1) \div 400 + (IF y % 400 = 0 THEN 1 ELSE 0)
    OBVIOUS
  <2>4. (y % 100 = 0 => y % 4 = 0) /\ (y % 400 = 0 => y % 100 = 0)
    OBVIOUS
  <2>5. (y + 1) - 1 = y
    OBVIOUS
  <2> QED BY <2>1, <2>2, <2>3, <2>4, <2>5 DEF LeapDays, IsLeap
<1>2. IsLeap(y) <=> Gregorian(y)
  BY DEF IsLeap, Gregorian
<1>3. LeapDays(y) \in Int /\ LeapDays(1970) \in Int
  BY DEF LeapDays
<1> QED BY <1>1, <1>2, <1>3 DEF DaysTo, YearLength

\* Later years begin later.
LEMMA YearsAdvance ==
  ASSUME NEW y \in Nat, y >= 1970, NEW n \in Nat
  PROVE  DaysTo(y + n) >= DaysTo(y) + 365 * n
<1> DEFINE T == {k \in Nat : DaysTo(y + k) >= DaysTo(y) + 365 * k}
<1>1. 0 \in T
  BY YearStep
<1>2. ASSUME NEW k \in Nat, k \in T PROVE k + 1 \in T
  <2>1. y + k \in Nat /\ y + k >= 1970 /\ y + (k + 1) = (y + k) + 1
    OBVIOUS
  <2>2. /\ DaysTo(y + k) \in Int /\ DaysTo(y) \in Int
        /\ DaysTo((y + k) + 1) = DaysTo(y + k) + YearLength(y + k)
        /\ YearLength(y + k) \in {365, 366}
    BY <2>1, YearStep
  <2>3. DaysTo(y + (k + 1)) >= DaysTo(y) + 365 * (k + 1)
    BY <1>2, <2>1, <2>2
  <2> QED BY <2>3
<1> HIDE DEF T
<1>3. n \in T
  BY <1>1, <1>2, Induction
<1> QED BY <1>3 DEF T

\* The first year begins on day 0.
LEMMA FirstYear == DaysTo(1970) = 0
BY DEF DaysTo, LeapDays

\* What the loop over the years has left after n turns.
YearsLeft(days) ==
  CHOOSE g : g = [n \in Nat |-> IF n = 0 THEN days ELSE g[n - 1] - YearLength(1969 + n)]

\* The loop over the years ends, in the year of the day.
LEMMA YearLoop ==
  ASSUME NEW days \in Nat, NEW n \in Nat
  PROVE  YearsLeft(days)[n] = days - DaysTo(1970 + n)
<1> DEFINE g == [k \in Nat |-> days - DaysTo(1970 + k)]
           left == YearsLeft(days)
           T == {k \in Nat : left[k] = days - DaysTo(1970 + k)}
<1>1. ASSUME NEW k \in Nat \ {0}
      PROVE  days - DaysTo(1970 + k) = (days - DaysTo(1970 + (k - 1))) - YearLength(1969 + k)
  <2>1. 1969 + k \in Nat /\ 1969 + k >= 1970
        /\ (1969 + k) + 1 = 1970 + k /\ 1970 + (k - 1) = 1969 + k
    OBVIOUS
  <2>2. /\ DaysTo(1969 + k) \in Int /\ YearLength(1969 + k) \in {365, 366}
        /\ DaysTo((1969 + k) + 1) = DaysTo(1969 + k) + YearLength(1969 + k)
    BY <2>1, YearStep
  <2> QED BY <2>1, <2>2
<1>2. g = [k \in Nat |-> IF k = 0 THEN days ELSE g[k - 1] - YearLength(1969 + k)]
  <2>1. ASSUME NEW k \in Nat
        PROVE  g[k] = IF k = 0 THEN days ELSE g[k - 1] - YearLength(1969 + k)
    <3>1. CASE k = 0
      BY <3>1, FirstYear
    <3>2. CASE k # 0
      <4>1. g[k - 1] = days - DaysTo(1970 + (k - 1)) /\ g[k] = days - DaysTo(1970 + k)
        BY <3>2
      <4> QED BY <3>2, <4>1, <1>1
    <3> QED BY <3>1, <3>2
  <2> DEFINE h == [k \in Nat |-> IF k = 0 THEN days ELSE g[k - 1] - YearLength(1969 + k)]
  <2>2. ASSUME NEW k \in Nat PROVE g[k] = h[k]
    <3>1. h[k] = IF k = 0 THEN days ELSE g[k - 1] - YearLength(1969 + k)
      <4> HIDE DEF g
      <4> QED OBVIOUS
    <3> HIDE DEF g, h
    <3> QED BY <2>1, <3>1
  <2>3. g = [k \in Nat |-> g[k]] /\ h = [k \in Nat |-> h[k]]
    OBVIOUS
  <2>4. g = h
    <3> HIDE DEF g, h
    <3> QED BY <2>2, <2>3
  <2> QED BY <2>4
<1>3. left = [k \in Nat |-> IF k = 0 THEN days ELSE left[k - 1] - YearLength(1969 + k)]
  BY <1>2, Zenon DEF YearsLeft
<1> HIDE DEF g, left
<1>4. 0 \in T
  BY <1>3, FirstYear
<1>5. ASSUME NEW k \in Nat, k \in T PROVE k + 1 \in T
  <2>1. left[k + 1] = left[k] - YearLength(1969 + (k + 1))
    BY <1>3
  <2>2. days - DaysTo(1970 + (k + 1)) = (days - DaysTo(1970 + k)) - YearLength(1969 + (k + 1))
    BY <1>1
  <2> QED BY <1>5, <2>1, <2>2
<1> HIDE DEF T
<1>6. n \in T
  BY <1>4, <1>5, Induction
<1> QED BY <1>6 DEF T, left

\* The loop over the years ends in the year the day is in.
LEMMA YearFound ==
  ASSUME NEW days \in Nat
  PROVE  LET y == YearOf(days)
         IN /\ y.year \in Nat /\ y.year >= 1970
            /\ y.days = days - DaysTo(y.year)
            /\ y.days \in 0..YearLength(y.year) - 1
<1> DEFINE left == YearsLeft(days)
           Here(k) == left[k] \in 0..YearLength(1970 + k) - 1
           later == {k \in Nat : days < DaysTo(1970 + k)}
           n == CHOOSE k \in 0..days : Here(k)
<1>1. \A k \in Nat : DaysTo(1970 + k) >= 365 * k
  BY YearsAdvance, FirstYear
<1>2. days + 1 \in later
  <2>1. DaysTo(1970 + (days + 1)) >= 365 * (days + 1)
    BY <1>1
  <2>2. DaysTo(1970 + (days + 1)) \in Int
    BY YearStep
  <2> QED BY <2>1, <2>2
<1>3. PICK x \in later : \A z \in later : x <= z
  <2>1. later \subseteq Nat
    OBVIOUS
  <2> HIDE DEF later
  <2> QED BY <1>2, <2>1, LeastNat
<1>4. x # 0 /\ x - 1 \in Nat
  BY <1>3, FirstYear
<1>5. DaysTo(1970 + (x - 1)) <= days
  <2>1. x - 1 \notin later
    BY <1>3, <1>4
  <2>2. DaysTo(1970 + (x - 1)) \in Int
    BY <1>4, YearStep
  <2> QED BY <1>4, <2>1, <2>2
<1>6. x - 1 \in 0..days
  BY <1>1, <1>4, <1>5, YearStep
<1>7. Here(x - 1)
  <2>1. 1970 + x = (1970 + (x - 1)) + 1 /\ 1970 + (x - 1) \in Nat /\ 1970 + (x - 1) >= 1970
    BY <1>4
  <2>2. /\ DaysTo(1970 + x) = DaysTo(1970 + (x - 1)) + YearLength(1970 + (x - 1))
        /\ YearLength(1970 + (x - 1)) \in {365, 366} /\ DaysTo(1970 + (x - 1)) \in Int
    BY <2>1, YearStep
  <2>3. days < DaysTo(1970 + x)
    BY <1>3
  <2> QED BY <1>4, <1>5, <2>2, <2>3, YearLoop
<1>8. n \in 0..days /\ Here(n)
  BY <1>6, <1>7
<1>9. YearOf(days) = [year |-> 1970 + n, days |-> left[n]]
  BY DEF YearOf, YearsLeft
<1> HIDE DEF n, left
<1>10. left[n] = days - DaysTo(1970 + n)
  BY <1>8, YearLoop DEF left
<1> QED BY <1>8, <1>9, <1>10


\* The days of year y before its month m.
Before(y, m) == DaysBefore[m] + (IF IsLeap(y) /\ m > 2 THEN 1 ELSE 0)

\* A month is as long as the calendar says.
LEMMA MonthStep ==
  ASSUME NEW y, NEW m \in 1..12
  PROVE  /\ Before(y, m) \in Nat /\ MonthLengths(y)[m] \in 28..31
         /\ Before(y, m + 1) = Before(y, m) + MonthLengths(y)[m]
         /\ MonthLengths(y)[m] =
              DaysBefore[m + 1] - DaysBefore[m] + (IF IsLeap(y) /\ m = 2 THEN 1 ELSE 0)
<1>1. CASE IsLeap(y)
  BY <1>1 DEF Before, DaysBefore, MonthLengths
<1>2. CASE ~ IsLeap(y)
  BY <1>2 DEF Before, DaysBefore, MonthLengths
<1> QED BY <1>1, <1>2

\* The months make up the year.
LEMMA MonthsOfYear ==
  ASSUME NEW y
  PROVE  Before(y, 1) = 0 /\ Before(y, 13) = YearLength(y)
BY DEF Before, DaysBefore, YearLength

\* What the loop over the months has left when it comes to month m.
MonthsLeft(days, lengths) ==
  CHOOSE g : g = [m \in 1..13 |-> IF m = 1 THEN days ELSE g[m - 1] - lengths[m - 1]]

\* The loop over the months ends, in the month of the day.
LEMMA MonthLoop ==
  ASSUME NEW y, NEW days \in Nat, NEW m \in 1..13
  PROVE  MonthsLeft(days, MonthLengths(y))[m] = days - Before(y, m)
<1> DEFINE lengths == MonthLengths(y)
           g == [k \in 1..13 |-> days - Before(y, k)]
           left == MonthsLeft(days, lengths)
           T == {k \in Nat : k + 1 \in 1..13 => left[k + 1] = days - Before(y, k + 1)}
<1>1. ASSUME NEW k \in 1..13, k # 1
      PROVE  days - Before(y, k) = (days - Before(y, k - 1)) - lengths[k - 1]
  <2>1. k - 1 \in 1..12 /\ (k - 1) + 1 = k
    BY <1>1
  <2>2. /\ Before(y, k - 1) \in Nat /\ lengths[k - 1] \in 28..31
        /\ Before(y, (k - 1) + 1) = Before(y, k - 1) + lengths[k - 1]
    BY <2>1, MonthStep
  <2> HIDE DEF lengths
  <2> QED BY <2>1, <2>2
<1> HIDE DEF lengths
<1>2. g = [k \in 1..13 |-> IF k = 1 THEN days ELSE g[k - 1] - lengths[k - 1]]
  <2> DEFINE h == [k \in 1..13 |-> IF k = 1 THEN days ELSE g[k - 1] - lengths[k - 1]]
  <2>1. ASSUME NEW k \in 1..13 PROVE g[k] = h[k]
    <3>1. h[k] = IF k = 1 THEN days ELSE g[k - 1] - lengths[k - 1]
      <4> HIDE DEF g
      <4> QED OBVIOUS
    <3>2. CASE k = 1
      <4>1. g[1] = days
        BY MonthsOfYear
      <4> QED BY <3>1, <3>2, <4>1
    <3>3. CASE k # 1
      <4>1. g[k - 1] = days - Before(y, k - 1) /\ g[k] = days - Before(y, k)
        BY <3>3
      <4> QED BY <1>1, <3>1, <3>3, <4>1
    <3> QED BY <3>2, <3>3
  <2>2. g = [k \in 1..13 |-> g[k]] /\ h = [k \in 1..13 |-> h[k]]
    OBVIOUS
  <2>3. g = h
    <3> HIDE DEF g, h
    <3> QED BY <2>1, <2>2
  <2> QED BY <2>3
<1>3. left = [k \in 1..13 |-> IF k = 1 THEN days ELSE left[k - 1] - lengths[k - 1]]
  BY <1>2, Zenon DEF MonthsLeft
<1> HIDE DEF g, left
<1>4. 0 \in T
  BY <1>3, MonthsOfYear
<1>5. ASSUME NEW k \in Nat, k \in T PROVE k + 1 \in T
  <2> SUFFICES ASSUME k + 2 \in 1..13 PROVE left[k + 2] = days - Before(y, k + 2)
    OBVIOUS
  <2>1. left[k + 2] = left[k + 1] - lengths[k + 1]
    <3>1. k + 2 # 1 /\ (k + 2) - 1 = k + 1
      OBVIOUS
    <3> QED BY <1>3, <3>1
  <2>2. left[k + 1] = days - Before(y, k + 1)
    BY <1>5
  <2>3. days - Before(y, k + 2) = (days - Before(y, k + 1)) - lengths[k + 1]
    <3>1. k + 2 # 1 /\ (k + 2) - 1 = k + 1
      OBVIOUS
    <3> QED BY <1>1, <3>1
  <2> QED BY <2>1, <2>2, <2>3
<1>6. m - 1 \in T
  <2> HIDE DEF T
  <2> QED BY <1>4, <1>5, Induction
<1> QED BY <1>6 DEF left, lengths

\* The loop over the months ends in the month the day of the year is in.
LEMMA MonthFound ==
  ASSUME NEW y, NEW days \in 0..YearLength(y) - 1
  PROVE  LET m == MonthOf(days, MonthLengths(y))
         IN /\ m.month \in 1..12
            /\ m.day = days - Before(y, m.month) + 1
            /\ m.day \in 1..MonthLengths(y)[m.month]
<1> DEFINE lengths == MonthLengths(y)
           left == MonthsLeft(days, lengths)
           stops == {m \in 1..12 : left[m] \in 0..lengths[m] - 1}
           month == CHOOSE m \in stops : TRUE
           later == {m \in 1..13 : days < Before(y, m)}
<1>1. days \in Nat
  BY DEF YearLength
<1>2. \E x \in later : \A z \in later : x <= z
  <2>1. 13 \in later /\ later \subseteq Nat
    BY <1>1, MonthsOfYear DEF YearLength
  <2> HIDE DEF later
  <2> QED BY <2>1, LeastNat
<1>3. PICK x \in later : \A z \in later : x <= z
  BY <1>2
<1>4. x # 1 /\ x - 1 \in 1..12 /\ (x - 1) + 1 = x
  BY <1>1, <1>3, MonthsOfYear
<1>5. x - 1 \notin later
  BY <1>3, <1>4
<1>6. x - 1 \in stops
  <2>1. /\ Before(y, x - 1) \in Nat /\ lengths[x - 1] \in 28..31
        /\ Before(y, x) = Before(y, x - 1) + lengths[x - 1]
    BY <1>4, MonthStep
  <2>2. left[x - 1] = days - Before(y, x - 1)
    BY <1>1, <1>4, MonthLoop
  <2> HIDE DEF left, lengths
  <2> QED BY <1>1, <1>3, <1>4, <1>5, <2>1, <2>2
<1>7. month \in stops /\ stops # {}
  BY <1>6
<1>8. MonthOf(days, lengths) = [month |-> month, day |-> left[month] + 1]
  BY <1>7 DEF MonthOf, MonthsLeft
<1>9. left[month] = days - Before(y, month)
  BY <1>1, <1>7, MonthLoop
<1>10. Before(y, month) \in Nat /\ lengths[month] \in 28..31
  BY <1>7, MonthStep
<1>11. month \in 1..12 /\ left[month] \in 0..lengths[month] - 1
  BY <1>7
<1> HIDE DEF month, left, lengths
<1> QED BY <1>1, <1>8, <1>9, <1>10, <1>11 DEF lengths

\* A date of the local date's range is the date of its day.
DateOf(day) ==
  LET d == CurrentUtc(day)
  IN IsDate(d) /\ DayNumber(d) = day /\ d.weekday = WeekdayOf(day)

\* On every day up to the last whose year has 16 bits, current_utc's loops
\* over years and months find the date of the Gregorian calendar.
THEOREM CalendarIsRight == \A day \in 0..LastDay : DateOf(day)
<1> SUFFICES ASSUME NEW day \in 0..LastDay PROVE DateOf(day)
  OBVIOUS
<1> DEFINE y == YearOf(day)
           m == MonthOf(y.days, MonthLengths(y.year))
           d == CurrentUtc(day)
<1>1. LastDay = DaysTo(65536) - 1 /\ day \in Nat /\ day < DaysTo(65536) /\ DaysTo(65536) \in Int
  <2>1. DaysTo(65536) \in Int
    BY YearStep
  <2>2. LastDay = DaysTo(65536) - 1
    BY DEF LastDay, DayNumber, DaysBefore, DaysTo, LeapDays, Gregorian
  <2> QED BY <2>1, <2>2
<1>2. /\ y.year \in Nat /\ y.year >= 1970
      /\ y.days = day - DaysTo(y.year)
      /\ y.days \in 0..YearLength(y.year) - 1
  BY <1>1, YearFound
<1> HIDE DEF y
<1>3. y.year < 65536
  <2> SUFFICES ASSUME y.year >= 65536 PROVE FALSE
    BY <1>2
  <2>1. y.year - 65536 \in Nat /\ 65536 + (y.year - 65536) = y.year
    BY <1>2
  <2>2. DaysTo(y.year) >= DaysTo(65536)
    <3>1. DaysTo(65536 + (y.year - 65536)) >= DaysTo(65536) + 365 * (y.year - 65536)
      BY <2>1, YearsAdvance
    <3>2. DaysTo(y.year) \in Int
      BY <1>2, YearStep
    <3> QED BY <1>1, <2>1, <3>1, <3>2
  <2>3. DaysTo(y.year) \in Int /\ YearLength(y.year) \in {365, 366}
    BY <1>2, YearStep
  <2> QED BY <1>1, <1>2, <2>2, <2>3
<1>4. /\ m.month \in 1..12
      /\ m.day = y.days - Before(y.year, m.month) + 1
      /\ m.day \in 1..MonthLengths(y.year)[m.month]
  BY <1>2, MonthFound
<1>5. d = [year |-> y.year, month |-> m.month, day |-> m.day, weekday |-> ((day + 3) % 7) + 1]
  <2>1. y.year % 65536 = y.year
    BY <1>2, <1>3
  <2> HIDE DEF m
  <2> QED BY <2>1 DEF CurrentUtc, y, m
<1> HIDE DEF m, d
<1>6. d.year = y.year /\ d.month = m.month /\ d.day = m.day /\ d.weekday = ((day + 3) % 7) + 1
  BY <1>5
<1>7. IsLeap(y.year) <=> Gregorian(y.year)
  BY <1>2, YearStep
<1>8. IsDate(d)
  <2>1. MonthLengths(y.year)[m.month] =
          DaysBefore[m.month + 1] - DaysBefore[m.month]
            + (IF IsLeap(y.year) /\ m.month = 2 THEN 1 ELSE 0)
    BY <1>4, MonthStep
  <2> QED BY <1>4, <1>6, <1>7, <2>1 DEF IsDate
<1>9. DayNumber(d) = day
  <2>1. DayNumber(d) = DaysTo(y.year) + Before(y.year, m.month) + m.day - 1
    <3>1. DaysBefore[m.month] \in Int
      BY <1>4 DEF DaysBefore
    <3>2. DaysTo(y.year) \in Int /\ LeapDays(y.year) \in Int /\ LeapDays(1970) \in Int
      BY <1>2 DEF DaysTo, LeapDays
    <3>3. m.day \in Int
      BY <1>2, <1>4, MonthStep
    <3> QED BY <1>2, <1>6, <1>7, <3>1, <3>2, <3>3 DEF DayNumber, DaysTo, Before
  <2>2. Before(y.year, m.month) \in Nat /\ DaysTo(y.year) \in Int
    BY <1>2, <1>4, MonthStep, YearStep
  <2> QED BY <1>1, <1>2, <1>4, <2>1, <2>2
<1>10. d.weekday = WeekdayOf(day)
  <2>1. DayNumber([year |-> 2001, month |-> 1, day |-> 1]) = 11323
    BY DEF DayNumber, DaysBefore, LeapDays, Gregorian
  <2>2. (day - 11323) % 7 = (day + 3) % 7
    BY <1>1
  <2> QED BY <1>6, <2>1, <2>2 DEF WeekdayOf
<1> QED BY <1>8, <1>9, <1>10 DEF DateOf, d

-----------------------------------------------------------------------------
(* The inductive invariant.                                                *)

\* The devices of the configuration, as main registers them.
Configured(c) == IF c = Demo THEN <<DemoDevice>> ELSE DevicesOf(c)

\* Where main is: nobody is served before everything is built.
Phases ==
  /\ config \in Configs
  /\ phase \in {"register", "build", "serve"}
  /\ phase = "register" => deviceIds = <<>>
  /\ phase # "register" => /\ deviceIds \in Seq(Instances) /\ Distinct(deviceIds)
                           /\ ToSet(deviceIds) = ToSet(Configured(config))
  /\ phase # "serve" => devices = {} /\ store = <<>> /\ answer = None

\* Every object is under its key, one of a device that answers Who-Is.
InPlace ==
  /\ devices \subseteq ToSet(Configured(config)) \cap Instances
  /\ \A k \in DOMAIN store :
       k[1] \in devices /\ k = Key(k[1], store[k].oid) /\ IsEntry(k[1], store[k])

\* What a Device object lists is there ...
ListsHold ==
  \A d \in devices : /\ Own(d) \in DOMAIN store
                     /\ \A oid \in ToSet(store[Own(d)].obj.list) : Key(d, oid) \in DOMAIN store

\* ... and what is there is listed.
AllListed ==
  \A k \in DOMAIN store :
    ~ Overlapping(k[1]) => store[k].oid \in ToSet(store[Own(k[1])].obj.list)

\* A date that was read is the date of its day.
DatesRead ==
  answer # None /\ answer.op = "date" =>
    \E day \in Days : answer.what = [day |-> day, date |-> CurrentUtc(day)]

ManagementInv == Phases /\ InPlace /\ ListsHold /\ AllListed /\ DatesRead

\* An object is found under its own identifier, and is what that says.
LEMMA EntryAt ==
  ASSUME InPlace, NEW d, NEW oid \in Oids, Has(d, oid)
  PROVE  /\ d \in devices /\ d \in Instances
         /\ store[Key(d, oid)].oid = oid /\ IsEntry(d, store[Key(d, oid)])
         /\ store[Key(d, oid)] = Entry(oid, At(d, oid))
         /\ \/ oid = Oid("Device", d) /\ At(d, oid) \in DeviceObjects
            \/ oid \in PointIds /\ oid.type \in Kinds /\ At(d, oid) \in Objects /\ At(d, oid).kind = oid.type
<1> DEFINE k == Key(d, oid)
           e == store[k]
<1>1. k \in DOMAIN store /\ k[1] = d
  BY DEF Has, Key
<1> HIDE DEF k
<1>2. d \in devices /\ d \in Instances /\ k = Key(d, e.oid) /\ IsEntry(d, e)
  BY <1>1 DEF InPlace
<1>3. e.oid \in Oids
  BY <1>2, OidFacts DEF IsEntry
<1>4. e.oid = oid
  BY <1>2, <1>3, KeyInjective DEF k
<1>5. At(d, oid) = e.obj
  BY DEF At, k
<1> HIDE DEF e
<1> QED BY <1>2, <1>4, <1>5 DEF k, e, IsEntry, PointIds

\* The objects clients ask for.
LEMMA AskedType ==
  ASSUME InPlace, NEW d, NEW oid \in Asked(d)
  PROVE  oid \in Oids
<1>1. Oid("AnalogValue", 9) \in Oids
  <2>1. 9 \in Instances
    <3>1. 9 < InstanceLimit
      BY SMT DEF InstanceLimit
    <3> QED BY <3>1, InstanceFacts
  <2> QED BY <2>1 DEF Oids, Oid, TypeCode
<1>2. ASSUME NEW k \in DOMAIN store PROVE store[k].oid \in Oids
  BY OidFacts DEF InPlace, IsEntry
<1> QED BY <1>1, <1>2 DEF Asked

\* Writing an object of the store keeps everything that is about which objects
\* there are.
LEMMA Rewritten ==
  ASSUME InPlace, ListsHold, AllListed, NEW d, NEW oid \in Oids, Has(d, oid), NEW x,
         store' = [store EXCEPT ![Key(d, oid)].obj = x],
         IF oid = Oid("Device", d) THEN x = At(d, oid) ELSE x \in Objects /\ x.kind = oid.type,
         UNCHANGED <<config, devices>>
  PROVE  InPlace' /\ ListsHold' /\ AllListed'
<1> DEFINE k == Key(d, oid)
<1>1. /\ d \in devices /\ d \in Instances
      /\ store[k].oid = oid /\ IsEntry(d, store[k]) /\ store[k] = Entry(oid, At(d, oid))
      /\ \/ oid = Oid("Device", d) /\ At(d, oid) \in DeviceObjects
         \/ oid \in PointIds /\ oid.type \in Kinds /\ At(d, oid) \in Objects /\ At(d, oid).kind = oid.type
  BY EntryAt
<1>2. k \in DOMAIN store /\ k[1] = d
  BY DEF Has, Key
<1>3. DOMAIN store' = DOMAIN store /\ store'[k] = [store[k] EXCEPT !.obj = x]
      /\ \A l \in DOMAIN store : l # k => store'[l] = store[l]
  <2> HIDE DEF k
  <2> QED BY <1>2 DEF k
<1>4. store'[k] = Entry(oid, x)
  BY <1>1, <1>3 DEF Entry
<1>5. oid = Oid("Device", d) => store'[k] = store[k]
  BY <1>1, <1>4
<1> HIDE DEF k
<1>6. IsEntry(d, store'[k])
  <2>1. oid \in PointIds => oid # Oid("Device", d)
    BY <1>1, OidFacts
  <2> QED BY <1>1, <1>4, <1>5, <2>1 DEF IsEntry, Entry
<1>7. ASSUME NEW l \in DOMAIN store PROVE store'[l].oid = store[l].oid
  BY <1>1, <1>3, <1>4 DEF Entry
<1>8. ASSUME NEW l \in DOMAIN store PROVE IsEntry(l[1], store'[l])
  BY <1>2, <1>3, <1>6 DEF InPlace
<1>9. InPlace'
  <2>1. ToSet(Configured(config))' = ToSet(Configured(config))
    BY DEF Configured
  <2>2. ASSUME NEW l \in DOMAIN store
        PROVE  l[1] \in devices /\ l = Key(l[1], store'[l].oid) /\ IsEntry(l[1], store'[l])
    <3>1. l[1] \in devices /\ l = Key(l[1], store[l].oid)
      BY DEF InPlace
    <3> QED BY <1>7, <1>8, <3>1
  <2> QED BY <1>3, <2>1, <2>2 DEF InPlace
<1>10. ASSUME NEW c \in devices PROVE Own(c) \in DOMAIN store /\ store'[Own(c)] = store[Own(c)]
  <2>1. Own(c) \in DOMAIN store /\ c \in Instances
    BY DEF ListsHold, InPlace
  <2>2. CASE Own(c) = k
    <3>1. Oid("Device", c) = oid /\ c = d
      BY <2>1, <2>2, OidFacts, KeyInjective DEF Own, k
    <3> QED BY <1>5, <2>1, <2>2, <3>1
  <2> QED BY <1>3, <2>1, <2>2
<1>11. ListsHold'
  BY <1>3, <1>10 DEF ListsHold
<1>12. AllListed'
  <2>1. ASSUME NEW c PROVE Overlapping(c)' = Overlapping(c)
    BY DEF Overlapping, Known
  <2>2. ASSUME NEW l \in DOMAIN store, ~ Overlapping(l[1])
        PROVE  store'[l].oid \in ToSet(store'[Own(l[1])].obj.list)
    <3>1. store[l].oid \in ToSet(store[Own(l[1])].obj.list) /\ l[1] \in devices
      BY <2>2 DEF AllListed, InPlace
    <3> QED BY <1>7, <1>10, <3>1
  <2> QED BY <1>3, <2>1, <2>2 DEF AllListed
<1> QED BY <1>9, <1>11, <1>12

-----------------------------------------------------------------------------
(* The actions.                                                            *)

\* A configuration is the demo or a sequence of groups.
LEMMA ConfigCases ==
  ASSUME Phases
  PROVE  config = Demo \/ (config # Demo /\ config \in Seq(DeviceGroup))
BY ManagementAssumption DEF Phases

\* The ids of all groups.
LEMMA ConfiguredFacts ==
  ASSUME Phases
  PROVE  /\ Configured(config) \in Seq(Instances)
         /\ config # Demo =>
              ToSet(Configured(config)) = UNION {ToSet(IdRange(config[n])) : n \in DOMAIN config}
<1>1. CASE config = Demo
  <2>1. DemoDevice \in Instances
    BY ManagementAssumption
  <2> QED BY <1>1, <2>1 DEF Configured
<1>2. CASE config # Demo
  <2>1. PICK c \in Seq(DeviceGroup) : c = config
    BY <1>2, ConfigCases
  <2>2. PICK len \in Nat : DOMAIN c = 1..len
    OBVIOUS
  <2> DEFINE all == [n \in DOMAIN c |-> IdRange(c[n])]
  <2>3. ASSUME NEW n \in 1..len PROVE IdRange(c[n]) \in Seq(Instances)
    BY <2>2, SeqElement, IdRangeType
  <2>4. all \in [1..len -> Seq(Instances)]
    BY <2>2, <2>3
  <2>5. DOMAIN all = DOMAIN c /\ \A n \in DOMAIN c : all[n] = IdRange(c[n])
    OBVIOUS
  <2>6. DevicesOf(c) = FlattenSeq(all)
    BY Zenon DEF DevicesOf
  <2> HIDE DEF all
  <2>7. all \in Seq(Seq(Instances))
    BY <2>4
  <2>8. FlattenSeq(all) \in Seq(Instances) /\ ToSet(FlattenSeq(all)) = UNION {ToSet(all[n]) : n \in DOMAIN all}
    BY <2>7, Flattened
  <2>9. UNION {ToSet(all[n]) : n \in DOMAIN all} = UNION {ToSet(IdRange(c[n])) : n \in DOMAIN c}
    BY <2>5
  <2> QED BY <1>2, <2>1, <2>6, <2>8, <2>9 DEF Configured
<1> QED BY <1>1, <1>2

\* main registers every device once.
LEMMA RegisterStep ==
  ASSUME ManagementInv, Register
  PROVE  ManagementInv'
<1>1. deviceIds = <<>> /\ deviceIds' = RegisterAll(deviceIds, Configured(config)) /\ phase' = "build"
      /\ UNCHANGED <<config, devices, store, answer, writes>>
  BY DEF Register, ManagementInv, Phases, Configured
<1>2. Configured(config) \in Seq(Instances)
  BY ConfiguredFacts DEF ManagementInv
<1>3. deviceIds' \in Seq(Instances) /\ Distinct(deviceIds') /\ ToSet(deviceIds') = ToSet(Configured(config))
  <2>1. deviceIds \in Seq(Instances) /\ Distinct(deviceIds) /\ ToSet(deviceIds) = {}
    BY <1>1, EmptyFacts DEF Distinct
  <2>2. PICK new \in Seq(Instances) : new = Configured(config)
    BY <1>2
  <2>3. PICK ids \in Seq(Instances) : ids = deviceIds
    BY <2>1
  <2>4. LET r == RegisterAll(ids, new)
        IN r \in Seq(Instances) /\ Distinct(r) /\ ToSet(r) = ToSet(ids) \cup ToSet(new)
    <3>1. Distinct(ids)
      BY <2>1, <2>3
    <3> QED BY <3>1, Registered
  <2> QED BY <1>1, <2>1, <2>2, <2>3, <2>4
<1>4. devices = {} /\ store = <<>> /\ answer = None
  BY DEF ManagementInv, Phases, Register
<1>5. Phases'
  <2>1. config \in Configs
    BY DEF ManagementInv, Phases
  <2> QED BY <1>1, <1>3, <1>4, <2>1 DEF Phases, Configured, Distinct
<1>6. DOMAIN store = {}
  BY <1>4, EmptyFacts
<1> QED BY <1>1, <1>4, <1>5, <1>6 DEF ManagementInv, InPlace, ListsHold, AllListed, DatesRead

\* Building fills store and dispatcher from the same devices.
LEMMA BuildStep ==
  ASSUME ManagementInv, Build
  PROVE  ManagementInv'
<1> DEFINE built == IF config = Demo THEN {<<DemoDevice, DemoListed>>} ELSE Built(config)
           batch == IF config = Demo THEN DeviceBatch(DemoDevice, DemoListed, DemoObjects) ELSE Batch(config)
<1>1. /\ store = <<>> /\ devices = {} /\ answer = None /\ phase = "build" /\ phase' = "serve"
      /\ UNCHANGED <<config, deviceIds, answer, writes>>
      /\ store' = Insert(<<>>, batch)
  BY DEF Build, ManagementInv, Phases
<1>2. /\ built \in SUBSET (Instances \X Seq(PointIds)) /\ batch \in Seq(Items)
      /\ ToSet(batch) = AllItems(built)
  <2>1. CASE config = Demo
    <3>1. DemoDevice \in Instances /\ DemoListed \in Seq(PointIds)
      BY ManagementAssumption, DemoFacts
    <3>2. PICK b : b = <<DemoDevice, DemoListed>>
      OBVIOUS
    <3>3. b \in Instances \X Seq(PointIds) /\ b[1] = DemoDevice /\ b[2] = DemoListed
      BY <3>1, <3>2
    <3>4. AllItems({b}) = BatchSet(b[1], b[2])
      BY DEF AllItems
    <3>5. DeviceBatch(b[1], b[2], b[2]) \in Seq(Items) /\ ToSet(DeviceBatch(b[1], b[2], b[2])) = BatchSet(b[1], b[2])
      BY <3>1, <3>3, DeviceBatchFacts
    <3> QED BY <2>1, <3>2, <3>3, <3>4, <3>5, DemoFacts
  <2>2. CASE config # Demo
    <3>1. config \in Seq(DeviceGroup)
      BY <2>2, ConfigCases DEF ManagementInv
    <3>2. Batch(config) \in Seq(Items) /\ ToSet(Batch(config)) = AllItems(Built(config))
      BY <3>1, BatchFacts
    <3>3. Built(config) \subseteq Instances \X Seq(PointIds)
      BY DEF Built
    <3> QED BY <2>2, <3>2, <3>3
  <2> QED BY <2>1, <2>2
<1>3. devices' = {b[1] : b \in built} /\ devices' \subseteq ToSet(Configured(config)) \cap Instances
  <2>1. CASE config = Demo
    <3>1. DemoDevice \in Instances
      BY ManagementAssumption
    <3>2. devices' = {DemoDevice} /\ built = {<<DemoDevice, DemoListed>>}
      BY <1>1, <2>1 DEF Build
    <3>3. ToSet(Configured(config)) = {DemoDevice}
      BY <2>1 DEF Configured, ToSet
    <3>4. PICK b : b = <<DemoDevice, DemoListed>>
      OBVIOUS
    <3>5. built = {b} /\ b[1] = DemoDevice
      BY <3>2, <3>4
    <3> HIDE DEF built
    <3> QED BY <3>1, <3>2, <3>3, <3>5
  <2>2. CASE config # Demo
    <3>1. config \in Seq(DeviceGroup)
      BY <2>2, ConfigCases DEF ManagementInv
    <3>2. devices' = UNION {ToSet(IdRange(config[n])) : n \in {m \in DOMAIN config : Known(config[m])}}
      BY <1>1, <2>2 DEF Build
    <3>3. ASSUME NEW n \in DOMAIN config, Known(config[n]), NEW d \in ToSet(IdRange(config[n]))
          PROVE  /\ d \in Instances /\ d \in ToSet(Configured(config))
                 /\ <<d, ListedPoints(Profiles[config[n].profile])>> \in Built(config)
      <4>1. IdRange(config[n]) \in Seq(Instances)
        BY <3>1, SeqElement, IdRangeType
      <4>2. d \in Instances
        BY <4>1, SeqElement DEF ToSet
      <4>3. d \in ToSet(Configured(config))
        BY <2>2, ConfiguredFacts DEF ManagementInv
      <4>4. ListedPoints(Profiles[config[n].profile]) \in Seq(PointIds)
        <5>1. Profiles[config[n].profile] \in ProfileConfig
          BY <3>3, ManagementAssumption DEF Known
        <5> QED BY <5>1, PointsType
      <4> QED BY <3>3, <4>2, <4>3, <4>4 DEF Built
    <3>4. ASSUME NEW d \in devices' PROVE \E b \in Built(config) : d = b[1]
      <4>1. PICK n \in DOMAIN config : Known(config[n]) /\ d \in ToSet(IdRange(config[n]))
        BY <3>2
      <4>2. <<d, ListedPoints(Profiles[config[n].profile])>> \in Built(config)
        BY <3>3, <4>1
      <4>3. PICK b \in Built(config) : b = <<d, ListedPoints(Profiles[config[n].profile])>>
        BY <4>2
      <4> QED BY <4>3
    <3>5. ASSUME NEW b \in Built(config) PROVE b[1] \in devices'
      BY <3>2 DEF Built
    <3>6. devices' \subseteq ToSet(Configured(config)) \cap Instances
      BY <3>2, <3>3
    <3> QED BY <2>2, <3>4, <3>5, <3>6
  <2> QED BY <2>1, <2>2
<1>4. ASSUME NEW d, ~ Overlapping(d), NEW a \in built, NEW b \in built, a[1] = d, b[1] = d
      PROVE  a[2] = b[2]
  <2>1. CASE config = Demo
    BY <2>1
  <2>2. CASE config # Demo
    <3>1. PICK m \in DOMAIN config : /\ Known(config[m]) /\ d \in ToSet(IdRange(config[m]))
                                     /\ a[2] = ListedPoints(Profiles[config[m].profile])
      BY <1>4, <2>2 DEF Built
    <3>2. PICK n \in DOMAIN config : /\ Known(config[n]) /\ d \in ToSet(IdRange(config[n]))
                                     /\ b[2] = ListedPoints(Profiles[config[n].profile])
      BY <1>4, <2>2 DEF Built
    <3>3. m = n
      BY <1>4, <2>2, <3>1, <3>2 DEF Overlapping
    <3> QED BY <3>1, <3>2, <3>3
  <2> QED BY <2>1, <2>2
<1> HIDE DEF built, batch
<1>5. Stocked(built, store')
  BY <1>1, <1>2, StoreBuilt
<1>6. ToSet(Configured(config))' = ToSet(Configured(config)) /\ \A d : Overlapping(d)' <=> Overlapping(d)
  BY <1>1 DEF Configured, Overlapping, Known
<1>7. Phases'
  BY <1>1, <1>6 DEF ManagementInv, Phases, Distinct
<1>8. InPlace'
  BY <1>3, <1>5, <1>6 DEF InPlace, Stocked
<1>9. ListsHold'
  BY <1>3, <1>5 DEF ListsHold, Stocked
<1>10. AllListed'
  <2> SUFFICES ASSUME NEW k \in DOMAIN store', ~ Overlapping(k[1])
               PROVE  store'[k].oid \in ToSet(store'[Own(k[1])].obj.list)
    BY <1>6 DEF AllListed
  <2>1. \A a, b \in built : a[1] = k[1] /\ b[1] = k[1] => a[2] = b[2]
    BY <1>4
  <2> QED BY <1>5, <2>1 DEF Stocked
<1>11. DatesRead'
  BY <1>1 DEF DatesRead
<1> QED BY <1>7, <1>8, <1>9, <1>10, <1>11 DEF ManagementInv

\* What the proofs use of the f32 numbers.
LEMMA FloatFacts ==
  /\ Overflow \in Nat /\ 0 \in Floats /\ Overflow \in Floats
  /\ \A s \in Floats : s \in Nat /\ s <= Overflow
<1>1. Overflow \in Nat /\ 0 \in Singles /\ \A s \in Singles : s \in 0..Overflow - 1
  BY ManagementAssumption
<1> QED BY <1>1 DEF Floats

\* A number is narrowed to a nearest one, whatever the precision.
LEMMA NarrowNearest ==
  ASSUME NEW x \in Nat
  PROVE  Narrow(x) \in Floats /\ Narrow(x) \in Nat /\ Nearest(Narrow(x), x)
<1> DEFINE lo == CHOOSE s \in Floats : s <= x /\ \A t \in Floats : t <= x => t <= s
           hi == CHOOSE s \in Floats : s >= x /\ \A t \in Floats : t >= x => t >= s
<1>1. CASE x >= Overflow
  <2>1. Narrow(x) = Overflow
    BY <1>1 DEF Narrow
  <2> QED BY <1>1, <2>1, FloatFacts DEF Nearest, Distance
<1>2. CASE x < Overflow
  <2>1. lo \in Floats /\ lo <= x /\ \A t \in Floats : t <= x => t <= lo
    <3> DEFINE S == {s \in Floats : s <= x}
    <3>1. 0 \in S /\ S \in SUBSET (0..x)
      <4>1. 0 \in Floats /\ 0 <= x
        BY FloatFacts
      <4>2. ASSUME NEW s \in S PROVE s \in 0..x
        <5>1. s \in Floats /\ s <= x
          OBVIOUS
        <5>2. s \in Nat
          BY <5>1, FloatFacts
        <5> QED BY <5>1, <5>2
      <4> QED BY <4>1, <4>2
    <3>2. \E s \in S : \A t \in S : t <= s
      <4> HIDE DEF S
      <4> QED BY <3>1, GreatestBelow
    <3>3. \E s \in Floats : s <= x /\ \A t \in Floats : t <= x => t <= s
      BY <3>2
    <3> QED BY <3>3
  <2>2. hi \in Floats /\ hi >= x /\ \A t \in Floats : t >= x => t >= hi
    <3> DEFINE S == {s \in Floats : s >= x}
    <3>1. Overflow \in S /\ S \in SUBSET Nat
      <4>1. Overflow \in Floats /\ Overflow >= x
        BY <1>2, FloatFacts
      <4> QED BY <4>1, FloatFacts
    <3>2. \E s \in S : \A t \in S : s <= t
      <4> HIDE DEF S
      <4> QED BY <3>1, LeastNat
    <3>3. \E s \in Floats : s >= x /\ \A t \in Floats : t >= x => t >= s
      BY <3>2, FloatFacts
    <3> QED BY <3>3
  <2>3. Narrow(x) = IF x - lo < hi - x \/ (x - lo = hi - x /\ lo \in EvenSingles) THEN lo ELSE hi
    <3>1. ~ x >= Overflow
      BY <1>2, FloatFacts
    <3> QED BY <3>1, Zenon DEF Narrow
  <2> HIDE DEF lo, hi
  <2>4. lo \in Nat /\ hi \in Nat /\ \A s \in Floats : s \in Nat /\ (s <= lo \/ s >= hi)
    BY <2>1, <2>2, FloatFacts
  <2>5. CASE Narrow(x) = lo /\ x - lo <= hi - x
    BY <2>1, <2>2, <2>4, <2>5 DEF Nearest, Distance
  <2>6. CASE Narrow(x) = hi /\ hi - x <= x - lo
    BY <2>1, <2>2, <2>4, <2>6 DEF Nearest, Distance
  <2> QED BY <2>3, <2>4, <2>5, <2>6
<1> QED BY <1>1, <1>2, FloatFacts

\* What a PUT's value becomes.
LEMMA JsonType ==
  ASSUME NEW j \in Jsons
  PROVE  /\ j.val \in Nat
         /\ j.json \in {"null", "bool", "number", "string", "array"}
         /\ j.json = "bool" => j = Json("bool", j.val) /\ j.val \in {0, 1}
         /\ FromJson(j).val = IF j.json = "number" THEN Narrow(j.val) ELSE j.val
         /\ FromJson(j).tag = "Error" <=> j.json = "array"
         /\ FromJson(j).tag = "Null" <=> j.json = "null"
         /\ FromJson(j).tag = "Boolean" <=> j.json = "bool"
         /\ FromJson(j).tag = "Real" <=> j.json = "number"
         /\ FromJson(j).tag = "CharacterString" <=> j.json = "string"
         /\ FromJson(j).tag # "Error" => FromJson(j) \in [tag : Tags, val : Nat]
<1>1. /\ j.val \in Nat /\ j.json \in {"null", "bool", "number", "string", "array"}
      /\ j.json = "bool" => j = Json("bool", j.val) /\ j.val \in {0, 1}
  BY ManagementAssumption DEF Jsons, Json
<1>2. Narrow(j.val) \in Nat
  BY <1>1, NarrowNearest
<1> QED BY <1>1, <1>2 DEF FromJson, Tags

\* A PUT leaves identifiers and lists alone.
LEMMA WritePropertyStep ==
  ASSUME ManagementInv, NEW d, NEW oid \in Asked(d), NEW prop, NEW j \in Jsons,
         WriteProperty(d, oid, prop, j)
  PROVE  ManagementInv'
<1> DEFINE v == FromJson(j)
           w == ForceWriteObject(At(d, oid), prop, v)
<1>1. /\ phase = "serve" /\ UNCHANGED <<config, phase, deviceIds, devices>>
      /\ answer' # None => answer'.op = "put"
  BY DEF WriteProperty, Serving, Answer
<1>2. Phases'
  BY <1>1 DEF ManagementInv, Phases, Configured, Distinct
<1>3. DatesRead'
  BY <1>1 DEF DatesRead
<1>4. oid \in Oids
  BY AskedType DEF ManagementInv
<1>5. InPlace' /\ ListsHold' /\ AllListed'
  <2>1. CASE store' = store
    BY <1>1, <2>1 DEF ManagementInv, InPlace, ListsHold, AllListed, Configured, Overlapping, Known
  <2>2. CASE store' # store
    <3>1. /\ Has(d, oid) /\ v.tag # "Error"
          /\ store' = [store EXCEPT ![Key(d, oid)].obj = w.obj]
      BY <2>2 DEF WriteProperty
    <3>2. \/ oid = Oid("Device", d) /\ At(d, oid) \in DeviceObjects
          \/ oid \in PointIds /\ oid.type \in Kinds /\ At(d, oid) \in Objects /\ At(d, oid).kind = oid.type
      BY <1>4, <3>1, EntryAt DEF ManagementInv
    <3>3. d \in Instances
      BY <1>4, <3>1, EntryAt DEF ManagementInv
    <3>4. IF oid = Oid("Device", d) THEN w.obj = At(d, oid) ELSE w.obj \in Objects /\ w.obj.kind = oid.type
      <4>1. CASE oid = Oid("Device", d)
        <5>1. At(d, oid).kind = "Device"
          BY <3>2, <3>3, <4>1, OidFacts DEF DeviceObjects
        <5> QED BY <4>1, <5>1 DEF ForceWriteObject, Reply
      <4>2. CASE oid # Oid("Device", d)
        <5>1. At(d, oid) \in Objects /\ At(d, oid).kind = oid.type /\ At(d, oid).kind # "Device"
          BY <3>2, <4>2 DEF Kinds, Inputs, Commandable
        <5>2. w = ForceWrite(At(d, oid), prop, v)
          BY <5>1 DEF ForceWriteObject
        <5>3. v \in [tag : Tags, val : Nat]
          BY <3>1, JsonType
        <5> HIDE DEF v, w
        <5> QED BY <4>2, <5>1, <5>2, <5>3, ForceType
      <4> QED BY <4>1, <4>2
    <3> HIDE DEF v, w
    <3> QED BY <1>1, <1>4, <3>1, <3>4, Rewritten DEF ManagementInv
  <2> QED BY <2>1, <2>2
<1> QED BY <1>2, <1>3, <1>5 DEF ManagementInv

\* So does the write of a client.
LEMMA ClientWriteStep ==
  ASSUME ManagementInv, NEW d, NEW oid \in Asked(d), NEW prop, NEW v \in [tag : Tags, val : Nat],
         NEW pri, ClientWrite(d, oid, prop, v, pri)
  PROVE  ManagementInv'
<1>1. /\ phase = "serve" /\ UNCHANGED <<config, phase, deviceIds, devices, answer>>
      /\ Has(d, oid) /\ oid.type # "Device"
  BY DEF ClientWrite, Serving
<1>2. Phases' /\ DatesRead'
  BY <1>1 DEF ManagementInv, Phases, Configured, Distinct, DatesRead
<1>3. oid \in Oids
  BY AskedType DEF ManagementInv
<1>4. oid # Oid("Device", d)
  BY <1>1 DEF Oid
<1>5. At(d, oid) \in Objects /\ At(d, oid).kind = oid.type
  BY <1>1, <1>3, <1>4, EntryAt DEF ManagementInv
<1> DEFINE x == Write(At(d, oid), prop, v, pri).obj
<1>6. x \in Objects /\ x.kind = oid.type
  BY <1>5, WriteType
<1>7. store' = [store EXCEPT ![Key(d, oid)].obj = x]
  BY DEF ClientWrite, At
<1> HIDE DEF x
<1>8. InPlace' /\ ListsHold' /\ AllListed'
  BY <1>1, <1>3, <1>4, <1>6, <1>7, Rewritten DEF ManagementInv
<1> QED BY <1>2, <1>8 DEF ManagementInv

\* A read changes nothing but the answer.
LEMMA ReadStep ==
  ASSUME ManagementInv, Read, phase = "serve", DatesRead'
  PROVE  ManagementInv'
BY DEF ManagementInv, Read, Phases, InPlace, ListsHold, AllListed, Configured, Distinct, Overlapping, Known

\* The invariant holds before main has done anything.
LEMMA ManagementInit ==
  ASSUME Init
  PROVE  ManagementInv
<1>1. DOMAIN store = {}
  BY EmptyFacts DEF Init
<1> QED BY <1>1 DEF Init, ManagementInv, Phases, InPlace, ListsHold, AllListed, DatesRead

\* Every step keeps the invariant.
LEMMA ManagementStep ==
  ASSUME ManagementInv, [Next]_vars
  PROVE  ManagementInv'
<1>1. CASE Register
  BY <1>1, RegisterStep
<1>2. CASE Build
  BY <1>2, BuildStep
<1>3. CASE Health
  <2>1. Read /\ phase = "serve" /\ answer'.op = "health"
    BY <1>3 DEF Health, Serving, Answer
  <2> QED BY <2>1, ReadStep DEF DatesRead
<1>4. CASE ListDevices
  <2>1. Read /\ phase = "serve" /\ answer'.op = "devices"
    BY <1>4 DEF ListDevices, Serving, Answer
  <2> QED BY <2>1, ReadStep DEF DatesRead
<1>5. CASE Done
  <2>1. Read /\ phase = "serve" /\ answer' = None
    BY <1>5 DEF Done, ManagementInv, Phases
  <2> QED BY <2>1, ReadStep DEF DatesRead
<1>6. ASSUME NEW d \in Ids, GetDevice(d) PROVE ManagementInv'
  <2>1. Read /\ phase = "serve" /\ answer'.op = "device"
    BY <1>6 DEF GetDevice, Serving, Answer
  <2> QED BY <2>1, ReadStep DEF DatesRead
<1>7. ASSUME NEW d \in Ids, ListObjects(d) PROVE ManagementInv'
  <2>1. Read /\ phase = "serve" /\ answer'.op = "objects"
    BY <1>7 DEF ListObjects, Serving, Answer
  <2> QED BY <2>1, ReadStep DEF DatesRead
<1>8. ASSUME NEW d \in Ids, NEW oid \in Asked(d), GetObject(d, oid) PROVE ManagementInv'
  <2>1. Read /\ phase = "serve" /\ answer'.op = "object"
    BY <1>8 DEF GetObject, Serving, Answer
  <2> QED BY <2>1, ReadStep DEF DatesRead
<1>9. ASSUME NEW d \in Ids, NEW i \in {None} \cup 0..5, ReadList(d, i) PROVE ManagementInv'
  <2>1. Read /\ phase = "serve" /\ answer'.op = "list"
    BY <1>9 DEF ReadList, Serving, Answer
  <2> QED BY <2>1, ReadStep DEF DatesRead
<1>10. ASSUME NEW day \in Days, ReadDate(day) PROVE ManagementInv'
  <2>1. Read /\ phase = "serve" /\ answer'.what = [day |-> day, date |-> CurrentUtc(day)]
    BY <1>10 DEF ReadDate, Serving, Answer
  <2> QED BY <2>1, ReadStep DEF DatesRead
<1>11. CASE UNCHANGED vars
  BY <1>11 DEF vars, ManagementInv, Phases, InPlace, ListsHold, AllListed, DatesRead,
               Configured, Distinct, Overlapping, Known
<1>12. ASSUME NEW v \in {[tag |-> "Real", val |-> 7], Bool(TRUE), Bool(FALSE)}
       PROVE  v \in [tag : Tags, val : Nat]
  BY DEF Bool, Tags
<1> QED BY <1>1, <1>2, <1>3, <1>4, <1>5, <1>6, <1>7, <1>8, <1>9, <1>10, <1>11, <1>12,
           WritePropertyStep, ClientWriteStep DEF Next

\* The inductive invariant of the start-up and of the API.
LEMMA ManagementInvariant == Spec => []ManagementInv
BY ManagementInit, ManagementStep, PTL DEF Spec

-----------------------------------------------------------------------------
(* The theorems.                                                           *)

\* What discovery finds by the invariant.
LEMMA DiscoverableFollows ==
  ASSUME ManagementInv
  PROVE  Discoverable
<1> SUFFICES ASSUME phase = "serve" PROVE Discoverable
  BY DEF Discoverable
<1>1. devices \subseteq ToSet(deviceIds) /\ Cardinality(ToSet(deviceIds)) = Len(deviceIds)
  <2>1. deviceIds \in Seq(Instances) /\ Distinct(deviceIds) /\ ToSet(deviceIds) = ToSet(Configured(config))
    BY DEF ManagementInv, Phases
  <2>2. devices \subseteq ToSet(Configured(config))
    BY DEF ManagementInv, InPlace
  <2> QED BY <2>1, <2>2, DistinctLen
<1>2. ASSUME NEW d \in devices
      PROVE  /\ Has(d, Oid("Device", d)) /\ At(d, Oid("Device", d)) \in DeviceObjects
             /\ At(d, Oid("Device", d)) = store[Own(d)].obj
             /\ d \in Instances
  <2>1. d \in Instances /\ Oid("Device", d) \in Oids /\ Oid("Device", d) \notin PointIds
    BY OidFacts DEF ManagementInv, InPlace
  <2>2. Has(d, Oid("Device", d))
    BY DEF ManagementInv, ListsHold, Has, Own
  <2> QED BY <2>1, <2>2, EntryAt DEF ManagementInv, At, Own
<1>3. ASSUME NEW d \in devices
      PROVE  LET o == At(d, Oid("Device", d))
             IN /\ ReadObjectList(o, 0).val = Len(o.list)
                /\ ReadObjectList(o, None).val = o.list
                /\ \A i \in 1..Len(o.list) : ReadObjectList(o, i).val = o.list[i] /\ o.list[i] \in ToSet(o.list)
  <2>1. PICK o \in DeviceObjects : o = At(d, Oid("Device", d))
    BY <1>2
  <2>2. o.list \in Seq(Oids)
    BY DEF DeviceObjects
  <2>3. None # 0 /\ \A i \in 1..Len(o.list) : i # None
    BY <2>2, ObjectAssumption
  <2>4. \A i \in 1..Len(o.list) : i # 0 /\ i \in DOMAIN o.list
    BY <2>2
  <2> QED BY <2>1, <2>3, <2>4 DEF ReadObjectList, ToSet
<1>4. ASSUME NEW d \in devices, NEW i \in 1..ReadObjectList(At(d, Oid("Device", d)), 0).val
      PROVE  LET oid == ReadObjectList(At(d, Oid("Device", d)), i).val
             IN Has(d, oid) /\ store[Key(d, oid)].oid = oid
  <2> DEFINE o == At(d, Oid("Device", d))
             oid == ReadObjectList(o, i).val
  <2>1. o \in DeviceObjects /\ o = store[Own(d)].obj
    BY <1>2
  <2>2. oid = o.list[i] /\ oid \in ToSet(o.list)
    BY <1>3
  <2> HIDE DEF o, oid
  <2>3. oid \in Oids
    <3>1. o.list \in Seq(Oids)
      BY <2>1 DEF DeviceObjects
    <3> QED BY <2>2, <3>1, SeqElement DEF ToSet
  <2>4. Has(d, oid)
    BY <2>1, <2>2 DEF ManagementInv, ListsHold, Has
  <2>5. store[Key(d, oid)].oid = oid
    BY <2>3, <2>4, EntryAt DEF ManagementInv
  <2> QED BY <2>4, <2>5 DEF oid, o
<1>5. ASSUME NEW k \in DOMAIN store
      PROVE  k[1] \in devices /\ (~ Overlapping(k[1]) => store[k].oid \in ToSet(CollectObjects(k[1])))
  <2>1. k[1] \in devices
    BY DEF ManagementInv, InPlace
  <2>2. CollectObjects(k[1]) = store[Own(k[1])].obj.list
    BY <1>2, <1>3, <2>1 DEF CollectObjects
  <2> QED BY <2>1, <2>2 DEF ManagementInv, AllListed
<1>6. \A d \in devices : Has(d, Oid("Device", d)) /\ At(d, Oid("Device", d)).kind = "Device"
  BY <1>2 DEF DeviceObjects
<1> QED BY <1>1, <1>4, <1>5, <1>6 DEF Discoverable

\* Whatever the configuration says, what answers Who-Is is registered and has
\* its Device object, which lists what is in the store and nothing else.
THEOREM DiscoveryAgrees == Spec => []Discoverable
BY ManagementInvariant, DiscoverableFollows, PTL

\* The local date of a Device object is right on every day whose year fits.
THEOREM DateIsRightAlways == Spec => []DateIsRight
<1>1. ASSUME ManagementInv PROVE DateIsRight
  <2> SUFFICES ASSUME answer # None, answer.op = "date"
               PROVE  LET d == answer.what.date
                      IN /\ IsDate(d)
                         /\ DayNumber(d) = answer.what.day
                         /\ d.weekday = WeekdayOf(answer.what.day)
    BY DEF DateIsRight
  <2>1. PICK day \in Days : answer.what = [day |-> day, date |-> CurrentUtc(day)]
    BY <1>1 DEF ManagementInv, DatesRead
  <2>2. DateOf(day)
    BY ManagementAssumption, CalendarIsRight
  <2> QED BY <2>1, <2>2 DEF DateOf
<1> QED BY <1>1, ManagementInvariant, PTL

\* What the API takes for a property is what the object can hold.
LEMMA PutDecides ==
  ASSUME NEW o \in Objects, NEW j \in Jsons, FromJson(j).tag # "Error",
         NEW prop \in {"PresentValue", "OutOfService"}
  PROVE  ForceWriteObject(o, prop, FromJson(j)).result = "Ok" <=> Accepts(o, prop, j)
<1> DEFINE v == FromJson(j)
<1>1. o.kind \in Kinds /\ o.kind # "Device" /\ Shape(o)
  BY ObjectShape DEF Objects, Kinds, Inputs, Commandable
<1>2. ForceWriteObject(o, prop, v) = ForceWrite(o, prop, v)
  BY <1>1 DEF ForceWriteObject
<1>3. v \in [tag : Tags, val : Nat]
  BY JsonType
<1>4. v.tag \in {"Null", "Boolean", "Real", "CharacterString"}
  BY JsonType
<1>5. CASE prop = "PresentValue"
  <2>1. ForceWrite(o, prop, v).result = "Ok" <=> Fits(o.kind, v)
    BY <1>1, <1>3, <1>5, ForceApplies
  <2>2. Fits(o.kind, v) <=> Accepts(o, prop, j)
    <3>1. /\ v.tag = "Null" <=> j.json = "null"
          /\ v.tag = "Boolean" <=> j.json = "bool"
          /\ v.tag = "Real" <=> j.json = "number"
      BY JsonType
    <3> HIDE DEF v
    <3> QED BY <1>1, <1>4, <1>5, <3>1 DEF Fits, Takes, AsF32, AsBool, Accepts, Analog, Binaries,
                                          Kinds, Inputs, Commandable
  <2> QED BY <1>2, <2>1, <2>2
<1>6. CASE prop = "OutOfService"
  <2>1. ForceWrite(o, prop, v).result = "Ok" <=> TakesService(o.kind, v)
    BY <1>6 DEF ForceWrite, Write, Reply
  <2>2. TakesService(o.kind, v) <=> v.tag = "Boolean"
    BY <1>4 DEF TakesService, AsBool
  <2>3. v.tag = "Boolean" <=> j.json = "bool"
    BY JsonType
  <2>4. Accepts(o, prop, j) <=> j.json = "bool"
    BY <1>1, <1>6 DEF Accepts
  <2>5. ForceWriteObject(o, prop, v).result = "Ok" <=> ForceWrite(o, prop, v).result = "Ok"
    BY <1>2
  <2> QED BY <2>1, <2>2, <2>3, <2>4, <2>5
<1> QED BY <1>5, <1>6

\* One PUT.
LEMMA PutStep ==
  ASSUME ManagementInv, NEW d, NEW oid \in Asked(d), NEW prop \in {"PresentValue", "OutOfService"},
         NEW j \in Jsons, WriteProperty(d, oid, prop, j)
  PROVE  PutAnswered
<1> DEFINE v == FromJson(j)
           o == At(d, oid)
           w == ForceWriteObject(o, prop, v)
           overruled == o.kind \in Commandable /\ \E q \in 1..NumPriorities - 1 : o.slots[q] # None
           Right == IF ~ Has(d, oid) THEN answer'.status = 404
                    ELSE /\ answer'.status = (IF Accepts(o, prop, j) THEN 204 ELSE 400)
                         /\ answer'.status = 204 /\ prop = "PresentValue" /\ ~ overruled /\ j.json # "null" =>
                              ToJson(ReadPresent(store'[Key(d, oid)].obj)) \in Shown(o.kind, j)
<1>1. answer'.what = [dev |-> d, oid |-> oid, prop |-> prop, json |-> j]
  BY DEF WriteProperty, Answer
<1> SUFFICES Right
  BY <1>1 DEF PutAnswered
<1>2. oid \in Oids
  BY AskedType DEF ManagementInv
<1>3. CASE ~ Has(d, oid)
  BY <1>3 DEF WriteProperty, Answer
<1>4. CASE Has(d, oid) /\ v.tag = "Error"
  <2>1. answer'.status = 400
    BY <1>4 DEF WriteProperty, Answer
  <2>2. j.json = "array"
    BY <1>4, JsonType
  <2> HIDE DEF v, o
  <2> QED BY <1>4, <2>1, <2>2 DEF Accepts
<1>5. CASE Has(d, oid) /\ v.tag # "Error"
  <2>1. /\ answer'.status = (IF w.result = "Ok" THEN 204 ELSE 400)
        /\ store' = [store EXCEPT ![Key(d, oid)].obj = w.obj]
    BY <1>5 DEF WriteProperty, Answer
  <2>2. /\ d \in Instances
        /\ store[Key(d, oid)] = Entry(oid, o)
        /\ \/ oid = Oid("Device", d) /\ o \in DeviceObjects
           \/ oid \in PointIds /\ oid.type \in Kinds /\ o \in Objects /\ o.kind = oid.type
    BY <1>2, <1>5, EntryAt DEF ManagementInv
  <2>3. store'[Key(d, oid)].obj = w.obj
    <3>1. Key(d, oid) \in DOMAIN store
      BY <1>5 DEF Has
    <3> HIDE DEF w, o
    <3> QED BY <2>1, <2>2, <3>1 DEF Entry
  <2>4. CASE o \in DeviceObjects
    <3>1. o.kind = "Device"
      BY <2>4 DEF DeviceObjects
    <3>2. w.result # "Ok"
      BY <3>1 DEF ForceWriteObject, Reply
    <3>3. ~ Accepts(o, prop, j)
      <4> HIDE DEF o
      <4> QED BY <3>1 DEF Accepts, Analog, Binaries, Commandable
    <3> HIDE DEF w, o, v
    <3> QED BY <1>5, <2>1, <3>2, <3>3
  <2>5. CASE o \in Objects
    <3>1. w.result = "Ok" <=> Accepts(o, prop, j)
      <4> HIDE DEF o
      <4> QED BY <1>5, <2>5, PutDecides
    <3>2. ASSUME w.result = "Ok", prop = "PresentValue", ~ overruled, j.json # "null"
          PROVE  ToJson(ReadPresent(w.obj)) \in Shown(o.kind, j)
      <4>1. Shape(o) /\ o.kind \in Kinds /\ o.kind # "Device" /\ o \in Objects
        <5> HIDE DEF o
        <5> QED BY <2>5, ObjectShape DEF Objects, Kinds, Inputs, Commandable
      <4>2. v \in [tag : Tags, val : Nat] /\ v.tag # "Null"
        BY <1>5, <3>2, JsonType
      <4>3. w = ForceWrite(o, "PresentValue", v)
        BY <3>2, <4>1 DEF ForceWriteObject
      <4>4. ~ Overruled(o)
        BY <3>2 DEF Overruled
      <4>5. Present(w.obj) = Stored(o.kind, v) /\ Fits(o.kind, v)
        <5> HIDE DEF o, v, w
        <5> QED BY <3>2, <4>1, <4>2, <4>3, <4>4, ForceApplies
      <4>6. w.obj.kind = o.kind
        <5> HIDE DEF o, v, w
        <5> QED BY <4>1, <4>2, <4>3, ForceType
      <4>7. Accepts(o, prop, j)
        BY <3>1, <3>2
      <4> HIDE DEF o, w
      <4>8. CASE o.kind \in Analog
        <5>1. j.json = "number"
          BY <3>2, <4>7, <4>8 DEF Accepts, Analog, Binaries
        <5>2. Present(w.obj) = Narrow(j.val) /\ Narrow(j.val) \in Nat
          BY <4>5, <4>8, <5>1, JsonType, NarrowNearest DEF Stored, Analog, Binaries
        <5>3. ReadPresent(w.obj) = [val |-> Narrow(j.val), tag |-> "Real"]
          BY <4>6, <4>8, <5>2 DEF ReadPresent, Analog
        <5>4. PICK m : m = Narrow(j.val) /\ m \in Floats /\ m \in Nat /\ Nearest(m, j.val)
          BY JsonType, NarrowNearest
        <5>5. ToJson(ReadPresent(w.obj)) = IF m = Overflow THEN Json("null", 0) ELSE Json("number", m)
          BY <5>3, <5>4, FloatFacts DEF ToJson
        <5> QED BY <4>8, <5>4, <5>5 DEF Shown
      <4>9. CASE o.kind \in Binaries
        <5>1. j = Json("bool", j.val) /\ j.val \in {0, 1} /\ v.val = j.val
          <6>1. j.json = "bool"
            BY <3>2, <4>7, <4>9 DEF Accepts, Analog, Binaries
          <6> QED BY <6>1, JsonType
        <5> HIDE DEF v
        <5>2. Present(w.obj) = j.val
          BY <4>5, <4>9, <5>1 DEF Stored
        <5>3. ReadPresent(w.obj) =
                [val |-> j.val, tag |-> IF o.kind = "BinaryValue" THEN "Boolean" ELSE "Enumerated"]
          BY <4>6, <4>9, <5>2 DEF ReadPresent, Binaries
        <5> QED BY <4>9, <5>1, <5>3 DEF Shown, ToJson, Json, Analog, Binaries
      <4>10. o.kind \in Analog \cup Binaries
        BY <3>2, <4>7 DEF Accepts, Commandable, Analog, Binaries
      <4> QED BY <4>8, <4>9, <4>10
    <3> HIDE DEF w, o, v
    <3>3. store'[Key(d, oid)].obj = w.obj
      BY <2>3
    <3> HIDE DEF overruled
    <3> QED BY <1>5, <2>1, <3>1, <3>2, <3>3
  <2> QED BY <2>2, <2>4, <2>5
<1> QED BY <1>3, <1>4, <1>5

\* A PUT is accepted if and only if the object can hold the value, and shows.
THEOREM PutShowsAlways == Spec => PutShows
<1>1. ASSUME ManagementInv, [Next]_vars PROVE [PutAnswered]_vars
  <2>1. ASSUME NEW d \in Ids, NEW oid \in Asked(d), NEW prop \in {"PresentValue", "OutOfService"},
               NEW j \in Jsons, WriteProperty(d, oid, prop, j)
        PROVE  PutAnswered
    BY <1>1, <2>1, PutStep
  <2>2. ASSUME answer' = answer \/ answer' = None \/ answer'.op # "put" PROVE PutAnswered
    BY <2>2 DEF PutAnswered
  <2>3. CASE Register \/ Build
    BY <2>2, <2>3 DEF Register, Build
  <2>4. CASE Health \/ ListDevices \/ Done
    BY <2>2, <2>4 DEF Health, ListDevices, Done, Answer
  <2>5. ASSUME NEW d \in Ids, GetDevice(d) \/ ListObjects(d) PROVE PutAnswered
    BY <2>2, <2>5 DEF GetDevice, ListObjects, Answer
  <2>6. ASSUME NEW d \in Ids, NEW oid \in Asked(d), GetObject(d, oid) PROVE PutAnswered
    BY <2>2, <2>6 DEF GetObject, Answer
  <2>7. ASSUME NEW d \in Ids, NEW oid \in Asked(d), NEW prop, NEW v, NEW pri, ClientWrite(d, oid, prop, v, pri)
        PROVE  PutAnswered
    BY <2>2, <2>7 DEF ClientWrite
  <2>8. ASSUME NEW d \in Ids, NEW i \in {None} \cup 0..5, ReadList(d, i) PROVE PutAnswered
    BY <2>2, <2>8 DEF ReadList, Answer
  <2>9. ASSUME NEW day \in Days, ReadDate(day) PROVE PutAnswered
    BY <2>2, <2>9 DEF ReadDate, Answer
  <2>10. CASE UNCHANGED vars
    BY <2>10
  <2> QED BY <1>1, <2>1, <2>3, <2>4, <2>5, <2>6, <2>7, <2>8, <2>9, <2>10 DEF Next
<1> QED BY <1>1, ManagementInvariant, PTL DEF Spec, PutShows

=============================================================================
