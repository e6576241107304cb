----------------------------- MODULE Management -----------------------------
(***************************************************************************)
(* How the program comes up and what its REST API does: main registers the *)
(* configured devices with the API and has build_simulation fill the       *)
(* object store and the dispatcher (or builds the demo device); then the   *)
(* API's handlers serve requests while BACnet clients read the Device      *)
(* objects and write the points.  A handler holds the lock of an object    *)
(* from its first access to its last, so each is one step.                 *)
(***************************************************************************)
EXTENDS BacnetObject, Clock, SequencesExt

CONSTANTS
  Configs,    \* the configurations: a sequence of device groups, or Demo
  Profiles,   \* the profiles of the configuration file, by name
  Demo,       \* no configuration file: demo mode
  DemoDevice, \* BACNET_DEVICE_ID
  Normalise(_), \* a type's name in lower case, with _ for blanks and hyphens
  Singles,    \* the finite f32 numbers, counted in a unit that makes every f64 whole
  EvenSingles,  \* those with an even significand
  Overflow,   \* where infinity begins, the power of two after the last single
  Numbers,    \* the numbers clients send, as f64
  Ids,        \* the device ids clients ask for
  Days,       \* the days (since 1970) on which a client reads the date
  MaxInstance,  \* bound: clients ask for the points numbered up to it
  MaxWrites   \* bound: how many writes a behaviour has

\* An instance number has at most 22 bits.
InstanceLimit == 4194304

Instances == 0..InstanceLimit - 1

\* A range of device ids with the name of its profile, and what a profile says:
\* how many objects of each type a device has.
DeviceGroup == [lo : Instances, hi : Instances, profile : STRING]

ProfileConfig == Seq([type : STRING, count : Instances])

ASSUME ManagementAssumption ==
  /\ Configs \subseteq Seq(DeviceGroup) \cup {Demo} /\ Demo \notin Seq(DeviceGroup)
  /\ DemoDevice \in Instances
  /\ \A name \in DOMAIN Profiles : Profiles[name] \in ProfileConfig
  /\ Overflow \in Nat /\ Singles \subseteq 0..Overflow - 1 /\ 0 \in Singles
  /\ EvenSingles \subseteq Singles
  /\ Numbers \subseteq Nat
  /\ Ids \subseteq Nat
  /\ Days \subseteq 0..LastDay

VARIABLES
  config,     \* the configuration
  phase,      \* what main does next: register, build or serve
  deviceIds,  \* AppState.device_ids, a sequence
  devices,    \* the ids in the dispatcher's map, which answer Who-Is
  store,      \* the ObjectStore: from keys to objects
  answer,     \* the answer to the request being served, None between requests
  writes      \* how many writes there have been

vars == <<config, phase, deviceIds, devices, store, answer, writes>>

-----------------------------------------------------------------------------
(* The object store.                                                       *)

TypeCode == [AnalogInput |-> 0, AnalogOutput |-> 1, AnalogValue |-> 2, BinaryInput |-> 3,
             BinaryOutput |-> 4, BinaryValue |-> 5, Device |-> 8, MultiStateInput |-> 13]

Oid(type, i) == [type |-> type, instance |-> i]

\* shard_key: the type is shifted by the 22 bits an instance has at most, so
\* that putting the instance in is an addition.  The shard itself follows
\* from the key.
Key(dev, oid) == <<dev, TypeCode[oid.type] * InstanceLimit + oid.instance>>

Has(dev, oid) == Key(dev, oid) \in DOMAIN store

\* An entry of the store knows its identifier; what it holds is a point object or
\* a Device object.
Entry(oid, obj) == [oid |-> oid, obj |-> obj]

At(dev, oid) == store[Key(dev, oid)].obj

\* insert and bulk_insert of entries, each with its device: a later entry
\* replaces an earlier one.
Insert(s, batch) ==
  LET Of(k) == {n \in DOMAIN batch : Key(batch[n].dev, batch[n].entry.oid) = k}
  IN [k \in DOMAIN s \cup {Key(batch[n].dev, batch[n].entry.oid) : n \in DOMAIN batch} |->
        IF Of(k) = {} THEN s[k] ELSE batch[CHOOSE n \in Of(k) : \A m \in Of(k) : m <= n].entry]

-----------------------------------------------------------------------------
(* The simulation builder.                                                 *)

\* parse_object_type, by which the object list is made ...
ParseObjectType(name) ==
  LET n == Normalise(name)
  IN CASE n \in {"analoginput", "analog_input"} -> "AnalogInput"
       [] n \in {"analogoutput", "analog_output"} -> "AnalogOutput"
       [] n \in {"analogvalue", "analog_value"} -> "AnalogValue"
       [] n \in {"binaryinput", "binary_input"} -> "BinaryInput"
       [] n \in {"binaryoutput", "binary_output"} -> "BinaryOutput"
       [] n \in {"binaryvalue", "binary_value"} -> "BinaryValue"
       [] n \in {"multistateinput", "multistate_input", "msi"} -> "MultiStateInput"
       [] OTHER -> None

\* Faults (here and below): forms of a definition with a bug the code could
\* plausibly have, against which the properties are tried.
ObjectMade_NoMsi(name) ==
  IF Normalise(name) = "msi" THEN None ELSE ParseObjectType(name)

\* ... and the match of add_profile_objects, by which the objects are.
ObjectMade(name) ==
  LET n == Normalise(name)
  IN CASE n \in {"analoginput", "analog_input"} -> "AnalogInput"
       [] n \in {"analogoutput", "analog_output"} -> "AnalogOutput"
       [] n \in {"analogvalue", "analog_value"} -> "AnalogValue"
       [] n \in {"binaryinput", "binary_input"} -> "BinaryInput"
       [] n \in {"binaryoutput", "binary_output"} -> "BinaryOutput"
       [] n \in {"binaryvalue", "binary_value"} -> "BinaryValue"
       [] n \in {"multistateinput", "multistate_input", "msi"} -> "MultiStateInput"
       [] OTHER -> None

\* Points of one type; a type that is not known is skipped.
Numbered(type, count) ==
  IF type = None THEN <<>> ELSE [i \in 1..count |-> Oid(type, i)]

ListedPoints(profile) ==
  FlattenSeq([n \in DOMAIN profile |-> Numbered(ParseObjectType(profile[n].type), profile[n].count)])

ProfilePoints(profile) ==
  FlattenSeq([n \in DOMAIN profile |-> Numbered(ObjectMade(profile[n].type), profile[n].count)])

\* The demo device: what its object list is given, and what is inserted.
DemoListed == Numbered("AnalogInput", 8) \o Numbered("BinaryInput", 4)

DemoObjects == Numbered("AnalogInput", 8) \o Numbered("BinaryInput", 4)

DeviceEntry(d, listed) ==
  Entry(Oid("Device", d), [kind |-> "Device", list |-> <<Oid("Device", d)>> \o listed])

\* A device's object, then the objects of its points.
DeviceBatch(d, listed, points) ==
  <<[dev |-> d, entry |-> DeviceEntry(d, listed)]>>
    \o [i \in DOMAIN points |-> [dev |-> d, entry |-> Entry(points[i], NewObject(points[i].type))]]

IdRange(g) == [i \in 1..(IF g.hi < g.lo THEN 0 ELSE g.hi - g.lo + 1) |-> g.lo + i - 1]

\* A group whose profile is unknown is skipped.
Known(g) == g.profile \in DOMAIN Profiles

Batch(c) ==
  FlattenSeq([n \in DOMAIN c |->
    IF Known(c[n])
      THEN FlattenSeq([i \in DOMAIN IdRange(c[n]) |->
                         DeviceBatch(IdRange(c[n])[i], ListedPoints(Profiles[c[n].profile]),
                                     ProfilePoints(Profiles[c[n].profile]))])
      ELSE <<>>])

DevicesOf(groups) == FlattenSeq([n \in DOMAIN groups |-> IdRange(groups[n])])

RegisterDevice(ids, id) == IF id \in ToSet(ids) THEN ids ELSE Append(ids, id)

\* The ids that are registered after one more loop over the devices new.
RegisterAll(ids, new) ==
  LET registered[n \in 0..Len(new)] ==
        IF n = 0 THEN ids ELSE RegisterDevice(registered[n - 1], new[n])
  IN registered[Len(new)]

\* main registers the devices of every group, also of those build_simulation
\* will skip.  (In demo mode it does so after building; nobody is served yet.)
Register ==
  /\ phase = "register"
  /\ deviceIds' = RegisterAll(deviceIds, IF config = Demo THEN <<DemoDevice>> ELSE DevicesOf(config))
  /\ phase' = "build"
  /\ UNCHANGED <<config, devices, store, answer, writes>>

Build ==
  /\ phase = "build"
  /\ IF config = Demo
       THEN /\ store' = Insert(store, DeviceBatch(DemoDevice, DemoListed, DemoObjects))
            /\ devices' = devices \cup {DemoDevice}
       ELSE /\ store' = Insert(store, Batch(config))
            /\ devices' = devices \cup
                 UNION {ToSet(IdRange(config[n])) : n \in {m \in DOMAIN config : Known(config[m])}}
  /\ phase' = "serve"
  /\ UNCHANGED <<config, deviceIds, answer, writes>>

-----------------------------------------------------------------------------
(* The Device object.                                                      *)

\* read_property of ObjectList, a whole array, its length or an element.
ReadObjectList(o, index) ==
  CASE index = None -> [result |-> "Ok", val |-> o.list]
    [] index = 0 -> [result |-> "Ok", val |-> Len(o.list)]
    [] index \in DOMAIN o.list -> [result |-> "Ok", val |-> o.list[index]]
    [] OTHER -> [result |-> "ValueOutOfRange", val |-> None]

\* A device takes no write, whatever force_write_property tries.
ForceWriteObject(o, prop, v) ==
  IF o.kind = "Device" THEN Reply("WriteAccessDenied", o) ELSE ForceWrite(o, prop, v)

-----------------------------------------------------------------------------
(* JSON.                                                                   *)

Json(t, x) == [json |-> t, val |-> x]

\* The data type read_property gives present_value.
ReadPresent(o) ==
  [val |-> Present(o),
   tag |-> CASE o.kind \in {"AnalogInput", "AnalogOutput", "AnalogValue"} -> "Real"
             [] o.kind \in {"BinaryInput", "BinaryOutput"} -> "Enumerated"
             [] o.kind = "BinaryValue" -> "Boolean"
             [] o.kind = "MultiStateInput" -> "Unsigned"]

Floats == Singles \cup {Overflow}

\* The cast of an f64 to an f32: to the nearer of its neighbours, from the
\* middle to the even one, from Overflow on to infinity.
Narrow(x) ==
  LET lo == CHOOSE s \in Floats : s <= x /\ \A t \in Floats : t <= x => t <= s
      hi == CHOOSE s \in Floats : s >= x /\ \A t \in Floats : t >= x => t >= s
  IN IF x >= Overflow THEN Overflow
     ELSE IF x - lo < hi - x \/ (x - lo = hi - x /\ lo \in EvenSingles) THEN lo ELSE hi

\* property_to_json: JSON has no infinity.
ToJson(v) ==
  IF v.tag = "Null" \/ (v.tag = "Real" /\ v.val >= Overflow) THEN Json("null", 0)
  ELSE Json(CASE v.tag = "Boolean" -> "bool"
              [] v.tag = "CharacterString" -> "string"
              [] OTHER -> "number", v.val)

FromJson_Whole(j) ==
  [val |-> j.val,
   tag |-> CASE j.json = "null" -> "Null" [] j.json = "bool" -> "Boolean"
             [] j.json = "number" -> "Unsigned" [] j.json = "string" -> "CharacterString"
             [] OTHER -> "Error"]

\* json_to_property_value: every number becomes a Real.
FromJson(j) ==
  [val |-> IF j.json = "number" THEN Narrow(j.val) ELSE j.val,
   tag |-> CASE j.json = "null" -> "Null" [] j.json = "bool" -> "Boolean"
             [] j.json = "number" -> "Real" [] j.json = "string" -> "CharacterString"
             [] OTHER -> "Error"]

-----------------------------------------------------------------------------
(* The REST handlers.                                                      *)

CountObjects(d) ==
  IF Has(d, Oid("Device", d)) THEN ReadObjectList(At(d, Oid("Device", d)), 0).val ELSE 0

CollectObjects(d) ==
  IF Has(d, Oid("Device", d)) THEN ReadObjectList(At(d, Oid("Device", d)), None).val ELSE <<>>

Serving == phase = "serve" /\ answer = None

Answer(op, status, what) == answer' = [op |-> op, status |-> status, what |-> what]

Read == UNCHANGED <<config, phase, deviceIds, devices, store, writes>>

Health ==
  /\ Serving /\ Read
  /\ Answer("health", 200, [objects |-> Cardinality(DOMAIN store), devices |-> Len(deviceIds)])

ListDevices ==
  /\ Serving /\ Read
  /\ Answer("devices", 200, [i \in DOMAIN deviceIds |->
                               [id |-> deviceIds[i], count |-> CountObjects(deviceIds[i])]])

GetDevice(d) ==
  /\ Serving /\ Read
  /\ IF d \in ToSet(deviceIds) THEN Answer("device", 200, [id |-> d, count |-> CountObjects(d)])
     ELSE Answer("device", 404, None)

ListObjects(d) ==
  /\ Serving /\ Read
  /\ IF d \in ToSet(deviceIds) THEN Answer("objects", 200, CollectObjects(d))
     ELSE Answer("objects", 404, None)

GetObject(d, oid) ==
  /\ Serving /\ Read
  /\ IF ~ Has(d, oid) THEN Answer("object", 404, None)
     ELSE Answer("object", 200,
                 IF oid.type = "Device" THEN At(d, oid).list ELSE ToJson(ReadPresent(At(d, oid))))

\* PUT: force_write_property with what the JSON value stands for.
WriteProperty(d, oid, prop, j) ==
  LET v == FromJson(j)
      w == ForceWriteObject(At(d, oid), prop, v)
      put == [dev |-> d, oid |-> oid, prop |-> prop, json |-> j]
  IN /\ Serving /\ writes < MaxWrites
     /\ writes' = writes + 1
     /\ IF ~ Has(d, oid) THEN Answer("put", 404, put) /\ UNCHANGED store
        ELSE IF v.tag = "Error" THEN Answer("put", 400, put) /\ UNCHANGED store
        ELSE /\ Answer("put", IF w.result = "Ok" THEN 204 ELSE 400, put)
             /\ store' = [store EXCEPT ![Key(d, oid)].obj = w.obj]
     /\ UNCHANGED <<config, phase, deviceIds, devices>>

-----------------------------------------------------------------------------
(* BACnet clients.                                                         *)

ReadList(d, index) ==
  /\ Serving /\ Read /\ d \in devices
  /\ LET r == ReadObjectList(At(d, Oid("Device", d)), index) IN Answer("list", r.result, r.val)

ReadDate(day) == Serving /\ Read /\ devices # {} /\ Answer("date", "Ok", [day |-> day, date |-> CurrentUtc(day)])

ClientWrite(d, oid, prop, v, pri) ==
  /\ Serving /\ writes < MaxWrites
  /\ d \in devices /\ Has(d, oid) /\ oid.type # "Device"
  /\ writes' = writes + 1
  /\ store' = [store EXCEPT ![Key(d, oid)].obj = Write(@, prop, v, pri).obj]
  /\ UNCHANGED <<config, phase, deviceIds, devices, answer>>

Done == answer # None /\ answer' = None /\ Read

-----------------------------------------------------------------------------

Init ==
  /\ config \in Configs
  /\ phase = "register" /\ deviceIds = <<>> /\ devices = {} /\ store = <<>>
  /\ answer = None /\ writes = 0

\* The objects clients ask for: those there are, and one there is not.
Asked(d) ==
  {oid \in {store[k].oid : k \in {x \in DOMAIN store : x[1] = d}} :
     oid.type = "Device" \/ oid.instance <= MaxInstance} \cup {Oid("AnalogValue", 9)}

Jsons ==
  {Json("number", x) : x \in Numbers}
    \cup {Json("bool", 0), Json("bool", 1), Json("null", 0), Json("string", 0), Json("array", 0)}

Next ==
  \/ Register \/ Build
  \/ Health \/ ListDevices \/ Done
  \/ \E d \in Ids :
       \/ GetDevice(d) \/ ListObjects(d)
       \/ \E oid \in Asked(d) :
            \/ GetObject(d, oid)
            \/ \E prop \in {"PresentValue", "OutOfService"}, j \in Jsons : WriteProperty(d, oid, prop, j)
            \/ \E pri \in {None, 1} : ClientWrite(d, oid, "PresentValue", [tag |-> "Real", val |-> 7], pri)
            \/ \E v \in {Bool(TRUE), Bool(FALSE)} : ClientWrite(d, oid, "OutOfService", v, None)
       \/ \E i \in {None} \cup 0..5 : ReadList(d, i)
  \/ \E day \in Days : ReadDate(day)

Spec == Init /\ [][Next]_vars

-----------------------------------------------------------------------------
(* Properties.                                                             *)

Overlapping(d) ==
  config # Demo /\ \E i, j \in DOMAIN config :
    /\ i # j /\ Known(config[i]) /\ Known(config[j])
    /\ d \in ToSet(IdRange(config[i])) \cap ToSet(IdRange(config[j]))

\* Whatever the configuration says (groups that overlap or name no profile,
\* types given twice or not known, empty ranges), the parts main fills agree
\* once the program serves.  A device that answers Who-Is is listed by the
\* API, once, and has a Device object; every object its list names, read as a
\* BACnet client reads it, is in the store under its own identifier; and an
\* object in the store is on the list of a device that answers, unless its
\* device is in two groups, whose later list replaces the earlier one.
Discoverable ==
  phase = "serve" =>
    /\ devices \subseteq ToSet(deviceIds) /\ Cardinality(ToSet(deviceIds)) = Len(deviceIds)
    /\ \A d \in devices :
         /\ Has(d, Oid("Device", d)) /\ At(d, Oid("Device", d)).kind = "Device"
         /\ LET o == At(d, Oid("Device", d))
            IN \A i \in 1..ReadObjectList(o, 0).val :
                 LET oid == ReadObjectList(o, i).val
                 IN Has(d, oid) /\ store[Key(d, oid)].oid = oid
    /\ \A k \in DOMAIN store :
         /\ k[1] \in devices
         /\ ~ Overlapping(k[1]) => store[k].oid \in ToSet(CollectObjects(k[1]))

Analog == {"AnalogInput", "AnalogOutput", "AnalogValue"}

\* What an object takes over the API: analog objects a number, binary ones a
\* bool, outputs also null; a multi-state object and a device nothing.
Accepts(o, prop, j) ==
  IF prop = "OutOfService" THEN o.kind # "Device" /\ j.json = "bool"
  ELSE \/ o.kind \in Analog /\ j.json = "number"
       \/ o.kind \in Binaries /\ j.json = "bool"
       \/ o.kind \in Commandable /\ j.json = "null"

Distance(x, y) == IF x < y THEN y - x ELSE x - y

\* No single, nor infinity, is nearer to the number x than m.
Nearest(m, x) == m \in Floats /\ \A s \in Floats : Distance(m, x) <= Distance(s, x)

\* What a GET of an object of kind k shows after a PUT of j: a number as the
\* nearest single, beyond the last one as null; a bool as one only where the
\* object holds a bool, and as the number 0 or 1 where it holds a state.
Shown(k, j) ==
  IF k \in Analog
    THEN {IF m = Overflow THEN Json("null", 0) ELSE Json("number", m) : m \in {f \in Floats : Nearest(f, j.val)}}
  ELSE IF k = "BinaryValue" THEN {j} ELSE {Json("number", j.val)}

\* What the answer to a PUT says, and what a GET then shows.
PutAnswered ==
  answer' # answer /\ answer' # None /\ answer'.op = "put" =>
    LET p == answer'.what
        o == At(p.dev, p.oid)
        overruled == /\ o.kind \in Commandable
                     /\ \E q \in 1..NumPriorities - 1 : o.slots[q] # None
    IN IF ~ Has(p.dev, p.oid) THEN answer'.status = 404
       ELSE /\ answer'.status = (IF Accepts(o, p.prop, p.json) THEN 204 ELSE 400)
            /\ answer'.status = 204 /\ p.prop = "PresentValue" /\ ~ overruled /\ p.json.json # "null" =>
                 ToJson(ReadPresent(store'[Key(p.dev, p.oid)].obj)) \in Shown(o.kind, p.json)

\* A PUT is accepted if and only if the object can hold the JSON value, in
\* service or not and whatever was written before, and the next GET shows what
\* was put, up to the precision of an f32 and in the type the object has,
\* unless a client's command of a higher priority is in force.
PutShows == [][PutAnswered]_vars

\* The local date of a Device object is a date of the Gregorian calendar, the
\* one so many days after 1 January 1970, with its weekday.
DateIsRight ==
  answer # None /\ answer.op = "date" =>
    LET d == answer.what.date
    IN /\ IsDate(d)
       /\ DayNumber(d) = answer.what.day
       /\ d.weekday = WeekdayOf(answer.what.day)
=============================================================================
