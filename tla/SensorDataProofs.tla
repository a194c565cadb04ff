-------------------------- MODULE SensorDataProofs --------------------------
(***************************************************************************)
(* Theorems about SensorData, for every set of topics, every devices they  *)
(* use and all sensor files, of lists of any length.                       *)
(***************************************************************************)
EXTENDS SensorData, SequenceLemmas

(***************************************************************************)
(* What configureSensorDevice makes of the entries of a list it can read   *)
(* to its end, and what makeSensorDataToJson draws from.                   *)
(***************************************************************************)
Readable == {e \in SensorEntry : ~Throws(e)}

Usable == {e \in Readable : Accepted(e)}

Sensor ==
    {s \in [name : STRING, type : {"Int", "Real", "String"}, datas : Seq(Int)] :
        s.type # "String" => Len(s.datas) = 2}

\* Selecting and converting, as functions from an element to what becomes of it.
Kept      == [e \in Readable |-> IF Accepted(e) THEN <<e>> ELSE <<>>]
Made      == [e \in Usable |-> <<SensorDevice(e)>>]
Loads     == [e \in Readable |-> IF Accepted(e) THEN <<SensorDevice(e)>> ELSE <<>>]
Giving    == [s \in Sensor |-> IF Gives(s) THEN <<s>> ELSE <<>>]
Reporting == [e \in Readable |-> IF Reports(e) THEN <<e>> ELSE <<>>]

\* An entry that is accepted becomes a sensor of a known type, a number's with
\* both ends of its interval.
LEMMA SensorTyped == ASSUME NEW e \in Usable PROVE SensorDevice(e) \in Sensor
  <1>1. /\ e \in SensorEntry /\ Accepted(e) /\ ~Throws(e)
        /\ e.name \in STRING /\ e.DataRange.items \in Seq(Int)
        /\ e.DataRange.form \in {"interval", "list", "bad", "absent"}
    BY DEF Usable, Readable, SensorEntry
  <1>2. e.Type \in {"Int", "Real", "String"}
    BY <1>1 DEF Accepted, Known
  <1>3. setDataRange(e) \in Seq(Int)
    BY <1>1 DEF setDataRange
  <1>4. e.Type # "String" => Len(setDataRange(e)) = 2
    BY <1>1, <1>2 DEF setDataRange, Accepted, Refused, Throws, SensorEntry
  <1> QED BY <1>1, <1>2, <1>3, <1>4 DEF SensorDevice, Sensor

\* Exactly the entries to be reported are accepted and give a value.
LEMMA EntryReported ==
    ASSUME NEW e \in Readable
    PROVE  Reports(e) <=> Accepted(e) /\ Gives(SensorDevice(e))
  <1>1. /\ e \in SensorEntry /\ ~Throws(e) /\ e.DataRange.items \in Seq(Int)
        /\ e.DataRange.form \in {"interval", "list", "bad", "absent"}
        /\ e.DataRange.form = "interval" => Len(e.DataRange.items) = 2
    BY DEF Readable, SensorEntry
  <1> DEFINE s == SensorDevice(e)
             items == e.DataRange.items
  <1>2. s.type = e.Type /\ s.datas = setDataRange(e)
    BY DEF SensorDevice
  <1>3. CASE e.Type \in {"Int", "Real"}
    <2>1. e.DataRange.form \in {"interval", "bad"}
      BY <1>1, <1>3 DEF Throws
    <2>2. CASE e.DataRange.form = "bad"
      BY <1>3, <2>2 DEF Reports, Accepted, Refused
    <2>3. CASE e.DataRange.form = "interval"
      <3>1. Accepted(e) /\ Reports(e)
        BY <1>3, <2>3 DEF Accepted, Known, Refused, Reports
      <3>2. s.datas = items /\ s.type # "String" /\ Len(items) = 2
        BY <1>1, <1>2, <1>3, <2>3 DEF setDataRange
      <3>3. items[1] \in Int /\ items[2] \in Int /\ Head(items) = items[1] /\ Last(items) = items[2]
        BY <1>1, <3>2 DEF Last
      <3>4. items[1] \in Bounds(items[1], items[2]) /\ items # <<>>
        BY <3>2, <3>3 DEF Bounds
      <3>5. <<s.type, items[1]>> \in generateData(s)
        BY <3>2, <3>3, <3>4 DEF generateData
      <3> QED BY <3>1, <3>5 DEF Gives
    <2> QED BY <2>1, <2>2, <2>3
  <1>4. CASE e.Type = "String"
    <2>1. Accepted(e)
      BY <1>4 DEF Accepted, Known, Refused
    <2>2. CASE e.DataRange.form = "list" /\ items # <<>>
      <3>1. s.datas = items /\ s.type = "String" /\ Reports(e)
        BY <1>2, <1>4, <2>2 DEF setDataRange, Reports
      <3>2. items[1] \in ToSet(items)
        BY <1>1, <2>2 DEF ToSet
      <3>3. <<s.type, items[1]>> \in generateData(s)
        BY <3>1, <3>2, <2>2 DEF generateData
      <3> QED BY <2>1, <3>1, <3>3 DEF Gives
    <2>3. CASE ~(e.DataRange.form = "list" /\ items # <<>>)
      <3>1. s.datas = <<>> /\ ~Reports(e)
        BY <1>2, <1>4, <2>3 DEF setDataRange, Reports
      <3> QED BY <3>1 DEF Gives, generateData
    <2> QED BY <2>2, <2>3
  <1>5. CASE e.Type \notin {"Int", "Real", "String"}
    BY <1>5 DEF Reports, Accepted, Known
  <1> QED BY <1>3, <1>4, <1>5

\* The types of those functions.
LEMMA FunctionsTyped ==
    /\ Kept \in Expansions(Readable, Usable)
    /\ Made \in Expansions(Usable, Sensor)
    /\ Loads \in Expansions(Readable, Sensor)
    /\ Giving \in Expansions(Sensor, Sensor)
    /\ Reporting \in Expansions(Readable, Usable)
  <1>1. Kept \in Expansions(Readable, Usable)
    <2>1. \A e \in Readable : Accepted(e) => e \in Usable
      BY DEF Usable
    <2> QED BY <2>1 DEF Kept, Expansions
  <1>2. Made \in Expansions(Usable, Sensor)
    BY SensorTyped DEF Made, Expansions
  <1>3. Loads \in Expansions(Readable, Sensor)
    <2>1. \A e \in Readable : Accepted(e) => SensorDevice(e) \in Sensor
      BY SensorTyped DEF Usable
    <2> QED BY <2>1 DEF Loads, Expansions
  <1>4. Giving \in Expansions(Sensor, Sensor)
    BY DEF Giving, Expansions
  <1>5. Reporting \in Expansions(Readable, Usable)
    <2>1. \A e \in Readable : Reports(e) => e \in Usable
      BY EntryReported DEF Usable
    <2> QED BY <2>1 DEF Reporting, Expansions
  <1> QED BY <1>1, <1>2, <1>3, <1>4, <1>5

\* What Made makes of no entry and of one.
LEMMA MadeOfOne ==
    /\ FlatMap(Made, <<>>) = <<>>
    /\ \A e \in Usable : FlatMap(Made, <<e>>) = <<SensorDevice(e)>>
  <1>1. ASSUME NEW e \in Usable PROVE FlatMap(Made, <<e>>) = <<SensorDevice(e)>>
    <2>1. FlatMap(Made, <<e>>) = Made[e]
      BY FunctionsTyped, FlatMapOne
    <2> QED BY <2>1 DEF Made
  <1> QED BY <1>1, FlatMapEmpty

\* Applying SensorDevice to entries that are accepted is what Made does.
LEMMA MadeOfAll ==
    ASSUME NEW s \in Seq(Usable)
    PROVE  [k \in DOMAIN s |-> SensorDevice(s[k])] = FlatMap(Made, s)
  <1> DEFINE f == [e \in Usable |-> SensorDevice(e)]
  <1>1. \A e \in Usable : Made[e] = <<f[e]>>
    BY DEF Made
  <1>2. [k \in DOMAIN s |-> SensorDevice(s[k])] = [k \in DOMAIN s |-> f[s[k]]]
    OBVIOUS
  <1> HIDE DEF f
  <1>3. [k \in DOMAIN s |-> f[s[k]]] = FlatMap(Made, s)
    BY <1>1, FunctionsTyped, FlatMapApply
  <1> QED BY <1>2, <1>3

\* A list that is read to its end becomes the sensors of its accepted entries.
LEMMA SensorsLoaded ==
    ASSUME NEW s \in Seq(Readable)
    PROVE  Sensors(s) = FlatMap(Loads, s)
  <1> DEFINE ok == Selected(s, Accepted)
  <1>1. ok = FlatMap(Kept, s)
    <2>1. [k \in DOMAIN s |-> IF Accepted(s[k]) THEN <<s[k]>> ELSE <<>>]
            = [k \in DOMAIN s |-> Kept[s[k]]]
      BY DEF Kept
    <2> QED BY <2>1, Zenon DEF Selected, FlatMap
  <1>2. ok \in Seq(Usable)
    BY <1>1, FunctionsTyped, FlatMapType
  <1>3. Sensors(s) = [k \in DOMAIN ok |-> SensorDevice(ok[k])]
    BY Zenon DEF Sensors
  <1> HIDE DEF ok
  <1>4. Sensors(s) = FlatMap(Made, FlatMap(Kept, s))
    BY <1>1, <1>2, <1>3, MadeOfAll
  <1>5. FlatMap(Made, FlatMap(Kept, s)) = FlatMap([e \in Readable |-> FlatMap(Made, Kept[e])], s)
    BY FunctionsTyped, FlatMapTwice
  <1>6. [e \in Readable |-> FlatMap(Made, Kept[e])] = Loads
    <2>1. ASSUME NEW e \in Readable
          PROVE  FlatMap(Made, Kept[e]) = IF Accepted(e) THEN <<SensorDevice(e)>> ELSE <<>>
      BY MadeOfOne DEF Kept, Usable
    <2> QED BY <2>1 DEF Loads
  <1> QED BY <1>4, <1>5, <1>6

\* The sensors of such a list that give a value are those of its entries to be
\* reported, in their order.
LEMMA GivingReported ==
    ASSUME NEW s \in Seq(Readable)
    PROVE  FlatMap(Giving, FlatMap(Loads, s)) = FlatMap(Made, FlatMap(Reporting, s))
  <1>1. FlatMap(Giving, FlatMap(Loads, s)) = FlatMap([e \in Readable |-> FlatMap(Giving, Loads[e])], s)
    BY FunctionsTyped, FlatMapTwice
  <1>2. FlatMap(Made, FlatMap(Reporting, s))
          = FlatMap([e \in Readable |-> FlatMap(Made, Reporting[e])], s)
    BY FunctionsTyped, FlatMapTwice
  <1>3. ASSUME NEW e \in Readable
        PROVE  FlatMap(Giving, Loads[e]) = FlatMap(Made, Reporting[e])
    <2>1. CASE Accepted(e)
      <3>1. e \in Usable /\ SensorDevice(e) \in Sensor /\ Loads[e] = <<SensorDevice(e)>>
        BY <2>1, SensorTyped DEF Usable, Loads
      <3>2. FlatMap(Giving, Loads[e]) = Giving[SensorDevice(e)]
        BY <3>1, FunctionsTyped, FlatMapOne
      <3>3. FlatMap(Giving, Loads[e])
              = IF Gives(SensorDevice(e)) THEN <<SensorDevice(e)>> ELSE <<>>
        BY <3>1, <3>2 DEF Giving
      <3>4. FlatMap(Made, Reporting[e]) = IF Reports(e) THEN <<SensorDevice(e)>> ELSE <<>>
        BY <3>1, MadeOfOne DEF Reporting
      <3> QED BY <2>1, <3>3, <3>4, EntryReported
    <2>2. CASE ~Accepted(e)
      <3>1. Loads[e] = <<>> /\ Reporting[e] = <<>>
        BY <2>2, EntryReported DEF Loads, Reporting
      <3> QED BY <3>1, FlatMapEmpty
    <2> QED BY <2>1, <2>2
  <1>4. [e \in Readable |-> FlatMap(Giving, Loads[e])] = [e \in Readable |-> FlatMap(Made, Reporting[e])]
    BY <1>3
  <1> QED BY <1>1, <1>2, <1>4

(***************************************************************************)
(* The states the publisher reaches.                                       *)
(***************************************************************************)
FileLists == [ToSet(Kinds) -> Seq(SensorEntry)]

ConfigurationRead ==
    /\ doc_sensor \in FileLists
    /\ doc \in FileLists
    /\ \A kind \in ToSet(Kinds) : doc[kind] \in {<<>>, doc_sensor[kind]}
    /\ phase \in {"loading", "up", "exit"}

\* Once the publisher is up the file was readable to its end and every topic has
\* its own copy of the sensors made of it; until then no topic has any, and no
\* PA has been sent.
DevicesLoaded ==
    /\ phase = "up" =>
         /\ doc_sensor \in [ToSet(Kinds) -> Seq(Readable)]
         /\ \A t \in Topics : \A kind \in ToSet(Kinds) :
               deviceList[t][kind] = Sensors(doc_sensor[kind])
    /\ phase # "up" =>
         /\ deviceList = [t \in Topics |-> NoDevices]
         /\ \A t \in Topics : announced[t] = <<>>

AnnouncedAsConfigured ==
    /\ DOMAIN announced = Topics
    /\ \A t \in Topics : announced[t] # <<>> => announced[t] = <<makeSendPAData(t)>>

\* The last PD has one member for each sensor of its topic that gives a value,
\* drawn from that sensor.
PublishedAsSampled ==
    published # <<>> => \E t \in Topics :
        LET payload == published[1].payload IN
        /\ announced[t] # <<>>
        /\ published[1].topic = t
        /\ DOMAIN payload = DOMAIN Sampled(t)
        /\ \A k \in DOMAIN payload :
             /\ payload[k].name = Sampled(t)[k].name
             /\ payload[k].value \in generateData(Sampled(t)[k])

SensorInv ==
    ConfigurationRead /\ DevicesLoaded /\ AnnouncedAsConfigured /\ PublishedAsSampled

LEMMA KindsAre ==
    /\ ToSet(Kinds) = {"LifeDevice", "EnvDevice", "DisasterDevice"}
    /\ DOMAIN Kinds = 1 .. 3
    /\ \A k \in 1 .. 3 : Kinds[k] \in ToSet(Kinds)
  BY DEF Kinds, ToSet

LEMMA SensorInit == Init => SensorInv
  <1> SUFFICES ASSUME Init PROVE SensorInv
    OBVIOUS
  <1>1. ConfigurationRead
    <2>1. doc_sensor \in FileLists
      BY FilesAssumption DEF Init, FileLists
    <2>2. PICK listed \in SUBSET ToSet(Kinds) :
             doc = [kind \in ToSet(Kinds) |-> IF kind \in listed THEN doc_sensor[kind] ELSE <<>>]
      BY DEF Init
    <2>3. \A kind \in ToSet(Kinds) : doc[kind] \in {<<>>, doc_sensor[kind]}
      BY <2>2
    <2>4. doc \in FileLists
      <3>1. ASSUME NEW kind \in ToSet(Kinds) PROVE doc[kind] \in Seq(SensorEntry)
        <4>1. doc_sensor[kind] \in Seq(SensorEntry)
          BY <2>1 DEF FileLists
        <4>2. <<>> \in Seq(SensorEntry)
          OBVIOUS
        <4>3. doc[kind] = <<>> \/ doc[kind] = doc_sensor[kind]
          BY <2>3
        <4> QED BY <4>1, <4>2, <4>3, Zenon
      <3>2. doc = [kind \in ToSet(Kinds) |-> doc[kind]]
        BY <2>2
      <3> QED BY <3>1, <3>2 DEF FileLists
    <2> QED BY <2>1, <2>3, <2>4 DEF Init, ConfigurationRead
  <1>2. DevicesLoaded /\ AnnouncedAsConfigured /\ PublishedAsSampled
    BY DEF Init, DevicesLoaded, AnnouncedAsConfigured, PublishedAsSampled
  <1> QED BY <1>1, <1>2 DEF SensorInv

\* Loading the file: with no entry that throws, each list is readable, and what
\* is appended to a topic's empty lists is the sensors made of it.
LEMMA LoadingKeeps == SensorInv /\ configureSensorDevice => SensorInv'
  <1> SUFFICES ASSUME SensorInv, configureSensorDevice PROVE SensorInv'
    OBVIOUS
  <1> USE DEF SensorInv
  <1>1. /\ phase = "loading" /\ doc' = doc /\ doc_sensor' = doc_sensor
        /\ announced' = announced /\ published' = published
    BY DEF configureSensorDevice
  <1>2. /\ deviceList = [t \in Topics |-> NoDevices]
        /\ \A t \in Topics : announced[t] = <<>>
        /\ published = <<>>
    BY <1>1 DEF DevicesLoaded, PublishedAsSampled
  <1>3. phase' \in {"up", "exit"}
    BY DEF configureSensorDevice
  <1>4. ConfigurationRead'
    BY <1>1, <1>3 DEF ConfigurationRead
  <1>5. AnnouncedAsConfigured' /\ PublishedAsSampled'
    BY <1>1, <1>2 DEF AnnouncedAsConfigured, PublishedAsSampled
  <1>6. CASE phase' = "exit"
    <2>1. deviceList' = deviceList
      BY <1>6 DEF configureSensorDevice
    <2> QED BY <1>1, <1>2, <1>4, <1>5, <1>6, <2>1 DEF DevicesLoaded
  <1>7. CASE phase' = "up"
    <2>1. \A kind \in ToSet(Kinds) : \A e \in ToSet(doc_sensor[kind]) : ~Throws(e)
      BY <1>7 DEF configureSensorDevice
    <2>2. deviceList' = [t \in Topics |-> [kind \in ToSet(Kinds) |->
                            deviceList[t][kind] \o Sensors(doc_sensor[kind])]]
      BY <1>7 DEF configureSensorDevice
    <2>3. ASSUME NEW kind \in ToSet(Kinds) PROVE doc_sensor[kind] \in Seq(Readable)
      <3>1. doc_sensor[kind] \in Seq(SensorEntry)
        BY DEF ConfigurationRead, FileLists
      <3>2. \A k \in 1 .. Len(doc_sensor[kind]) : doc_sensor[kind][k] \in Readable
        BY <2>1, <3>1 DEF Readable, ToSet
      <3> QED BY <3>1, <3>2
    <2>4. doc_sensor \in [ToSet(Kinds) -> Seq(Readable)]
      BY <2>3 DEF ConfigurationRead, FileLists
    <2>5. ASSUME NEW t \in Topics, NEW kind \in ToSet(Kinds)
          PROVE  deviceList'[t][kind] = Sensors(doc_sensor[kind])
      <3>1. deviceList[t][kind] = <<>>
        BY <1>2 DEF NoDevices
      <3>2. deviceList'[t][kind] = <<>> \o Sensors(doc_sensor[kind])
        BY <2>2, <3>1
      <3>3. Sensors(doc_sensor[kind]) \in Seq(Sensor)
        BY <2>3, SensorsLoaded, FunctionsTyped, FlatMapType
      <3> QED BY <3>2, <3>3
    <2>6. DevicesLoaded'
      BY <1>1, <1>7, <2>4, <2>5 DEF DevicesLoaded
    <2> QED BY <1>4, <1>5, <2>6
  <1> QED BY <1>3, <1>6, <1>7

LEMMA AnnouncingKeeps == ASSUME NEW t \in Topics PROVE SensorInv /\ sendPA(t) => SensorInv'
  <1> SUFFICES ASSUME SensorInv, sendPA(t) PROVE SensorInv'
    OBVIOUS
  <1> USE DEF SensorInv
  <1>1. /\ phase = "up" /\ doc' = doc /\ doc_sensor' = doc_sensor /\ phase' = phase
        /\ deviceList' = deviceList /\ published' = published
        /\ announced' = [announced EXCEPT ![t] = <<makeSendPAData(t)>>]
    BY DEF sendPA
  <1>2. ConfigurationRead'
    BY <1>1 DEF ConfigurationRead
  <1>3. DevicesLoaded'
    BY <1>1 DEF DevicesLoaded
  <1>4. \A x \in Topics : makeSendPAData(x)' = makeSendPAData(x)
    BY <1>1 DEF makeSendPAData
  <1>5. AnnouncedAsConfigured'
    BY <1>1, <1>4 DEF AnnouncedAsConfigured
  <1>6. \A x \in Topics : Sampled(x)' = Sampled(x)
    BY <1>1 DEF Sampled
  <1>7. \A x \in Topics : announced[x] # <<>> => announced'[x] # <<>>
    BY <1>1 DEF AnnouncedAsConfigured
  <1>8. PublishedAsSampled'
    BY <1>1, <1>6, <1>7 DEF PublishedAsSampled
  <1> QED BY <1>2, <1>3, <1>5, <1>8

LEMMA PublishingKeeps == ASSUME NEW t \in Topics PROVE SensorInv /\ sendPD(t) => SensorInv'
  <1> SUFFICES ASSUME SensorInv, sendPD(t) PROVE SensorInv'
    OBVIOUS
  <1> USE DEF SensorInv
  <1>1. /\ phase = "up" /\ doc' = doc /\ doc_sensor' = doc_sensor /\ phase' = phase
        /\ deviceList' = deviceList /\ announced' = announced /\ announced[t] # <<>>
    BY DEF sendPD
  <1>2. ConfigurationRead' /\ DevicesLoaded'
    BY <1>1 DEF ConfigurationRead, DevicesLoaded
  <1>3. AnnouncedAsConfigured'
    <2>1. \A x \in Topics : makeSendPAData(x)' = makeSendPAData(x)
      BY <1>1 DEF makeSendPAData
    <2> QED BY <1>1, <2>1 DEF AnnouncedAsConfigured
  <1>4. PublishedAsSampled'
    <2> DEFINE sensors == Sampled(t)
    <2>1. PICK draw : /\ \A k \in DOMAIN sensors : draw[k] \in generateData(sensors[k])
                      /\ published' = <<[topic |-> t, payload |-> makeSendPDData(sensors, draw)]>>
      BY DEF sendPD
    <2>2. Sampled(t)' = sensors
      BY <1>1 DEF Sampled
    <2> HIDE DEF sensors
    <2>3. /\ published'[1].topic = t
          /\ published'[1].payload
               = [k \in DOMAIN sensors |-> [name |-> sensors[k].name, value |-> draw[k]]]
      BY <2>1 DEF makeSendPDData
    <2>4. /\ DOMAIN published'[1].payload = DOMAIN sensors
          /\ \A k \in DOMAIN sensors :
               /\ published'[1].payload[k].name = sensors[k].name
               /\ published'[1].payload[k].value \in generateData(sensors[k])
      BY <2>1, <2>3
    <2> QED BY <1>1, <2>2, <2>3, <2>4 DEF PublishedAsSampled
  <1> QED BY <1>2, <1>3, <1>4

LEMMA SensorInvariant == Spec => []SensorInv
  <1>1. SensorInv /\ [Next]_vars => SensorInv'
    <2> SUFFICES ASSUME SensorInv, [Next]_vars PROVE SensorInv'
      OBVIOUS
    <2>1. CASE configureSensorDevice
      BY <2>1, LoadingKeeps
    <2>2. CASE \E t \in Topics : sendPA(t) \/ sendPD(t)
      BY <2>2, AnnouncingKeeps, PublishingKeeps
    <2>3. CASE UNCHANGED vars
      BY <2>3 DEF vars, SensorInv, ConfigurationRead, DevicesLoaded, AnnouncedAsConfigured,
                  PublishedAsSampled, makeSendPAData, Sampled
    <2> QED BY <2>1, <2>2, <2>3 DEF Next
  <1> QED BY SensorInit, <1>1, PTL DEF Spec

(***************************************************************************)
(* The properties of the runs.                                             *)
(***************************************************************************)

\* The entries of the file of the kinds a topic has.
Described(t) == DevicesUsed(t, doc_sensor)

LEMMA ReportedIs == ASSUME NEW t PROVE Reported(t) = Selected(Described(t), Reports)
  BY DEF Reported, Described, DevicesUsed

\* What a topic's PDs are drawn from is one sensor for each entry to be reported.
LEMMA SampledIsReported ==
    ASSUME SensorInv, phase = "up", NEW t \in Topics
    PROVE  /\ Reported(t) \in Seq(Usable)
           /\ Sampled(t) = [k \in DOMAIN Reported(t) |-> SensorDevice(Reported(t)[k])]
  <1> DEFINE used(k) == Kinds[k] \in DevicesOf[t]
             ss == [k \in DOMAIN Kinds |-> IF used(k) THEN doc_sensor[Kinds[k]] ELSE <<>>]
             E == FlattenSeq(ss)
             all == DevicesUsed(t, deviceList[t])
  <1>1. /\ doc_sensor \in [ToSet(Kinds) -> Seq(Readable)]
        /\ \A kind \in ToSet(Kinds) : deviceList[t][kind] = Sensors(doc_sensor[kind])
    BY DEF SensorInv, DevicesLoaded
  <1>2. ss \in Seq(Seq(Readable))
    BY <1>1, KindsAre
  <1>3. DOMAIN ss = DOMAIN Kinds
    OBVIOUS
  <1>4. all = FlattenSeq([k \in DOMAIN ss |-> FlatMap(Loads, ss[k])])
    <2>1. ASSUME NEW k \in DOMAIN Kinds
          PROVE  (IF used(k) THEN deviceList[t][Kinds[k]] ELSE <<>>) = FlatMap(Loads, ss[k])
      <3>1. CASE used(k)
        <4>1. deviceList[t][Kinds[k]] = Sensors(doc_sensor[Kinds[k]])
          BY <1>1, KindsAre
        <4>2. doc_sensor[Kinds[k]] \in Seq(Readable)
          BY <1>1, KindsAre
        <4> QED BY <3>1, <4>1, <4>2, SensorsLoaded
      <3>2. CASE ~used(k)
        BY <3>2, FlatMapEmpty
      <3> QED BY <3>1, <3>2
    <2>2. [k \in DOMAIN Kinds |-> IF used(k) THEN deviceList[t][Kinds[k]] ELSE <<>>]
            = [k \in DOMAIN ss |-> FlatMap(Loads, ss[k])]
      BY <1>3, <2>1
    <2> HIDE DEF ss
    <2> QED BY <2>2, Zenon DEF DevicesUsed
  <1>5. Described(t) = E
    BY Zenon DEF Described, DevicesUsed
  <1> HIDE DEF ss
  <1>6. FlatMap(Loads, E) = all
    BY <1>2, <1>4, FunctionsTyped, FlatMapFlatten
  <1>7. E \in Seq(Readable)
    BY <1>2, FlattenType
  <1> HIDE DEF E, all
  <1>8. Reported(t) = FlatMap(Reporting, E)
    <2>1. [k \in DOMAIN E |-> IF Reports(E[k]) THEN <<E[k]>> ELSE <<>>]
            = [k \in DOMAIN E |-> Reporting[E[k]]]
      BY <1>7 DEF Reporting
    <2> QED BY <2>1, <1>5, ReportedIs, Zenon DEF Selected, FlatMap
  <1>9. Reported(t) \in Seq(Usable)
    BY <1>7, <1>8, FunctionsTyped, FlatMapType
  <1>10. Sampled(t) = FlatMap(Giving, all)
    <2>1. all \in Seq(Sensor)
      BY <1>6, <1>7, FunctionsTyped, FlatMapType
    <2>2. [k \in DOMAIN all |-> IF Gives(all[k]) THEN <<all[k]>> ELSE <<>>]
            = [k \in DOMAIN all |-> Giving[all[k]]]
      BY <2>1 DEF Giving
    <2> QED BY <2>2, Zenon DEF Sampled, Selected, FlatMap, all
  <1>11. Sampled(t) = FlatMap(Made, Reported(t))
    BY <1>6, <1>7, <1>8, <1>10, GivingReported
  <1> QED BY <1>9, <1>11, MadeOfAll

\* An entry a topic reports is one of those described, and is to be reported.
LEMMA ReportedFrom ==
    ASSUME SensorInv, phase = "up", NEW t \in Topics
    PROVE  Reported(t) \in Seq({e \in ToSet(Described(t)) : Reports(e)})
  <1> DEFINE E == Described(t)
             R == {e \in ToSet(E) : Reports(e)}
             parts == [k \in DOMAIN E |-> IF Reports(E[k]) THEN <<E[k]>> ELSE <<>>]
  <1>1. E \in Seq(SensorEntry)
    <2> DEFINE ss == [k \in DOMAIN Kinds |->
                        IF Kinds[k] \in DevicesOf[t] THEN doc_sensor[Kinds[k]] ELSE <<>>]
    <2>1. doc_sensor \in [ToSet(Kinds) -> Seq(SensorEntry)]
      BY DEF SensorInv, ConfigurationRead, FileLists
    <2>2. ss \in Seq(Seq(SensorEntry))
      BY <2>1, KindsAre
    <2>3. E = FlattenSeq(ss)
      BY Zenon DEF Described, DevicesUsed
    <2> HIDE DEF ss, E
    <2> QED BY <2>2, <2>3, FlattenType
  <1> HIDE DEF E
  <1>2. parts \in Seq(Seq(R))
    <2>1. Len(E) \in Nat /\ DOMAIN E = 1 .. Len(E)
      BY <1>1
    <2>2. ASSUME NEW k \in 1 .. Len(E) PROVE parts[k] \in Seq(R)
      <3>1. Reports(E[k]) => E[k] \in R
        BY <2>1 DEF ToSet
      <3>2. parts[k] = IF Reports(E[k]) THEN <<E[k]>> ELSE <<>>
        BY <2>1
      <3> HIDE DEF R, parts
      <3> QED BY <3>1, <3>2
    <2> QED BY <2>1, <2>2
  <1>3. Reported(t) = FlattenSeq(parts)
    BY ReportedIs, Zenon DEF Selected, E
  <1> HIDE DEF parts, R
  <1>4. Reported(t) \in Seq(R)
    BY <1>2, <1>3, FlattenType
  <1> QED BY <1>4 DEF R, E

\* What is known of the last PD: its topic, and member by member the entry of
\* the file it reports.
LEMMA PublishedIs ==
    ASSUME SensorInv, published # <<>>
    PROVE  \E t \in Topics :
             LET payload == published[1].payload
                 entries == Reported(t)
             IN  /\ published[1].topic = t /\ phase = "up"
                 /\ announced[t] = <<makeSendPAData(t)>>
                 /\ entries \in Seq(Usable)
                 /\ DOMAIN payload = DOMAIN entries
                 /\ \A k \in DOMAIN entries :
                      /\ payload[k].name = entries[k].name
                      /\ payload[k].value \in generateData(SensorDevice(entries[k]))
  <1>1. PICK t \in Topics :
            /\ announced[t] # <<>>
            /\ published[1].topic = t
            /\ DOMAIN published[1].payload = DOMAIN Sampled(t)
            /\ \A k \in DOMAIN published[1].payload :
                 /\ published[1].payload[k].name = Sampled(t)[k].name
                 /\ published[1].payload[k].value \in generateData(Sampled(t)[k])
    BY DEF SensorInv, PublishedAsSampled
  <1>2. phase = "up" /\ announced[t] = <<makeSendPAData(t)>>
    BY <1>1 DEF SensorInv, DevicesLoaded, AnnouncedAsConfigured
  <1>3. /\ Reported(t) \in Seq(Usable)
        /\ Sampled(t) = [k \in DOMAIN Reported(t) |-> SensorDevice(Reported(t)[k])]
    BY <1>2, SampledIsReported
  <1>4. \A k \in DOMAIN Reported(t) : Sampled(t)[k].name = Reported(t)[k].name
    BY <1>3 DEF SensorDevice
  <1> QED BY <1>1, <1>2, <1>3, <1>4

\* Types: every sensor a topic has is of a known type, a number's with both ends
\* of its interval (configureSensorDevice, setDataRange).
THEOREM SensorTypeCorrect == Spec => []TypeOK
  <1>1. SensorInv => TypeOK
    <2> SUFFICES ASSUME SensorInv,
                        NEW t \in Topics, NEW kind \in ToSet(Kinds),
                        NEW s \in ToSet(deviceList[t][kind])
                 PROVE  Known(s.type) /\ (s.type # "String" => Len(s.datas) = 2)
      BY DEF TypeOK, SensorInv, ConfigurationRead
    <2>1. CASE phase = "up"
      <3>1. deviceList[t][kind] = Sensors(doc_sensor[kind]) /\ doc_sensor[kind] \in Seq(Readable)
        BY <2>1 DEF SensorInv, DevicesLoaded
      <3>2. deviceList[t][kind] \in Seq(Sensor)
        BY <3>1, SensorsLoaded, FunctionsTyped, FlatMapType
      <3>3. s \in Sensor
        BY <3>2 DEF ToSet
      <3> QED BY <3>3 DEF Sensor, Known
    <2>2. CASE phase # "up"
      <3>1. deviceList[t][kind] = <<>>
        BY <2>2 DEF SensorInv, DevicesLoaded, NoDevices
      <3> QED BY <3>1 DEF ToSet
    <2> QED BY <2>1, <2>2
  <1> QED BY SensorInvariant, <1>1, PTL

\* For every sensor file and every choice of devices, a PD reports exactly the
\* sensors the file describes for the devices its topic has, each once and in
\* order: an entry without a usable type or range costs no other its place
\* (configureSensorDevice, makeSendPDData, makeSensorDataToJson).
THEOREM SensorsAreReported == Spec => []SensorsReported
  <1>1. SensorInv => SensorsReported
    <2> SUFFICES ASSUME SensorInv, published # <<>>
                 PROVE  Names(published[1].payload) = Names(Reported(published[1].topic))
      BY DEF SensorsReported
    <2> QED BY PublishedIs DEF Names
  <1> QED BY SensorInvariant, <1>1, PTL

\* Every value of a PD lies within the range of the entry it reports, in whatever
\* order the ends of the range are written (setDataRange, generateData).
THEOREM ValuesAreInRange == Spec => []ValuesInRange
  <1>1. SensorInv => ValuesInRange
    <2> SUFFICES ASSUME SensorInv, published # <<>> PROVE ValuesInRange
      BY DEF ValuesInRange
    <2> DEFINE payload == published[1].payload
               topic == published[1].topic
               entries == Reported(topic)
    <2>1. /\ topic \in Topics /\ phase = "up" /\ entries \in Seq(Usable)
          /\ \A k \in DOMAIN entries : payload[k].value \in generateData(SensorDevice(entries[k]))
      BY PublishedIs
    <2>2. ASSUME NEW k \in DOMAIN entries
          PROVE  LET value == payload[k].value
                     items == ToSet(entries[k].DataRange.items)
                 IN  /\ value[1] = entries[k].Type
                     /\ IF entries[k].Type = "String" THEN value[2] \in items
                        ELSE \E a, b \in items : a <= value[2] /\ value[2] <= b
      <3> DEFINE e == entries[k]
                 s == SensorDevice(e)
                 items == e.DataRange.items
                 value == payload[k].value
      <3>1. e \in Usable /\ value \in generateData(s)
        BY <2>1
      <3>2. Reports(e)
        <4>1. entries \in Seq({x \in ToSet(Described(topic)) : Reports(x)})
          BY <2>1, ReportedFrom
        <4> QED BY <4>1
      <3> HIDE DEF e, value
      <3>3. items \in Seq(Int) /\ (e.DataRange.form = "interval" => Len(items) = 2)
        BY <3>1 DEF Usable, Readable, SensorEntry
      <3>4. s.type = e.Type /\ s.datas = setDataRange(e)
        BY DEF SensorDevice
      <3>5. CASE e.Type = "String"
        <4>1. s.datas = items
          BY <3>4, <3>5 , <3>2 DEF setDataRange, Reports
        <4>2. \E v \in ToSet(items) : value = <<s.type, v>>
          BY <3>1, <3>4, <3>5, <4>1 DEF generateData
        <4>3. value[1] = e.Type /\ value[2] \in ToSet(items)
          BY <4>2, <3>4
        <4> QED BY <3>5, <4>3 DEF e, value
      <3>6. CASE e.Type # "String"
        <4>1. s.datas = items /\ Len(items) = 2
          BY <3>2, <3>3, <3>4, <3>6 DEF setDataRange, Reports
        <4>2. \E v \in Bounds(Head(items), Last(items)) : value = <<s.type, v>>
          BY <3>1, <3>4, <3>6, <4>1 DEF generateData
        <4>3. /\ Head(items) = items[1] /\ Last(items) = items[2]
              /\ items[1] \in Int /\ items[2] \in Int
              /\ items[1] \in ToSet(items) /\ items[2] \in ToSet(items)
          BY <3>3, <4>1 DEF Last, ToSet
        <4>4. value[1] = e.Type /\ value[2] \in Bounds(items[1], items[2])
          BY <3>4, <4>2, <4>3
        <4>5. \E a, b \in ToSet(items) : a <= value[2] /\ value[2] <= b
          BY <4>3, <4>4 DEF Bounds
        <4> QED BY <3>6, <4>4, <4>5 DEF e, value
      <3> QED BY <3>5, <3>6
    <2> QED BY <2>2 DEF ValuesInRange
  <1> QED BY SensorInvariant, <1>1, PTL

\* The elements of the lists a topic's payloads are made of.
LEMMA UsedElements ==
    ASSUME NEW t \in Topics, NEW lists \in FileLists
    PROVE  ToSet(DevicesUsed(t, lists)) =
               UNION {ToSet(lists[kind]) : kind \in ToSet(Kinds) \cap DevicesOf[t]}
  <1> DEFINE part(kind) == IF kind \in DevicesOf[t] THEN lists[kind] ELSE <<>>
             ss == [k \in DOMAIN Kinds |-> part(Kinds[k])]
  <1>1. ss \in Seq(Seq(SensorEntry))
    BY KindsAre DEF FileLists
  <1>2. DevicesUsed(t, lists) = FlattenSeq(ss)
    BY Zenon DEF DevicesUsed
  <1>3. UNION {ToSet(ss[k]) : k \in DOMAIN ss} = UNION {ToSet(part(kind)) : kind \in ToSet(Kinds)}
    <2>1. DOMAIN ss = DOMAIN Kinds /\ \A k \in DOMAIN Kinds : ss[k] = part(Kinds[k])
      OBVIOUS
    <2>2. ToSet(Kinds) = {Kinds[k] : k \in DOMAIN Kinds}
      BY DEF ToSet
    <2> HIDE DEF part, ss
    <2> QED BY <2>1, <2>2
  <1>4. UNION {ToSet(part(kind)) : kind \in ToSet(Kinds)}
            = UNION {ToSet(lists[kind]) : kind \in ToSet(Kinds) \cap DevicesOf[t]}
    <2>1. ToSet(<<>>) = {}
      BY DEF ToSet
    <2> QED BY <2>1
  <1> HIDE DEF ss
  <1> QED BY <1>1, <1>2, <1>3, <1>4, FlattenElements

\* The names of a list are those of its elements.
LEMMA NameListed == ASSUME NEW s, NEW x \in ToSet(s) PROVE x.name \in ToSet(Names(s))
  <1>1. PICK k \in DOMAIN s : x = s[k]
    BY DEF ToSet
  <1>2. k \in DOMAIN Names(s) /\ Names(s)[k] = x.name
    BY <1>1 DEF Names
  <1> QED BY <1>2 DEF ToSet

\* What a PD reports has been announced by its topic's PA, except the sensors of
\* kinds the main configuration does not list, for all sensor files and any kinds
\* left out of the main configuration (makeSendPAData, makeSendPDData).
THEOREM ReportedHasBeenAnnounced == Spec => []ReportedWasAnnounced
  <1>1. SensorInv => ReportedWasAnnounced
    <2> DEFINE payload == published[1].payload
               topic == published[1].topic
               entries == Reported(topic)
               Excused == UNION {ToSet(Names(doc_sensor[kind])) : kind \in Unlisted(topic)}
    <2> SUFFICES ASSUME SensorInv, published # <<>>
                 PROVE  ToSet(Names(payload)) \subseteq ToSet(announced[topic][1]) \cup Excused
      BY DEF ReportedWasAnnounced
    <2>1. /\ topic \in Topics /\ phase = "up" /\ entries \in Seq(Usable)
          /\ announced[topic] = <<makeSendPAData(topic)>>
          /\ DOMAIN payload = DOMAIN entries
          /\ \A k \in DOMAIN entries : payload[k].name = entries[k].name
      BY PublishedIs
    <2>2. announced[topic][1] = Names(DevicesUsed(topic, doc))
      BY <2>1 DEF makeSendPAData
    <2>3. entries \in Seq({x \in ToSet(Described(topic)) : Reports(x)})
      BY <2>1, ReportedFrom
    <2>4. \A s : ToSet(Names(s)) = {s[k].name : k \in DOMAIN s}
      BY DEF Names, ToSet
    <2>5. /\ doc \in FileLists /\ doc_sensor \in FileLists
          /\ \A kind \in ToSet(Kinds) : doc[kind] \in {<<>>, doc_sensor[kind]}
      BY DEF SensorInv, ConfigurationRead
    <2>6. ASSUME NEW k \in DOMAIN entries
          PROVE  payload[k].name \in ToSet(announced[topic][1]) \cup Excused
      <3> DEFINE e == entries[k]
      <3>1. e \in ToSet(Described(topic)) /\ payload[k].name = e.name
        BY <2>1, <2>3
      <3>2. PICK kind \in ToSet(Kinds) \cap DevicesOf[topic] : e \in ToSet(doc_sensor[kind])
        BY <2>1, <2>5, <3>1, UsedElements DEF Described
      <3> HIDE DEF e
      <3>3. CASE doc[kind] = <<>>
        <4>1. e.name \in ToSet(Names(doc_sensor[kind]))
          BY <3>2, NameListed
        <4>2. kind \in Unlisted(topic)
          BY <3>2, <3>3 DEF Unlisted
        <4> QED BY <3>1, <4>1, <4>2
      <3>4. CASE doc[kind] = doc_sensor[kind]
        <4>1. e \in ToSet(DevicesUsed(topic, doc))
          BY <2>1, <2>5, <3>2, <3>4, UsedElements
        <4>2. e.name \in ToSet(Names(DevicesUsed(topic, doc)))
          BY <4>1, NameListed
        <4> QED BY <2>2, <3>1, <4>2
      <3> QED BY <2>5, <3>2, <3>3, <3>4
    <2> HIDE DEF Excused, payload, entries
    <2>7. ToSet(Names(payload)) = {payload[k].name : k \in DOMAIN entries}
      BY <2>1, <2>4
    <2> QED BY <2>6, <2>7
  <1> QED BY SensorInvariant, <1>1, PTL
=============================================================================
