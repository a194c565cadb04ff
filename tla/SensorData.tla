----------------------------- MODULE SensorData -----------------------------
(***************************************************************************)
(* The sensors of the publisher's topics and the payloads made from them:  *)
(* configureSensorDevice reads the sensor file when the topics are loaded, *)
(* makeSendPAData announces sensors with a topic's PA, and makeSendPDData  *)
(* draws a value of each for every PD.                                     *)
(*                                                                         *)
(* An entry of the file is [name, Type, DataRange]; Type is what           *)
(* getDataType makes of the text, "absent" without the key.  A DataRange   *)
(* is [form, items]: an "interval" has its two ends, as written (one       *)
(* number stands for both), a "list" its strings; "bad" is a scalar that   *)
(* does not match the pattern, "absent" a missing key.  Real numbers and   *)
(* strings are numbers here too, and a value carries its type.  A payload  *)
(* is the sequence of its sensor members; model name, serial, position and *)
(* time are left out.                                                      *)
(***************************************************************************)
EXTENDS Integers, SequencesExt

CONSTANTS
    Files,       \* sensor files: kind -> sequence of entries
    Topics,      \* the full names in gTopicmap
    DevicesOf    \* topic -> the kinds of devices its layer has set to true

Kinds == <<"LifeDevice", "EnvDevice", "DisasterDevice">>

SensorEntry ==
    {e \in [name : STRING, Type : STRING,
            DataRange : [form : {"interval", "list", "bad", "absent"}, items : Seq(Int)]] :
        e.DataRange.form = "interval" => Len(e.DataRange.items) = 2}

ASSUME FilesAssumption == Files \subseteq [ToSet(Kinds) -> Seq(SensorEntry)]

VARIABLES
    doc,         \* the device lists of the main configuration
    doc_sensor,  \* those of the sensor file
    phase,       \* "loading", then "up", or "exit"
    deviceList,  \* topic -> kind -> sequence of sensors
    announced,   \* topic -> its PA's payload, <<>> before it is sent
    published    \* the last PD's topic and payload, <<>> before the first

vars == <<doc, doc_sensor, phase, deviceList, announced, published>>

\* SelectSeq, which the provers cannot open.
Selected(s, Test(_)) ==
    FlattenSeq([k \in DOMAIN s |-> IF Test(s[k]) THEN <<s[k]>> ELSE <<>>])

---------------------------------------------------------------------------
(* Reading the sensor file.                                                *)

Known(type) == type \in {"Int", "Real", "String"}

\* setDataRange returns -1: the range of a number is no number.
Refused(entry) == entry.Type # "String" /\ entry.DataRange.form = "bad"

\* as<std::string>() of a list or of nothing throws, out of main's try.
Throws(entry) ==
    /\ entry.Type \in {"Int", "Real"}
    /\ entry.DataRange.form \in {"list", "absent"}

\* m_datas: the ends of an interval or the strings of a list, if it is one.
setDataRange(entry) ==
    IF entry.Type # "String" \/ entry.DataRange.form = "list"
    THEN entry.DataRange.items ELSE <<>>

SensorDevice(entry) ==
    [name |-> entry.name, type |-> entry.Type, datas |-> setDataRange(entry)]

\* Mutant of Accepted: the result of setDataRange not looked at.
Accepted_any(entry) == Known(entry.Type)

Accepted(entry) == Known(entry.Type) /\ ~Refused(entry)

Sensors(entries) ==
    LET ok == Selected(entries, Accepted)
    IN  [k \in DOMAIN ok |-> SensorDevice(ok[k])]

---------------------------------------------------------------------------
(* Payloads.                                                               *)

\* Mutant of Bounds: the ends not swapped; a distribution over a reversed
\* interval is undefined and may draw beyond its first end.
Bounds_unsorted(v1, v2) == IF v2 < v1 THEN v1 .. v1 + 1 ELSE v1 .. v2

\* The interval between two ends in either order.
Bounds(v1, v2) == IF v2 < v1 THEN v2 .. v1 ELSE v1 .. v2

\* The values generateData may draw, none if it returns false.
generateData(sensor) ==
    IF sensor.datas = <<>> THEN {}
    ELSE {<<sensor.type, v>> : v \in
            IF sensor.type = "String" THEN ToSet(sensor.datas)
            ELSE Bounds(Head(sensor.datas), Last(sensor.datas))}

\* Mutant of DevicesUsed: the flags of the layer ignored.
DevicesUsed_all(t, lists) == FlattenSeq([k \in DOMAIN Kinds |-> lists[Kinds[k]]])

\* What lists has for the kinds of devices a topic's payloads are made of, in
\* the code's order.
DevicesUsed(t, lists) ==
    FlattenSeq([k \in DOMAIN Kinds |->
        IF Kinds[k] \in DevicesOf[t] THEN lists[Kinds[k]] ELSE <<>>])

Names(members) == [k \in DOMAIN members |-> members[k].name]

\* Mutant of makeSendPAData: the third kind forgotten.
makeSendPAData_two(t) ==
    Names(DevicesUsed(t, [doc EXCEPT !["DisasterDevice"] = <<>>]))

\* Members of a PA's payload (and of a PU's): every name listed in the main configuration.
makeSendPAData(t) == Names(DevicesUsed(t, doc))

Gives(sensor) == generateData(sensor) # {}

\* The sensors of a topic that give a value, in the order of the payload.
Sampled(t) == Selected(DevicesUsed(t, deviceList[t]), Gives)

\* One member for each sensor, with a value drawn from it.
makeSendPDData(sensors, draw) ==
    [k \in DOMAIN sensors |-> [name |-> sensors[k].name, value |-> draw[k]]]

---------------------------------------------------------------------------

NoDevices == [k \in ToSet(Kinds) |-> <<>>]

Init ==
    /\ doc_sensor \in Files
    /\ \E listed \in SUBSET ToSet(Kinds) :
         doc = [kind \in ToSet(Kinds) |-> IF kind \in listed THEN doc_sensor[kind] ELSE <<>>]
    /\ phase = "loading"
    /\ deviceList = [t \in Topics |-> NoDevices]
    /\ announced = [t \in Topics |-> <<>>]
    /\ published = <<>>

\* Every topic gets its own sensors of all three kinds, used or not.
configureSensorDevice ==
    /\ phase = "loading"
    /\ IF \E kind \in ToSet(Kinds) : \E entry \in ToSet(doc_sensor[kind]) :
            Throws(entry)
       THEN phase' = "exit" /\ UNCHANGED deviceList
       ELSE /\ phase' = "up"
            /\ deviceList' = [t \in Topics |-> [kind \in ToSet(Kinds) |->
                                deviceList[t][kind] \o Sensors(doc_sensor[kind])]]
    /\ UNCHANGED <<doc, doc_sensor, announced, published>>

\* scheduleSendPA makes the payloads of all topics' PAs before the first goes
\* out, from lists that do not change: each is made here when it is sent.
sendPA(t) ==
    /\ phase = "up"
    /\ announced[t] = <<>>
    /\ announced' = [announced EXCEPT ![t] = <<makeSendPAData(t)>>]
    /\ UNCHANGED <<doc, doc_sensor, phase, deviceList, published>>

\* A PD follows the answer to the topic's PA; there may be any number of them.
sendPD(t) ==
    /\ phase = "up"
    /\ announced[t] # <<>>
    /\ LET sensors == Sampled(t)
       IN  \E draw \in [DOMAIN sensors -> UNION {generateData(s) : s \in ToSet(sensors)}] :
             /\ \A k \in DOMAIN sensors : draw[k] \in generateData(sensors[k])
             /\ published' = <<[topic |-> t, payload |-> makeSendPDData(sensors, draw)]>>
    /\ UNCHANGED <<doc, doc_sensor, phase, deviceList, announced>>

Next == configureSensorDevice \/ \E t \in Topics : sendPA(t) \/ sendPD(t)

Spec == Init /\ [][Next]_vars

---------------------------------------------------------------------------
(* Properties.                                                             *)

Reports(entry) ==
    \/ /\ entry.Type \in {"Int", "Real"}
       /\ entry.DataRange.form = "interval"
    \/ /\ entry.Type = "String"
       /\ entry.DataRange.form = "list"
       /\ entry.DataRange.items # <<>>

\* The entries of the file a topic's PDs are to report: of a kind its layer
\* has, with a type, and with something to draw from.
Reported(t) ==
    Selected(FlattenSeq([k \in DOMAIN Kinds |->
        IF Kinds[k] \in DevicesOf[t] THEN doc_sensor[Kinds[k]] ELSE <<>>]), Reports)

\* Types; a sensor of a number has both ends of its interval.
TypeOK ==
    /\ phase \in {"loading", "up", "exit"}
    /\ \A t \in Topics : \A kind \in ToSet(Kinds) : \A s \in ToSet(deviceList[t][kind]) :
         /\ Known(s.type)
         /\ s.type # "String" => Len(s.datas) = 2

\* A PD reports exactly the sensors the file describes for the devices its
\* topic has, each once and in order; a bad entry costs no other its place
\* (configureSensorDevice, makeSendPDData, makeSensorDataToJson).
SensorsReported ==
    published # <<>> =>
        Names(published[1].payload) = Names(Reported(published[1].topic))

\* A reported number lies within the range its own entry gives, in whatever
\* order the ends are written, and a string is one of its list (setDataRange,
\* generateData).
ValuesInRange ==
    published # <<>> =>
        LET entries == Reported(published[1].topic) IN
        \A k \in DOMAIN published[1].payload \cap DOMAIN entries :
            LET value == published[1].payload[k].value
                items == ToSet(entries[k].DataRange.items)
            IN  /\ value[1] = entries[k].Type
                /\ IF entries[k].Type = "String" THEN value[2] \in items
                   ELSE \E a, b \in items : a <= value[2] /\ value[2] <= b

\* What a PD reports has been announced by the PA of its topic, but for sensors
\* of kinds the topic has and the main configuration has no list of: the PA reads
\* the one file, the PD the other (main.cpp 1731-1733).
Unlisted(t) == {kind \in ToSet(Kinds) \cap DevicesOf[t] : doc[kind] = <<>>}

ReportedWasAnnounced ==
    published # <<>> =>
        LET t == published[1].topic IN
        ToSet(Names(published[1].payload)) \subseteq
            ToSet(announced[t][1]) \cup
            UNION {ToSet(Names(doc_sensor[kind])) : kind \in Unlisted(t)}
=============================================================================
