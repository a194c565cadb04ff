---------------------------- MODULE MCSensorData ----------------------------
(***************************************************************************)
(* Small sensor files for TLC: entries of every type with ranges in and    *)
(* out of order, of one number, unreadable, missing and empty.             *)
(***************************************************************************)
EXTENDS SensorData

Entry(name, type, form, items) ==
    [name |-> name, Type |-> type, DataRange |-> [form |-> form, items |-> items]]

Entries == {
    Entry("WD", "Int", "interval", <<0, 1>>),
    Entry("TEMP", "Real", "interval", <<1, -1>>),
    Entry("ID", "Real", "interval", <<2, 2>>),
    Entry("WD", "Int", "bad", <<>>),
    Entry("LUX", "Real", "absent", <<>>),
    Entry("STATE", "String", "list", <<0, 2>>),
    Entry("MODE", "String", "list", <<>>),
    Entry("NAME", "String", "bad", <<>>),
    Entry("KEY", "None", "interval", <<0, 1>>),
    Entry("GAS", "absent", "interval", <<0, 1>>)}

Lists == {<<>>} \cup {<<e>> : e \in Entries} \cup {<<e, f>> : e, f \in Entries}

Few == {<<>>, <<Entry("SO2", "Real", "interval", <<1, 0>>)>>,
        <<Entry("WD", "String", "list", <<1>>)>>}

MCFiles ==
    {[kind \in ToSet(Kinds) |->
        CASE kind = "LifeDevice" -> life [] kind = "EnvDevice" -> env
          [] OTHER -> disaster] : life \in Lists, env \in Few, disaster \in Few}

MCDevicesOf ==
    [t \in Topics |-> IF t = "t1" THEN {"LifeDevice", "DisasterDevice"}
                      ELSE {"LifeDevice", "EnvDevice"}]
=============================================================================
