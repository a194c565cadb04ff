---------------------------- MODULE MCTopicTree ----------------------------
(***************************************************************************)
(* Small configurations for TopicTree: every form of prefix at every one   *)
(* of three depths, ranges that fit, reach past the end, are negative,     *)
(* empty or missing, and files of names as the two programs ship them.     *)
(***************************************************************************)
EXTENDS TopicTree

Text(text) == [text |-> text, numbers |-> <<>>]

Fixed(name)     == [form |-> "fixed", name |-> Text(name)]
Counted(name)   == [form |-> "counted", name |-> Text(name)]
NodeOf(name)    == [form |-> "node", node |-> <<name>>]
Wild(n, name)   == [form |-> "wild", n |-> n, node |-> <<name>>]
NoPrefix        == [form |-> "none"]

\* An enabled leaf layer.
Leaf(prefix, range, devices, sequence) ==
    [Enable |-> TRUE, prefix |-> prefix, range |-> range, Sequence |-> sequence,
     Fetch |-> sequence, serial |-> "", devices |-> devices, Layer |-> <<>>]

Inner(prefix, range, layers) ==
    [Leaf(prefix, range, {}, <<1>>) EXCEPT !.Layer = <<layers>>]

Life == {"LifeDevice"}

Leaves == {
    Leaf(Fixed("ALL"), <<>>, Life \cup {"EnvDevice"}, <<>>),
    Leaf(Fixed("ALL"), <<>>, {"EnvDevice"}, <<5>>),
    Leaf(Counted("S"), <<0, 1>>, Life, <<-1>>),
    Leaf(Counted("S"), <<>>, Life, <<>>),
    Leaf(NodeOf("Kinds"), <<-1, 0>>, Life, <<0>>),
    Leaf(NodeOf("Single"), <<1, 0>>, Life, <<>>),
    Leaf(Wild(1, "device"), <<0, 1>>, Life, <<7>>),
    Leaf(Wild(2, "sensor"), <<0, 0>>, Life, <<>>),
    Leaf(Wild(0, "sensor"), <<0, 0>>, Life, <<>>),
    [Leaf(Wild(2, "sensor"), <<0, 0>>, Life, <<>>) EXCEPT !.serial = "own"],
    [Leaf(NoPrefix, <<>>, {}, <<>>) EXCEPT !.Enable = FALSE],
    Leaf(NoPrefix, <<>>, Life, <<>>)}

SecondLeaf == Leaf(Fixed("EXTRA"), <<>>, Life, <<3>>)

Middles ==
    {Inner(prefix, range, layers) :
        prefix \in {Wild(1, "device"), Counted("M"), Fixed("M")},
        range  \in {<<0, 0>>, <<0, 2>>},
        layers \in {<<x>> : x \in Leaves} \cup {<<x, SecondLeaf>> : x \in Leaves}
                   \cup {<<>>}}

Tops ==
    Leaves \cup
    {Inner(prefix, <<0, 1>>, <<x>>) :
        prefix \in {NodeOf("Area"), NodeOf("Single"), Counted("T"), Fixed("T")},
        x \in Leaves \cup Middles}

LayerLists == {<<x>> : x \in Tops} \cup {<<x, SecondLeaf>> : x \in Leaves}

---------------------------------------------------------------------------

Scalar(name) == [kind |-> "scalar", name |-> Text(name)]
Key(name, serial) == [name |-> Text(name), serial |-> serial]
Map(keys) == [kind |-> "map", keys |-> keys]
Sequence(items) == [kind |-> "sequence", items |-> items]

\* The nodes both programs' files share: areas, kinds and a lone scalar.
Common(key) ==
    CASE key = <<"Area">>   -> Sequence(<<Scalar("a"), Scalar("b")>>)
      [] key = <<"Kinds">>  -> Sequence(<<Scalar("k0"), Scalar("k1")>>)
      [] key = <<"Single">> -> Scalar("a")

CommonKeys == {<<"Area">>, <<"Kinds">>, <<"Single">>}

DevicesOf(name) == <<Text(name), "device">>
Sensors(name)  == <<Text(name), "sensor">>
Counted0       == <<Numbered(Text("M"), 0), "sensor">>
Counted1       == <<Numbered(Text("M"), 1), "sensor">>
Keys == CommonKeys \cup {DevicesOf("a"), DevicesOf("b"), Sensors("d0"),
                         Sensors("d1"), Sensors("d2"), Counted0, Counted1}

\* A device file; devices(name) is the node of the area's devices.
File(a, b) ==
    [key \in Keys |->
        CASE key = DevicesOf("a") -> a
          [] key = DevicesOf("b") -> b
          [] key = Sensors("d0") -> Sequence(<<Map(<<Key("s0", "S0")>>)>>)
          [] key = Sensors("d1") -> Sequence(<<Map(<<Key("s1", "")>>)>>)
          [] key = Sensors("d2") -> Sequence(<<Scalar("s2")>>)
          [] key = Counted0 -> Sequence(<<Scalar("c0")>>)
          [] key = Counted1 -> Sequence(<<Scalar("c1")>>)
          [] OTHER -> Common(key)]

\* One map for each device, as the shipped file has it.
DeviceFile ==
    File(Sequence(<<Map(<<Key("d0", "D0")>>), Map(<<Key("d1", "")>>)>>),
         Sequence(<<Map(<<Key("d2", "D2")>>)>>))

\* All the devices of an area in one map.
GroupedFile ==
    File(Sequence(<<Map(<<Key("d0", "D0"), Key("d1", "")>>)>>),
         Sequence(<<Map(<<Key("d2", "D2")>>)>>))

\* The subscriber's file: the same names, no attributes.
NameFile ==
    [key \in Keys |->
        CASE key = DevicesOf("a") -> Sequence(<<Scalar("d0"), Scalar("d1")>>)
          [] key = DevicesOf("b") -> Sequence(<<Scalar("d2")>>)
          [] key = Sensors("d0") -> Sequence(<<Scalar("s0")>>)
          [] key = Sensors("d1") -> Sequence(<<Scalar("s1")>>)
          [] OTHER -> DeviceFile[key]]

MCConfigurations ==
    {[layers |-> layers, doc |-> [p \in Program |->
        IF p = "device" THEN device ELSE user]] :
        layers \in LayerLists, device \in {DeviceFile, GroupedFile},
        user \in {NameFile, DeviceFile}}
=============================================================================
