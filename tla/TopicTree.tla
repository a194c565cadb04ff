----------------------------- MODULE TopicTree -----------------------------
(***************************************************************************)
(* How both programs turn the layers of their configuration and a file of  *)
(* names into topics: load_layer builds a tree, makeTopicList keeps its    *)
(* childless topics under their full names in gTopicmap, the set of topics *)
(* the engines VirtualDevice and VirtualUser work on.                      *)
(*                                                                         *)
(* YAML is abstracted to what the loaders tell apart.  A key that may be   *)
(* absent is a tuple, empty when it is.  A name is a text and the numbers  *)
(* after it, 2 in the name "x-2" that a prefix "x-${..}" formats.  A full  *)
(* name is the sequence of the names joined by '/'.  A prefix is           *)
(*   [form |-> "fixed", name]      no ${..} in it ('#' is one of these),   *)
(*   [form |-> "counted", name]    x-${i},                                 *)
(*   [form |-> "node", node]       ${Area}: the node "Area" of the file,   *)
(*   [form |-> "wild", n, node]    ${$n-vBDT}: the node named after the    *)
(*                                 n-th token.                             *)
(* A node of the file is a sequence of elements, or a scalar.  An element  *)
(* is a scalar, a name, or a map from names to the attributes of a device. *)
(* Of the attributes modelName, serial, Lat and Lon, set and inherited     *)
(* alike, serial stands for all; "" is unset.                              *)
(*                                                                         *)
(* The recursions of the code go one layer down at a time.  Each is a      *)
(* function here whose value at d is what the code does on layers, or on   *)
(* topics, nested at most d deep.                                          *)
(***************************************************************************)
EXTENDS Integers, SequencesExt

CONSTANTS
    Configurations,
    Depth           \* no layer of theirs is nested deeper

Program == {"device", "user"}

Devices == {"LifeDevice", "EnvDevice", "DisasterDevice"}

Name == [text : STRING, numbers : Seq(Int)]

Prefix ==
    [form : {"none"}] \cup
    [form : {"fixed", "counted"}, name : Name] \cup
    [form : {"node"}, node : Seq(STRING)] \cup
    [form : {"wild"}, n : Int, node : Seq(STRING)]

\* None, or an attribute.
Serial == {""} \cup STRING

\* A layer above layers of a set.
Layer(below) ==
    [Enable : BOOLEAN, prefix : Prefix, range : {<<>>} \cup Int \X Int,
     Sequence : Seq(Int), Fetch : Seq(Int), serial : Serial,
     devices : SUBSET Devices, Layer : Seq(Seq(below))]

LayersTo[d \in 0 .. Depth] == IF d = 0 THEN {} ELSE Layer(LayersTo[d - 1])

Attributes == [name : Name, serial : Serial]

Scalars  == [kind : {"scalar"}, name : Name]
Elements == Scalars \cup [kind : {"map"}, keys : Seq(Attributes)]
Nodes    == Scalars \cup [kind : {"sequence"}, items : Seq(Elements)]

Documents == {c.doc[p] : c \in Configurations, p \in Program}

ASSUME ConfigurationAssumption ==
    /\ Depth \in Nat
    /\ Configurations \subseteq
         [layers : Seq(LayersTo[Depth]), doc : [Program -> Documents]]
    /\ \A doc \in Documents : \A key \in DOMAIN doc : doc[key] \in Nodes

VARIABLES
    configuration,  \* [layers |-> Publisher's and Subscriber's Layer, doc |-> doc_device]
    phase,          \* what main does: "layers", then "up", or "exit"
    li,             \* top layers loaded so far
    gTopics,
    gTopicmap

vars == <<configuration, phase, li, gTopics, gTopicmap>>

---------------------------------------------------------------------------
(* Names a layer's prefix stands for.                                      *)

IsLeaf(layer) == layer.Layer = <<>>

\* The indexes of the loops for(i = min; i <= max; i++).
parseIntRange(range) ==
    [k \in 1 .. range[2] - range[1] + 1 |-> range[1] + k - 1]

\* The node's element at an index, or nothing.  A negative index yields the
\* node itself, and so does any index into a scalar.
getNode(doc, key, i) ==
    IF key \notin DOMAIN doc THEN <<>>
    ELSE IF i < 0 \/ doc[key].kind = "scalar" THEN <<doc[key]>>
    ELSE IF i < Len(doc[key].items) THEN <<doc[key].items[i + 1]>>
    ELSE <<>>

\* "$n" must be the number of a token; $0 is not.
IsToken(layer, tokens) ==
    layer.prefix.form = "wild" => layer.prefix.n \in DOMAIN tokens

ElementsOf(layer, tokens, doc) ==
    LET key == IF layer.prefix.form = "wild"
               THEN <<tokens[layer.prefix.n]>> \o layer.prefix.node
               ELSE layer.prefix.node
        at  == parseIntRange(layer.range)
    IN  FlattenSeq([k \in DOMAIN at |-> getNode(doc, key, at[k])])

\* A sibling is a topic about to be made; a group of them shares addtokens.
Sibling(name, serial) == [name |-> name, serial |-> serial]

\* getAsString(value[key], layer[key]): the layer's value wins.
getAsString(n1, n2) == IF n2 # "" THEN n2 ELSE n1

FixedGroup(layer) == <<Sibling(layer.prefix.name, "")>>

Numbered(name, i) == [name EXCEPT !.numbers = Append(@, i)]

CountedGroup(layer) ==
    LET at == parseIntRange(layer.range)
    IN  [k \in DOMAIN at |-> Sibling(Numbered(layer.prefix.name, at[k]), "")]

ScalarGroup(elmt) == <<Sibling(elmt.name, "")>>

MapGroup(layer, elmt) ==
    [j \in DOMAIN elmt.keys |->
        Sibling(elmt.keys[j].name,
                getAsString(elmt.keys[j].serial, layer.serial))]

\* What an element of the file becomes.  The device reads a map only under a
\* "$n"; the user reads no maps, as<std::string>() throws.
ElementGroup(p, layer, elmt) ==
    CASE elmt.kind = "scalar" -> ScalarGroup(elmt)
      [] elmt.kind = "map" /\ p = "device" /\ layer.prefix.form = "wild" ->
             MapGroup(layer, elmt)
      [] OTHER -> <<>>

Groups(p, layer, tokens, doc) ==
    CASE layer.prefix.form = "fixed"   -> <<FixedGroup(layer)>>
      [] layer.prefix.form = "counted" -> <<CountedGroup(layer)>>
      [] OTHER -> LET elmts == ElementsOf(layer, tokens, doc)
                  IN  [k \in DOMAIN elmts |-> ElementGroup(p, layer, elmts[k])]

\* The loader gives up: Prefix or PrefixRange missing, no such token, or an
\* exception out of as<std::string>().
GivesUp(p, layer, tokens, doc) ==
    \/ layer.prefix.form = "none"
    \/ layer.prefix.form # "fixed" /\ layer.range = <<>>
    \/ ~IsToken(layer, tokens)
    \/ /\ p = "user"
       /\ layer.prefix.form \in {"node", "wild"}
       /\ \E k \in DOMAIN ElementsOf(layer, tokens, doc) :
            ElementsOf(layer, tokens, doc)[k].kind # "scalar"

---------------------------------------------------------------------------
(* The topics of a layer.  load_layer has a branch for every form of       *)
(* prefix and repeats in each the making of a topic and the recursion into *)
(* its Layer; they differ in the group of siblings they make, above, and   *)
(* in the two details NewTopic and addtokens name.                         *)

\* The tokens the layers below a group's j-th sibling see.  The device adds
\* its name to those of the siblings before it, the user to the layer's own.
DeviceTokens(tokens, names, j) == tokens \o SubSeq(names, 1, j)

\* Mutant of UserTokens: addtokens declared outside the loop.
UserTokens_shared(tokens, names, j) == tokens \o SubSeq(names, 1, j)

UserTokens(tokens, names, j) == Append(tokens, names[j])

addtokens(p, tokens, group, j) ==
    LET names == [k \in DOMAIN group |-> group[k].name]
    IN  IF p = "device" THEN DeviceTokens(tokens, names, j)
                        ELSE UserTokens(tokens, names, j)

\* Mutant of setNextSequence: the configured number, whatever it is.
setNextSequence_any(sequence) == IF sequence = <<>> THEN 0 ELSE sequence[1]

\* m_sequence of a new topic, 0 from the constructor.
setNextSequence(sequence) ==
    IF sequence = <<>> THEN 0
    ELSE IF 0 < sequence[1] THEN sequence[1] ELSE 1

setFetchSequence(fetch) == IF fetch = <<>> THEN -1 ELSE fetch[1]

\* Mutant of Inherited: a topic's own attribute wins.
Inherited_own(layer, own, preTopic) ==
    IF own # "" THEN own ELSE preTopic.serial

\* A topic takes over the attributes of the topic above it, except one of a
\* fixed prefix that has layers below.
Inherited(layer, own, preTopic) ==
    IF preTopic.serial # "" /\ (layer.prefix.form # "fixed" \/ IsLeaf(layer))
    THEN preTopic.serial ELSE own

NewTopic(p, layer, sibling, preTopic) ==
    [name     |-> sibling.name,
     topics   |-> <<>>,
     sequence |-> IF p = "device" THEN setNextSequence(layer.Sequence) ELSE 0,
     fetch    |-> IF p = "user" /\ IsLeaf(layer)
                  THEN setFetchSequence(layer.Fetch) ELSE -1,
     serial   |-> IF p = "device"
                  THEN Inherited(layer, sibling.serial, preTopic) ELSE "",
     devices  |-> IF p = "device" /\ IsLeaf(layer) THEN layer.devices ELSE {}]

\* Mutant of LifeDeviceOk: the check of a missing LifeDevice left out.
LifeDeviceOk_lax(p, layer) == TRUE

\* "LifeDevice Required item" of a layer the device publishes.
LifeDeviceOk(p, layer) ==
    p = "device" /\ IsLeaf(layer) => "LifeDevice" \in layer.devices

\* nullptr, the topic above a top layer.
NoTopic == [serial |-> ""]

\* The topics a layer makes, each with the tokens of the layers below it.
Made(c, layer) ==
    LET groups == Groups(c.p, layer, c.tokens, c.doc)
    IN  FlattenSeq([g \in DOMAIN groups |-> [j \in DOMAIN groups[g] |->
            [topic  |-> NewTopic(c.p, layer, groups[g][j], c.preTopic),
             tokens |-> addtokens(c.p, c.tokens, groups[g], j)]]])

Joined(loaded) ==
    [ok     |-> \A k \in DOMAIN loaded : loaded[k].ok,
     topics |-> FlattenSeq([k \in DOMAIN loaded |-> loaded[k].topics])]

Nothing == [ok |-> TRUE, topics |-> <<>>]
Failed  == [ok |-> FALSE, topics |-> <<>>]

\* A topic with the topics of its layer's Layer below it.  deeper is what
\* load_layers does with those layers.
load_topic(deeper, c, layer, made) ==
    LET below == IF IsLeaf(layer)
                 THEN [ok |-> LifeDeviceOk(c.p, layer), topics |-> <<>>]
                 ELSE deeper[[c EXCEPT !.layers = layer.Layer[1],
                                       !.preTopic = [serial |-> made.topic.serial],
                                       !.tokens = made.tokens]]
    IN  [ok |-> below.ok, topics |-> <<[made.topic EXCEPT !.topics = below.topics]>>]

\* The topics one layer adds, and whether the loader returned 0.
load_layer(deeper, c, layer) ==
    IF ~layer.Enable THEN Nothing
    ELSE IF GivesUp(c.p, layer, c.tokens, c.doc) THEN Failed
    ELSE LET made == Made(c, layer)
         IN  Joined([k \in DOMAIN made |-> load_topic(deeper, c, layer, made[k])])

\* A call of the loader for layers under a topic.
Calls(d) ==
    [p : Program, layers : Seq(LayersTo[d]), doc : Documents,
     preTopic : [serial : Serial], tokens : Seq(Name)]

load_layers[d \in 0 .. Depth] ==
    [c \in Calls(d) |->
        IF d = 0 THEN Nothing
        ELSE Joined([k \in DOMAIN c.layers |->
                        load_layer(load_layers[d - 1], c, c.layers[k])])]

---------------------------------------------------------------------------
(* The map of topics.                                                      *)

Topic(below) ==
    [name : Name, topics : Seq(below), sequence : Nat, fetch : Int,
     serial : Serial, devices : SUBSET Devices]

\* Topics with topics below them, nested at most d deep.
TopicsTo[d \in 0 .. Depth] == IF d = 0 THEN {} ELSE Topic(TopicsTo[d - 1])

\* Mutant of FullName: the parent forgotten.
FullName_short(parent, topic) == <<topic.name>>

FullName(parent, topic) == Append(parent, topic.name)

\* Every childless topic under its full name, in the order makeTopicList
\* comes to it.
childless[d \in 0 .. Depth] ==
    [c \in [topics : Seq(TopicsTo[d]), parent : Seq(Name)] |->
        IF d = 0 THEN <<>>
        ELSE FlattenSeq([k \in DOMAIN c.topics |->
               LET topic == c.topics[k]
                   name  == FullName(c.parent, topic)
               IN  IF topic.topics = <<>> THEN <<[name |-> name, topic |-> topic]>>
                   ELSE childless[d - 1][[topics |-> topic.topics, parent |-> name]]])]

\* A later topic takes the place of an earlier one of the same name.
makeTopicList(topics, parent, topicmap) ==
    LET list    == childless[Depth][[topics |-> topics, parent |-> parent]]
        At(n)   == {k \in DOMAIN list : list[k].name = n}
        last(n) == CHOOSE k \in At(n) : \A j \in At(n) : j <= k
    IN  [n \in DOMAIN topicmap \cup {list[k].name : k \in DOMAIN list} |->
            IF At(n) = {} THEN topicmap[n] ELSE list[last(n)].topic]

---------------------------------------------------------------------------
(* The part of both mains that loads the topics.                           *)

Init ==
    /\ configuration \in Configurations
    /\ phase     = [p \in Program |-> "layers"]
    /\ li        = [p \in Program |-> 0]
    /\ gTopics   = [p \in Program |-> <<>>]
    /\ gTopicmap = [p \in Program |-> <<>>]

\* One turn of the loop over the top layers.
LoadLayer(p) ==
    /\ phase[p] = "layers"
    /\ li[p] < Len(configuration.layers)
    /\ LET loaded == load_layers[Depth][
                [p |-> p, layers |-> <<configuration.layers[li[p] + 1]>>,
                 doc |-> configuration.doc[p], preTopic |-> NoTopic, tokens |-> <<>>]]
       IN  IF loaded.ok
           THEN /\ gTopics' = [gTopics EXCEPT ![p] = @ \o loaded.topics]
                /\ li' = [li EXCEPT ![p] = @ + 1]
                /\ UNCHANGED phase
           ELSE /\ phase' = [phase EXCEPT ![p] = "exit"]
                /\ UNCHANGED <<gTopics, li>>
    /\ UNCHANGED <<configuration, gTopicmap>>

\* All layers loaded: the map is made and the Interests may start.
MakeTopicList(p) ==
    /\ phase[p] = "layers"
    /\ li[p] = Len(configuration.layers)
    /\ gTopicmap' = [gTopicmap EXCEPT ![p] = makeTopicList(gTopics[p], <<>>, @)]
    /\ phase' = [phase EXCEPT ![p] = "up"]
    /\ UNCHANGED <<configuration, li, gTopics>>

Next == \E p \in Program : LoadLayer(p) \/ MakeTopicList(p)

Spec == Init /\ [][Next]_vars

---------------------------------------------------------------------------
(* Properties.                                                             *)

Below(layer) == IF IsLeaf(layer) THEN <<>> ELSE layer.Layer[1]

\* The names a layer's prefix stands for below a path, read off the
\* configuration: $n is the n-th name of the path, the n-th layer's.
NamesBelow(layer, path, doc) ==
    LET indexes == layer.range[1] .. layer.range[2]
        node    == IF layer.prefix.form = "wild"
                   THEN <<path[layer.prefix.n]>> \o layer.prefix.node
                   ELSE layer.prefix.node
        elmts   == IF node \notin DOMAIN doc \/ indexes = {} THEN {}
                   ELSE IF doc[node].kind = "scalar" THEN {doc[node]}
                   ELSE {doc[node].items[i + 1] :
                            i \in indexes \cap 0 .. Len(doc[node].items) - 1}
    IN  CASE layer.prefix.form = "fixed" -> {layer.prefix.name}
          [] layer.prefix.form = "counted" ->
                 {Numbered(layer.prefix.name, i) : i \in indexes}
          [] OTHER ->
                 {e.name : e \in {x \in elmts : x.kind = "scalar"}} \cup
                 {x.name : x \in UNION {ToSet(e.keys) : e \in
                     {y \in elmts : y.kind = "map" /\ layer.prefix.form = "wild"}}}

\* The reference for both loaders: the paths through the layers that end,
\* because the last one is a leaf or because nothing was found below it.
PathsBelow[d \in 0 .. Depth] ==
    [c \in [layers : Seq(LayersTo[d]), doc : Documents, path : Seq(Name)] |->
        IF d = 0 THEN {}
        ELSE LET Under(layer, q) ==
                     PathsBelow[d - 1][[c EXCEPT !.layers = Below(layer), !.path = q]]
                 Ends(layer, q) ==
                     IF IsLeaf(layer) THEN {[path |-> q, leaf |-> TRUE]}
                     ELSE IF Under(layer, q) = {} THEN {[path |-> q, leaf |-> FALSE]}
                     ELSE Under(layer, q)
                 On(layer) == UNION {Ends(layer, Append(c.path, name)) :
                                        name \in NamesBelow(layer, c.path, c.doc)}
             IN  UNION {On(layer) : layer \in {x \in ToSet(c.layers) : x.Enable}}]

Paths(p) ==
    PathsBelow[Depth][[layers |-> configuration.layers,
                       doc |-> configuration.doc[p], path |-> <<>>]]

\* Layers without a "$n" in them or below them ...
Plain[d \in 0 .. Depth] ==
    IF d = 0 THEN {} ELSE {x \in Layer(Plain[d - 1]) : x.prefix.form # "wild"}

\* ... and layers that have a "$n" below none that is counted.
Apart[d \in 0 .. Depth] ==
    IF d = 0 THEN {}
    ELSE {x \in Layer(Apart[d - 1]) :
             x.prefix.form = "counted" => Below(x) \in Seq(Plain[d - 1])}

\* Every group of siblings is one topic wherever a "$n" layer is below it.
TokensApart ==
    /\ configuration.layers \in Seq(Apart[Depth])
    /\ \A k \in DOMAIN configuration.doc["device"] :
         LET node == configuration.doc["device"][k] IN
         node.kind = "sequence" =>
             \A e \in ToSet(node.items) : e.kind = "map" => Len(e.keys) = 1

\* The place of the k-th topic of a list, and those of the topics below it.
PlacesOf(deeper, topics, k, parent) ==
    LET topic == topics[k]
        path  == Append(parent, topic.name)
    IN  {[at |-> <<k>>, path |-> path, topic |-> topic]} \cup
        {[x EXCEPT !.at = <<k>> \o @] :
            x \in deeper[[topics |-> topic.topics, parent |-> path]]}

\* Every topic of a tree with its place, the positions that lead to it, and
\* its full name.
Placed[d \in 0 .. Depth] ==
    [c \in [topics : Seq(TopicsTo[d]), parent : Seq(Name)] |->
        IF d = 0 THEN {}
        ELSE UNION {PlacesOf(Placed[d - 1], c.topics, k, c.parent) : k \in DOMAIN c.topics}]

AllTopics(p) == Placed[Depth][[topics |-> gTopics[p], parent |-> <<>>]]

Childless(p) == {x \in AllTopics(p) : x.topic.topics = <<>>}

\* No two siblings anywhere in a tree have the same name.
DistinctNames(p) ==
    \A x, y \in AllTopics(p) :
        Front(x.at) = Front(y.at) /\ x.topic.name = y.topic.name => x = y

\* Types; a device topic starts at a sequence that is no negative number
\* (setNextSequence's callers, main.cpp 1088-1096), whatever Sequence says.
TypeOK ==
    /\ phase \in [Program -> {"layers", "up", "exit"}]
    /\ li \in [Program -> 0 .. Len(configuration.layers)]
    /\ gTopics \in [Program -> Seq(TopicsTo[Depth])]
    /\ \A p \in Program : \A n \in DOMAIN gTopicmap[p] :
         n \in Seq(Name) /\ gTopicmap[p][n] \in TopicsTo[Depth]

\* What goes up is what the files describe: the full names in gTopicmap are
\* exactly the ends of the paths through the enabled layers, $n standing for
\* the n-th name of the path.  The device keeps to it when no siblings share
\* their tokens above a "$n" (load_layer and makeTopicList of both programs).
NamesAsConfigured ==
    \A p \in Program : phase[p] = "up" /\ (p = "user" \/ TokensApart) =>
        DOMAIN gTopicmap[p] = {x.path : x \in Paths(p)}

\* The publisher does not go up with a leaf layer that has no LifeDevice: a
\* topic without one stands only for a layer below which nothing was found
\* ("LifeDevice Required item", at any depth and after any earlier topics).
LeavesHaveDevices ==
    phase["device"] = "up" /\ TokensApart =>
        \A x \in Paths("device") :
            x.leaf /\ [x EXCEPT !.leaf = FALSE] \notin Paths("device") =>
                "LifeDevice" \in gTopicmap["device"][x.path].devices

\* A topic right below a device of the file carries that device's serial,
\* whatever its own layer or element sets (preTopic in load_layer).
SerialInherited ==
    \A x \in AllTopics("device") : \A c \in ToSet(x.topic.topics) :
        x.topic.serial # "" /\ c.devices # {} => c.serial = x.topic.serial

\* No full name is lost between the tree and gTopicmap, and none is made up:
\* each childless topic has its name there, with a topic of that name; with
\* distinct names among siblings it is itself that topic, in an entry of its
\* own.  Of two topics of one full name the map keeps one (makeTopicList).
NoTopicLost ==
    \A p \in Program : phase[p] = "up" =>
        /\ DOMAIN gTopicmap[p] = {x.path : x \in Childless(p)}
        /\ \A n \in DOMAIN gTopicmap[p] :
             \E x \in Childless(p) : x.path = n /\ x.topic = gTopicmap[p][n]
        /\ DistinctNames(p) =>
             /\ \A x \in Childless(p) : gTopicmap[p][x.path] = x.topic
             /\ Cardinality(DOMAIN gTopicmap[p]) = Cardinality(Childless(p))

\* "$1 is the first layer's prefix, $2 the second layer's" (main.cpp 625), on
\* the device and for every configuration.  addtokens collects the names of
\* all siblings before, so the code does not keep it.
NthLayerPrefix ==
    phase["device"] = "up" =>
        DOMAIN gTopicmap["device"] = {x.path : x \in Paths("device")}
=============================================================================
