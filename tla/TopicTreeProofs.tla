--------------------------- MODULE TopicTreeProofs ---------------------------
(***************************************************************************)
(* Every property of TopicTree, for all configurations of any depth: its   *)
(* types, that topics inherit the serial above them, that makeTopicList    *)
(* loses none with distinct siblings, and that both programs go up with    *)
(* the names and the devices their configuration describes.                *)
(*                                                                         *)
(* The recursions of the loaders go down the layers, so each lemma about   *)
(* them is an induction on the depth (SetInduction of SequenceLemmas): a   *)
(* predicate of n that says it of every call n layers deep, a lemma that   *)
(* takes it from n to n + 1, and one that concludes.  The theorems about   *)
(* the state come from two inductive invariants, TreeInv and NamesInv.     *)
(***************************************************************************)
EXTENDS TopicTree, SequenceLemmas, FiniteSetTheorems
---------------------------------------------------------------------------
(***************************************************************************)
(* The recursions.  Each is a function on 0 .. Depth that is given by what *)
(* it is one level down; here its step, and that it solves its equation.   *)
(***************************************************************************)
LayersToStep(d, g) ==
    IF d = 0 THEN {} ELSE Layer(g)

PlainStep(d, g) ==
    IF d = 0 THEN {} ELSE {x \in Layer(g) : x.prefix.form # "wild"}

ApartStep(d, g) ==
    IF d = 0 THEN {}
    ELSE {x \in Layer(g) :
             x.prefix.form = "counted" => Below(x) \in Seq(Plain[d - 1])}

TopicsToStep(d, g) ==
    IF d = 0 THEN {} ELSE Topic(g)

LoadLayersStep(d, g) ==
    [c \in Calls(d) |->
        IF d = 0 THEN Nothing
        ELSE Joined([k \in DOMAIN c.layers |->
                        load_layer(g, c, c.layers[k])])]

ChildlessStep(d, g) ==
    [c \in [topics : Seq(TopicsTo[d]), parent : Seq(Name)] |->
        IF d = 0 THEN <<>>
        ELSE FlattenSeq([k \in DOMAIN c.topics |->
               LET topic == c.topics[k]
                   name  == FullName(c.parent, topic)
               IN  IF topic.topics = <<>> THEN <<[name |-> name, topic |-> topic]>>
                   ELSE g[[topics |-> topic.topics, parent |-> name]]])]

PathsBelowStep(d, g) ==
    [c \in [layers : Seq(LayersTo[d]), doc : Documents, path : Seq(Name)] |->
        IF d = 0 THEN {}
        ELSE LET Under(layer, q) ==
                     g[[c EXCEPT !.layers = Below(layer), !.path = q]]
                 Ends(layer, q) ==
                     IF IsLeaf(layer) THEN {[path |-> q, leaf |-> TRUE]}
                     ELSE IF Under(layer, q) = {} THEN {[path |-> q, leaf |-> FALSE]}
                     ELSE Under(layer, q)
                 On(layer) == UNION {Ends(layer, Append(c.path, name)) :
                                        name \in NamesBelow(layer, c.path, c.doc)}
             IN  UNION {On(layer) : layer \in {x \in ToSet(c.layers) : x.Enable}}]

PlacedStep(d, g) ==
    [c \in [topics : Seq(TopicsTo[d]), parent : Seq(Name)] |->
        IF d = 0 THEN {}
        ELSE UNION {PlacesOf(g, c.topics, k, c.parent) : k \in DOMAIN c.topics}]

Steps(d, g) ==
    <<LayersToStep(d, g[1]),
      PlainStep(d, g[2]),
      ApartStep(d, g[3]),
      TopicsToStep(d, g[4]),
      LoadLayersStep(d, g[5]),
      ChildlessStep(d, g[6]),
      PathsBelowStep(d, g[7]),
      PlacedStep(d, g[8])>>

\* Each part of a step is the step of its own recursion.
LEMMA StepsAt ==
    \A d, g :
      /\ Steps(d, g)[1] = LayersToStep(d, g[1])
      /\ Steps(d, g)[2] = PlainStep(d, g[2])
      /\ Steps(d, g)[3] = ApartStep(d, g[3])
      /\ Steps(d, g)[4] = TopicsToStep(d, g[4])
      /\ Steps(d, g)[5] = LoadLayersStep(d, g[5])
      /\ Steps(d, g)[6] = ChildlessStep(d, g[6])
      /\ Steps(d, g)[7] = PathsBelowStep(d, g[7])
      /\ Steps(d, g)[8] = PlacedStep(d, g[8])
  BY DEF Steps

\* A step to 0 does not look further down.
LEMMA StepsEnd == \A g, h : Steps(0, g) = Steps(0, h)
  BY DEF Steps, LayersToStep, PlainStep, ApartStep, TopicsToStep, LoadLayersStep, ChildlessStep, PathsBelowStep, PlacedStep

\* All the equations are solved at once, by induction over how far down they go.
LEMMA StepsSolved == \E F : F = [d \in 0 .. Depth |-> Steps(d, F[d - 1])]
  <1> DEFINE Solves(F, n) == F = [d \in 0 .. n |-> Steps(d, F[d - 1])]
             Good == {n \in Nat : \E F : Solves(F, n)}
  <1>1. 0 \in Good
    <2> DEFINE F == [d \in 0 .. 0 |-> Steps(0, 0)]
    <2>1. Solves(F, 0)
      BY StepsEnd
    <2> QED BY <2>1
  <1>2. ASSUME NEW n \in Nat, n \in Good PROVE n + 1 \in Good
    <2>1. PICK F : Solves(F, n)
      BY <1>2
    <2> DEFINE G == [d \in 0 .. n + 1 |-> IF d = n + 1 THEN Steps(d, F[n]) ELSE F[d]]
    <2>2. ASSUME NEW d \in 0 .. n + 1 PROVE G[d] = Steps(d, G[d - 1])
      BY <2>1, StepsEnd
    <2>3. Solves(G, n + 1)
      BY <2>2
    <2>4. n + 1 \in Nat
      OBVIOUS
    <2> HIDE DEF G, Solves
    <2> QED BY <2>3, <2>4
  <1>3. Depth \in Good
    <2> HIDE DEF Good
    <2> QED BY <1>1, <1>2, SetInduction, ConfigurationAssumption
  <1> QED BY <1>3

\* Each recursive function is, at each depth, its step.
LEMMA LayersToIs ==
    \A d \in 0 .. Depth : LayersTo[d] = LayersToStep(d, LayersTo[d - 1])
  <1> DEFINE Solves(f) == f = [d \in 0 .. Depth |-> LayersToStep(d, f[d - 1])]
  <1>1. PICK F : F = [d \in 0 .. Depth |-> Steps(d, F[d - 1])]
    BY StepsSolved
  <1> DEFINE f == [d \in 0 .. Depth |-> F[d][1]]
  <1>2. ASSUME NEW d \in 0 .. Depth PROVE f[d] = LayersToStep(d, f[d - 1])
    <2>1. F[d][1] = LayersToStep(d, F[d - 1][1])
      <3>1. F[d] = Steps(d, F[d - 1])
        BY <1>1
      <3> QED BY <3>1, StepsAt, Zenon
    <2>2. CASE d = 0
      BY <2>1, <2>2 DEF LayersToStep
    <2>3. CASE d # 0
      BY <2>1, <2>3, ConfigurationAssumption
    <2> QED BY <2>2, <2>3
  <1>3. Solves(f)
    BY <1>2
  <1>4. LayersTo = CHOOSE h : Solves(h)
    BY Zenon DEF LayersTo, LayersToStep
  <1> QED BY <1>3, <1>4

\* The same for Plain ...
LEMMA PlainIs ==
    \A d \in 0 .. Depth : Plain[d] = PlainStep(d, Plain[d - 1])
  <1> DEFINE Solves(f) == f = [d \in 0 .. Depth |-> PlainStep(d, f[d - 1])]
  <1>1. PICK F : F = [d \in 0 .. Depth |-> Steps(d, F[d - 1])]
    BY StepsSolved
  <1> DEFINE f == [d \in 0 .. Depth |-> F[d][2]]
  <1>2. ASSUME NEW d \in 0 .. Depth PROVE f[d] = PlainStep(d, f[d - 1])
    <2>1. F[d][2] = PlainStep(d, F[d - 1][2])
      <3>1. F[d] = Steps(d, F[d - 1])
        BY <1>1
      <3> QED BY <3>1, StepsAt, Zenon
    <2>2. CASE d = 0
      BY <2>1, <2>2 DEF PlainStep
    <2>3. CASE d # 0
      BY <2>1, <2>3, ConfigurationAssumption
    <2> QED BY <2>2, <2>3
  <1>3. Solves(f)
    BY <1>2
  <1>4. Plain = CHOOSE h : Solves(h)
    BY Zenon DEF Plain, PlainStep
  <1> QED BY <1>3, <1>4

\* ... Apart ...
LEMMA ApartIs ==
    \A d \in 0 .. Depth : Apart[d] = ApartStep(d, Apart[d - 1])
  <1> DEFINE Solves(f) == f = [d \in 0 .. Depth |-> ApartStep(d, f[d - 1])]
  <1>1. PICK F : F = [d \in 0 .. Depth |-> Steps(d, F[d - 1])]
    BY StepsSolved
  <1> DEFINE f == [d \in 0 .. Depth |-> F[d][3]]
  <1>2. ASSUME NEW d \in 0 .. Depth PROVE f[d] = ApartStep(d, f[d - 1])
    <2>1. F[d][3] = ApartStep(d, F[d - 1][3])
      <3>1. F[d] = Steps(d, F[d - 1])
        BY <1>1
      <3> QED BY <3>1, StepsAt, Zenon
    <2>2. CASE d = 0
      BY <2>1, <2>2 DEF ApartStep
    <2>3. CASE d # 0
      BY <2>1, <2>3, ConfigurationAssumption
    <2> QED BY <2>2, <2>3
  <1>3. Solves(f)
    BY <1>2
  <1>4. Apart = CHOOSE h : Solves(h)
    BY Zenon DEF Apart, ApartStep
  <1> QED BY <1>3, <1>4

\* ... TopicsTo ...
LEMMA TopicsToIs ==
    \A d \in 0 .. Depth : TopicsTo[d] = TopicsToStep(d, TopicsTo[d - 1])
  <1> DEFINE Solves(f) == f = [d \in 0 .. Depth |-> TopicsToStep(d, f[d - 1])]
  <1>1. PICK F : F = [d \in 0 .. Depth |-> Steps(d, F[d - 1])]
    BY StepsSolved
  <1> DEFINE f == [d \in 0 .. Depth |-> F[d][4]]
  <1>2. ASSUME NEW d \in 0 .. Depth PROVE f[d] = TopicsToStep(d, f[d - 1])
    <2>1. F[d][4] = TopicsToStep(d, F[d - 1][4])
      <3>1. F[d] = Steps(d, F[d - 1])
        BY <1>1
      <3> QED BY <3>1, StepsAt, Zenon
    <2>2. CASE d = 0
      BY <2>1, <2>2 DEF TopicsToStep
    <2>3. CASE d # 0
      BY <2>1, <2>3, ConfigurationAssumption
    <2> QED BY <2>2, <2>3
  <1>3. Solves(f)
    BY <1>2
  <1>4. TopicsTo = CHOOSE h : Solves(h)
    BY Zenon DEF TopicsTo, TopicsToStep
  <1> QED BY <1>3, <1>4

\* ... load_layers ...
LEMMA LoadLayersIs ==
    \A d \in 0 .. Depth : load_layers[d] = LoadLayersStep(d, load_layers[d - 1])
  <1> DEFINE Solves(f) == f = [d \in 0 .. Depth |-> LoadLayersStep(d, f[d - 1])]
  <1>1. PICK F : F = [d \in 0 .. Depth |-> Steps(d, F[d - 1])]
    BY StepsSolved
  <1> DEFINE f == [d \in 0 .. Depth |-> F[d][5]]
  <1>2. ASSUME NEW d \in 0 .. Depth PROVE f[d] = LoadLayersStep(d, f[d - 1])
    <2>1. F[d][5] = LoadLayersStep(d, F[d - 1][5])
      <3>1. F[d] = Steps(d, F[d - 1])
        BY <1>1
      <3> QED BY <3>1, StepsAt, Zenon
    <2>2. CASE d = 0
      BY <2>1, <2>2 DEF LoadLayersStep
    <2>3. CASE d # 0
      BY <2>1, <2>3, ConfigurationAssumption
    <2> QED BY <2>2, <2>3
  <1>3. Solves(f)
    BY <1>2
  <1>4. load_layers = CHOOSE h : Solves(h)
    BY Zenon DEF load_layers, LoadLayersStep
  <1> QED BY <1>3, <1>4

\* ... childless ...
LEMMA ChildlessIs ==
    \A d \in 0 .. Depth : childless[d] = ChildlessStep(d, childless[d - 1])
  <1> DEFINE Solves(f) == f = [d \in 0 .. Depth |-> ChildlessStep(d, f[d - 1])]
  <1>1. PICK F : F = [d \in 0 .. Depth |-> Steps(d, F[d - 1])]
    BY StepsSolved
  <1> DEFINE f == [d \in 0 .. Depth |-> F[d][6]]
  <1>2. ASSUME NEW d \in 0 .. Depth PROVE f[d] = ChildlessStep(d, f[d - 1])
    <2>1. F[d][6] = ChildlessStep(d, F[d - 1][6])
      <3>1. F[d] = Steps(d, F[d - 1])
        BY <1>1
      <3> QED BY <3>1, StepsAt, Zenon
    <2>2. CASE d = 0
      BY <2>1, <2>2 DEF ChildlessStep
    <2>3. CASE d # 0
      BY <2>1, <2>3, ConfigurationAssumption
    <2> QED BY <2>2, <2>3
  <1>3. Solves(f)
    BY <1>2
  <1>4. childless = CHOOSE h : Solves(h)
    BY Zenon DEF childless, ChildlessStep
  <1> QED BY <1>3, <1>4

\* ... PathsBelow ...
LEMMA PathsBelowIs ==
    \A d \in 0 .. Depth : PathsBelow[d] = PathsBelowStep(d, PathsBelow[d - 1])
  <1> DEFINE Solves(f) == f = [d \in 0 .. Depth |-> PathsBelowStep(d, f[d - 1])]
  <1>1. PICK F : F = [d \in 0 .. Depth |-> Steps(d, F[d - 1])]
    BY StepsSolved
  <1> DEFINE f == [d \in 0 .. Depth |-> F[d][7]]
  <1>2. ASSUME NEW d \in 0 .. Depth PROVE f[d] = PathsBelowStep(d, f[d - 1])
    <2>1. F[d][7] = PathsBelowStep(d, F[d - 1][7])
      <3>1. F[d] = Steps(d, F[d - 1])
        BY <1>1
      <3> QED BY <3>1, StepsAt, Zenon
    <2>2. CASE d = 0
      BY <2>1, <2>2 DEF PathsBelowStep
    <2>3. CASE d # 0
      BY <2>1, <2>3, ConfigurationAssumption
    <2> QED BY <2>2, <2>3
  <1>3. Solves(f)
    BY <1>2
  <1>4. PathsBelow = CHOOSE h : Solves(h)
    BY Zenon DEF PathsBelow, PathsBelowStep
  <1> QED BY <1>3, <1>4

\* ... and Placed.
LEMMA PlacedIs ==
    \A d \in 0 .. Depth : Placed[d] = PlacedStep(d, Placed[d - 1])
  <1> DEFINE Solves(f) == f = [d \in 0 .. Depth |-> PlacedStep(d, f[d - 1])]
  <1>1. PICK F : F = [d \in 0 .. Depth |-> Steps(d, F[d - 1])]
    BY StepsSolved
  <1> DEFINE f == [d \in 0 .. Depth |-> F[d][8]]
  <1>2. ASSUME NEW d \in 0 .. Depth PROVE f[d] = PlacedStep(d, f[d - 1])
    <2>1. F[d][8] = PlacedStep(d, F[d - 1][8])
      <3>1. F[d] = Steps(d, F[d - 1])
        BY <1>1
      <3> QED BY <3>1, StepsAt, Zenon
    <2>2. CASE d = 0
      BY <2>1, <2>2 DEF PlacedStep
    <2>3. CASE d # 0
      BY <2>1, <2>3, ConfigurationAssumption
    <2> QED BY <2>2, <2>3
  <1>3. Solves(f)
    BY <1>2
  <1>4. Placed = CHOOSE h : Solves(h)
    BY Zenon DEF Placed, PlacedStep
  <1> QED BY <1>3, <1>4

---------------------------------------------------------------------------
(* What is loaded is of the types the code gives it.                       *)

\* A sibling, about to become a topic.
Siblings == [name : Name, serial : Serial]

\* A topic with nothing below it yet, and the tokens of the layers below.
Makes == [topic : Topic({}), tokens : Seq(Name)]

\* The indexes a range stands for.
LEMMA RangeType ==
    ASSUME NEW range \in Int \X Int
    PROVE  /\ parseIntRange(range) \in Seq(Int)
           /\ ToSet(parseIntRange(range)) = range[1] .. range[2]
  <1> DEFINE s == parseIntRange(range)
             n == range[2] - range[1] + 1
  <1>1. range[1] \in Int /\ range[2] \in Int /\ n \in Int
    OBVIOUS
  <1>2. s = [k \in 1 .. n |-> range[1] + k - 1]
    BY DEF parseIntRange
  <1>3. s \in Seq(Int)
    <2>1. CASE n \in Nat
      BY <1>1, <1>2, <2>1
    <2>2. CASE n \notin Nat
      <3>1. s = <<>>
        BY <1>1, <1>2, <2>2
      <3> QED BY <3>1
    <2> QED BY <2>1, <2>2
  <1>4. ASSUME NEW i \in range[1] .. range[2] PROVE i \in ToSet(s)
    <2>1. i - range[1] + 1 \in 1 .. n /\ s[i - range[1] + 1] = i
      BY <1>1, <1>2
    <2> QED BY <1>2, <2>1 DEF ToSet
  <1>5. ToSet(s) \subseteq range[1] .. range[2]
    BY <1>1, <1>2 DEF ToSet
  <1> QED BY <1>3, <1>4, <1>5

\* An element found in the file, or none.
LEMMA NodeType ==
    ASSUME NEW doc \in Documents, NEW key, NEW i \in Int
    PROVE  getNode(doc, key, i) \in Seq(Nodes \cup Elements)
  <1> DEFINE S == Nodes \cup Elements
  <1>1. CASE key \notin DOMAIN doc
    BY <1>1 DEF getNode
  <1>2. CASE key \in DOMAIN doc
    <2>1. doc[key] \in Nodes
      BY <1>2, ConfigurationAssumption
    <2>2. CASE doc[key].kind = "scalar" \/ i < 0
      <3>1. getNode(doc, key, i) = <<doc[key]>>
        BY <1>2, <2>2 DEF getNode
      <3> QED BY <2>1, <3>1
    <2>3. CASE doc[key].kind # "scalar" /\ ~(i < 0)
      <3>1. doc[key].items \in Seq(Elements)
        BY <2>1, <2>3 DEF Nodes, Scalars
      <3>2. CASE i < Len(doc[key].items)
        <4>1. doc[key].items[i + 1] \in Elements
          BY <2>3, <3>1, <3>2
        <4>2. getNode(doc, key, i) = <<doc[key].items[i + 1]>>
          BY <1>2, <2>3, <3>2 DEF getNode
        <4> QED BY <4>1, <4>2
      <3>3. CASE ~(i < Len(doc[key].items))
        <4>1. getNode(doc, key, i) = <<>>
          BY <1>2, <2>3, <3>3 DEF getNode
        <4> QED BY <4>1
      <3> QED BY <3>2, <3>3
    <2> QED BY <2>2, <2>3
  <1> QED BY <1>1, <1>2

\* The name of the node a prefix looks up.
NodeKey(layer, tokens) ==
    IF layer.prefix.form = "wild"
    THEN <<tokens[layer.prefix.n]>> \o layer.prefix.node
    ELSE layer.prefix.node

\* The elements a prefix names.
LEMMA ElementsType ==
    ASSUME NEW layer, layer.range \in Int \X Int, NEW tokens, NEW doc \in Documents
    PROVE  /\ ElementsOf(layer, tokens, doc) \in Seq(Nodes \cup Elements)
           /\ ToSet(ElementsOf(layer, tokens, doc)) =
                UNION {ToSet(getNode(doc, NodeKey(layer, tokens), i)) :
                          i \in layer.range[1] .. layer.range[2]}
  <1> DEFINE key == NodeKey(layer, tokens)
             at  == parseIntRange(layer.range)
             ss  == [k \in DOMAIN at |-> getNode(doc, key, at[k])]
  <1>1. at \in Seq(Int) /\ ToSet(at) = layer.range[1] .. layer.range[2]
    BY RangeType
  <1>2. ElementsOf(layer, tokens, doc) = FlattenSeq(ss)
    BY DEF ElementsOf, NodeKey
  <1> HIDE DEF key, at
  <1>3. ss \in Seq(Seq(Nodes \cup Elements))
    <2>1. Len(at) \in Nat /\ DOMAIN at = 1 .. Len(at) /\ \A k \in 1 .. Len(at) : at[k] \in Int
      BY <1>1
    <2>2. \A k \in 1 .. Len(at) : getNode(doc, key, at[k]) \in Seq(Nodes \cup Elements)
      BY <2>1, NodeType
    <2> QED BY <2>1, <2>2
  <1>4. FlattenSeq(ss) \in Seq(Nodes \cup Elements)
    BY <1>3, FlattenType
  <1>5. ToSet(FlattenSeq(ss)) = UNION {ToSet(ss[k]) : k \in DOMAIN ss}
    BY <1>3, FlattenElements
  <1>6. {ToSet(ss[k]) : k \in DOMAIN ss} = {ToSet(getNode(doc, key, i)) : i \in ToSet(at)}
    BY DEF ToSet
  <1> QED BY <1>1, <1>2, <1>4, <1>5, <1>6 DEF key

\* A sibling is one of the siblings ...
LEMMA SiblingType ==
    ASSUME NEW name \in Name, NEW serial \in Serial
    PROVE  Sibling(name, serial) \in Siblings
  BY DEF Sibling, Siblings

\* ... with no attribute set too.
LEMMA UnsetSibling == ASSUME NEW name \in Name PROVE Sibling(name, "") \in Siblings
  <1>1. "" \in Serial
    BY DEF Serial
  <1> QED BY <1>1, SiblingType

\* A numbered name is a name.
LEMMA NumberedType ==
    ASSUME NEW name \in Name, NEW i \in Int PROVE Numbered(name, i) \in Name
  <1>1. Append(name.numbers, i) \in Seq(Int)
    BY DEF Name
  <1> QED BY <1>1 DEF Numbered, Name

\* The siblings an element of the file becomes.
LEMMA ElementGroupType ==
    ASSUME NEW p \in Program, NEW layer, layer.serial \in Serial,
           NEW elmt \in Nodes \cup Elements
    PROVE  ElementGroup(p, layer, elmt) \in Seq(Siblings)
  <1>1. CASE elmt.kind = "scalar"
    <2>1. elmt.name \in Name
      BY <1>1 DEF Nodes, Elements, Scalars
    <2>2. ElementGroup(p, layer, elmt) = <<Sibling(elmt.name, "")>>
      BY <1>1 DEF ElementGroup, ScalarGroup
    <2>3. Sibling(elmt.name, "") \in Siblings
      BY <2>1, UnsetSibling
    <2> QED BY <2>2, <2>3, OneType
  <1>2. CASE elmt.kind = "map" /\ p = "device" /\ layer.prefix.form = "wild"
    <2>1. elmt.keys \in Seq(Attributes)
      BY <1>2 DEF Nodes, Elements, Scalars
    <2>2. ElementGroup(p, layer, elmt) = MapGroup(layer, elmt)
      BY <1>2 DEF ElementGroup
    <2>3. \A j \in DOMAIN elmt.keys :
            Sibling(elmt.keys[j].name,
                    getAsString(elmt.keys[j].serial, layer.serial)) \in Siblings
      <3> SUFFICES ASSUME NEW j \in DOMAIN elmt.keys
                   PROVE  Sibling(elmt.keys[j].name,
                            getAsString(elmt.keys[j].serial, layer.serial)) \in Siblings
        OBVIOUS
      <3>1. elmt.keys[j] \in Attributes
        BY <2>1
      <3>2. elmt.keys[j].name \in Name /\ elmt.keys[j].serial \in Serial
        BY <3>1 DEF Attributes
      <3>3. getAsString(elmt.keys[j].serial, layer.serial) \in Serial
        BY <3>2 DEF getAsString
      <3> QED BY <3>2, <3>3, SiblingType
    <2> QED BY <2>1, <2>2, <2>3 DEF MapGroup
  <1>3. CASE elmt.kind # "scalar" /\ ~(elmt.kind = "map" /\ p = "device" /\ layer.prefix.form = "wild")
    <2>1. ElementGroup(p, layer, elmt) = <<>>
      BY <1>3, Zenon DEF ElementGroup
    <2> QED BY <2>1
  <1> QED BY <1>1, <1>2, <1>3

\* What the loader knows of a layer it does not give up on.
LEMMA GoesOn ==
    ASSUME NEW L, NEW p, NEW layer \in Layer(L), NEW tokens, NEW doc,
           ~GivesUp(p, layer, tokens, doc)
    PROVE  /\ layer.prefix.form \in {"fixed", "counted", "node", "wild"}
           /\ layer.prefix.form \in {"fixed", "counted"} => layer.prefix.name \in Name
           /\ layer.prefix.form # "fixed" => layer.range \in Int \X Int
           /\ layer.prefix.form = "wild" => layer.prefix.n \in DOMAIN tokens
  BY DEF GivesUp, Layer, Prefix, IsToken

\* The groups of siblings of a layer.
LEMMA GroupsType ==
    ASSUME NEW L, NEW p \in Program, NEW layer \in Layer(L), NEW tokens,
           NEW doc \in Documents, ~GivesUp(p, layer, tokens, doc)
    PROVE  Groups(p, layer, tokens, doc) \in Seq(Seq(Siblings))
  <1>1. CASE layer.prefix.form = "fixed"
    <2>1. Groups(p, layer, tokens, doc) = <<FixedGroup(layer)>>
      BY <1>1 DEF Groups
    <2>2. FixedGroup(layer) \in Seq(Siblings)
      <3>1. layer.prefix.name \in Name
        BY <1>1, GoesOn
      <3>2. Sibling(layer.prefix.name, "") \in Siblings
        BY <3>1, UnsetSibling
      <3> QED BY <3>2, OneType DEF FixedGroup
    <2> QED BY <2>1, <2>2
  <1>2. CASE layer.prefix.form = "counted"
    <2> DEFINE at == parseIntRange(layer.range)
    <2>1. Groups(p, layer, tokens, doc) = <<CountedGroup(layer)>>
      BY <1>2 DEF Groups
    <2>2. at \in Seq(Int)
      BY <1>2, GoesOn, RangeType
    <2> HIDE DEF at
    <2>3. \A k \in DOMAIN at :
            Sibling(Numbered(layer.prefix.name, at[k]), "") \in Siblings
      <3>1. layer.prefix.name \in Name
        BY <1>2, GoesOn
      <3>2. \A k \in DOMAIN at : at[k] \in Int
        BY <2>2
      <3>3. \A k \in DOMAIN at : Numbered(layer.prefix.name, at[k]) \in Name
        BY <3>1, <3>2, NumberedType
      <3> QED BY <3>3, UnsetSibling
    <2>4. CountedGroup(layer) \in Seq(Siblings)
      <3>1. CountedGroup(layer) =
              [k \in DOMAIN at |-> Sibling(Numbered(layer.prefix.name, at[k]), "")]
        BY DEF CountedGroup, at
      <3> DEFINE f == [k \in DOMAIN at |-> Sibling(Numbered(layer.prefix.name, at[k]), "")]
      <3>2. Len(at) \in Nat /\ DOMAIN at = 1 .. Len(at)
        BY <2>2
      <3>3. f \in [1 .. Len(at) -> Siblings]
        BY <2>3, <3>2
      <3> HIDE DEF f
      <3>4. f \in Seq(Siblings)
        BY <3>2, <3>3, ListType
      <3> QED BY <3>1, <3>4 DEF f
    <2> QED BY <2>1, <2>4
  <1>3. CASE layer.prefix.form \in {"node", "wild"}
    <2> DEFINE elmts == ElementsOf(layer, tokens, doc)
    <2>1. Groups(p, layer, tokens, doc) =
            [k \in DOMAIN elmts |-> ElementGroup(p, layer, elmts[k])]
      BY <1>3 DEF Groups
    <2>2. elmts \in Seq(Nodes \cup Elements)
      BY <1>3, GoesOn, ElementsType
    <2> HIDE DEF elmts
    <2>3. \A k \in DOMAIN elmts : ElementGroup(p, layer, elmts[k]) \in Seq(Siblings)
      <3>1. layer.serial \in Serial
        BY DEF Layer
      <3> QED BY <2>2, <3>1, ElementGroupType
    <2> QED BY <2>1, <2>2, <2>3
  <1> QED BY <1>1, <1>2, <1>3, GoesOn

\* The tokens a sibling leaves to the layers below it.
LEMMA TokensType ==
    ASSUME NEW p, NEW tokens \in Seq(Name), NEW group \in Seq(Siblings),
           NEW j \in DOMAIN group
    PROVE  addtokens(p, tokens, group, j) \in Seq(Name)
  <1> DEFINE names == [k \in DOMAIN group |-> group[k].name]
  <1>1. Len(group) \in Nat /\ DOMAIN group = 1 .. Len(group)
    OBVIOUS
  <1>2. \A k \in 1 .. Len(group) : group[k].name \in Name
    <2>1. \A k \in 1 .. Len(group) : group[k] \in Siblings
      BY <1>1
    <2> QED BY <2>1 DEF Siblings
  <1>3. names \in [1 .. Len(group) -> Name]
    BY <1>1, <1>2
  <1>4. names \in Seq(Name) /\ Len(names) = Len(group)
    BY <1>1, <1>3
  <1>5. CASE p = "device"
    <2>1. addtokens(p, tokens, group, j) = tokens \o SubSeq(names, 1, j)
      BY <1>5 DEF addtokens, DeviceTokens
    <2> HIDE DEF names
    <2>2. SubSeq(names, 1, j) \in Seq(Name)
      BY <1>1, <1>4
    <2> QED BY <2>1, <2>2
  <1>6. CASE p # "device"
    <2>1. addtokens(p, tokens, group, j) = Append(tokens, names[j])
      BY <1>6 DEF addtokens, UserTokens
    <2> QED BY <1>1, <1>4, <2>1
  <1> QED BY <1>5, <1>6

\* A topic as it is made.
LEMMA NewTopicType ==
    ASSUME NEW L, NEW p, NEW layer \in Layer(L), NEW sibling \in Siblings,
           NEW preTopic \in [serial : Serial]
    PROVE  NewTopic(p, layer, sibling, preTopic) \in Topic({})
  <1> DEFINE t == NewTopic(p, layer, sibling, preTopic)
  <1>1. sibling.name \in Name /\ sibling.serial \in Serial /\ preTopic.serial \in Serial
    BY DEF Siblings
  <1>2. /\ layer.Sequence \in Seq(Int) /\ layer.Fetch \in Seq(Int)
        /\ layer.devices \in SUBSET Devices
    BY DEF Layer
  <1>3. setNextSequence(layer.Sequence) \in Nat
    BY <1>2 DEF setNextSequence
  <1>4. setFetchSequence(layer.Fetch) \in Int
    BY <1>2 DEF setFetchSequence
  <1>5. Inherited(layer, sibling.serial, preTopic) \in Serial
    BY <1>1 DEF Inherited
  <1>6. "" \in Serial
    BY DEF Serial
  <1>7. t = [name |-> t.name, topics |-> t.topics, sequence |-> t.sequence,
             fetch |-> t.fetch, serial |-> t.serial, devices |-> t.devices]
    BY DEF NewTopic
  <1>8. t.name \in Name /\ t.topics \in Seq({})
    BY <1>1 DEF NewTopic
  <1>9. t.sequence \in Nat /\ t.fetch \in Int
    BY <1>3, <1>4 DEF NewTopic
  <1>10. t.serial \in Serial /\ t.devices \in SUBSET Devices
    BY <1>2, <1>5, <1>6 DEF NewTopic
  <1>11. t \in Topic({})
    <2> HIDE DEF t
    <2> QED BY <1>7, <1>8, <1>9, <1>10 DEF Topic
  <1> QED BY <1>11

\* What the j-th sibling of a group makes.
Make(c, layer, group, j) ==
    [topic  |-> NewTopic(c.p, layer, group[j], c.preTopic),
     tokens |-> addtokens(c.p, c.tokens, group, j)]

\* The topics of a layer, as a list and as a set.
MadeOf(c, layer) ==
    /\ Made(c, layer) \in Seq(Makes)
    /\ ToSet(Made(c, layer)) =
         UNION {{Make(c, layer, group, j) : j \in DOMAIN group} :
                   group \in ToSet(Groups(c.p, layer, c.tokens, c.doc))}

\* What a layer makes: a topic for each sibling of each of its groups.
LEMMA MadeIs ==
    ASSUME NEW L, NEW c, c.p \in Program, c.tokens \in Seq(Name), c.doc \in Documents,
           c.preTopic \in [serial : Serial], NEW layer \in Layer(L),
           ~GivesUp(c.p, layer, c.tokens, c.doc)
    PROVE  MadeOf(c, layer)
  <1> DEFINE groups == Groups(c.p, layer, c.tokens, c.doc)
             ss == [g \in DOMAIN groups |->
                      [j \in DOMAIN groups[g] |-> Make(c, layer, groups[g], j)]]
  <1>1. groups \in Seq(Seq(Siblings))
    BY GroupsType
  <1>2. Made(c, layer) = FlattenSeq(ss)
    BY DEF Made, Make
  <1> HIDE DEF groups
  <1>3. ASSUME NEW g \in DOMAIN groups PROVE ss[g] \in Seq(Makes)
    <2>1. groups[g] \in Seq(Siblings)
      BY <1>1
    <2>2. Len(groups[g]) \in Nat /\ DOMAIN groups[g] = 1 .. Len(groups[g])
      BY <2>1
    <2>3. ASSUME NEW j \in DOMAIN groups[g] PROVE Make(c, layer, groups[g], j) \in Makes
      <3>1. groups[g][j] \in Siblings
        BY <2>1, <2>3
      <3>2. NewTopic(c.p, layer, groups[g][j], c.preTopic) \in Topic({})
        BY <3>1, NewTopicType
      <3>3. addtokens(c.p, c.tokens, groups[g], j) \in Seq(Name)
        BY <2>1, <2>3, TokensType
      <3> QED BY <3>2, <3>3 DEF Make, Makes
    <2>4. ss[g] \in [1 .. Len(groups[g]) -> Makes]
      BY <2>2, <2>3
    <2> HIDE DEF ss
    <2> QED BY <2>2, <2>4, ListType
  <1>4. ss \in Seq(Seq(Makes))
    <2>1. Len(groups) \in Nat /\ DOMAIN groups = 1 .. Len(groups)
      BY <1>1
    <2>2. ss \in [1 .. Len(groups) -> Seq(Makes)]
      BY <1>3, <2>1
    <2> HIDE DEF ss
    <2> QED BY <2>1, <2>2, ListType
  <1>5. FlattenSeq(ss) \in Seq(Makes)
    BY <1>4, FlattenType
  <1>6. ToSet(FlattenSeq(ss)) = UNION {ToSet(ss[k]) : k \in DOMAIN ss}
    BY <1>4, FlattenElements
  <1>7. {ToSet(ss[k]) : k \in DOMAIN ss} =
          {{Make(c, layer, group, j) : j \in DOMAIN group} : group \in ToSet(groups)}
    <2>1. ASSUME NEW k \in DOMAIN groups
          PROVE  ToSet(ss[k]) = {Make(c, layer, groups[k], j) : j \in DOMAIN groups[k]}
      BY DEF ToSet
    <2>3. DOMAIN ss = DOMAIN groups
      OBVIOUS
    <2> HIDE DEF ss
    <2>2. {ToSet(ss[k]) : k \in DOMAIN ss} =
            {{Make(c, layer, groups[k], j) : j \in DOMAIN groups[k]} : k \in DOMAIN groups}
      BY <2>1, <2>3
    <2> DEFINE Makings(group) == {Make(c, layer, group, j) : j \in DOMAIN group}
    <2>4. {Makings(groups[k]) : k \in DOMAIN groups} = {Makings(g) : g \in ToSet(groups)}
      <3> HIDE DEF Makings
      <3> QED BY DEF ToSet
    <2> QED BY <2>2, <2>4
  <1> QED BY <1>2, <1>5, <1>6, <1>7 DEF groups, MadeOf

\* The recursions one layer up.
LEMMA LayersUp ==
    ASSUME NEW n \in Nat, n + 1 <= Depth PROVE LayersTo[n + 1] = Layer(LayersTo[n])
  <1>1. n + 1 \in 0 .. Depth /\ n + 1 # 0 /\ (n + 1) - 1 = n
    BY ConfigurationAssumption
  <1> QED BY <1>1, LayersToIs DEF LayersToStep

\* Topics nested one deeper are topics above topics.
LEMMA TopicsUp ==
    ASSUME NEW n \in Nat, n + 1 <= Depth PROVE TopicsTo[n + 1] = Topic(TopicsTo[n])
  <1>1. n + 1 \in 0 .. Depth /\ n + 1 # 0 /\ (n + 1) - 1 = n
    BY ConfigurationAssumption
  <1> QED BY <1>1, TopicsToIs DEF TopicsToStep

\* A call for layers joins what each of them adds.
LEMMA LoadUp ==
    ASSUME NEW n \in Nat, n + 1 <= Depth, NEW c \in Calls(n + 1)
    PROVE  load_layers[n + 1][c] =
             Joined([k \in DOMAIN c.layers |->
                        load_layer(load_layers[n], c, c.layers[k])])
  <1>1. n + 1 \in 0 .. Depth /\ n + 1 # 0 /\ (n + 1) - 1 = n
    BY ConfigurationAssumption
  <1>2. load_layers[n + 1] = LoadLayersStep(n + 1, load_layers[n])
    BY <1>1, LoadLayersIs
  <1> QED BY <1>1, <1>2 DEF LoadLayersStep

\* No layers are nested no deep: nothing is loaded.
LEMMA LoadNothing ==
    ASSUME NEW c \in Calls(0) PROVE load_layers[0][c] = Nothing
  <1>1. 0 \in 0 .. Depth
    BY ConfigurationAssumption
  <1>2. load_layers[0] = LoadLayersStep(0, load_layers[0 - 1])
    BY <1>1, LoadLayersIs
  <1> QED BY <1>2 DEF LoadLayersStep

\* What a call of the loader gives.
Loads(T) == [ok : BOOLEAN, topics : Seq(T)]

\* What is joined is typed as its parts are, and has their topics.
LEMMA JoinedIs ==
    ASSUME NEW T, NEW loaded \in Seq(Loads(T))
    PROVE  /\ Joined(loaded) \in Loads(T)
           /\ Joined(loaded).ok => \A k \in DOMAIN loaded : loaded[k].ok
           /\ ToSet(Joined(loaded).topics) =
                UNION {ToSet(loaded[k].topics) : k \in DOMAIN loaded}
  <1> DEFINE ss == [k \in DOMAIN loaded |-> loaded[k].topics]
  <1>1. ss \in Seq(Seq(T))
    <2>1. Len(loaded) \in Nat /\ DOMAIN loaded = 1 .. Len(loaded)
      OBVIOUS
    <2>2. \A k \in DOMAIN loaded : loaded[k] \in Loads(T)
      OBVIOUS
    <2>3. \A k \in DOMAIN loaded : loaded[k].topics \in Seq(T)
      BY <2>2 DEF Loads
    <2>4. ss \in [1 .. Len(loaded) -> Seq(T)]
      BY <2>1, <2>3
    <2> HIDE DEF ss
    <2> QED BY <2>1, <2>4, ListType
  <1>2. FlattenSeq(ss) \in Seq(T)
    BY <1>1, FlattenType
  <1>3. ToSet(FlattenSeq(ss)) = UNION {ToSet(ss[k]) : k \in DOMAIN ss}
    BY <1>1, FlattenElements
  <1>4. {ToSet(ss[k]) : k \in DOMAIN ss} = {ToSet(loaded[k].topics) : k \in DOMAIN loaded}
    OBVIOUS
  <1>5. Joined(loaded) = [ok     |-> \A k \in DOMAIN loaded : loaded[k].ok,
                          topics |-> FlattenSeq(ss)]
    BY DEF Joined
  <1>6. (\A k \in DOMAIN loaded : loaded[k].ok) \in BOOLEAN
    OBVIOUS
  <1> HIDE DEF ss
  <1>7. Joined(loaded) \in Loads(T)
    BY <1>2, <1>5, <1>6 DEF Loads
  <1>8. Joined(loaded).ok => \A k \in DOMAIN loaded : loaded[k].ok
    BY <1>5
  <1>9. Joined(loaded).topics = FlattenSeq(ss)
    BY <1>5
  <1> QED BY <1>3, <1>4, <1>7, <1>8, <1>9

\* The call for the layers below a topic, what it gives, and the topic with it.
BelowCall(c, layer, m) ==
    [c EXCEPT !.layers = layer.Layer[1],
              !.preTopic = [serial |-> m.topic.serial],
              !.tokens = m.tokens]

Deeper(n, c, layer, m) ==
    IF IsLeaf(layer) THEN [ok |-> LifeDeviceOk(c.p, layer), topics |-> <<>>]
    ELSE load_layers[n][BelowCall(c, layer, m)]

Grown(n, c, layer, m) == [m.topic EXCEPT !.topics = Deeper(n, c, layer, m).topics]

\* The call below a topic is one for layers nested one less deep.
LEMMA BelowCallType ==
    ASSUME NEW n \in Nat, n + 1 <= Depth, NEW c \in Calls(n + 1),
           NEW layer \in Layer(LayersTo[n]), ~IsLeaf(layer), NEW m \in Makes
    PROVE  BelowCall(c, layer, m) \in Calls(n)
  <1>1. layer.Layer \in Seq(Seq(LayersTo[n])) /\ layer.Layer # <<>>
    BY DEF Layer, IsLeaf
  <1>2. layer.Layer[1] \in Seq(LayersTo[n])
    BY <1>1
  <1>3. m.topic.serial \in Serial /\ m.tokens \in Seq(Name)
    BY DEF Makes, Topic
  <1> QED BY <1>2, <1>3 DEF Calls, BelowCall

\* The calls for n layers give topics as deep: what the next induction steps by.
Typed(n) == \A c \in Calls(n) : load_layers[n][c] \in Loads(TopicsTo[n])

\* What it gives, and the topic with it, are topics as deep ...
LEMMA DeeperType ==
    ASSUME NEW n \in Nat, n + 1 <= Depth, Typed(n), NEW c \in Calls(n + 1),
           NEW layer \in Layer(LayersTo[n]), NEW m \in Makes
    PROVE  Deeper(n, c, layer, m) \in Loads(TopicsTo[n])
  <1>1. CASE IsLeaf(layer)
    BY <1>1 DEF Deeper, Loads, LifeDeviceOk
  <1>2. CASE ~IsLeaf(layer)
    BY <1>2, BelowCallType DEF Deeper, Typed
  <1> QED BY <1>1, <1>2

\* ... and one deeper.
LEMMA GrownType ==
    ASSUME NEW n \in Nat, n + 1 <= Depth, Typed(n), NEW c \in Calls(n + 1),
           NEW layer \in Layer(LayersTo[n]), NEW m \in Makes
    PROVE  Grown(n, c, layer, m) \in TopicsTo[n + 1]
  <1>1. Deeper(n, c, layer, m).topics \in Seq(TopicsTo[n])
    BY DeeperType DEF Loads
  <1>2. m.topic \in Topic({})
    BY DEF Makes
  <1>3. [m.topic EXCEPT !.topics = Deeper(n, c, layer, m).topics] \in Topic(TopicsTo[n])
    BY <1>1, <1>2 DEF Topic
  <1> QED BY <1>3, TopicsUp DEF Grown

\* What a layer adds.
LayerGives(n, c, layer) ==
    LET loaded == load_layer(load_layers[n], c, layer)
        made   == Made(c, layer)
    IN  /\ loaded \in Loads(TopicsTo[n + 1])
        /\ loaded.ok /\ layer.Enable =>
             /\ ~GivesUp(c.p, layer, c.tokens, c.doc)
             /\ made \in Seq(Makes)
             /\ \A m \in ToSet(made) : Deeper(n, c, layer, m).ok
             /\ ToSet(loaded.topics) = {Grown(n, c, layer, m) : m \in ToSet(made)}
        /\ ~layer.Enable => ToSet(loaded.topics) = {}

\* That is what load_layer adds for one layer.
LEMMA LayerIs ==
    ASSUME NEW n \in Nat, n + 1 <= Depth, Typed(n), NEW c \in Calls(n + 1),
           NEW layer \in Layer(LayersTo[n])
    PROVE  LayerGives(n, c, layer)
  <1> DEFINE loaded == load_layer(load_layers[n], c, layer)
             made   == Made(c, layer)
             ss     == [k \in DOMAIN made |-> load_topic(load_layers[n], c, layer, made[k])]
  <1>1. CASE ~layer.Enable
    <2>1. loaded = Nothing
      BY <1>1 DEF load_layer
    <2> QED BY <1>1, <2>1 DEF Nothing, Loads, ToSet, LayerGives
  <1>2. CASE layer.Enable /\ GivesUp(c.p, layer, c.tokens, c.doc)
    <2>1. loaded = Failed
      BY <1>2 DEF load_layer
    <2> QED BY <1>2, <2>1 DEF Failed, Loads, LayerGives
  <1>3. CASE layer.Enable /\ ~GivesUp(c.p, layer, c.tokens, c.doc)
    <2>1. loaded = Joined(ss)
      BY <1>3 DEF load_layer
    <2>2. made \in Seq(Makes)
      <3>1. /\ c.p \in Program /\ c.tokens \in Seq(Name) /\ c.doc \in Documents
            /\ c.preTopic \in [serial : Serial]
        BY DEF Calls
      <3>2. MadeOf(c, layer)
        BY <1>3, <3>1, MadeIs
      <3> QED BY <3>2 DEF MadeOf
    <2> HIDE DEF loaded, made
    <2>3. ASSUME NEW m \in Makes
          PROVE  /\ load_topic(load_layers[n], c, layer, m) \in Loads(TopicsTo[n + 1])
                 /\ load_topic(load_layers[n], c, layer, m).ok = Deeper(n, c, layer, m).ok
                 /\ load_topic(load_layers[n], c, layer, m).topics = <<Grown(n, c, layer, m)>>
      <3>1. load_topic(load_layers[n], c, layer, m) =
              [ok |-> Deeper(n, c, layer, m).ok, topics |-> <<Grown(n, c, layer, m)>>]
        BY DEF load_topic, Deeper, Grown, BelowCall
      <3>2. Deeper(n, c, layer, m).ok \in BOOLEAN
        BY DeeperType DEF Loads
      <3>3. <<Grown(n, c, layer, m)>> \in Seq(TopicsTo[n + 1])
        BY GrownType, OneType
      <3> QED BY <3>1, <3>2, <3>3 DEF Loads
    <2>5. \A k \in DOMAIN made : made[k] \in Makes
      BY <2>2
    <2>6. ss \in Seq(Loads(TopicsTo[n + 1]))
      <3>1. Len(made) \in Nat /\ DOMAIN made = 1 .. Len(made)
        BY <2>2
      <3>2. ss \in [1 .. Len(made) -> Loads(TopicsTo[n + 1])]
        BY <2>3, <2>5, <3>1
      <3> HIDE DEF ss
      <3> QED BY <3>1, <3>2, ListType
    <2>7. /\ DOMAIN ss = DOMAIN made
          /\ \A k \in DOMAIN made : /\ ss[k].ok = Deeper(n, c, layer, made[k]).ok
                                    /\ ss[k].topics = <<Grown(n, c, layer, made[k])>>
      <3>1. \A k \in DOMAIN made : ss[k] = load_topic(load_layers[n], c, layer, made[k])
        OBVIOUS
      <3>2. DOMAIN ss = DOMAIN made
        OBVIOUS
      <3> HIDE DEF ss
      <3> QED BY <2>3, <2>5, <3>1, <3>2
    <2> HIDE DEF ss
    <2>8. /\ loaded \in Loads(TopicsTo[n + 1])
          /\ loaded.ok => \A k \in DOMAIN ss : ss[k].ok
          /\ ToSet(loaded.topics) = UNION {ToSet(ss[k].topics) : k \in DOMAIN ss}
      BY <2>1, <2>6, JoinedIs
    <2>9. {ToSet(ss[k].topics) : k \in DOMAIN ss} = {{Grown(n, c, layer, m)} : m \in ToSet(made)}
      <3>1. \A k \in DOMAIN made : ToSet(ss[k].topics) = {Grown(n, c, layer, made[k])}
        BY <2>7 DEF ToSet
      <3> QED BY <2>7, <3>1 DEF ToSet
    <2>10. loaded.ok => \A m \in ToSet(made) : Deeper(n, c, layer, m).ok
      BY <2>7, <2>8 DEF ToSet
    <2>11. ToSet(loaded.topics) = {Grown(n, c, layer, m) : m \in ToSet(made)}
      BY <2>8, <2>9
    <2> QED BY <1>3, <2>2, <2>8, <2>10, <2>11 DEF loaded, made, LayerGives
  <1> QED BY <1>1, <1>2, <1>3

\* The enabled layers of a list.
Enabled(layers) == {x \in ToSet(layers) : x.Enable}

\* What the layers of a call add: the topics of the enabled ones, each grown.
CallGives(n, c) ==
    /\ load_layers[n + 1][c] \in Loads(TopicsTo[n + 1])
    /\ load_layers[n + 1][c].ok =>
         /\ \A layer \in Enabled(c.layers) :
              /\ layer \in Layer(LayersTo[n])
              /\ ~GivesUp(c.p, layer, c.tokens, c.doc)
              /\ Made(c, layer) \in Seq(Makes)
              /\ \A m \in ToSet(Made(c, layer)) : Deeper(n, c, layer, m).ok
         /\ ToSet(load_layers[n + 1][c].topics) =
              UNION {{Grown(n, c, layer, m) : m \in ToSet(Made(c, layer))} :
                        layer \in Enabled(c.layers)}

\* That is what load_layers adds for a list of them.
LEMMA CallIs ==
    ASSUME NEW n \in Nat, n + 1 <= Depth, Typed(n), NEW c \in Calls(n + 1)
    PROVE  CallGives(n, c)
  <1> DEFINE ss == [k \in DOMAIN c.layers |->
                       load_layer(load_layers[n], c, c.layers[k])]
             Adds(layer) == {Grown(n, c, layer, m) : m \in ToSet(Made(c, layer))}
  <1>1. c.layers \in Seq(Layer(LayersTo[n]))
    BY LayersUp DEF Calls
  <1>2. \A k \in DOMAIN c.layers : c.layers[k] \in Layer(LayersTo[n])
    BY <1>1
  <1>3. \A k \in DOMAIN c.layers : LayerGives(n, c, c.layers[k])
    BY <1>2, LayerIs
  <1>4. ss \in Seq(Loads(TopicsTo[n + 1]))
    <2>1. Len(c.layers) \in Nat /\ DOMAIN c.layers = 1 .. Len(c.layers)
      BY <1>1
    <2>2. ss \in [1 .. Len(c.layers) -> Loads(TopicsTo[n + 1])]
      BY <1>3, <2>1 DEF LayerGives
    <2> HIDE DEF ss
    <2> QED BY <2>1, <2>2, ListType
  <1>5. load_layers[n + 1][c] = Joined(ss)
    BY LoadUp
  <1>6. /\ DOMAIN ss = DOMAIN c.layers
        /\ \A k \in DOMAIN c.layers : ss[k] = load_layer(load_layers[n], c, c.layers[k])
    OBVIOUS
  <1> HIDE DEF ss
  <1>7. /\ Joined(ss) \in Loads(TopicsTo[n + 1])
        /\ Joined(ss).ok => \A k \in DOMAIN ss : ss[k].ok
        /\ ToSet(Joined(ss).topics) = UNION {ToSet(ss[k].topics) : k \in DOMAIN ss}
    BY <1>4, JoinedIs
  <1>8. ASSUME Joined(ss).ok, NEW layer \in Enabled(c.layers)
        PROVE  /\ layer \in Layer(LayersTo[n])
               /\ ~GivesUp(c.p, layer, c.tokens, c.doc)
               /\ Made(c, layer) \in Seq(Makes)
               /\ \A m \in ToSet(Made(c, layer)) : Deeper(n, c, layer, m).ok
    <2>1. PICK k \in DOMAIN c.layers : layer = c.layers[k]
      BY <1>8 DEF Enabled, ToSet
    <2>2. ss[k].ok /\ ss[k] = load_layer(load_layers[n], c, layer) /\ layer.Enable
      BY <1>6, <1>7, <1>8, <2>1 DEF Enabled
    <2> QED BY <1>2, <1>3, <2>1, <2>2 DEF LayerGives
  <1>9. ASSUME Joined(ss).ok
        PROVE  ToSet(Joined(ss).topics) = UNION {Adds(layer) : layer \in Enabled(c.layers)}
    <2>1. ASSUME NEW k \in DOMAIN c.layers
          PROVE  /\ c.layers[k].Enable => ToSet(ss[k].topics) = Adds(c.layers[k])
                 /\ ~c.layers[k].Enable => ToSet(ss[k].topics) = {}
      <3>1. ss[k].ok /\ ss[k] = load_layer(load_layers[n], c, c.layers[k])
        BY <1>6, <1>7, <1>9
      <3> QED BY <1>3, <3>1 DEF LayerGives
    <2> HIDE DEF Adds
    <2>2. ASSUME NEW t
          PROVE  t \in UNION {ToSet(ss[k].topics) : k \in DOMAIN ss} <=>
                 t \in UNION {Adds(layer) : layer \in Enabled(c.layers)}
      <3>1. t \in UNION {ToSet(ss[k].topics) : k \in DOMAIN ss} <=>
              \E k \in DOMAIN c.layers : t \in ToSet(ss[k].topics)
        BY <1>6
      <3>2. t \in UNION {Adds(layer) : layer \in Enabled(c.layers)} <=>
              \E k \in DOMAIN c.layers : c.layers[k].Enable /\ t \in Adds(c.layers[k])
        BY DEF Enabled, ToSet
      <3>3. \A k \in DOMAIN c.layers : t \in ToSet(ss[k].topics) <=>
              c.layers[k].Enable /\ t \in Adds(c.layers[k])
        BY <2>1
      <3> QED BY <3>1, <3>2, <3>3
    <2> QED BY <1>7, <2>2
  <1> QED BY <1>5, <1>7, <1>8, <1>9 DEF CallGives

\* Every call gives topics no deeper than its layers, by induction.
LEMMA LoadType == \A n \in Nat : n <= Depth => Typed(n)
  <1> DEFINE Good == {n \in Nat : n <= Depth => Typed(n)}
  <1>1. 0 \in Good
    <2>1. Nothing \in Loads(TopicsTo[0])
      BY DEF Nothing, Loads
    <2> QED BY <2>1, LoadNothing DEF Typed
  <1>2. ASSUME NEW n \in Nat, n \in Good PROVE n + 1 \in Good
    <2> SUFFICES ASSUME n + 1 <= Depth PROVE Typed(n + 1)
      OBVIOUS
    <2>1. Typed(n)
      BY <1>2, ConfigurationAssumption
    <2> QED BY <2>1, CallIs DEF CallGives, Typed
  <1>3. Nat \subseteq Good
    <2> HIDE DEF Good
    <2> QED BY <1>1, <1>2, SetInduction
  <1> QED BY <1>3

\* CallIs without its hypothesis.
LEMMA CallGivesAlways ==
    ASSUME NEW n \in Nat, n + 1 <= Depth, NEW c \in Calls(n + 1) PROVE CallGives(n, c)
  <1>1. n <= Depth
    BY ConfigurationAssumption
  <1> QED BY <1>1, LoadType, CallIs

---------------------------------------------------------------------------
(* The map of topics: what makeTopicList finds, and where.                 *)

\* A topic is also one of those nested deeper.
LEMMA TopicsGrow == \A n \in Nat : n + 1 <= Depth => TopicsTo[n] \subseteq TopicsTo[n + 1]
  <1> DEFINE Good == {n \in Nat : n + 1 <= Depth => TopicsTo[n] \subseteq TopicsTo[n + 1]}
  <1>1. 0 \in Good
    <2>1. 0 \in 0 .. Depth
      BY ConfigurationAssumption
    <2>2. TopicsTo[0] = {}
      BY <2>1, TopicsToIs DEF TopicsToStep
    <2> QED BY <2>2
  <1>2. ASSUME NEW n \in Nat, n \in Good PROVE n + 1 \in Good
    <2> SUFFICES ASSUME (n + 1) + 1 <= Depth
                 PROVE  TopicsTo[n + 1] \subseteq TopicsTo[(n + 1) + 1]
      OBVIOUS
    <2>1. n + 1 \in Nat /\ n + 1 <= Depth
      BY ConfigurationAssumption
    <2>2. TopicsTo[n] \subseteq TopicsTo[n + 1]
      BY <1>2, <2>1
    <2>3. TopicsTo[n + 1] = Topic(TopicsTo[n])
      BY <2>1, TopicsUp
    <2>4. TopicsTo[(n + 1) + 1] = Topic(TopicsTo[n + 1])
      BY <2>1, TopicsUp
    <2>5. Seq(TopicsTo[n]) \subseteq Seq(TopicsTo[n + 1])
      BY <2>2
    <2>6. Topic(TopicsTo[n]) \subseteq Topic(TopicsTo[n + 1])
      BY <2>5 DEF Topic
    <2> QED BY <2>3, <2>4, <2>6
  <1>3. Nat \subseteq Good
    <2> HIDE DEF Good
    <2> QED BY <1>1, <1>2, SetInduction
  <1> QED BY <1>3

\* Every topic is one of those nested at most Depth deep.
LEMMA AllInDepth == \A n \in Nat : n <= Depth => TopicsTo[n] \subseteq TopicsTo[Depth]
  <1> DEFINE Good == {i \in Nat : i <= Depth => TopicsTo[Depth - i] \subseteq TopicsTo[Depth]}
  <1>1. 0 \in Good
    <2>1. Depth - 0 = Depth
      BY ConfigurationAssumption
    <2> QED BY <2>1
  <1>2. ASSUME NEW i \in Nat, i \in Good PROVE i + 1 \in Good
    <2> SUFFICES ASSUME i + 1 <= Depth
                 PROVE  TopicsTo[Depth - (i + 1)] \subseteq TopicsTo[Depth]
      OBVIOUS
    <2> DEFINE n == Depth - (i + 1)
    <2>1. n \in Nat /\ n + 1 = Depth - i /\ n + 1 <= Depth /\ i <= Depth
      BY ConfigurationAssumption
    <2>2. TopicsTo[n] \subseteq TopicsTo[n + 1]
      BY <2>1, TopicsGrow
    <2> HIDE DEF n
    <2>3. TopicsTo[Depth - i] \subseteq TopicsTo[Depth]
      BY <1>2, <2>1
    <2> QED BY <2>1, <2>2, <2>3 DEF n
  <1>3. Nat \subseteq Good
    <2> HIDE DEF Good
    <2> QED BY <1>1, <1>2, SetInduction
  <1>4. ASSUME NEW n \in Nat, n <= Depth PROVE TopicsTo[n] \subseteq TopicsTo[Depth]
    <2>1. Depth - n \in Nat /\ Depth - n <= Depth /\ Depth - (Depth - n) = n
      BY <1>4, ConfigurationAssumption
    <2> QED BY <1>3, <2>1
  <1> QED BY <1>4

\* A tree of topics under a name, and an entry of the list made of it.
Tree(ts, parent) == [topics |-> ts, parent |-> parent]

Entries == [name : Seq(Name), topic : TopicsTo[Depth]]

\* What a topic adds to the list: itself, or what is below it.
Ends(n, t, parent) ==
    IF t.topics = <<>> THEN <<[name |-> FullName(parent, t), topic |-> t]>>
    ELSE childless[n][Tree(t.topics, FullName(parent, t))]

\* The list of a tree is the list of what each of its topics adds.
LEMMA ChildlessUp ==
    ASSUME NEW n \in Nat, n + 1 <= Depth, NEW ts \in Seq(TopicsTo[n + 1]),
           NEW parent \in Seq(Name)
    PROVE  childless[n + 1][Tree(ts, parent)] =
             FlattenSeq([k \in DOMAIN ts |-> Ends(n, ts[k], parent)])
  <1>1. n + 1 \in 0 .. Depth /\ n + 1 # 0 /\ (n + 1) - 1 = n
    BY ConfigurationAssumption
  <1>2. childless[n + 1] = ChildlessStep(n + 1, childless[n])
    BY <1>1, ChildlessIs
  <1>3. Tree(ts, parent) \in [topics : Seq(TopicsTo[n + 1]), parent : Seq(Name)]
    BY DEF Tree
  <1> QED BY <1>1, <1>2, <1>3 DEF ChildlessStep, Ends, Tree

\* No topics are nested no deep: nothing is listed.
LEMMA ChildlessNone ==
    ASSUME NEW ts \in Seq(TopicsTo[0]), NEW parent \in Seq(Name)
    PROVE  childless[0][Tree(ts, parent)] = <<>>
  <1>1. 0 \in 0 .. Depth
    BY ConfigurationAssumption
  <1>2. childless[0] = ChildlessStep(0, childless[0 - 1])
    BY <1>1, ChildlessIs
  <1>3. Tree(ts, parent) \in [topics : Seq(TopicsTo[0]), parent : Seq(Name)]
    BY DEF Tree
  <1> QED BY <1>2, <1>3 DEF ChildlessStep

\* What a topic nested that deep has.
LEMMA TopicIs ==
    ASSUME NEW n \in Nat, n + 1 <= Depth, NEW t \in TopicsTo[n + 1], NEW parent \in Seq(Name)
    PROVE  /\ t.topics \in Seq(TopicsTo[n])
           /\ FullName(parent, t) \in Seq(Name)
           /\ t \in TopicsTo[Depth]
  <1>1. t.topics \in Seq(TopicsTo[n]) /\ t.name \in Name
    <2>1. t \in Topic(TopicsTo[n])
      BY TopicsUp
    <2> QED BY <2>1 DEF Topic
  <1>2. n + 1 \in Nat
    OBVIOUS
  <1> QED BY <1>1, <1>2, AllInDepth DEF FullName

\* What childless gives is a list of entries.
Listed(n) ==
    \A ts \in Seq(TopicsTo[n]), parent \in Seq(Name) :
        childless[n][Tree(ts, parent)] \in Seq(Entries)

\* What a topic adds to the list is a list of entries ...
LEMMA EndsType ==
    ASSUME NEW n \in Nat, n + 1 <= Depth, Listed(n), NEW t \in TopicsTo[n + 1],
           NEW parent \in Seq(Name)
    PROVE  Ends(n, t, parent) \in Seq(Entries)
  <1>1. CASE t.topics = <<>>
    <2>1. [name |-> FullName(parent, t), topic |-> t] \in Entries
      BY TopicIs DEF Entries
    <2> QED BY <1>1, <2>1, OneType DEF Ends
  <1>2. CASE t.topics # <<>>
    BY <1>2, TopicIs DEF Ends, Listed
  <1> QED BY <1>1, <1>2

\* ... and so for all the topics of a tree.
LEMMA EndsSeqType ==
    ASSUME NEW n \in Nat, n + 1 <= Depth, Listed(n), NEW ts \in Seq(TopicsTo[n + 1]),
           NEW parent \in Seq(Name)
    PROVE  [k \in DOMAIN ts |-> Ends(n, ts[k], parent)] \in Seq(Seq(Entries))
  <1>1. Len(ts) \in Nat /\ DOMAIN ts = 1 .. Len(ts)
    OBVIOUS
  <1>2. \A k \in DOMAIN ts : ts[k] \in TopicsTo[n + 1]
    OBVIOUS
  <1>3. [k \in DOMAIN ts |-> Ends(n, ts[k], parent)] \in [1 .. Len(ts) -> Seq(Entries)]
    BY <1>1, <1>2, EndsType
  <1> QED BY <1>1, <1>3, ListType

\* The list is one of entries.
LEMMA ChildlessType == \A n \in Nat : n <= Depth => Listed(n)
  <1> DEFINE Good == {n \in Nat : n <= Depth => Listed(n)}
  <1>1. 0 \in Good
    <2>1. <<>> \in Seq(Entries)
      OBVIOUS
    <2> QED BY <2>1, ChildlessNone DEF Listed
  <1>2. ASSUME NEW n \in Nat, n \in Good PROVE n + 1 \in Good
    <2> SUFFICES ASSUME n + 1 <= Depth PROVE Listed(n + 1)
      OBVIOUS
    <2>1. Listed(n)
      BY <1>2, ConfigurationAssumption
    <2> SUFFICES ASSUME NEW ts \in Seq(TopicsTo[n + 1]), NEW parent \in Seq(Name)
                 PROVE  childless[n + 1][Tree(ts, parent)] \in Seq(Entries)
      BY DEF Listed
    <2> DEFINE ss == [k \in DOMAIN ts |-> Ends(n, ts[k], parent)]
    <2>2. ss \in Seq(Seq(Entries))
      BY <2>1, EndsSeqType
    <2>3. childless[n + 1][Tree(ts, parent)] = FlattenSeq(ss)
      BY ChildlessUp
    <2> HIDE DEF ss
    <2> QED BY <2>2, <2>3, FlattenType
  <1>3. Nat \subseteq Good
    <2> HIDE DEF Good
    <2> QED BY <1>1, <1>2, SetInduction
  <1> QED BY <1>3

\* Its elements are what its topics add.
LEMMA ChildlessElements ==
    ASSUME NEW n \in Nat, n + 1 <= Depth, NEW ts \in Seq(TopicsTo[n + 1]),
           NEW parent \in Seq(Name)
    PROVE  ToSet(childless[n + 1][Tree(ts, parent)]) =
             UNION {ToSet(Ends(n, t, parent)) : t \in ToSet(ts)}
  <1> DEFINE ss == [k \in DOMAIN ts |-> Ends(n, ts[k], parent)]
  <1>1. Listed(n)
    BY ChildlessType, ConfigurationAssumption
  <1>2. ss \in Seq(Seq(Entries))
    BY <1>1, EndsSeqType
  <1>3. childless[n + 1][Tree(ts, parent)] = FlattenSeq(ss)
    BY ChildlessUp
  <1>4. {ToSet(ss[k]) : k \in DOMAIN ss} = {ToSet(Ends(n, t, parent)) : t \in ToSet(ts)}
    <2>1. \A k \in DOMAIN ts : ss[k] = Ends(n, ts[k], parent)
      OBVIOUS
    <2>2. DOMAIN ss = DOMAIN ts
      OBVIOUS
    <2>3. {ToSet(ss[k]) : k \in DOMAIN ss} = {ToSet(Ends(n, ts[k], parent)) : k \in DOMAIN ts}
      <3> HIDE DEF ss
      <3> QED BY <2>1, <2>2
    <2> DEFINE Adds(t) == ToSet(Ends(n, t, parent))
    <2>4. {Adds(ts[k]) : k \in DOMAIN ts} = {Adds(t) : t \in ToSet(ts)}
      <3> HIDE DEF Adds
      <3> QED BY DEF ToSet
    <2> QED BY <2>3, <2>4
  <1> HIDE DEF ss
  <1>5. ToSet(FlattenSeq(ss)) = UNION {ToSet(ss[k]) : k \in DOMAIN ss}
    BY <1>2, FlattenElements
  <1> QED BY <1>3, <1>4, <1>5

\* The places below the k-th topic of a list, and those with its own.
Under(n, t, parent) == Placed[n][Tree(t.topics, FullName(parent, t))]

Top(ts, k, parent) ==
    [at |-> <<k>>, path |-> FullName(parent, ts[k]), topic |-> ts[k]]

Sunk(k, x) == [x EXCEPT !.at = <<k>> \o @]

\* A place in a tree is that of one of its topics, or one below it.
LEMMA PlacedUp ==
    ASSUME NEW n \in Nat, n + 1 <= Depth, NEW ts \in Seq(TopicsTo[n + 1]),
           NEW parent \in Seq(Name)
    PROVE  \A x : x \in Placed[n + 1][Tree(ts, parent)] <=>
             \E k \in DOMAIN ts :
                \/ x = Top(ts, k, parent)
                \/ \E y \in Under(n, ts[k], parent) : x = Sunk(k, y)
  <1> TAKE x
  <1>1. n + 1 \in 0 .. Depth /\ n + 1 # 0 /\ (n + 1) - 1 = n
    BY ConfigurationAssumption
  <1>2. Placed[n + 1] = PlacedStep(n + 1, Placed[n])
    BY <1>1, PlacedIs
  <1>3. Tree(ts, parent) \in [topics : Seq(TopicsTo[n + 1]), parent : Seq(Name)]
    BY DEF Tree
  <1> DEFINE At(k) == PlacesOf(Placed[n], ts, k, parent)
  <1>4. Placed[n + 1][Tree(ts, parent)] = UNION {At(k) : k \in DOMAIN ts}
    BY <1>1, <1>2, <1>3 DEF PlacedStep, Tree
  <1>5. x \in UNION {At(k) : k \in DOMAIN ts} <=> \E k \in DOMAIN ts : x \in At(k)
    BY Zenon
  <1>6. ASSUME NEW k
        PROVE  x \in At(k) <=> \/ x = Top(ts, k, parent)
                              \/ \E y \in Under(n, ts[k], parent) : x = Sunk(k, y)
    BY Zenon DEF PlacesOf, Top, Under, Sunk, FullName, Tree
  <1> HIDE DEF At
  <1> QED BY <1>4, <1>5, <1>6

\* No topics are nested no deep: there is no place.
LEMMA PlacedNone ==
    ASSUME NEW ts \in Seq(TopicsTo[0]), NEW parent \in Seq(Name)
    PROVE  Placed[0][Tree(ts, parent)] = {}
  <1>1. 0 \in 0 .. Depth
    BY ConfigurationAssumption
  <1>2. Placed[0] = PlacedStep(0, Placed[0 - 1])
    BY <1>1, PlacedIs
  <1>3. Tree(ts, parent) \in [topics : Seq(TopicsTo[0]), parent : Seq(Name)]
    BY DEF Tree
  <1> QED BY <1>2, <1>3 DEF PlacedStep

\* A place is as deep as its name is long, and the name starts with the one
\* the tree is under.
IsPlace(parent, at, path) ==
    /\ at \in Seq(Nat) /\ Len(at) >= 1
    /\ path \in Seq(Name) /\ Len(path) = Len(parent) + Len(at)
    /\ \A i \in 1 .. Len(parent) : path[i] = parent[i]

\* Places, and that a tree has no others.
Places(parent) ==
    {x \in [at : Seq(Nat), path : Seq(Name), topic : TopicsTo[Depth]] :
        IsPlace(parent, x.at, x.path)}

Situated(n) ==
    \A ts \in Seq(TopicsTo[n]), parent \in Seq(Name) :
        Placed[n][Tree(ts, parent)] \subseteq Places(parent)

\* A place below another, as a record.
LEMMA SunkIs ==
    ASSUME NEW k, NEW at, NEW path, NEW topic
    PROVE  Sunk(k, [at |-> at, path |-> path, topic |-> topic]) =
             [at |-> <<k>> \o at, path |-> path, topic |-> topic]
  <1> DEFINE x == [at |-> at, path |-> path, topic |-> topic]
             s == <<k>> \o at
  <1>1. Sunk(k, x) = [x EXCEPT !.at = s]
    BY DEF Sunk
  <1> HIDE DEF s
  <1>2. [x EXCEPT !.at = s] = [at |-> s, path |-> path, topic |-> topic]
    OBVIOUS
  <1> QED BY <1>1, <1>2 DEF s

\* A full name is the parent with the name after it.
LEMMA FullNameIs ==
    ASSUME NEW parent \in Seq(Name), NEW t, t.name \in Name
    PROVE  /\ FullName(parent, t) \in Seq(Name)
           /\ Len(FullName(parent, t)) = Len(parent) + 1
           /\ FullName(parent, t)[Len(parent) + 1] = t.name
           /\ \A i \in 1 .. Len(parent) : FullName(parent, t)[i] = parent[i]
  BY DEF FullName

\* What a topic nested that deep has.
LEMMA TopicHas ==
    ASSUME NEW n \in Nat, n + 1 <= Depth, NEW t \in TopicsTo[n + 1]
    PROVE  t.name \in Name /\ t.topics \in Seq(TopicsTo[n]) /\ t \in TopicsTo[Depth]
  <1>1. t \in Topic(TopicsTo[n])
    BY TopicsUp
  <1>2. t \in TopicsTo[Depth]
    <2>1. n + 1 \in Nat
      OBVIOUS
    <2> QED BY <2>1, AllInDepth
  <1> QED BY <1>1, <1>2 DEF Topic

\* The place of a topic of the tree ...
LEMMA TopIsPlace ==
    ASSUME NEW parent \in Seq(Name), NEW k \in Nat, NEW t, t.name \in Name
    PROVE  IsPlace(parent, <<k>>, FullName(parent, t))
  <1>1. <<k>> \in Seq(Nat) /\ Len(<<k>>) = 1
    OBVIOUS
  <1> QED BY <1>1, FullNameIs DEF IsPlace

\* ... and of one below it are as a place should be ...
LEMMA SunkIsPlace ==
    ASSUME NEW parent \in Seq(Name), NEW k \in Nat, NEW t, t.name \in Name,
           NEW at, NEW path, IsPlace(FullName(parent, t), at, path)
    PROVE  /\ IsPlace(parent, <<k>> \o at, path)
           /\ Len(<<k>> \o at) >= 2
           /\ path[Len(parent) + 1] = t.name
  <1> DEFINE q == FullName(parent, t)
             s == <<k>> \o at
  <1>1. /\ at \in Seq(Nat) /\ Len(at) >= 1 /\ path \in Seq(Name)
        /\ Len(path) = Len(q) + Len(at) /\ \A i \in 1 .. Len(q) : path[i] = q[i]
    BY DEF IsPlace
  <1>2. /\ Len(q) = Len(parent) + 1 /\ q[Len(parent) + 1] = t.name
        /\ \A i \in 1 .. Len(parent) : q[i] = parent[i]
    BY FullNameIs
  <1>3. s \in Seq(Nat) /\ Len(s) = 1 + Len(at) /\ Len(at) \in Nat /\ Len(parent) \in Nat
    BY <1>1
  <1> HIDE DEF q, s
  <1>4. path[Len(parent) + 1] = t.name /\ \A i \in 1 .. Len(parent) : path[i] = parent[i]
    BY <1>1, <1>2, <1>3
  <1>5. Len(path) = Len(parent) + Len(s) /\ Len(s) >= 2
    BY <1>1, <1>2, <1>3
  <1>6. Len(s) >= 1
    BY <1>3, <1>5
  <1>7. IsPlace(parent, s, path)
    BY <1>1, <1>3, <1>4, <1>5, <1>6 DEF IsPlace
  <1> QED BY <1>4, <1>5, <1>7 DEF s

\* ... with their topic: at the top ...
LEMMA TopPlaced ==
    ASSUME NEW n \in Nat, n + 1 <= Depth, NEW ts \in Seq(TopicsTo[n + 1]),
           NEW parent \in Seq(Name), NEW k \in DOMAIN ts
    PROVE  Top(ts, k, parent) \in Places(parent)
  <1> DEFINE at == <<k>>
             q  == FullName(parent, ts[k])
  <1>1. k \in Nat /\ ts[k] \in TopicsTo[n + 1]
    OBVIOUS
  <1>2. IsPlace(parent, at, q)
    BY <1>1, TopicHas, TopIsPlace
  <1>3. ts[k] \in TopicsTo[Depth]
    BY <1>1, TopicHas
  <1> HIDE DEF at, q
  <1>4. [at |-> at, path |-> q, topic |-> ts[k]] \in Places(parent)
    BY <1>2, <1>3 DEF Places, IsPlace
  <1> QED BY <1>4 DEF Top, at, q

\* ... and below it.
LEMMA SunkPlaced ==
    ASSUME NEW n \in Nat, n + 1 <= Depth, NEW t \in TopicsTo[n + 1],
           NEW parent \in Seq(Name), NEW k \in Nat, NEW y \in Places(FullName(parent, t))
    PROVE  /\ Sunk(k, y) \in Places(parent)
           /\ Sunk(k, y) = [at |-> <<k>> \o y.at, path |-> y.path, topic |-> y.topic]
           /\ Len(<<k>> \o y.at) >= 2
           /\ y.path[Len(parent) + 1] = t.name
  <1> DEFINE s == <<k>> \o y.at
  <1>1. y = [at |-> y.at, path |-> y.path, topic |-> y.topic] /\ y.topic \in TopicsTo[Depth]
    BY DEF Places
  <1>2. IsPlace(FullName(parent, t), y.at, y.path)
    BY DEF Places
  <1>3. IsPlace(parent, s, y.path) /\ Len(s) >= 2 /\ y.path[Len(parent) + 1] = t.name
    BY <1>2, TopicHas, SunkIsPlace
  <1>4. Sunk(k, [at |-> y.at, path |-> y.path, topic |-> y.topic]) =
          [at |-> s, path |-> y.path, topic |-> y.topic]
    BY SunkIs
  <1>5. Sunk(k, y) = [at |-> s, path |-> y.path, topic |-> y.topic]
    BY <1>1, <1>4, Zenon
  <1> HIDE DEF s
  <1>6. [at |-> s, path |-> y.path, topic |-> y.topic] \in Places(parent)
    BY <1>1, <1>3 DEF Places, IsPlace
  <1> QED BY <1>3, <1>5, <1>6 DEF s

\* So are all the places of a tree, by induction.
LEMMA PlacedType == \A n \in Nat : n <= Depth => Situated(n)
  <1> DEFINE Good == {n \in Nat : n <= Depth => Situated(n)}
  <1>1. 0 \in Good
    BY PlacedNone DEF Situated
  <1>2. ASSUME NEW n \in Nat, n \in Good PROVE n + 1 \in Good
    <2> SUFFICES ASSUME n + 1 <= Depth PROVE Situated(n + 1)
      OBVIOUS
    <2>1. Situated(n)
      BY <1>2, ConfigurationAssumption
    <2> SUFFICES ASSUME NEW ts \in Seq(TopicsTo[n + 1]), NEW parent \in Seq(Name),
                        NEW x \in Placed[n + 1][Tree(ts, parent)]
                 PROVE  x \in Places(parent)
      BY DEF Situated
    <2>2. PICK k \in DOMAIN ts : \/ x = Top(ts, k, parent)
                                 \/ \E y \in Under(n, ts[k], parent) : x = Sunk(k, y)
      <3>1. x \in Placed[n + 1][Tree(ts, parent)] <=>
              \E k \in DOMAIN ts : \/ x = Top(ts, k, parent)
                                   \/ \E y \in Under(n, ts[k], parent) : x = Sunk(k, y)
        BY PlacedUp
      <3> QED BY <3>1
    <2>3. CASE x = Top(ts, k, parent)
      BY <2>3, TopPlaced
    <2>4. ASSUME NEW y \in Under(n, ts[k], parent), x = Sunk(k, y)
          PROVE  x \in Places(parent)
      <3>1. k \in Nat /\ ts[k] \in TopicsTo[n + 1]
        OBVIOUS
      <3>2. ts[k].topics \in Seq(TopicsTo[n]) /\ FullName(parent, ts[k]) \in Seq(Name)
        BY <3>1, TopicHas, FullNameIs
      <3>3. y \in Places(FullName(parent, ts[k]))
        BY <2>1, <3>2 DEF Situated, Under
      <3> QED BY <2>4, <3>1, <3>3, SunkPlaced
    <2> QED BY <2>2, <2>3, <2>4
  <1>3. Nat \subseteq Good
    <2> HIDE DEF Good
    <2> QED BY <1>1, <1>2, SetInduction
  <1> QED BY <1>3

\* And those below one of its topics.
LEMMA UnderPlaced ==
    ASSUME NEW n \in Nat, n + 1 <= Depth, NEW t \in TopicsTo[n + 1], NEW parent \in Seq(Name)
    PROVE  Under(n, t, parent) \subseteq Places(FullName(parent, t))
  <1>1. t.topics \in Seq(TopicsTo[n]) /\ FullName(parent, t) \in Seq(Name)
    BY TopicHas, FullNameIs
  <1>2. Situated(n)
    BY PlacedType, ConfigurationAssumption
  <1> QED BY <1>1, <1>2 DEF Situated, Under

\* Nothing is listed of no topics.
LEMMA ChildlessEmpty ==
    ASSUME NEW n \in Nat, n <= Depth, NEW parent \in Seq(Name)
    PROVE  childless[n][Tree(<<>>, parent)] = <<>>
  <1>1. CASE n = 0
    <2>1. <<>> \in Seq(TopicsTo[0])
      OBVIOUS
    <2> QED BY <1>1, <2>1, ChildlessNone
  <1>2. CASE n # 0
    <2>1. PICK m \in Nat : n = m + 1
      <3>1. n - 1 \in Nat /\ n = (n - 1) + 1
        BY <1>2
      <3> QED BY <3>1
    <2>2. <<>> \in Seq(TopicsTo[m + 1])
      OBVIOUS
    <2>3. childless[m + 1][Tree(<<>>, parent)] =
            FlattenSeq([k \in DOMAIN <<>> |-> Ends(m, <<>>[k], parent)])
      BY <2>1, <2>2, ChildlessUp
    <2>4. [k \in DOMAIN <<>> |-> Ends(m, <<>>[k], parent)] = <<>>
      OBVIOUS
    <2> QED BY <2>1, <2>3, <2>4, FlattenEmpty
  <1> QED BY <1>1, <1>2

\* The entry of a place, and the places without topics below them.
Entry(x) == [name |-> x.path, topic |-> x.topic]

Bare(S) == {x \in S : x.topic.topics = <<>>}

\* The list is of the childless topics of the tree, under their full names.
ListsBare(n) ==
    \A ts \in Seq(TopicsTo[n]), parent \in Seq(Name) :
        ToSet(childless[n][Tree(ts, parent)]) =
            {Entry(x) : x \in Bare(Placed[n][Tree(ts, parent)])}

\* What a topic adds to the list: itself, or the childless topics below it.
LEMMA EndsAreBare ==
    ASSUME NEW n \in Nat, n + 1 <= Depth, ListsBare(n), NEW t \in TopicsTo[n + 1],
           NEW parent \in Seq(Name)
    PROVE  \A e : e \in ToSet(Ends(n, t, parent)) <=>
             \/ t.topics = <<>> /\ e = [name |-> FullName(parent, t), topic |-> t]
             \/ \E y \in Bare(Under(n, t, parent)) : e = Entry(y)
  <1> TAKE e
  <1> DEFINE q == FullName(parent, t)
  <1>1. q \in Seq(Name) /\ t.topics \in Seq(TopicsTo[n])
    BY TopicIs
  <1> HIDE DEF q
  <1>2. ToSet(childless[n][Tree(t.topics, q)]) =
          {Entry(x) : x \in Bare(Placed[n][Tree(t.topics, q)])}
    BY <1>1 DEF ListsBare
  <1>3. CASE t.topics = <<>>
    <2>1. childless[n][Tree(t.topics, q)] = <<>>
      BY <1>1, <1>3, ChildlessEmpty, ConfigurationAssumption
    <2>2. {Entry(x) : x \in Bare(Placed[n][Tree(t.topics, q)])} = {}
      BY <1>2, <2>1 DEF ToSet
    <2>3. ToSet(Ends(n, t, parent)) = {[name |-> q, topic |-> t]}
      BY <1>3 DEF Ends, ToSet, q
    <2>4. ~ \E y \in Bare(Under(n, t, parent)) : e = Entry(y)
      BY <2>2 DEF Under, q
    <2> QED BY <1>3, <2>3, <2>4 DEF q
  <1>4. CASE t.topics # <<>>
    <2>1. ToSet(Ends(n, t, parent)) = {Entry(x) : x \in Bare(Under(n, t, parent))}
      BY <1>2, <1>4 DEF Ends, Under, q
    <2> QED BY <1>4, <2>1
  <1> QED BY <1>3, <1>4

\* ListsBare one deeper.
LEMMA BareUp ==
    ASSUME NEW n \in Nat, n + 1 <= Depth, ListsBare(n), NEW ts \in Seq(TopicsTo[n + 1]),
           NEW parent \in Seq(Name)
    PROVE  ToSet(childless[n + 1][Tree(ts, parent)]) =
             {Entry(x) : x \in Bare(Placed[n + 1][Tree(ts, parent)])}
  <1> DEFINE S == Placed[n + 1][Tree(ts, parent)]
             Of(k, e) == \/ ts[k].topics = <<>> /\ e = Entry(Top(ts, k, parent))
                         \/ \E y \in Bare(Under(n, ts[k], parent)) : e = Entry(y)
  <1>1. ASSUME NEW e
        PROVE  e \in ToSet(childless[n + 1][Tree(ts, parent)]) <=> \E k \in DOMAIN ts : Of(k, e)
    <2>1. e \in ToSet(childless[n + 1][Tree(ts, parent)]) <=>
            \E k \in DOMAIN ts : e \in ToSet(Ends(n, ts[k], parent))
      <3>1. ToSet(childless[n + 1][Tree(ts, parent)]) =
              UNION {ToSet(Ends(n, t, parent)) : t \in ToSet(ts)}
        BY ChildlessElements
      <3>2. e \in UNION {ToSet(Ends(n, t, parent)) : t \in ToSet(ts)} <=>
              \E t \in ToSet(ts) : e \in ToSet(Ends(n, t, parent))
        BY Zenon
      <3>3. (\E t \in ToSet(ts) : e \in ToSet(Ends(n, t, parent))) <=>
              \E k \in DOMAIN ts : e \in ToSet(Ends(n, ts[k], parent))
        <4> DEFINE In(t) == e \in ToSet(Ends(n, t, parent))
        <4> HIDE DEF In
        <4>1. (\E t \in ToSet(ts) : In(t)) <=> \E k \in DOMAIN ts : In(ts[k])
          BY DEF ToSet
        <4> QED BY <4>1 DEF In
      <3> QED BY <3>1, <3>2, <3>3
    <2>2. ASSUME NEW k \in DOMAIN ts PROVE e \in ToSet(Ends(n, ts[k], parent)) <=> Of(k, e)
      <3>1. ts[k] \in TopicsTo[n + 1]
        OBVIOUS
      <3>2. Entry(Top(ts, k, parent)) = [name |-> FullName(parent, ts[k]), topic |-> ts[k]]
        BY DEF Entry, Top
      <3>3. e \in ToSet(Ends(n, ts[k], parent)) <=>
              \/ /\ ts[k].topics = <<>>
                 /\ e = [name |-> FullName(parent, ts[k]), topic |-> ts[k]]
              \/ \E y \in Bare(Under(n, ts[k], parent)) : e = Entry(y)
        <4>1. \A t \in TopicsTo[n + 1] : \A f : f \in ToSet(Ends(n, t, parent)) <=>
                \/ t.topics = <<>> /\ f = [name |-> FullName(parent, t), topic |-> t]
                \/ \E y \in Bare(Under(n, t, parent)) : f = Entry(y)
          BY EndsAreBare
        <4> QED BY <3>1, <4>1
      <3> QED BY <3>2, <3>3
    <2> HIDE DEF Of
    <2> QED BY <2>1, <2>2
  <1>2. ASSUME NEW k \in DOMAIN ts, NEW e, Of(k, e) PROVE \E x \in Bare(S) : e = Entry(x)
    <2>1. CASE ts[k].topics = <<>> /\ e = Entry(Top(ts, k, parent))
      <3>1. Top(ts, k, parent) \in S
        BY PlacedUp
      <3>2. Top(ts, k, parent).topic = ts[k]
        BY DEF Top
      <3> QED BY <2>1, <3>1, <3>2 DEF Bare
    <2>2. ASSUME NEW y \in Bare(Under(n, ts[k], parent)), e = Entry(y)
          PROVE  \E x \in Bare(S) : e = Entry(x)
      <3>1. y \in Under(n, ts[k], parent) /\ y.topic.topics = <<>>
        BY DEF Bare
      <3>2. Sunk(k, y) \in S
        BY <3>1, PlacedUp
      <3>3. Sunk(k, y) = [at |-> <<k>> \o y.at, path |-> y.path, topic |-> y.topic]
        <4>1. k \in Nat /\ ts[k] \in TopicsTo[n + 1]
          OBVIOUS
        <4>2. y \in Places(FullName(parent, ts[k]))
          BY <3>1, <4>1, UnderPlaced
        <4> QED BY <4>1, <4>2, SunkPlaced
      <3>4. Sunk(k, y).path = y.path /\ Sunk(k, y).topic = y.topic
        BY <3>3
      <3> QED BY <2>2, <3>1, <3>2, <3>4 DEF Entry, Bare
    <2> QED BY <1>2, <2>1, <2>2
  <1>3. ASSUME NEW x \in Bare(S) PROVE \E k \in DOMAIN ts : Of(k, Entry(x))
    <2>1. x \in S /\ x.topic.topics = <<>>
      BY DEF Bare
    <2>2. PICK k \in DOMAIN ts : \/ x = Top(ts, k, parent)
                                 \/ \E y \in Under(n, ts[k], parent) : x = Sunk(k, y)
      BY <2>1, PlacedUp
    <2>3. CASE x = Top(ts, k, parent)
      BY <2>1, <2>3 DEF Top
    <2>4. ASSUME NEW y \in Under(n, ts[k], parent), x = Sunk(k, y) PROVE Of(k, Entry(x))
      <3>1. Sunk(k, y) = [at |-> <<k>> \o y.at, path |-> y.path, topic |-> y.topic]
        <4>1. k \in Nat /\ ts[k] \in TopicsTo[n + 1]
          OBVIOUS
        <4>2. y \in Places(FullName(parent, ts[k]))
          BY <4>1, UnderPlaced
        <4> QED BY <4>1, <4>2, SunkPlaced
      <3>2. x.path = y.path /\ x.topic = y.topic
        BY <2>4, <3>1
      <3> QED BY <2>1, <3>2 DEF Entry, Bare
    <2> HIDE DEF Of
    <2> QED BY <2>2, <2>3, <2>4
  <1> HIDE DEF Of, S
  <1>4. \A e : e \in ToSet(childless[n + 1][Tree(ts, parent)]) <=> e \in {Entry(x) : x \in Bare(S)}
    BY <1>1, <1>2, <1>3
  <1> QED BY <1>4 DEF S

\* ListsBare at every depth, by induction.
LEMMA ChildlessAreBare == \A n \in Nat : n <= Depth => ListsBare(n)
  <1> DEFINE Good == {n \in Nat : n <= Depth => ListsBare(n)}
  <1>1. 0 \in Good
    <2> SUFFICES ASSUME NEW ts \in Seq(TopicsTo[0]), NEW parent \in Seq(Name)
                 PROVE  ToSet(childless[0][Tree(ts, parent)]) =
                            {Entry(x) : x \in Bare(Placed[0][Tree(ts, parent)])}
      BY DEF ListsBare
    <2>1. childless[0][Tree(ts, parent)] = <<>> /\ Placed[0][Tree(ts, parent)] = {}
      BY ChildlessNone, PlacedNone
    <2> QED BY <2>1 DEF ToSet, Bare
  <1>2. ASSUME NEW n \in Nat, n \in Good PROVE n + 1 \in Good
    <2> SUFFICES ASSUME n + 1 <= Depth PROVE ListsBare(n + 1)
      OBVIOUS
    <2>1. ListsBare(n)
      BY <1>2, ConfigurationAssumption
    <2> QED BY <2>1, BareUp DEF ListsBare
  <1>3. Nat \subseteq Good
    <2> HIDE DEF Good
    <2> QED BY <1>1, <1>2, SetInduction
  <1> QED BY <1>3

---------------------------------------------------------------------------
(* With distinct siblings a full name tells its place, and none is lost.   *)

---------------------------------------------------------------------------
\* No two siblings of the same name, and no two places of the same full name.
Distinct(S) ==
    \A x, y \in S : Front(x.at) = Front(y.at) /\ x.topic.name = y.topic.name => x = y

PathsApart(S) == \A x, y \in S : x.path = y.path => x = y

Tells(n) ==
    \A ts \in Seq(TopicsTo[n]), parent \in Seq(Name) :
        Distinct(Placed[n][Tree(ts, parent)]) => PathsApart(Placed[n][Tree(ts, parent)])

\* A place below a topic, seen from above.
SeenAbove(n, ts, parent, k, y) ==
    /\ Sunk(k, y) \in Placed[n + 1][Tree(ts, parent)]
    /\ Sunk(k, y) = [at |-> <<k>> \o y.at, path |-> y.path, topic |-> y.topic]
    /\ y.at \in Seq(Nat) /\ Len(y.at) >= 1
    /\ y = [at |-> y.at, path |-> y.path, topic |-> y.topic]
    /\ y.path[Len(parent) + 1] = ts[k].name
    /\ Len(y.path) >= Len(parent) + 2

\* A place below a topic is one of the tree.
LEMMA SunkHas ==
    ASSUME NEW n \in Nat, n + 1 <= Depth, NEW ts \in Seq(TopicsTo[n + 1]),
           NEW parent \in Seq(Name), NEW k \in DOMAIN ts,
           NEW y \in Under(n, ts[k], parent)
    PROVE  SeenAbove(n, ts, parent, k, y)
  <1>1. k \in Nat /\ ts[k] \in TopicsTo[n + 1]
    OBVIOUS
  <1>2. y \in Places(FullName(parent, ts[k]))
    BY <1>1, UnderPlaced
  <1>3. Sunk(k, y) \in Placed[n + 1][Tree(ts, parent)]
    BY PlacedUp
  <1>4. /\ Sunk(k, y) = [at |-> <<k>> \o y.at, path |-> y.path, topic |-> y.topic]
        /\ y.path[Len(parent) + 1] = ts[k].name
    BY <1>1, <1>2, SunkPlaced
  <1>5. /\ y = [at |-> y.at, path |-> y.path, topic |-> y.topic]
        /\ IsPlace(FullName(parent, ts[k]), y.at, y.path)
    BY <1>2 DEF Places
  <1>6. Len(FullName(parent, ts[k])) = Len(parent) + 1
    BY <1>1, TopicHas, FullNameIs
  <1> DEFINE at == y.at
             path == y.path
             q == FullName(parent, ts[k])
  <1>7. at \in Seq(Nat) /\ Len(at) >= 1 /\ Len(path) >= Len(parent) + 2
    <2>1. Len(q) = Len(parent) + 1 /\ IsPlace(q, at, path)
      BY <1>5, <1>6
    <2> HIDE DEF at, path, q
    <2>2. at \in Seq(Nat) /\ Len(at) >= 1 /\ Len(path) = Len(q) + Len(at)
      BY <2>1 DEF IsPlace
    <2>3. Len(at) \in Nat /\ Len(parent) \in Nat
      BY <2>2
    <2> QED BY <2>1, <2>2, <2>3
  <1> QED BY <1>3, <1>4, <1>5, <1>7 DEF SeenAbove

\* Distinct siblings in a tree are distinct siblings below each of its topics.
LEMMA DistinctDown ==
    ASSUME NEW n \in Nat, n + 1 <= Depth, NEW ts \in Seq(TopicsTo[n + 1]),
           NEW parent \in Seq(Name), Distinct(Placed[n + 1][Tree(ts, parent)]),
           NEW k \in DOMAIN ts
    PROVE  Distinct(Under(n, ts[k], parent))
  <1> SUFFICES ASSUME NEW x \in Under(n, ts[k], parent), NEW y \in Under(n, ts[k], parent),
                      Front(x.at) = Front(y.at), x.topic.name = y.topic.name
               PROVE  x = y
    BY DEF Distinct
  <1>1. k \in Nat
    OBVIOUS
  <1>2. /\ Sunk(k, x) \in Placed[n + 1][Tree(ts, parent)]
        /\ Sunk(k, x) = [at |-> <<k>> \o x.at, path |-> x.path, topic |-> x.topic]
        /\ x.at \in Seq(Nat) /\ Len(x.at) >= 1
        /\ x = [at |-> x.at, path |-> x.path, topic |-> x.topic]
    <2>1. SeenAbove(n, ts, parent, k, x)
      BY SunkHas
    <2> QED BY <2>1 DEF SeenAbove
  <1>3. /\ Sunk(k, y) \in Placed[n + 1][Tree(ts, parent)]
        /\ Sunk(k, y) = [at |-> <<k>> \o y.at, path |-> y.path, topic |-> y.topic]
        /\ y.at \in Seq(Nat) /\ Len(y.at) >= 1
        /\ y = [at |-> y.at, path |-> y.path, topic |-> y.topic]
    <2>1. SeenAbove(n, ts, parent, k, y)
      BY SunkHas
    <2> QED BY <2>1 DEF SeenAbove
  <1>4. Front(<<k>> \o x.at) = <<k>> \o Front(x.at) /\ Front(<<k>> \o y.at) = <<k>> \o Front(y.at)
    BY <1>1, <1>2, <1>3, FrontCons
  <1>5. Front(Sunk(k, x).at) = Front(Sunk(k, y).at)
    <2>1. Sunk(k, x).at = <<k>> \o x.at /\ Sunk(k, y).at = <<k>> \o y.at
      BY <1>2, <1>3
    <2> QED BY <1>4, <2>1, Zenon
  <1>6. Sunk(k, x).topic.name = Sunk(k, y).topic.name
    <2>1. Sunk(k, x).topic = x.topic /\ Sunk(k, y).topic = y.topic
      BY <1>2, <1>3
    <2> QED BY <2>1, Zenon
  <1>7. Sunk(k, x) = Sunk(k, y)
    BY <1>2, <1>3, <1>5, <1>6 DEF Distinct
  <1>8. <<k>> \o x.at = <<k>> \o y.at /\ x.path = y.path /\ x.topic = y.topic
    BY <1>2, <1>3, <1>7
  <1>9. x.at = y.at
    BY <1>1, <1>2, <1>3, <1>8, ConsInjective
  <1> QED BY <1>2, <1>3, <1>8, <1>9

\* The place of a topic of the tree.
LEMMA TopHas ==
    ASSUME NEW n \in Nat, n + 1 <= Depth, NEW ts \in Seq(TopicsTo[n + 1]),
           NEW parent \in Seq(Name), NEW k \in DOMAIN ts
    PROVE  /\ Top(ts, k, parent) \in Placed[n + 1][Tree(ts, parent)]
           /\ Front(Top(ts, k, parent).at) = <<>>
           /\ Top(ts, k, parent).at = <<k>>
           /\ Top(ts, k, parent).topic = ts[k]
           /\ Top(ts, k, parent).path[Len(parent) + 1] = ts[k].name
           /\ Len(Top(ts, k, parent).path) = Len(parent) + 1
  <1>1. Top(ts, k, parent) \in Placed[n + 1][Tree(ts, parent)]
    BY PlacedUp
  <1>2. /\ Top(ts, k, parent).at = <<k>> /\ Top(ts, k, parent).topic = ts[k]
        /\ Top(ts, k, parent).path = FullName(parent, ts[k])
    BY DEF Top
  <1>3. Front(<<k>>) = <<>>
    <2>1. Len(<<k>>) - 1 = 0
      OBVIOUS
    <2> QED BY <2>1, SubSeqEmpty DEF Front
  <1>4. ts[k].name \in Name
    <2>1. ts[k] \in TopicsTo[n + 1]
      OBVIOUS
    <2> QED BY <2>1, TopicHas
  <1>5. /\ Len(FullName(parent, ts[k])) = Len(parent) + 1
        /\ FullName(parent, ts[k])[Len(parent) + 1] = ts[k].name
    BY <1>4, FullNameIs
  <1> QED BY <1>1, <1>2, <1>3, <1>5

\* Siblings of one name are one.
LEMMA SiblingsDistinct ==
    ASSUME NEW n \in Nat, n + 1 <= Depth, NEW ts \in Seq(TopicsTo[n + 1]),
           NEW parent \in Seq(Name), Distinct(Placed[n + 1][Tree(ts, parent)]),
           NEW j \in DOMAIN ts, NEW k \in DOMAIN ts, ts[j].name = ts[k].name
    PROVE  j = k
  <1>1. /\ Top(ts, j, parent) \in Placed[n + 1][Tree(ts, parent)]
        /\ Front(Top(ts, j, parent).at) = <<>> /\ Top(ts, j, parent).at = <<j>>
        /\ Top(ts, j, parent).topic = ts[j]
    BY TopHas
  <1>2. /\ Top(ts, k, parent) \in Placed[n + 1][Tree(ts, parent)]
        /\ Front(Top(ts, k, parent).at) = <<>> /\ Top(ts, k, parent).at = <<k>>
        /\ Top(ts, k, parent).topic = ts[k]
    BY TopHas
  <1>3. Top(ts, j, parent) = Top(ts, k, parent)
    BY <1>1, <1>2 DEF Distinct
  <1>4. <<j>> = <<k>>
    BY <1>1, <1>2, <1>3
  <1> QED BY <1>4

\* With distinct siblings a full name has one place, by induction.
LEMMA PathsTell == \A n \in Nat : n <= Depth => Tells(n)
  <1> DEFINE Good == {n \in Nat : n <= Depth => Tells(n)}
  <1>1. 0 \in Good
    BY PlacedNone DEF Tells, PathsApart
  <1>2. ASSUME NEW n \in Nat, n \in Good PROVE n + 1 \in Good
    <2> SUFFICES ASSUME n + 1 <= Depth PROVE Tells(n + 1)
      OBVIOUS
    <2>1. Tells(n)
      BY <1>2, ConfigurationAssumption
    <2> SUFFICES ASSUME NEW ts \in Seq(TopicsTo[n + 1]), NEW parent \in Seq(Name),
                        Distinct(Placed[n + 1][Tree(ts, parent)]),
                        NEW x \in Placed[n + 1][Tree(ts, parent)],
                        NEW y \in Placed[n + 1][Tree(ts, parent)],
                        x.path = y.path
                 PROVE  x = y
      BY DEF Tells, PathsApart
    <2> DEFINE m == Len(parent) + 1
    <2>2. PICK j \in DOMAIN ts : \/ x = Top(ts, j, parent)
                                 \/ \E z \in Under(n, ts[j], parent) : x = Sunk(j, z)
      <3>1. x \in Placed[n + 1][Tree(ts, parent)] <=>
              \E i \in DOMAIN ts : \/ x = Top(ts, i, parent)
                                   \/ \E z \in Under(n, ts[i], parent) : x = Sunk(i, z)
        BY PlacedUp
      <3> QED BY <3>1
    <2>3. PICK k \in DOMAIN ts : \/ y = Top(ts, k, parent)
                                 \/ \E z \in Under(n, ts[k], parent) : y = Sunk(k, z)
      <3>1. y \in Placed[n + 1][Tree(ts, parent)] <=>
              \E i \in DOMAIN ts : \/ y = Top(ts, i, parent)
                                   \/ \E z \in Under(n, ts[i], parent) : y = Sunk(i, z)
        BY PlacedUp
      <3> QED BY <3>1
    <2>4. ASSUME NEW z \in Under(n, ts[j], parent), x = Sunk(j, z)
          PROVE  /\ x.path = z.path /\ x.path[m] = ts[j].name
                 /\ Len(x.path) # m
      <3>1. SeenAbove(n, ts, parent, j, z)
        BY SunkHas
      <3>2. x.path = z.path
        BY <2>4, <3>1 DEF SeenAbove
      <3> DEFINE path == z.path
      <3>3. path[m] = ts[j].name /\ Len(path) >= Len(parent) + 2
        BY <3>1 DEF SeenAbove
      <3>4. Len(parent) \in Nat
        OBVIOUS
      <3>5. Len(path) # m
        <4> HIDE DEF path
        <4> QED BY <3>3, <3>4
      <3> QED BY <3>2, <3>3, <3>5
    <2>5. ASSUME NEW z \in Under(n, ts[k], parent), y = Sunk(k, z)
          PROVE  /\ y.path = z.path /\ y.path[m] = ts[k].name
                 /\ Len(y.path) # m
      <3>1. SeenAbove(n, ts, parent, k, z)
        BY SunkHas
      <3>2. y.path = z.path
        BY <2>5, <3>1 DEF SeenAbove
      <3> DEFINE path == z.path
      <3>3. path[m] = ts[k].name /\ Len(path) >= Len(parent) + 2
        BY <3>1 DEF SeenAbove
      <3>4. Len(parent) \in Nat
        OBVIOUS
      <3>5. Len(path) # m
        <4> HIDE DEF path
        <4> QED BY <3>3, <3>4
      <3> QED BY <3>2, <3>3, <3>5
    <2>6. x = Top(ts, j, parent) => x.path[m] = ts[j].name /\ Len(x.path) = m
      BY TopHas
    <2>7. y = Top(ts, k, parent) => y.path[m] = ts[k].name /\ Len(y.path) = m
      BY TopHas
    <2>8. j = k
      <3>1. ts[j].name = ts[k].name
        BY <2>2, <2>3, <2>4, <2>5, <2>6, <2>7
      <3> QED BY <3>1, SiblingsDistinct
    <2>9. CASE x = Top(ts, j, parent)
      BY <2>3, <2>5, <2>6, <2>8, <2>9
    <2>10. ASSUME NEW u \in Under(n, ts[j], parent), x = Sunk(j, u) PROVE x = y
      <3>1. PICK v \in Under(n, ts[k], parent) : y = Sunk(k, v)
        BY <2>3, <2>4, <2>7, <2>10
      <3>2. u.path = v.path
        BY <2>4, <2>5, <2>10, <3>1
      <3>3. Distinct(Under(n, ts[j], parent))
        BY DistinctDown
      <3>4. ts[j].topics \in Seq(TopicsTo[n]) /\ FullName(parent, ts[j]) \in Seq(Name)
        <4>1. ts[j] \in TopicsTo[n + 1]
          OBVIOUS
        <4> QED BY <4>1, TopicIs
      <3>5. PathsApart(Under(n, ts[j], parent))
        BY <2>1, <3>3, <3>4 DEF Tells, Under
      <3>6. u = v
        BY <2>8, <3>1, <3>2, <3>5 DEF PathsApart
      <3> QED BY <2>8, <2>10, <3>1, <3>6
    <2> QED BY <2>2, <2>9, <2>10
  <1>3. Nat \subseteq Good
    <2> HIDE DEF Good
    <2> QED BY <1>1, <1>2, SetInduction
  <1> QED BY <1>3

\* A set of naturals up to a bound, if not empty, has a greatest element.
LEMMA Greatest ==
    ASSUME NEW n \in Nat, NEW S \in SUBSET (1 .. n), S # {}
    PROVE  \E k \in S : \A j \in S : j <= k
  <1> DEFINE Good == {m \in Nat : \A T \in SUBSET (1 .. m) :
                        T # {} => \E k \in T : \A j \in T : j <= k}
  <1>1. 0 \in Good
    <2>1. 1 .. 0 = {}
      OBVIOUS
    <2> QED BY <2>1
  <1>2. ASSUME NEW m \in Nat, m \in Good PROVE m + 1 \in Good
    <2> SUFFICES ASSUME NEW T \in SUBSET (1 .. m + 1), T # {}
                 PROVE  \E k \in T : \A j \in T : j <= k
      OBVIOUS
    <2>1. CASE m + 1 \in T
      <3>1. \A j \in T : j <= m + 1
        OBVIOUS
      <3> QED BY <2>1, <3>1
    <2>2. CASE m + 1 \notin T
      <3>1. T \in SUBSET (1 .. m)
        BY <2>2
      <3> QED BY <1>2, <3>1
    <2> QED BY <2>1, <2>2
  <1>3. Nat \subseteq Good
    <2> HIDE DEF Good
    <2> QED BY <1>1, <1>2, SetInduction
  <1> QED BY <1>3

\* A later entry takes the place of an earlier one of the same name: the map
\* holds an entry of the list for every name in it, and nothing else.
LEMMA MapIs ==
    ASSUME NEW ts \in Seq(TopicsTo[Depth])
    PROVE  LET list == childless[Depth][Tree(ts, <<>>)]
               map  == makeTopicList(ts, <<>>, <<>>)
           IN  /\ list \in Seq(Entries)
               /\ DOMAIN map = {e.name : e \in ToSet(list)}
               /\ \A n \in DOMAIN map : [name |-> n, topic |-> map[n]] \in ToSet(list)
               /\ IsFiniteSet(DOMAIN map)
  <1> DEFINE list == childless[Depth][Tree(ts, <<>>)]
             map  == makeTopicList(ts, <<>>, <<>>)
             At(n)   == {k \in DOMAIN list : list[k].name = n}
             last(n) == CHOOSE k \in At(n) : \A j \in At(n) : j <= k
             D == {list[k].name : k \in DOMAIN list}
  <1>1. list \in Seq(Entries)
    <2>1. Depth \in Nat /\ Depth <= Depth /\ <<>> \in Seq(Name)
      BY ConfigurationAssumption
    <2> QED BY <2>1, ChildlessType DEF Listed
  <1>2. map = [n \in D |-> IF At(n) = {} THEN (<<>>)[n] ELSE list[last(n)].topic]
    <2>1. map = [n \in DOMAIN <<>> \cup D |->
                    IF At(n) = {} THEN (<<>>)[n] ELSE list[last(n)].topic]
      BY DEF makeTopicList, Tree
    <2>2. DOMAIN <<>> \cup D = D
      OBVIOUS
    <2> HIDE DEF D, At, last, list
    <2> QED BY <2>1, <2>2
  <1> HIDE DEF list, map
  <1>3. D = {e.name : e \in ToSet(list)}
    BY DEF ToSet
  <1>4. ASSUME NEW n \in D PROVE [name |-> n, topic |-> map[n]] \in ToSet(list)
    <2>1. At(n) # {} /\ At(n) \in SUBSET (1 .. Len(list)) /\ Len(list) \in Nat
      BY <1>1
    <2>2. \E k \in At(n) : \A j \in At(n) : j <= k
      <3> HIDE DEF At
      <3> QED BY <2>1, Greatest
    <2>3. last(n) \in At(n)
      <3> HIDE DEF At
      <3> QED BY <2>2
    <2>4. map[n] = list[last(n)].topic
      <3> HIDE DEF At, last, D
      <3> QED BY <1>2, <2>1
    <2>5. last(n) \in DOMAIN list /\ list[last(n)].name = n
      BY <2>3
    <2> HIDE DEF last
    <2>6. list[last(n)] \in Entries /\ list[last(n)] \in ToSet(list)
      BY <1>1, <2>5 DEF ToSet
    <2>7. list[last(n)] = [name |-> n, topic |-> map[n]]
      BY <2>4, <2>5, <2>6 DEF Entries
    <2> QED BY <2>6, <2>7
  <1>5. IsFiniteSet(D)
    <2> DEFINE f == [k \in 1 .. Len(list) |-> list[k].name]
    <2>1. Len(list) \in Int /\ DOMAIN list = 1 .. Len(list)
      BY <1>1
    <2>2. f \in Surjection(1 .. Len(list), D)
      BY <2>1 DEF Surjection
    <2>3. IsFiniteSet(1 .. Len(list))
      BY <2>1, FS_Interval
    <2> QED BY <2>2, <2>3, FS_Surjection
  <1>6. DOMAIN map = D
    BY <1>2
  <1> HIDE DEF D
  <1> QED BY <1>1, <1>3, <1>4, <1>5, <1>6 DEF list, map

\* What the map holds of a tree: every childless topic's name, each with a
\* topic of that name.
Held(ts) ==
    LET B   == Bare(Placed[Depth][Tree(ts, <<>>)])
        map == makeTopicList(ts, <<>>, <<>>)
    IN  /\ DOMAIN map = {x.path : x \in B}
        /\ \A n \in DOMAIN map : \E x \in B : x.path = n /\ x.topic = map[n]

LEMMA NamesHeld ==
    ASSUME NEW ts \in Seq(TopicsTo[Depth])
    PROVE  Held(ts)
  <1> DEFINE B    == Bare(Placed[Depth][Tree(ts, <<>>)])
             list == childless[Depth][Tree(ts, <<>>)]
             map  == makeTopicList(ts, <<>>, <<>>)
             D    == DOMAIN map
  <1>1. Depth \in Nat /\ Depth <= Depth /\ <<>> \in Seq(Name)
    BY ConfigurationAssumption
  <1>2. ToSet(list) = {Entry(x) : x \in B}
    BY <1>1, ChildlessAreBare DEF ListsBare
  <1>3. /\ D = {e.name : e \in ToSet(list)}
        /\ \A n \in D : [name |-> n, topic |-> map[n]] \in ToSet(list)
    BY MapIs
  <1> HIDE DEF B, list, map
  <1>4. D = {x.path : x \in B}
    <2>1. {e.name : e \in {Entry(x) : x \in B}} = {x.path : x \in B}
      <3>1. \A x : Entry(x).name = x.path
        BY DEF Entry
      <3> QED BY <3>1
    <2> QED BY <1>2, <1>3, <2>1
  <1>5. ASSUME NEW n \in D PROVE \E x \in B : x.path = n /\ x.topic = map[n]
    <2>1. PICK x \in B : [name |-> n, topic |-> map[n]] = Entry(x)
      BY <1>2, <1>3
    <2> QED BY <2>1 DEF Entry
  <1> QED BY <1>4, <1>5 DEF Held, B, map

\* With distinct siblings the map holds every childless topic, each in an
\* entry of its own.
HeldApart(ts) ==
    LET B   == Bare(Placed[Depth][Tree(ts, <<>>)])
        map == makeTopicList(ts, <<>>, <<>>)
    IN  /\ \A x \in B : map[x.path] = x.topic
        /\ Cardinality(DOMAIN map) = Cardinality(B)

LEMMA NothingLost ==
    ASSUME NEW ts \in Seq(TopicsTo[Depth]), Distinct(Placed[Depth][Tree(ts, <<>>)])
    PROVE  HeldApart(ts)
  <1> DEFINE S   == Placed[Depth][Tree(ts, <<>>)]
             B   == Bare(S)
             map == makeTopicList(ts, <<>>, <<>>)
             D   == DOMAIN map
  <1>1. Depth \in Nat /\ Depth <= Depth /\ <<>> \in Seq(Name)
    BY ConfigurationAssumption
  <1>2. \A x, y \in B : x.path = y.path => x = y
    <2>1. PathsApart(S)
      BY <1>1, PathsTell DEF Tells
    <2> QED BY <2>1 DEF PathsApart, Bare
  <1>3. IsFiniteSet(D)
    BY MapIs
  <1>4. /\ D = {x.path : x \in B}
        /\ \A n \in D : \E x \in B : x.path = n /\ x.topic = map[n]
    BY NamesHeld DEF Held
  <1> HIDE DEF S, B, map
  <1>5. ASSUME NEW x \in B PROVE x.path \in D /\ map[x.path] = x.topic
    <2>1. x.path \in D
      BY <1>4
    <2>2. PICK y \in B : y.path = x.path /\ y.topic = map[x.path]
      BY <1>4, <2>1
    <2> QED BY <1>2, <2>1, <2>2
  <1>6. Cardinality(D) = Cardinality(B)
    <2> DEFINE f == [n \in D |-> CHOOSE x \in B : x.path = n]
    <2>1. ASSUME NEW n \in D PROVE f[n] \in B /\ f[n].path = n
      BY <1>4
    <2>2. f \in [D -> B]
      BY <2>1
    <2>3. \A m, n \in D : f[m] = f[n] => m = n
      BY <2>1
    <2>4. ASSUME NEW x \in B PROVE \E n \in D : f[n] = x
      BY <1>2, <1>5, <2>1
    <2> HIDE DEF f, D
    <2>5. f \in Bijection(D, B)
      BY <2>2, <2>3, <2>4 DEF Bijection, Injection, IsInjective, Surjection
    <2> QED BY <1>3, <2>5, FS_Bijection DEF ExistsBijection
  <1> QED BY <1>5, <1>6 DEF HeldApart, S, B, map

---------------------------------------------------------------------------
(* What is below a device carries its serial.                              *)

\* No places in a tree of no topics.
LEMMA PlacedEmpty ==
    ASSUME NEW n \in Nat, n <= Depth, NEW parent \in Seq(Name)
    PROVE  Placed[n][Tree(<<>>, parent)] = {}
  <1>1. CASE n = 0
    <2>1. <<>> \in Seq(TopicsTo[0])
      OBVIOUS
    <2> QED BY <1>1, <2>1, PlacedNone
  <1>2. CASE n # 0
    <2>1. PICK m \in Nat : n = m + 1
      <3>1. n - 1 \in Nat /\ n = (n - 1) + 1
        BY <1>2
      <3> QED BY <3>1
    <2>2. <<>> \in Seq(TopicsTo[m + 1])
      OBVIOUS
    <2>3. \A x : x \in Placed[m + 1][Tree(<<>>, parent)] <=>
                   \E k \in DOMAIN <<>> :
                       \/ x = Top(<<>>, k, parent)
                       \/ \E y \in Under(m, <<>>[k], parent) : x = Sunk(k, y)
      BY <2>1, <2>2, PlacedUp
    <2>4. DOMAIN <<>> = {}
      OBVIOUS
    <2> QED BY <2>1, <2>3, <2>4
  <1> QED BY <1>1, <1>2

\* The topics in a tree are its topics and those below them.
LEMMA TopicsAre ==
    ASSUME NEW n \in Nat, n + 1 <= Depth, NEW ts \in Seq(TopicsTo[n + 1]),
           NEW parent \in Seq(Name)
    PROVE  {x.topic : x \in Placed[n + 1][Tree(ts, parent)]} =
             UNION {{t} \cup {y.topic : y \in Under(n, t, parent)} : t \in ToSet(ts)}
  <1>0. \A x : x \in Placed[n + 1][Tree(ts, parent)] <=>
               \E k \in DOMAIN ts : \/ x = Top(ts, k, parent)
                                    \/ \E y \in Under(n, ts[k], parent) : x = Sunk(k, y)
    BY PlacedUp
  <1> DEFINE S == Placed[n + 1][Tree(ts, parent)]
             In(t) == {t} \cup {y.topic : y \in Under(n, t, parent)}
  <1>1. ASSUME NEW x \in S PROVE \E k \in DOMAIN ts : x.topic \in In(ts[k])
    <2>1. PICK k \in DOMAIN ts : \/ x = Top(ts, k, parent)
                                 \/ \E y \in Under(n, ts[k], parent) : x = Sunk(k, y)
      BY <1>0
    <2>2. CASE x = Top(ts, k, parent)
      BY <2>2 DEF Top
    <2>3. ASSUME NEW y \in Under(n, ts[k], parent), x = Sunk(k, y) PROVE x.topic \in In(ts[k])
      <3>1. SeenAbove(n, ts, parent, k, y)
        BY SunkHas
      <3> QED BY <2>3, <3>1 DEF SeenAbove
    <2> HIDE DEF In
    <2> QED BY <2>1, <2>2, <2>3
  <1>2. ASSUME NEW k \in DOMAIN ts, NEW t \in In(ts[k]) PROVE \E x \in S : t = x.topic
    <2>1. CASE t = ts[k]
      BY <2>1, TopHas
    <2>2. ASSUME NEW y \in Under(n, ts[k], parent), t = y.topic PROVE \E x \in S : t = x.topic
      <3>1. SeenAbove(n, ts, parent, k, y)
        BY SunkHas
      <3>2. Sunk(k, y) \in S /\ Sunk(k, y).topic = y.topic
        BY <3>1 DEF SeenAbove
      <3> QED BY <2>2, <3>2
    <2> QED BY <1>2, <2>1, <2>2
  <1> HIDE DEF S, In
  <1>3. \A t : t \in {x.topic : x \in S} <=> \E k \in DOMAIN ts : t \in In(ts[k])
    BY <1>1, <1>2
  <1>4. \A t : t \in UNION {In(u) : u \in ToSet(ts)} <=> \E k \in DOMAIN ts : t \in In(ts[k])
    BY DEF ToSet
  <1>5. {x.topic : x \in S} = UNION {In(u) : u \in ToSet(ts)}
    BY <1>3, <1>4
  <1> QED BY <1>5 DEF S, In

\* A topic's children inherit from it.
Bequeaths(t) ==
    \A u \in ToSet(t.topics) : t.serial # "" /\ u.devices # {} => u.serial = t.serial

AllBequeath(n, ts) ==
    \A parent \in Seq(Name) : \A x \in Placed[n][Tree(ts, parent)] : Bequeaths(x.topic)

\* What a call loads inherits from the topic above, and below it all do.
Inherits(n) ==
    \A c \in Calls(n) : c.p = "device" /\ load_layers[n][c].ok =>
        /\ \A t \in ToSet(load_layers[n][c].topics) :
             c.preTopic.serial # "" /\ t.devices # {} => t.serial = c.preTopic.serial
        /\ AllBequeath(n, load_layers[n][c].topics)

\* A topic with devices is one of a leaf layer, which takes over.
LEMMA MadeInherits ==
    ASSUME NEW n \in Nat, n + 1 <= Depth, NEW c \in Calls(n + 1), c.p = "device",
           NEW layer \in Layer(LayersTo[n]), ~GivesUp(c.p, layer, c.tokens, c.doc),
           NEW m \in ToSet(Made(c, layer)), c.preTopic.serial # "", m.topic.devices # {}
    PROVE  m.topic.serial = c.preTopic.serial
  <1>1. ToSet(Made(c, layer)) =
          UNION {{Make(c, layer, group, j) : j \in DOMAIN group} :
                    group \in ToSet(Groups(c.p, layer, c.tokens, c.doc))}
    <2>1. /\ c.p \in Program /\ c.tokens \in Seq(Name) /\ c.doc \in Documents
          /\ c.preTopic \in [serial : Serial]
      BY DEF Calls
    <2>2. MadeOf(c, layer)
      BY <2>1, MadeIs
    <2> QED BY <2>2 DEF MadeOf
  <1>2. \E group : \E j \in DOMAIN group : m = Make(c, layer, group, j)
    BY <1>1
  <1>3. PICK group : \E i \in DOMAIN group : m = Make(c, layer, group, i)
    BY <1>2
  <1>6. PICK j \in DOMAIN group : m = Make(c, layer, group, j)
    BY <1>3
  <1>7. m.topic = NewTopic(c.p, layer, group[j], c.preTopic)
    BY <1>6, Zenon DEF Make
  <1>8. ASSUME NEW sibling, NEW preTopic
        PROVE  /\ NewTopic("device", layer, sibling, preTopic).serial =
                    Inherited(layer, sibling.serial, preTopic)
               /\ NewTopic("device", layer, sibling, preTopic).devices # {} => IsLeaf(layer)
    BY DEF NewTopic
  <1> DEFINE t == NewTopic("device", layer, group[j], c.preTopic)
  <1>9. t.serial = Inherited(layer, group[j].serial, c.preTopic) /\ (t.devices # {} => IsLeaf(layer))
    BY <1>8
  <1>10. m.topic = t
    BY <1>7
  <1> HIDE DEF t
  <1>4. IsLeaf(layer)
    BY <1>9, <1>10
  <1>5. m.topic.serial = Inherited(layer, group[j].serial, c.preTopic)
    BY <1>9, <1>10
  <1> QED BY <1>4, <1>5 DEF Inherited

\* A topic of the call with what is loaded below it.
LEMMA GrownBequeaths ==
    ASSUME NEW n \in Nat, n + 1 <= Depth, Inherits(n), NEW c \in Calls(n + 1),
           c.p = "device", NEW layer \in Layer(LayersTo[n]), NEW m \in Makes,
           Deeper(n, c, layer, m).ok
    PROVE  /\ Bequeaths(Grown(n, c, layer, m))
           /\ AllBequeath(n, Grown(n, c, layer, m).topics)
  <1> DEFINE t == Grown(n, c, layer, m)
  <1>1. t.topics = Deeper(n, c, layer, m).topics /\ t.serial = m.topic.serial
    BY DEF Grown, Makes, Topic
  <1>2. n <= Depth
    BY ConfigurationAssumption
  <1>5. SUFFICES Bequeaths(t) /\ AllBequeath(n, t.topics)
    OBVIOUS
  <1> HIDE DEF t
  <1>3. CASE IsLeaf(layer)
    <2>1. t.topics = <<>>
      BY <1>1, <1>3 DEF Deeper
    <2>2. ToSet(t.topics) = {}
      BY <2>1 DEF ToSet
    <2>3. \A parent \in Seq(Name) : Placed[n][Tree(<<>>, parent)] = {}
      BY <1>2, PlacedEmpty
    <2>4. Bequeaths(t)
      BY <2>2, Zenon DEF Bequeaths
    <2>5. AllBequeath(n, t.topics)
      BY <2>1, <2>3, Zenon DEF AllBequeath
    <2> QED BY <2>4, <2>5
  <1>4. CASE ~IsLeaf(layer)
    <2> DEFINE b == BelowCall(c, layer, m)
    <2>1. Deeper(n, c, layer, m) = load_layers[n][b]
      BY <1>4 DEF Deeper
    <2>2. b \in Calls(n)
      BY <1>4, BelowCallType
    <2>3. b.p = "device" /\ b.preTopic.serial = m.topic.serial
      BY DEF BelowCall, Calls
    <2> HIDE DEF b
    <2>4. /\ \A u \in ToSet(t.topics) : b.preTopic.serial # "" /\ u.devices # {} =>
                                          u.serial = b.preTopic.serial
          /\ AllBequeath(n, t.topics)
      BY <1>1, <2>1, <2>2, <2>3 DEF Inherits
    <2> QED BY <1>1, <2>3, <2>4 DEF Bequeaths
  <1> QED BY <1>3, <1>4

\* Inherits one deeper.
LEMMA InheritsUp ==
    ASSUME NEW n \in Nat, n + 1 <= Depth, Inherits(n), NEW c \in Calls(n + 1),
           c.p = "device", load_layers[n + 1][c].ok
    PROVE  /\ \A t \in ToSet(load_layers[n + 1][c].topics) :
                c.preTopic.serial # "" /\ t.devices # {} => t.serial = c.preTopic.serial
           /\ AllBequeath(n + 1, load_layers[n + 1][c].topics)
  <1> DEFINE ts == load_layers[n + 1][c].topics
  <1>1. CallGives(n, c)
    BY CallGivesAlways
  <1>2. ASSUME NEW t \in ToSet(ts)
        PROVE  \E layer \in Enabled(c.layers), m \in Makes :
                 /\ layer \in Layer(LayersTo[n]) /\ ~GivesUp(c.p, layer, c.tokens, c.doc)
                 /\ m \in ToSet(Made(c, layer)) /\ Deeper(n, c, layer, m).ok
                 /\ t = Grown(n, c, layer, m)
    <2>0. PICK layer \in Enabled(c.layers) :
                 t \in {Grown(n, c, layer, m) : m \in ToSet(Made(c, layer))}
      BY <1>1 DEF CallGives
    <2>1. PICK m \in ToSet(Made(c, layer)) : t = Grown(n, c, layer, m)
      BY <2>0
    <2>2. /\ layer \in Layer(LayersTo[n]) /\ ~GivesUp(c.p, layer, c.tokens, c.doc)
          /\ Made(c, layer) \in Seq(Makes) /\ Deeper(n, c, layer, m).ok
      BY <1>1, <2>1 DEF CallGives
    <2>3. m \in Makes
      BY <2>1, <2>2 DEF ToSet
    <2> QED BY <2>1, <2>2, <2>3
  <1>3. ts \in Seq(TopicsTo[n + 1])
    BY <1>1 DEF CallGives, Loads
  <1> HIDE DEF ts
  <1>4. ASSUME NEW t \in ToSet(ts), c.preTopic.serial # "", t.devices # {}
        PROVE  t.serial = c.preTopic.serial
    <2>1. PICK layer \in Enabled(c.layers), m \in Makes :
                 /\ layer \in Layer(LayersTo[n]) /\ ~GivesUp(c.p, layer, c.tokens, c.doc)
                 /\ m \in ToSet(Made(c, layer)) /\ Deeper(n, c, layer, m).ok
                 /\ t = Grown(n, c, layer, m)
      BY <1>2
    <2>2. t.devices = m.topic.devices /\ t.serial = m.topic.serial
      BY <2>1 DEF Grown, Makes, Topic
    <2> QED BY <1>4, <2>1, <2>2, MadeInherits
  <1>5. ASSUME NEW t \in ToSet(ts) PROVE Bequeaths(t) /\ AllBequeath(n, t.topics)
    BY <1>2, GrownBequeaths
  <1>6. ASSUME NEW parent \in Seq(Name), NEW x \in Placed[n + 1][Tree(ts, parent)]
        PROVE  Bequeaths(x.topic)
    <2> DEFINE S == Placed[n + 1][Tree(ts, parent)]
    <2>0. {z.topic : z \in S} =
            UNION {{t} \cup {y.topic : y \in Under(n, t, parent)} : t \in ToSet(ts)}
      BY <1>3, TopicsAre
    <2>1. x.topic \in UNION {{t} \cup {y.topic : y \in Under(n, t, parent)} : t \in ToSet(ts)}
      <3>1. x \in S
        OBVIOUS
      <3> HIDE DEF S
      <3>2. x.topic \in {z.topic : z \in S}
        BY <3>1
      <3> QED BY <2>0, <3>2, Zenon
    <2>2. PICK t \in ToSet(ts) : x.topic \in {t} \cup {y.topic : y \in Under(n, t, parent)}
      BY <2>1
    <2>3. CASE x.topic = t
      BY <1>5, <2>3
    <2>4. ASSUME NEW y \in Under(n, t, parent), x.topic = y.topic PROVE Bequeaths(x.topic)
      <3>1. t \in TopicsTo[n + 1]
        BY <1>3, <2>2 DEF ToSet
      <3>2. FullName(parent, t) \in Seq(Name)
        BY <3>1, TopicIs
      <3> QED BY <1>5, <2>4, <3>2 DEF AllBequeath, Under
    <2> QED BY <2>2, <2>3, <2>4
  <1> QED BY <1>4, <1>6 DEF AllBequeath, ts

\* Inherits at every depth, by induction.
LEMMA InheritsAlways == \A n \in Nat : n <= Depth => Inherits(n)
  <1> DEFINE Good == {n \in Nat : n <= Depth => Inherits(n)}
  <1>1. 0 \in Good
    <2> SUFFICES ASSUME NEW c \in Calls(0)
                 PROVE  /\ ToSet(load_layers[0][c].topics) = {}
                        /\ AllBequeath(0, load_layers[0][c].topics)
      BY DEF Inherits
    <2>1. load_layers[0][c].topics = <<>>
      BY LoadNothing DEF Nothing
    <2>2. 0 \in Nat /\ 0 <= Depth
      BY ConfigurationAssumption
    <2> QED BY <2>1, <2>2, PlacedEmpty DEF AllBequeath, ToSet
  <1>2. ASSUME NEW n \in Nat, n \in Good PROVE n + 1 \in Good
    <2> SUFFICES ASSUME n + 1 <= Depth PROVE Inherits(n + 1)
      OBVIOUS
    <2>1. Inherits(n)
      BY <1>2, ConfigurationAssumption
    <2> QED BY <2>1, InheritsUp DEF Inherits
  <1>3. Nat \subseteq Good
    <2> HIDE DEF Good
    <2> QED BY <1>1, <1>2, SetInduction
  <1> QED BY <1>3

---------------------------------------------------------------------------
(* The program's state.                                                    *)

\* Two lists of topics that all bequeath, one after the other.
LEMMA JoinBequeath ==
    ASSUME NEW n \in Nat, n <= Depth, NEW s \in Seq(TopicsTo[n]), NEW t \in Seq(TopicsTo[n]),
           AllBequeath(n, s), AllBequeath(n, t)
    PROVE  AllBequeath(n, s \o t)
  <1> DEFINE r == s \o t
  <1>1. r \in Seq(TopicsTo[n]) /\ ToSet(r) = ToSet(s) \cup ToSet(t)
    BY JoinElements
  <1> HIDE DEF r
  <1> SUFFICES ASSUME NEW parent \in Seq(Name), NEW x \in Placed[n][Tree(r, parent)]
               PROVE  Bequeaths(x.topic)
    BY DEF AllBequeath, r
  <1>2. CASE n = 0
    BY <1>1, <1>2, PlacedNone
  <1>3. CASE n # 0
    <2>1. PICK m \in Nat : n = m + 1
      <3>1. n - 1 \in Nat /\ n = (n - 1) + 1
        BY <1>3
      <3> QED BY <3>1
    <2> DEFINE In(u) == {u} \cup {y.topic : y \in Under(m, u, parent)}
               Of(v) == {y.topic : y \in Placed[n][Tree(v, parent)]}
    <2>2. \A v \in Seq(TopicsTo[n]) : Of(v) = UNION {In(u) : u \in ToSet(v)}
      BY <2>1, TopicsAre
    <2>3. x.topic \in Of(r)
      OBVIOUS
    <2>4. \A y : y \in Of(s) \/ y \in Of(t) => Bequeaths(y)
      BY DEF AllBequeath
    <2> HIDE DEF In, Of
    <2>5. x.topic \in Of(s) \/ x.topic \in Of(t)
      <3>1. x.topic \in UNION {In(u) : u \in ToSet(s) \cup ToSet(t)}
        BY <1>1, <2>2, <2>3
      <3>2. x.topic \in UNION {In(u) : u \in ToSet(s)} \/ x.topic \in UNION {In(u) : u \in ToSet(t)}
        BY <3>1
      <3> QED BY <2>2, <3>2
    <2> QED BY <2>4, <2>5
  <1> QED BY <1>2, <1>3

\* The call of one turn of the loop in main.
TopCall(p, i) ==
    [p |-> p, layers |-> <<configuration.layers[i]>>, doc |-> configuration.doc[p],
     preTopic |-> NoTopic, tokens |-> <<>>]

Typing ==
    /\ configuration \in Configurations
    /\ phase \in [Program -> {"layers", "up", "exit"}]
    /\ li \in [Program -> 0 .. Len(configuration.layers)]
    /\ gTopics \in [Program -> Seq(TopicsTo[Depth])]

\* The map is made of all the topics, once, on the way up.
MapMade ==
    gTopicmap = [p \in Program |-> IF phase[p] = "up"
                                   THEN makeTopicList(gTopics[p], <<>>, <<>>) ELSE <<>>]

\* The inductive invariant of the types, the serials and the map.
TreeInv ==
    /\ Typing
    /\ MapMade
    /\ AllBequeath(Depth, gTopics["device"])

\* The call of one turn is one for layers at most Depth deep ...
LEMMA TopCallType ==
    ASSUME configuration \in Configurations, NEW p \in Program,
           NEW i \in 1 .. Len(configuration.layers)
    PROVE  TopCall(p, i) \in Calls(Depth)
  <1>1. /\ configuration.layers \in Seq(LayersTo[Depth])
        /\ configuration.doc \in [Program -> Documents]
    BY ConfigurationAssumption
  <1>2. configuration.layers[i] \in LayersTo[Depth]
    BY <1>1
  <1>3. <<configuration.layers[i]>> \in Seq(LayersTo[Depth])
    BY <1>2, OneType
  <1>4. NoTopic \in [serial : Serial]
    BY DEF NoTopic, Serial
  <1>5. <<>> \in Seq(Name)
    OBVIOUS
  <1>6. configuration.doc[p] \in Documents
    BY <1>1
  <1> QED BY <1>3, <1>4, <1>5, <1>6 DEF TopCall, Calls

\* ... and gives topics as deep.
LEMMA TopLoads ==
    ASSUME configuration \in Configurations, NEW p \in Program,
           NEW i \in 1 .. Len(configuration.layers)
    PROVE  load_layers[Depth][TopCall(p, i)] \in Loads(TopicsTo[Depth])
  <1>1. Depth \in Nat /\ Depth <= Depth
    BY ConfigurationAssumption
  <1> QED BY <1>1, TopCallType, LoadType DEF Typed

\* TreeInv holds at first ...
LEMMA TreeInit == Init => TreeInv
  <1> SUFFICES ASSUME Init PROVE TreeInv
    OBVIOUS
  <1>1. configuration.layers \in Seq(LayersTo[Depth])
    BY ConfigurationAssumption DEF Init
  <1>2. Typing
    <2>1. Len(configuration.layers) \in Nat
      BY <1>1
    <2>2. 0 \in 0 .. Len(configuration.layers)
      BY <2>1
    <2>3. <<>> \in Seq(TopicsTo[Depth])
      OBVIOUS
    <2> QED BY <2>2, <2>3 DEF Init, Typing
  <1>3. MapMade
    BY DEF Init, MapMade
  <1>4. AllBequeath(Depth, gTopics["device"])
    <2>1. gTopics["device"] = <<>>
      BY DEF Init, Program
    <2>2. \A parent \in Seq(Name) : Placed[Depth][Tree(<<>>, parent)] = {}
      BY PlacedEmpty, ConfigurationAssumption
    <2> QED BY <2>1, <2>2 DEF AllBequeath
  <1> QED BY <1>2, <1>3, <1>4 DEF TreeInv

\* ... after a turn of the loop ...
LEMMA TreeLoads == ASSUME TreeInv, NEW p \in Program, LoadLayer(p) PROVE TreeInv'
  <1> DEFINE i == li[p] + 1
             loaded == load_layers[Depth][TopCall(p, i)]
  <1>1. configuration \in Configurations /\ configuration.layers \in Seq(LayersTo[Depth])
    BY ConfigurationAssumption DEF TreeInv, Typing
  <1>2. i \in 1 .. Len(configuration.layers) /\ li[p] \in 0 .. Len(configuration.layers)
    <2>1. li[p] \in 0 .. Len(configuration.layers) /\ Len(configuration.layers) \in Nat
      BY <1>1 DEF TreeInv, Typing
    <2> QED BY <2>1 DEF LoadLayer
  <1>3. loaded \in Loads(TopicsTo[Depth])
    BY <1>1, <1>2, TopLoads
  <1>4. /\ phase[p] = "layers"
        /\ IF loaded.ok
           THEN /\ gTopics' = [gTopics EXCEPT ![p] = @ \o loaded.topics]
                /\ li' = [li EXCEPT ![p] = @ + 1]
                /\ UNCHANGED phase
           ELSE /\ phase' = [phase EXCEPT ![p] = "exit"]
                /\ UNCHANGED <<gTopics, li>>
        /\ UNCHANGED <<configuration, gTopicmap>>
    BY DEF LoadLayer, TopCall
  <1>5. gTopics[p] \in Seq(TopicsTo[Depth])
    BY DEF TreeInv, Typing
  <1>6. Inherits(Depth) /\ TopCall(p, i) \in Calls(Depth)
    BY <1>1, <1>2, TopCallType, InheritsAlways, ConfigurationAssumption
  <1>7. TopCall(p, i).p = p
    BY DEF TopCall
  <1>8. loaded.ok /\ p = "device" => AllBequeath(Depth, loaded.topics)
    BY <1>6, <1>7 DEF Inherits
  <1> HIDE DEF loaded
  <1>9. CASE ~loaded.ok
    <2>1. /\ phase' = [phase EXCEPT ![p] = "exit"]
          /\ UNCHANGED <<configuration, li, gTopics, gTopicmap>>
      BY <1>4, <1>9
    <2>2. Typing'
      BY <2>1 DEF TreeInv, Typing
    <2>3. MapMade'
      BY <1>4, <2>1 DEF TreeInv, Typing, MapMade
    <2>4. AllBequeath(Depth, gTopics["device"])'
      BY <2>1 DEF TreeInv
    <2> QED BY <2>2, <2>3, <2>4 DEF TreeInv
  <1>10. CASE loaded.ok
    <2>1. /\ gTopics' = [gTopics EXCEPT ![p] = @ \o loaded.topics]
          /\ li' = [li EXCEPT ![p] = @ + 1]
          /\ UNCHANGED <<configuration, phase, gTopicmap>>
      BY <1>4, <1>10
    <2>2. gTopics[p] \o loaded.topics \in Seq(TopicsTo[Depth])
      <3>1. loaded.topics \in Seq(TopicsTo[Depth])
        BY <1>3 DEF Loads
      <3> QED BY <1>5, <3>1, JoinElements
    <2>3. Typing'
      <3>1. li[p] + 1 \in 0 .. Len(configuration.layers)
        BY <1>2
      <3> QED BY <2>1, <2>2, <3>1 DEF TreeInv, Typing
    <2>4. MapMade'
      BY <1>4, <2>1 DEF TreeInv, Typing, MapMade
    <2>5. AllBequeath(Depth, gTopics'["device"])
      <3>1. CASE p = "device"
        <4>1. gTopics'["device"] = gTopics["device"] \o loaded.topics
          BY <2>1, <3>1 DEF TreeInv, Typing, Program
        <4>2. AllBequeath(Depth, gTopics["device"]) /\ AllBequeath(Depth, loaded.topics)
          BY <1>8, <1>10, <3>1 DEF TreeInv
        <4>3. gTopics["device"] \in Seq(TopicsTo[Depth]) /\ loaded.topics \in Seq(TopicsTo[Depth])
          BY <1>3, <1>5, <3>1 DEF Loads
        <4>4. Depth \in Nat /\ Depth <= Depth
          BY ConfigurationAssumption
        <4>5. AllBequeath(Depth, gTopics["device"] \o loaded.topics)
          BY <4>2, <4>3, <4>4, JoinBequeath
        <4> QED BY <4>1, <4>5
      <3>2. CASE p # "device"
        <4>1. gTopics'["device"] = gTopics["device"]
          BY <2>1, <3>2 DEF TreeInv, Typing, Program
        <4> QED BY <4>1 DEF TreeInv
      <3> QED BY <3>1, <3>2
    <2>6. AllBequeath(Depth, gTopics["device"])'
      BY <2>5
    <2> QED BY <2>3, <2>4, <2>6 DEF TreeInv
  <1> QED BY <1>9, <1>10

\* ... and after the map is made.
LEMMA TreeMade == ASSUME TreeInv, NEW p \in Program, MakeTopicList(p) PROVE TreeInv'
  <1>1. /\ phase[p] = "layers"
        /\ gTopicmap' = [gTopicmap EXCEPT ![p] = makeTopicList(gTopics[p], <<>>, @)]
        /\ phase' = [phase EXCEPT ![p] = "up"]
        /\ UNCHANGED <<configuration, li, gTopics>>
    BY DEF MakeTopicList
  <1>2. Typing'
    BY <1>1 DEF TreeInv, Typing
  <1>3. MapMade'
    <2>1. gTopicmap[p] = <<>>
      BY <1>1 DEF TreeInv, MapMade
    <2>2. gTopicmap' = [gTopicmap EXCEPT ![p] = makeTopicList(gTopics[p], <<>>, <<>>)]
      BY <1>1, <2>1
    <2> QED BY <1>1, <2>2 DEF TreeInv, Typing, MapMade
  <1>4. AllBequeath(Depth, gTopics["device"])'
    BY <1>1 DEF TreeInv
  <1> QED BY <1>2, <1>3, <1>4 DEF TreeInv

\* So TreeInv is an invariant.
LEMMA TreeCorrect == Spec => []TreeInv
  <1>1. TreeInv /\ [Next]_vars => TreeInv'
    <2> SUFFICES ASSUME TreeInv, [Next]_vars PROVE TreeInv'
      OBVIOUS
    <2>1. CASE UNCHANGED vars
      BY <2>1 DEF vars, TreeInv, Typing, MapMade
    <2>2. CASE Next
      BY <2>2, TreeLoads, TreeMade DEF Next
    <2> QED BY <2>1, <2>2
  <1> QED BY <1>1, TreeInit, PTL DEF Spec

\* The map holds entries of the list, so its topics are typed as the tree is.
LEMMA TypeOKHolds == TreeInv => TypeOK
  <1> SUFFICES ASSUME TreeInv, NEW p \in Program, NEW n \in DOMAIN gTopicmap[p]
               PROVE  n \in Seq(Name) /\ gTopicmap[p][n] \in TopicsTo[Depth]
    BY DEF TreeInv, Typing, TypeOK
  <1> DEFINE ts   == gTopics[p]
             list == childless[Depth][Tree(ts, <<>>)]
             map  == makeTopicList(ts, <<>>, <<>>)
  <1>1. phase[p] = "up" /\ gTopicmap[p] = map
    <2>1. gTopicmap[p] = IF phase[p] = "up" THEN map ELSE <<>>
      BY DEF TreeInv, MapMade
    <2>2. gTopicmap[p] # <<>>
      OBVIOUS
    <2> QED BY <2>1, <2>2
  <1>2. ts \in Seq(TopicsTo[Depth])
    BY DEF TreeInv, Typing
  <1>3. list \in Seq(Entries) /\ \A m \in DOMAIN map : [name |-> m, topic |-> map[m]] \in ToSet(list)
    BY <1>2, MapIs
  <1> HIDE DEF list, map
  <1>4. [name |-> n, topic |-> map[n]] \in Entries
    BY <1>1, <1>3 DEF ToSet
  <1> QED BY <1>1, <1>4 DEF Entries

\* What is loaded is typed, and a device topic starts at a sequence that is
\* no negative number, whatever Sequence says (setNextSequence in load_layer).
THEOREM TopicTreeTypeCorrect == Spec => []TypeOK
  BY TreeCorrect, TypeOKHolds, PTL

\* A topic right below a device carries the device's serial, at any depth and
\* for any configuration (preTopic in load_layer).
THEOREM SerialsAreInherited == Spec => []SerialInherited
  <1>1. TreeInv => SerialInherited
    <2> SUFFICES ASSUME TreeInv PROVE SerialInherited
      OBVIOUS
    <2>1. AllTopics("device") = Placed[Depth][Tree(gTopics["device"], <<>>)]
      BY DEF AllTopics, Tree
    <2>2. <<>> \in Seq(Name)
      OBVIOUS
    <2>3. \A x \in AllTopics("device") : Bequeaths(x.topic)
      BY <2>1, <2>2 DEF TreeInv, AllBequeath
    <2> QED BY <2>3 DEF Bequeaths, SerialInherited
  <1> QED BY <1>1, TreeCorrect, PTL

\* makeTopicList keeps the full name of every childless topic, with a topic of that
\* name, and makes up none; with distinct names among siblings it keeps every
\* childless topic, each in an entry of its own.
THEOREM NoTopicIsLost == Spec => []NoTopicLost
  <1>1. TreeInv => NoTopicLost
    <2> SUFFICES ASSUME TreeInv, NEW p \in Program, phase[p] = "up"
                 PROVE  /\ DOMAIN gTopicmap[p] = {x.path : x \in Childless(p)}
                        /\ \A n \in DOMAIN gTopicmap[p] :
                             \E x \in Childless(p) : x.path = n /\ x.topic = gTopicmap[p][n]
                        /\ DistinctNames(p) =>
                             /\ \A x \in Childless(p) : gTopicmap[p][x.path] = x.topic
                             /\ Cardinality(DOMAIN gTopicmap[p]) = Cardinality(Childless(p))
      BY DEF NoTopicLost
    <2> DEFINE ts  == gTopics[p]
               map == makeTopicList(ts, <<>>, <<>>)
               B   == Bare(Placed[Depth][Tree(ts, <<>>)])
    <2>1. AllTopics(p) = Placed[Depth][Tree(ts, <<>>)]
      BY DEF AllTopics, Tree
    <2>2. ts \in Seq(TopicsTo[Depth])
      BY DEF TreeInv, Typing
    <2>3. gTopicmap[p] = map
      BY DEF TreeInv, MapMade
    <2>4. DistinctNames(p) => Distinct(Placed[Depth][Tree(ts, <<>>)])
      BY <2>1 DEF DistinctNames, Distinct
    <2>5. Childless(p) = B
      BY <2>1 DEF Childless, Bare
    <2> HIDE DEF ts
    <2>6. /\ DOMAIN map = {x.path : x \in B}
          /\ \A n \in DOMAIN map : \E x \in B : x.path = n /\ x.topic = map[n]
      BY <2>2, NamesHeld DEF Held
    <2>7. DistinctNames(p) => /\ \A x \in B : map[x.path] = x.topic
                              /\ Cardinality(DOMAIN map) = Cardinality(B)
      BY <2>2, <2>4, NothingLost DEF HeldApart
    <2> HIDE DEF map, B
    <2> QED BY <2>3, <2>5, <2>6, <2>7
  <1> QED BY <1>1, TreeCorrect, PTL

---------------------------------------------------------------------------
(* The loaders against the paths of the configuration.                     *)

\* A list of layers under a path, and the ends of a path a layer leads to.
Way(layers, doc, path) == [layers |-> layers, doc |-> doc, path |-> path]

OnwardFrom(n, layer, doc, q) == PathsBelow[n][Way(Below(layer), doc, q)]

PathEnds(n, layer, doc, q) ==
    IF IsLeaf(layer) THEN {[path |-> q, leaf |-> TRUE]}
    ELSE IF OnwardFrom(n, layer, doc, q) = {} THEN {[path |-> q, leaf |-> FALSE]}
    ELSE OnwardFrom(n, layer, doc, q)

\* The ends of the paths a layer adds.
OnLayer(n, layer, doc, path) ==
    UNION {PathEnds(n, layer, doc, Append(path, name)) : name \in NamesBelow(layer, path, doc)}

\* Paths through a list of layers.
PathsOn(n, layers, doc, path) ==
    PathsBelow[n + 1][Way(layers, doc, path)] =
        UNION {OnLayer(n, layer, doc, path) : layer \in Enabled(layers)}

\* Paths through layers are paths through each of the enabled ones.
LEMMA PathsUp ==
    ASSUME NEW n \in Nat, n + 1 <= Depth, NEW layers \in Seq(LayersTo[n + 1]),
           NEW doc \in Documents, NEW path \in Seq(Name)
    PROVE  PathsOn(n, layers, doc, path)
  <1> DEFINE c == Way(layers, doc, path)
  <1>1. n + 1 \in 0 .. Depth /\ n + 1 # 0 /\ (n + 1) - 1 = n
    BY ConfigurationAssumption
  <1>2. PathsBelow[n + 1] = PathsBelowStep(n + 1, PathsBelow[n])
    BY <1>1, PathsBelowIs
  <1>3. c \in [layers : Seq(LayersTo[n + 1]), doc : Documents, path : Seq(Name)]
    BY DEF Way
  <1>4. c.layers = layers /\ c.doc = doc /\ c.path = path
    BY DEF Way
  <1>5. \A layer, q : [c EXCEPT !.layers = Below(layer), !.path = q] = Way(Below(layer), doc, q)
    <2>1. ASSUME NEW a, NEW q PROVE [c EXCEPT !.layers = a, !.path = q] = Way(a, doc, q)
      <3>1. [c EXCEPT !.layers = a] = [layers |-> a, doc |-> doc, path |-> path]
        BY DEF Way
      <3> DEFINE r == [layers |-> a, doc |-> doc, path |-> path]
      <3>2. [r EXCEPT !.path = q] = Way(a, doc, q)
        BY DEF Way
      <3> HIDE DEF r
      <3> QED BY <3>1, <3>2, Zenon DEF r
    <2> QED BY <2>1
  <1> HIDE DEF c
  <1> DEFINE Under_(layer, q) ==
                 PathsBelow[n][[c EXCEPT !.layers = Below(layer), !.path = q]]
             Ends_(layer, q) ==
                 IF IsLeaf(layer) THEN {[path |-> q, leaf |-> TRUE]}
                 ELSE IF Under_(layer, q) = {} THEN {[path |-> q, leaf |-> FALSE]}
                 ELSE Under_(layer, q)
             On_(layer) == UNION {Ends_(layer, Append(c.path, name)) :
                                     name \in NamesBelow(layer, c.path, c.doc)}
  <1>6. PathsBelow[n + 1][c] = UNION {On_(layer) : layer \in {x \in ToSet(c.layers) : x.Enable}}
    BY <1>1, <1>2, <1>3 DEF PathsBelowStep
  <1>7. \A layer, q : Ends_(layer, q) = PathEnds(n, layer, doc, q)
    BY <1>5 DEF PathEnds, OnwardFrom
  <1> HIDE DEF Ends_
  <1>8. \A layer : On_(layer) = OnLayer(n, layer, doc, path)
    BY <1>4, <1>7 DEF OnLayer
  <1> HIDE DEF On_
  <1>9. PathsBelow[n + 1][c] = UNION {On_(layer) : layer \in Enabled(layers)}
    BY <1>4, <1>6 DEF Enabled
  <1> QED BY <1>8, <1>9 DEF PathsOn, c

\* No layers are nested no deep: there is no path.
LEMMA PathsNone ==
    ASSUME NEW layers \in Seq(LayersTo[0]), NEW doc \in Documents, NEW path \in Seq(Name)
    PROVE  PathsBelow[0][Way(layers, doc, path)] = {}
  <1>1. 0 \in 0 .. Depth
    BY ConfigurationAssumption
  <1>2. PathsBelow[0] = PathsBelowStep(0, PathsBelow[0 - 1])
    BY <1>1, PathsBelowIs
  <1>3. Way(layers, doc, path) \in [layers : Seq(LayersTo[0]), doc : Documents, path : Seq(Name)]
    BY DEF Way
  <1> QED BY <1>2, <1>3 DEF PathsBelowStep

\* What is found in a tree against what the configuration says: the names are
\* the paths, and a device's end of a leaf layer has the device LifeDevice.
Met(p, e, P) ==
    \E y \in P : y.path = e.name /\ (p = "device" /\ y.leaf => "LifeDevice" \in e.topic.devices)

Answers(p, E, P) ==
    /\ P \subseteq [path : Seq(Name), leaf : BOOLEAN]
    /\ {e.name : e \in E} = {y.path : y \in P}
    /\ \A e \in E : Met(p, e, P)

\* All that is in a family of sets.
Gathered(I, S) == UNION {S[i] : i \in I}

\* Answers of parts are an answer of the whole.
LEMMA AnswersUnion ==
    ASSUME NEW p, NEW I, NEW E, NEW P, \A i \in I : Answers(p, E[i], P[i])
    PROVE  Answers(p, Gathered(I, E), Gathered(I, P))
  <1> DEFINE EE == Gathered(I, E)
             PP == Gathered(I, P)
  <1>1. \A x : x \in EE <=> \E i \in I : x \in E[i]
    BY DEF Gathered
  <1>2. \A y : y \in PP <=> \E i \in I : y \in P[i]
    BY DEF Gathered
  <1>3. \A i \in I : \A y \in P[i] : y \in [path : Seq(Name), leaf : BOOLEAN]
    BY DEF Answers
  <1>8. ASSUME NEW i \in I, NEW y \in P[i] PROVE \E x \in E[i] : x.name = y.path
    <2>1. {x.name : x \in E[i]} = {z.path : z \in P[i]}
      BY DEF Answers
    <2> QED BY <2>1
  <1>9. \A i \in I : \A x \in E[i] : Met(p, x, P[i])
    BY DEF Answers
  <1> HIDE DEF EE, PP
  <1>4. PP \subseteq [path : Seq(Name), leaf : BOOLEAN]
    BY <1>2, <1>3
  <1>5. \A y \in PP : \E x \in EE : x.name = y.path
    BY <1>1, <1>2, <1>8
  <1>6. ASSUME NEW x \in EE
        PROVE  Met(p, x, PP)
    <2>1. PICK i \in I : x \in E[i]
      BY <1>1
    <2>2. Met(p, x, P[i])
      BY <1>9, <2>1
    <2>3. \A y \in P[i] : y \in PP
      BY <1>2, <2>1
    <2> QED BY <2>2, <2>3, Zenon DEF Met
  <1>7. {x.name : x \in EE} = {y.path : y \in PP}
    <2>1. \A x \in EE : \E y \in PP : y.path = x.name
      BY <1>6 DEF Met
    <2> QED BY <1>5, <2>1
  <1> QED BY <1>4, <1>6, <1>7 DEF Answers, EE, PP

\* The same of a list of topics under a name and the layers it came from.
Agree(n, p, topics, layers, doc, q) ==
    Answers(p, ToSet(childless[n][Tree(topics, q)]), PathsBelow[n][Way(layers, doc, q)])

---------------------------------------------------------------------------
(* The names of the topics a layer makes.                                  *)

\* A node of the file is a scalar or a sequence of scalars and maps.
LEMMA NodeKinds ==
    ASSUME NEW doc \in Documents, NEW key \in DOMAIN doc
    PROVE  \/ doc[key].kind = "scalar"
           \/ /\ doc[key].kind = "sequence" /\ doc[key].items \in Seq(Elements)
              /\ Len(doc[key].items) \in Nat
              /\ DOMAIN doc[key].items = 1 .. Len(doc[key].items)
              /\ \A e \in ToSet(doc[key].items) : e.kind \in {"scalar", "map"}
  <1>1. doc[key] \in Nodes
    BY ConfigurationAssumption
  <1>2. CASE doc[key] \in Scalars
    BY <1>2 DEF Scalars
  <1>3. CASE doc[key] \in [kind : {"sequence"}, items : Seq(Elements)]
    <2> DEFINE items == doc[key].items
    <2>1. doc[key].kind = "sequence" /\ items \in Seq(Elements)
      BY <1>3
    <2> HIDE DEF items
    <2>2. Len(items) \in Nat /\ DOMAIN items = 1 .. Len(items)
      BY <2>1
    <2>3. \A e \in ToSet(items) : e \in Elements
      BY <2>1 DEF ToSet
    <2>4. \A e \in ToSet(items) : e.kind \in {"scalar", "map"}
      BY <2>3 DEF Elements, Scalars
    <2> QED BY <2>1, <2>2, <2>4 DEF items
  <1> QED BY <1>1, <1>2, <1>3 DEF Nodes

\* What an index finds, as a set.
LEMMA NodeElements ==
    ASSUME NEW doc \in Documents, NEW key, NEW i \in Int
    PROVE  ToSet(getNode(doc, key, i)) =
             IF key \notin DOMAIN doc THEN {}
             ELSE IF i < 0 \/ doc[key].kind = "scalar" THEN {doc[key]}
             ELSE IF i < Len(doc[key].items) THEN {doc[key].items[i + 1]} ELSE {}
  <1>1. \A x : ToSet(<<x>>) = {x}
    BY DEF ToSet
  <1>2. ToSet(<<>>) = {}
    BY DEF ToSet
  <1> QED BY <1>1, <1>2, Zenon DEF getNode

\* The elements a prefix names, read off the file (NamesBelow's).
ElementsNamed(doc, key, indexes) ==
    IF key \notin DOMAIN doc \/ indexes = {} THEN {}
    ELSE IF doc[key].kind = "scalar" THEN {doc[key]}
    ELSE {doc[key].items[i + 1] : i \in indexes \cap 0 .. Len(doc[key].items) - 1}

\* The loader finds them, and may find a whole sequence at a negative index.
LEMMA FoundAndNamed ==
    ASSUME NEW doc \in Documents, NEW key, NEW range \in Int \X Int
    PROVE  LET indexes == range[1] .. range[2]
               found   == UNION {ToSet(getNode(doc, key, i)) : i \in indexes}
           IN  /\ ElementsNamed(doc, key, indexes) \subseteq found
               /\ \A e \in found : e \in ElementsNamed(doc, key, indexes) \/ e.kind = "sequence"
               /\ \A e \in found : e.kind = "map" =>
                    /\ key \in DOMAIN doc /\ doc[key].kind = "sequence"
                    /\ e \in ToSet(doc[key].items)
  <1> DEFINE indexes == range[1] .. range[2]
             found   == UNION {ToSet(getNode(doc, key, i)) : i \in indexes}
             named   == ElementsNamed(doc, key, indexes)
  <1>1. indexes \subseteq Int
    OBVIOUS
  <1> HIDE DEF indexes
  <1>2. \A e : e \in found <=> \E i \in indexes : e \in ToSet(getNode(doc, key, i))
    OBVIOUS
  <1> HIDE DEF found
  <1> SUFFICES /\ named \subseteq found
               /\ \A e \in found : e \in named \/ e.kind = "sequence"
               /\ \A e \in found : e.kind = "map" =>
                    /\ key \in DOMAIN doc /\ doc[key].kind = "sequence"
                    /\ e \in ToSet(doc[key].items)
    BY DEF found, indexes
  <1>3. CASE key \notin DOMAIN doc
    <2>1. \A i \in indexes : ToSet(getNode(doc, key, i)) = {}
      BY <1>1, <1>3, NodeElements
    <2> QED BY <1>2, <1>3, <2>1 DEF ElementsNamed
  <1>4. CASE key \in DOMAIN doc /\ doc[key].kind = "scalar"
    <2>1. \A i \in indexes : ToSet(getNode(doc, key, i)) = {doc[key]}
      BY <1>1, <1>4, NodeElements
    <2>2. named = IF indexes = {} THEN {} ELSE {doc[key]}
      BY <1>4 DEF ElementsNamed
    <2> QED BY <1>2, <1>4, <2>1, <2>2
  <1>5. CASE key \in DOMAIN doc /\ doc[key].kind # "scalar"
    <2> DEFINE items == doc[key].items
    <2>1. doc[key].kind = "sequence" /\ Len(items) \in Nat /\ DOMAIN items = 1 .. Len(items)
      BY <1>5, NodeKinds
    <2>2. \A i \in indexes : ToSet(getNode(doc, key, i)) =
            IF i < 0 THEN {doc[key]} ELSE IF i < Len(items) THEN {items[i + 1]} ELSE {}
      <3>1. ASSUME NEW i \in indexes
            PROVE  ToSet(getNode(doc, key, i)) =
                     IF i < 0 THEN {doc[key]} ELSE IF i < Len(items) THEN {items[i + 1]} ELSE {}
        <4>1. i \in Int
          BY <1>1
        <4> QED BY <1>5, <4>1, NodeElements
      <3> QED BY <3>1
    <2>3. \A e : e \in named <=> \E i \in indexes : i >= 0 /\ i < Len(items) /\ e = items[i + 1]
      <3>1. named = {items[i + 1] : i \in indexes \cap 0 .. Len(items) - 1}
        <4>1. CASE indexes = {}
          BY <4>1 DEF ElementsNamed
        <4>2. CASE indexes # {}
          BY <1>5, <4>2 DEF ElementsNamed
        <4> QED BY <4>1, <4>2
      <3>2. \A i \in indexes : i \in 0 .. Len(items) - 1 <=> i >= 0 /\ i < Len(items)
        <4> HIDE DEF items
        <4> QED BY <1>1, <2>1
      <3> HIDE DEF named, items
      <3> QED BY <3>1, <3>2
    <2> HIDE DEF named, items
    <2>4. ASSUME NEW e \in named PROVE e \in found
      <3>1. PICK i \in indexes : i >= 0 /\ i < Len(items) /\ e = items[i + 1]
        BY <2>3
      <3>2. e \in ToSet(getNode(doc, key, i))
        BY <1>1, <2>2, <3>1
      <3> QED BY <1>2, <3>2
    <2>5. ASSUME NEW e \in found
          PROVE  \/ e = doc[key]
                 \/ e \in named /\ e \in ToSet(items)
      <3>1. PICK i \in indexes : e \in ToSet(getNode(doc, key, i))
        BY <1>2
      <3>2. CASE i < 0
        BY <2>2, <3>1, <3>2
      <3>3. CASE ~(i < 0)
        <4>1. i < Len(items) /\ e = items[i + 1]
          BY <2>2, <3>1, <3>3
        <4>2. i >= 0 /\ i + 1 \in DOMAIN items
          BY <1>1, <2>1, <3>3, <4>1
        <4>3. e \in named
          BY <2>3, <4>1, <4>2
        <4>4. e \in ToSet(items)
          BY <4>1, <4>2 DEF ToSet
        <4> QED BY <4>3, <4>4
      <3> QED BY <3>2, <3>3
    <2> QED BY <1>5, <2>1, <2>4, <2>5 DEF items
  <1> QED BY <1>3, <1>4, <1>5

\* The names of a list of siblings, and of those an element becomes.
NamesOf(group) == {s.name : s \in ToSet(group)}

\* A group of one.
LEMMA OneName ==
    ASSUME NEW name, NEW serial
    PROVE  NamesOf(<<Sibling(name, serial)>>) = {name}
  <1> DEFINE x == Sibling(name, serial)
  <1>1. x.name = name
    BY DEF Sibling
  <1> HIDE DEF x
  <1>2. ToSet(<<x>>) = {x}
    BY DEF ToSet
  <1>3. NamesOf(<<x>>) = {name}
    BY <1>1, <1>2 DEF NamesOf
  <1> QED BY <1>3 DEF x

\* An element becomes siblings of the names it has.
LEMMA ElementNames ==
    ASSUME NEW p, NEW layer, NEW e
    PROVE  /\ e.kind = "scalar" => NamesOf(ElementGroup(p, layer, e)) = {e.name}
           /\ e.kind = "map" /\ p = "device" /\ layer.prefix.form = "wild" =>
                NamesOf(ElementGroup(p, layer, e)) = {x.name : x \in ToSet(e.keys)}
           /\ e.kind # "scalar" /\ ~(e.kind = "map" /\ p = "device" /\ layer.prefix.form = "wild") =>
                NamesOf(ElementGroup(p, layer, e)) = {}
  <1>1. CASE e.kind = "scalar"
    <2>1. ElementGroup(p, layer, e) = <<Sibling(e.name, "")>>
      BY <1>1 DEF ElementGroup, ScalarGroup
    <2> QED BY <1>1, <2>1, OneName
  <1>2. CASE e.kind = "map" /\ p = "device" /\ layer.prefix.form = "wild"
    <2> DEFINE g == MapGroup(layer, e)
    <2>1. ElementGroup(p, layer, e) = g
      BY <1>2 DEF ElementGroup
    <2>2. DOMAIN g = DOMAIN e.keys /\ \A j \in DOMAIN e.keys : g[j].name = e.keys[j].name
      BY DEF MapGroup, Sibling
    <2> HIDE DEF g
    <2>3. NamesOf(g) = {g[j].name : j \in DOMAIN g}
      BY DEF NamesOf, ToSet
    <2>4. {x.name : x \in ToSet(e.keys)} = {e.keys[j].name : j \in DOMAIN e.keys}
      BY DEF ToSet
    <2>5. {g[j].name : j \in DOMAIN g} = {e.keys[j].name : j \in DOMAIN e.keys}
      BY <2>2
    <2>6. NamesOf(ElementGroup(p, layer, e)) = {x.name : x \in ToSet(e.keys)}
      BY <2>1, <2>3, <2>4, <2>5, Zenon
    <2>7. e.kind # "scalar"
      BY <1>2
    <2> QED BY <1>2, <2>6, <2>7, Zenon
  <1>3. CASE e.kind # "scalar" /\ ~(e.kind = "map" /\ p = "device" /\ layer.prefix.form = "wild")
    <2>1. ElementGroup(p, layer, e) = <<>>
      BY <1>3, Zenon DEF ElementGroup
    <2>2. ToSet(<<>>) = {}
      BY DEF ToSet
    <2> QED BY <1>3, <2>1, <2>2 DEF NamesOf
  <1> QED BY <1>1, <1>2, <1>3

\* NamesBelow, name by name.
LEMMA NamesBelowIs ==
    ASSUME NEW layer, NEW path, NEW doc, layer.prefix.form \in {"node", "wild"}
    PROVE  \A name : name \in NamesBelow(layer, path, doc) <=>
             \E e \in ElementsNamed(doc, NodeKey(layer, path), layer.range[1] .. layer.range[2]) :
                \/ e.kind = "scalar" /\ name = e.name
                \/ /\ e.kind = "map" /\ layer.prefix.form = "wild"
                   /\ \E x \in ToSet(e.keys) : name = x.name
  <1> DEFINE elmts == ElementsNamed(doc, NodeKey(layer, path), layer.range[1] .. layer.range[2])
             maps == {y \in elmts : y.kind = "map" /\ layer.prefix.form = "wild"}
             keys == UNION {ToSet(e.keys) : e \in maps}
  <1>1. NamesBelow(layer, path, doc) =
          {e.name : e \in {x \in elmts : x.kind = "scalar"}} \cup {x.name : x \in keys}
    BY DEF NamesBelow, ElementsNamed, NodeKey
  <1> HIDE DEF elmts
  <1>2. \A x : x \in keys <=> \E e \in elmts :
                  e.kind = "map" /\ layer.prefix.form = "wild" /\ x \in ToSet(e.keys)
    OBVIOUS
  <1> HIDE DEF keys
  <1>3. \A name : name \in {x.name : x \in keys} <=>
                    \E e \in elmts : /\ e.kind = "map" /\ layer.prefix.form = "wild"
                                     /\ \E x \in ToSet(e.keys) : name = x.name
    BY <1>2
  <1>4. \A name : name \in {e.name : e \in {x \in elmts : x.kind = "scalar"}} <=>
                    \E e \in elmts : e.kind = "scalar" /\ name = e.name
    OBVIOUS
  <1> HIDE DEF maps
  <1> SUFFICES ASSUME NEW name
               PROVE  name \in NamesBelow(layer, path, doc) <=>
                        \E e \in elmts :
                          \/ e.kind = "scalar" /\ name = e.name
                          \/ /\ e.kind = "map" /\ layer.prefix.form = "wild"
                             /\ \E x \in ToSet(e.keys) : name = x.name
    BY DEF elmts
  <1>5. name \in {x.name : x \in keys} \/ name \in {e.name : e \in {x \in elmts : x.kind = "scalar"}}
          <=> name \in NamesBelow(layer, path, doc)
    BY <1>1
  <1> QED BY <1>3, <1>4, <1>5

\* The siblings of a layer have the names the configuration says.
LEMMA GroupNames ==
    ASSUME NEW L, NEW p \in Program, NEW layer \in Layer(L), NEW tokens,
           NEW doc \in Documents, ~GivesUp(p, layer, tokens, doc), NEW path,
           layer.prefix.form = "wild" => tokens = path
    PROVE  UNION {NamesOf(group) : group \in ToSet(Groups(p, layer, tokens, doc))} =
             NamesBelow(layer, path, doc)
  <1>0. \A x : ToSet(<<x>>) = {x}
    BY DEF ToSet
  <1>1. CASE layer.prefix.form = "fixed"
    <2>1. Groups(p, layer, tokens, doc) = <<FixedGroup(layer)>>
      BY <1>1 DEF Groups
    <2>2. NamesOf(FixedGroup(layer)) = {layer.prefix.name}
      BY OneName DEF FixedGroup
    <2>3. NamesBelow(layer, path, doc) = {layer.prefix.name}
      BY <1>1 DEF NamesBelow
    <2> QED BY <1>0, <2>1, <2>2, <2>3
  <1>2. CASE layer.prefix.form = "counted"
    <2> DEFINE at == parseIntRange(layer.range)
               g  == CountedGroup(layer)
               N(i) == Numbered(layer.prefix.name, i)
    <2>1. Groups(p, layer, tokens, doc) = <<g>>
      BY <1>2 DEF Groups
    <2>2. ToSet(at) = layer.range[1] .. layer.range[2]
      BY <1>2, GoesOn, RangeType
    <2>3. DOMAIN g = DOMAIN at /\ \A k \in DOMAIN at : g[k].name = N(at[k])
      BY DEF CountedGroup, Sibling
    <2>4. NamesBelow(layer, path, doc) = {N(i) : i \in layer.range[1] .. layer.range[2]}
      BY <1>2 DEF NamesBelow
    <2> HIDE DEF at, g, N
    <2>5. NamesOf(g) = {N(i) : i \in ToSet(at)}
      BY <2>3 DEF NamesOf, ToSet
    <2> QED BY <1>0, <2>1, <2>2, <2>4, <2>5
  <1>3. CASE layer.prefix.form \in {"node", "wild"}
    <2> DEFINE elmts == ElementsOf(layer, tokens, doc)
               key == NodeKey(layer, tokens)
               indexes == layer.range[1] .. layer.range[2]
               found == UNION {ToSet(getNode(doc, key, i)) : i \in indexes}
               named == ElementsNamed(doc, key, indexes)
               N(e) == NamesOf(ElementGroup(p, layer, e))
               G == Groups(p, layer, tokens, doc)
    <2>1. layer.range \in Int \X Int
      BY <1>3, GoesOn
    <2>2. ToSet(elmts) = found
      BY <2>1, ElementsType
    <2>3. G = [k \in DOMAIN elmts |-> ElementGroup(p, layer, elmts[k])]
      BY <1>3 DEF Groups
    <2>4. /\ named \subseteq found
          /\ \A e \in found : e \in named \/ e.kind = "sequence"
          /\ \A e \in found : e.kind = "map" =>
               /\ key \in DOMAIN doc /\ doc[key].kind = "sequence"
               /\ e \in ToSet(doc[key].items)
      BY <2>1, FoundAndNamed
    <2>5. NodeKey(layer, path) = key
      BY DEF NodeKey
    <2>6. \A name : name \in NamesBelow(layer, path, doc) <=>
             \E e \in named :
                \/ e.kind = "scalar" /\ name = e.name
                \/ /\ e.kind = "map" /\ layer.prefix.form = "wild"
                   /\ \E x \in ToSet(e.keys) : name = x.name
      BY <1>3, <2>5, NamesBelowIs
    <2>7. p = "user" => \A e \in ToSet(elmts) : e.kind = "scalar"
      BY <1>3 DEF GivesUp, ToSet
    <2>8. p = "user" \/ p = "device"
      BY DEF Program
    <2> HIDE DEF named, found, elmts, G
    <2>9. \A name : name \in UNION {NamesOf(group) : group \in ToSet(G)} <=>
                      \E e \in ToSet(elmts) : name \in N(e)
      <3>1. ToSet(G) = {ElementGroup(p, layer, e) : e \in ToSet(elmts)}
        BY <2>3 DEF ToSet
      <3>2. UNION {NamesOf(group) : group \in {ElementGroup(p, layer, e) : e \in ToSet(elmts)}} =
              UNION {N(e) : e \in ToSet(elmts)}
        OBVIOUS
      <3> HIDE DEF N
      <3>3. \A name : name \in UNION {N(e) : e \in ToSet(elmts)} <=>
                        \E e \in ToSet(elmts) : name \in N(e)
        OBVIOUS
      <3> QED BY <3>1, <3>2, <3>3
    <2>10. ASSUME NEW e \in found, NEW name
           PROVE  name \in N(e) <=>
                    /\ e \in named
                    /\ \/ e.kind = "scalar" /\ name = e.name
                       \/ /\ e.kind = "map" /\ layer.prefix.form = "wild"
                          /\ \E x \in ToSet(e.keys) : name = x.name
      <3>1. CASE e.kind = "scalar"
        BY <2>4, <3>1, ElementNames
      <3>2. CASE e.kind = "map" /\ p = "device" /\ layer.prefix.form = "wild"
        BY <2>4, <3>2, ElementNames
      <3>3. CASE e.kind # "scalar" /\ ~(e.kind = "map" /\ p = "device" /\ layer.prefix.form = "wild")
        <4>1. N(e) = {}
          BY <3>3, ElementNames
        <4>2. p = "device"
          BY <2>2, <2>7, <2>8, <3>3
        <4> HIDE DEF N
        <4> QED BY <3>3, <4>1, <4>2
      <3> QED BY <3>1, <3>2, <3>3
    <2> HIDE DEF N
    <2>11. \A name : name \in UNION {NamesOf(group) : group \in ToSet(G)} <=>
                       name \in NamesBelow(layer, path, doc)
      BY <2>2, <2>4, <2>6, <2>9, <2>10
    <2> QED BY <2>11 DEF G
  <1> QED BY <1>1, <1>2, <1>3, GoesOn

\* A topic that is made comes from a sibling of a group.
LEMMA MadeFrom ==
    ASSUME NEW n \in Nat, NEW c \in Calls(n + 1), NEW L, NEW layer \in Layer(L),
           ~GivesUp(c.p, layer, c.tokens, c.doc)
    PROVE  \A m : m \in ToSet(Made(c, layer)) <=>
             \E group \in ToSet(Groups(c.p, layer, c.tokens, c.doc)) :
                \E j \in DOMAIN group : m = Make(c, layer, group, j)
  <1>1. /\ c.p \in Program /\ c.tokens \in Seq(Name) /\ c.doc \in Documents
        /\ c.preTopic \in [serial : Serial]
    BY DEF Calls
  <1>2. MadeOf(c, layer)
    BY <1>1, MadeIs
  <1> DEFINE G == Groups(c.p, layer, c.tokens, c.doc)
             Of(group) == {Make(c, layer, group, j) : j \in DOMAIN group}
  <1>3. ToSet(Made(c, layer)) = UNION {Of(group) : group \in ToSet(G)}
    BY <1>2 DEF MadeOf
  <1>4. \A group, m : m \in Of(group) <=> \E j \in DOMAIN group : m = Make(c, layer, group, j)
    OBVIOUS
  <1> HIDE DEF G, Of
  <1>5. \A m : m \in ToSet(Made(c, layer)) <=> \E group \in ToSet(G) : m \in Of(group)
    BY <1>3
  <1>6. \A m : m \in ToSet(Made(c, layer)) <=>
          \E group \in ToSet(G) : \E j \in DOMAIN group : m = Make(c, layer, group, j)
    BY <1>4, <1>5
  <1> QED BY <1>6 DEF G

\* What is made of a sibling.
LEMMA MakeHas ==
    ASSUME NEW c, NEW layer, NEW group, NEW j
    PROVE  /\ Make(c, layer, group, j).topic.name = group[j].name
           /\ Make(c, layer, group, j).tokens = addtokens(c.p, c.tokens, group, j)
           /\ Make(c, layer, group, j).topic.devices =
                (IF c.p = "device" /\ IsLeaf(layer) THEN layer.devices ELSE {})
  <1> DEFINE t == NewTopic(c.p, layer, group[j], c.preTopic)
  <1>1. t.name = group[j].name
    BY DEF NewTopic
  <1>2. t.devices = IF c.p = "device" /\ IsLeaf(layer) THEN layer.devices ELSE {}
    BY DEF NewTopic
  <1> HIDE DEF t
  <1>3. /\ Make(c, layer, group, j).topic = t
        /\ Make(c, layer, group, j).tokens = addtokens(c.p, c.tokens, group, j)
    BY DEF Make, t
  <1> QED BY <1>1, <1>2, <1>3

\* The topics of a layer have the names the configuration says.
LEMMA MadeNames ==
    ASSUME NEW n \in Nat, NEW c \in Calls(n + 1), NEW L, NEW layer \in Layer(L),
           ~GivesUp(c.p, layer, c.tokens, c.doc), NEW path,
           layer.prefix.form = "wild" => c.tokens = path
    PROVE  {m.topic.name : m \in ToSet(Made(c, layer))} = NamesBelow(layer, path, c.doc)
  <1> DEFINE G == Groups(c.p, layer, c.tokens, c.doc)
  <1>1. c.p \in Program /\ c.doc \in Documents
    BY DEF Calls
  <1>2. UNION {NamesOf(group) : group \in ToSet(G)} = NamesBelow(layer, path, c.doc)
    BY <1>1, GroupNames
  <1>3. \A m : m \in ToSet(Made(c, layer)) <=>
          \E group \in ToSet(G) : \E j \in DOMAIN group : m = Make(c, layer, group, j)
    BY MadeFrom
  <1>4. \A group, name : name \in NamesOf(group) <=> \E j \in DOMAIN group : name = group[j].name
    BY DEF NamesOf, ToSet
  <1> HIDE DEF G
  <1>5. ASSUME NEW name
        PROVE  name \in {m.topic.name : m \in ToSet(Made(c, layer))} <=>
                 \E group \in ToSet(G) : \E j \in DOMAIN group : name = group[j].name
    BY <1>3, MakeHas
  <1>6. ASSUME NEW name
        PROVE  name \in UNION {NamesOf(group) : group \in ToSet(G)} <=>
                 \E group \in ToSet(G) : \E j \in DOMAIN group : name = group[j].name
    BY <1>4
  <1> QED BY <1>2, <1>5, <1>6

\* A device of the file stands alone in its map (TokensApart's second part).
OneKey(doc) ==
    \A k \in DOMAIN doc : doc[k].kind = "sequence" =>
        \A e \in ToSet(doc[k].items) : e.kind = "map" => Len(e.keys) = 1

\* Then every group has one sibling, unless the prefix counts.
LEMMA SingleGroups ==
    ASSUME NEW L, NEW p \in Program, NEW layer \in Layer(L), NEW tokens,
           NEW doc \in Documents, ~GivesUp(p, layer, tokens, doc), OneKey(doc),
           layer.prefix.form # "counted",
           NEW group \in ToSet(Groups(p, layer, tokens, doc)), NEW j \in DOMAIN group
    PROVE  j = 1
  <1>0. \A x : DOMAIN <<x>> = {1}
    OBVIOUS
  <1>1. CASE layer.prefix.form = "fixed"
    <2>1. Groups(p, layer, tokens, doc) = <<FixedGroup(layer)>>
      BY <1>1 DEF Groups
    <2>2. group = FixedGroup(layer)
      BY <2>1 DEF ToSet
    <2> QED BY <1>0, <2>2 DEF FixedGroup
  <1>2. CASE layer.prefix.form \in {"node", "wild"}
    <2> DEFINE elmts == ElementsOf(layer, tokens, doc)
               key == NodeKey(layer, tokens)
               indexes == layer.range[1] .. layer.range[2]
               found == UNION {ToSet(getNode(doc, key, i)) : i \in indexes}
    <2>1. layer.range \in Int \X Int
      BY <1>2, GoesOn
    <2>2. ToSet(elmts) = found
      BY <2>1, ElementsType
    <2>3. Groups(p, layer, tokens, doc) = [k \in DOMAIN elmts |-> ElementGroup(p, layer, elmts[k])]
      BY <1>2 DEF Groups
    <2>4. \A e \in found : e.kind = "map" =>
            /\ key \in DOMAIN doc /\ doc[key].kind = "sequence"
            /\ e \in ToSet(doc[key].items)
      BY <2>1, FoundAndNamed
    <2> HIDE DEF elmts, found, key
    <2>5. PICK e \in found : group = ElementGroup(p, layer, e)
      BY <2>2, <2>3 DEF ToSet
    <2>6. CASE e.kind = "scalar"
      <3>1. group = <<Sibling(e.name, "")>>
        BY <2>5, <2>6 DEF ElementGroup, ScalarGroup
      <3> QED BY <1>0, <3>1
    <2>7. CASE e.kind = "map" /\ p = "device" /\ layer.prefix.form = "wild"
      <3>1. DOMAIN group = DOMAIN e.keys
        BY <2>5, <2>7 DEF ElementGroup, MapGroup
      <3>2. key \in DOMAIN doc /\ doc[key].kind = "sequence" /\ e \in ToSet(doc[key].items)
        BY <2>4, <2>7
      <3>3. Len(e.keys) = 1
        BY <2>7, <3>2 DEF OneKey
      <3>4. e.keys \in Seq(Attributes)
        <4>1. doc[key] \in Nodes
          BY <3>2, ConfigurationAssumption
        <4>2. doc[key].items \in Seq(Elements)
          BY <3>2, <4>1 DEF Nodes, Scalars
        <4>3. e \in Elements
          BY <3>2, <4>2 DEF ToSet
        <4> QED BY <2>7, <4>3 DEF Elements, Scalars
      <3> DEFINE keys == e.keys
      <3>5. keys \in Seq(Attributes) /\ Len(keys) = 1 /\ DOMAIN group = DOMAIN keys
        BY <3>1, <3>3, <3>4
      <3> HIDE DEF keys
      <3> QED BY <3>5
    <2>8. CASE e.kind # "scalar" /\ ~(e.kind = "map" /\ p = "device" /\ layer.prefix.form = "wild")
      <3>1. group = <<>>
        BY <2>5, <2>8, Zenon DEF ElementGroup
      <3> QED BY <3>1
    <2> QED BY <2>6, <2>7, <2>8
  <1> QED BY <1>1, <1>2, GoesOn

\* The tokens below a topic are its path, when they were above it.
LEMMA MadeTokens ==
    ASSUME NEW n \in Nat, NEW c \in Calls(n + 1), NEW L, NEW layer \in Layer(L),
           ~GivesUp(c.p, layer, c.tokens, c.doc),
           c.p = "device" => OneKey(c.doc) /\ layer.prefix.form # "counted",
           NEW m \in ToSet(Made(c, layer))
    PROVE  m.tokens = Append(c.tokens, m.topic.name)
  <1> DEFINE G == Groups(c.p, layer, c.tokens, c.doc)
  <1>1. /\ c.p \in Program /\ c.doc \in Documents /\ c.tokens \in Seq(Name)
    BY DEF Calls
  <1>2. \E group \in ToSet(G) : \E i \in DOMAIN group : m = Make(c, layer, group, i)
    BY MadeFrom
  <1>3. G \in Seq(Seq(Siblings))
    BY <1>1, GroupsType
  <1> DEFINE tokens == c.tokens
             p == c.p
  <1>4. PICK group \in ToSet(G) : \E i \in DOMAIN group : m = Make(c, layer, group, i)
    BY <1>2
  <1>5. PICK j \in DOMAIN group : m = Make(c, layer, group, j)
    BY <1>4
  <1>6. group \in Seq(Siblings)
    BY <1>3, <1>4 DEF ToSet
  <1> DEFINE names == [k \in DOMAIN group |-> group[k].name]
  <1>7. m.topic.name = names[j] /\ m.tokens = addtokens(p, tokens, group, j)
    BY <1>5, MakeHas
  <1>8. names \in Seq(Name) /\ j \in 1 .. Len(names)
    <2>1. Len(group) \in Nat /\ DOMAIN group = 1 .. Len(group)
      BY <1>6
    <2>2. \A k \in 1 .. Len(group) : group[k].name \in Name
      <3>1. \A k \in 1 .. Len(group) : group[k] \in Siblings
        BY <1>6, <2>1
      <3> QED BY <3>1 DEF Siblings
    <2>3. names \in [1 .. Len(group) -> Name]
      BY <2>1, <2>2
    <2> QED BY <2>1, <2>3
  <1>9. CASE p = "device"
    <2>1. j = 1
      BY <1>1, <1>4, <1>9, SingleGroups
    <2>2. addtokens(p, tokens, group, j) = tokens \o SubSeq(names, 1, j)
      BY <1>9 DEF addtokens, DeviceTokens
    <2> HIDE DEF names, tokens, G
    <2>3. tokens \in Seq(Name)
      BY <1>1 DEF tokens
    <2>4. SubSeq(names, 1, 1) = <<names[1]>>
      <3> DEFINE s == SubSeq(names, 1, 1)
      <3>1. Len(names) >= 1 /\ Len(names) \in Nat
        BY <1>8, <2>1
      <3>2. s \in Seq(Name) /\ Len(s) = 1 /\ s[1] = names[1]
        BY <1>8, <3>1
      <3> HIDE DEF s
      <3>3. s = <<s[1]>>
        BY <3>2
      <3> QED BY <3>2, <3>3 DEF s
    <2>5. tokens \o <<names[1]>> = Append(tokens, names[1])
      BY <1>8, <2>1, <2>3
    <2>6. m.tokens = Append(tokens, m.topic.name)
      BY <1>7, <2>1, <2>2, <2>4, <2>5
    <2> QED BY <2>6 DEF tokens
  <1>10. CASE p # "device"
    <2>1. addtokens(p, tokens, group, j) = Append(tokens, names[j])
      BY <1>10 DEF addtokens, UserTokens
    <2> QED BY <1>7, <2>1
  <1> QED BY <1>9, <1>10

\* Below any topics there is one that is childless.
Ending(n) ==
    \A ts \in Seq(TopicsTo[n]), parent \in Seq(Name) :
        ts # <<>> => ToSet(childless[n][Tree(ts, parent)]) # {}

\* Ending at every depth, by induction.
LEMMA TopicsEnd == \A n \in Nat : n <= Depth => Ending(n)
  <1> DEFINE Good == {n \in Nat : n <= Depth => Ending(n)}
  <1>1. 0 \in Good
    <2>1. 0 \in 0 .. Depth
      BY ConfigurationAssumption
    <2>2. TopicsTo[0] = {}
      BY <2>1, TopicsToIs DEF TopicsToStep
    <2>3. \A ts \in Seq(TopicsTo[0]) : ts = <<>>
      BY <2>2
    <2> QED BY <2>3 DEF Ending
  <1>2. ASSUME NEW n \in Nat, n \in Good PROVE n + 1 \in Good
    <2> SUFFICES ASSUME n + 1 <= Depth PROVE Ending(n + 1)
      OBVIOUS
    <2>1. Ending(n)
      BY <1>2, ConfigurationAssumption
    <2> SUFFICES ASSUME NEW ts \in Seq(TopicsTo[n + 1]), NEW parent \in Seq(Name), ts # <<>>
                 PROVE  ToSet(childless[n + 1][Tree(ts, parent)]) # {}
      BY DEF Ending
    <2> DEFINE t == ts[1]
               q == FullName(parent, t)
    <2>2. 1 \in DOMAIN ts /\ t \in TopicsTo[n + 1]
      OBVIOUS
    <2>3. t \in ToSet(ts)
      BY <2>2 DEF ToSet
    <2>4. t.topics \in Seq(TopicsTo[n]) /\ q \in Seq(Name)
      BY <2>2, TopicIs
    <2> HIDE DEF t
    <2>5. ToSet(Ends(n, t, parent)) # {}
      <3>1. CASE t.topics = <<>>
        <4> DEFINE x == [name |-> q, topic |-> t]
        <4>1. Ends(n, t, parent) = <<x>>
          BY <3>1 DEF Ends
        <4> HIDE DEF x
        <4>2. ToSet(<<x>>) = {x}
          BY DEF ToSet
        <4> QED BY <4>1, <4>2
      <3>2. CASE t.topics # <<>>
        BY <2>1, <2>4, <3>2 DEF Ends, Ending
      <3> QED BY <3>1, <3>2
    <2>6. ToSet(childless[n + 1][Tree(ts, parent)]) = UNION {ToSet(Ends(n, u, parent)) : u \in ToSet(ts)}
      BY ChildlessElements
    <2> QED BY <2>3, <2>5, <2>6
  <1>3. Nat \subseteq Good
    <2> HIDE DEF Good
    <2> QED BY <1>1, <1>2, SetInduction
  <1> QED BY <1>3

\* Layers without a "$n", one deeper ...
LEMMA PlainUp ==
    ASSUME NEW n \in Nat, n + 1 <= Depth
    PROVE  Plain[n + 1] = {x \in Layer(Plain[n]) : x.prefix.form # "wild"}
  <1>1. n + 1 \in 0 .. Depth /\ n + 1 # 0 /\ (n + 1) - 1 = n
    BY ConfigurationAssumption
  <1> QED BY <1>1, PlainIs DEF PlainStep

\* ... and those with one below none that is counted.
LEMMA ApartUp ==
    ASSUME NEW n \in Nat, n + 1 <= Depth
    PROVE  Apart[n + 1] = {x \in Layer(Apart[n]) :
                              x.prefix.form = "counted" => Below(x) \in Seq(Plain[n])}
  <1>1. n + 1 \in 0 .. Depth /\ n + 1 # 0 /\ (n + 1) - 1 = n
    BY ConfigurationAssumption
  <1> QED BY <1>1, ApartIs DEF ApartStep

\* The call has the tokens of the path q where a "$n" below needs them.
Faithful(n, c, q) ==
    /\ c.p = "user" => c.tokens = q
    /\ c.p = "device" =>
         /\ c.layers \in Seq(Apart[n]) /\ OneKey(c.doc)
         /\ c.tokens = q \/ c.layers \in Seq(Plain[n])

\* Then every "$n" of its layers stands for a name of q.
LEMMA WildFaithful ==
    ASSUME NEW n \in Nat, n + 1 <= Depth, NEW c \in Calls(n + 1), NEW q,
           Faithful(n + 1, c, q), NEW layer \in ToSet(c.layers),
           layer.prefix.form = "wild"
    PROVE  c.tokens = q
  <1>1. CASE c.p = "user"
    BY <1>1 DEF Faithful
  <1>2. CASE c.p = "device" /\ c.layers \in Seq(Plain[n + 1])
    <2> DEFINE layers == c.layers
    <2>1. layers \in Seq(Plain[n + 1]) /\ layer \in ToSet(layers)
      BY <1>2
    <2> HIDE DEF layers
    <2>2. layer \in Plain[n + 1]
      BY <2>1 DEF ToSet
    <2> QED BY <2>2, PlainUp
  <1> QED BY <1>1, <1>2 DEF Calls, Program, Faithful

\* The call below a topic is as faithful to the path with its name.
LEMMA FaithfulBelow ==
    ASSUME NEW n \in Nat, n + 1 <= Depth, NEW c \in Calls(n + 1), NEW q,
           Faithful(n + 1, c, q), NEW layer \in ToSet(c.layers),
           layer \in Layer(LayersTo[n]), ~GivesUp(c.p, layer, c.tokens, c.doc),
           ~IsLeaf(layer), NEW m \in ToSet(Made(c, layer))
    PROVE  Faithful(n, BelowCall(c, layer, m), Append(q, m.topic.name))
  <1> DEFINE b == BelowCall(c, layer, m)
  <1>1. /\ b.p = c.p /\ b.doc = c.doc /\ b.layers = layer.Layer[1] /\ b.tokens = m.tokens
    BY DEF BelowCall, Calls
  <1> HIDE DEF b
  <1>2. CASE c.p = "user"
    <2>1. c.tokens = q
      BY <1>2 DEF Faithful
    <2>2. m.tokens = Append(c.tokens, m.topic.name)
      BY <1>2, MadeTokens
    <2> QED BY <1>1, <1>2, <2>1, <2>2 DEF Faithful, b
  <1>3. CASE c.p = "device"
    <2> DEFINE layers == c.layers
    <2>1. layers \in Seq(Apart[n + 1]) /\ OneKey(c.doc) /\ layer \in ToSet(layers)
      BY <1>3 DEF Faithful
    <2>2. c.tokens = q \/ layers \in Seq(Plain[n + 1])
      BY <1>3 DEF Faithful
    <2> HIDE DEF layers
    <2>3. layer \in Apart[n + 1]
      BY <2>1 DEF ToSet
    <2>4. /\ layer \in Layer(Apart[n])
          /\ layer.prefix.form = "counted" => Below(layer) \in Seq(Plain[n])
      BY <2>3, ApartUp
    <2>5. \A T : layer \in Layer(T) => layer.Layer[1] \in Seq(T)
      <3> SUFFICES ASSUME NEW T, layer \in Layer(T) PROVE layer.Layer[1] \in Seq(T)
        OBVIOUS
      <3> DEFINE s == layer.Layer
      <3>1. s \in Seq(Seq(T)) /\ s # <<>>
        BY DEF Layer, IsLeaf
      <3> HIDE DEF s
      <3>2. s[1] \in Seq(T)
        BY <3>1
      <3> QED BY <3>2 DEF s
    <2>6. layer.Layer[1] \in Seq(Apart[n]) /\ Below(layer) = layer.Layer[1]
      BY <2>4, <2>5 DEF Below
    <2>7. CASE layer.prefix.form = "counted"
      BY <1>1, <1>3, <2>1, <2>4, <2>6, <2>7 DEF Faithful, b
    <2>8. CASE layers \in Seq(Plain[n + 1])
      <3>1. layer \in Plain[n + 1]
        BY <2>1, <2>8 DEF ToSet
      <3>2. layer \in Layer(Plain[n])
        BY <3>1, PlainUp
      <3>3. layer.Layer[1] \in Seq(Plain[n])
        BY <2>5, <3>2
      <3> QED BY <1>1, <1>3, <2>1, <2>6, <3>3 DEF Faithful, b
    <2>9. CASE c.tokens = q /\ layer.prefix.form # "counted"
      <3>1. m.tokens = Append(c.tokens, m.topic.name)
        BY <2>1, <2>9, MadeTokens
      <3> QED BY <1>1, <1>3, <2>1, <2>6, <2>9, <3>1 DEF Faithful, b
    <2> QED BY <2>2, <2>7, <2>8, <2>9
  <1> QED BY <1>2, <1>3 DEF Calls, Program

\* What the calls for n layers load is what the configuration says.
AsConfigured(n) ==
    \A c \in Calls(n), q \in Seq(Name) :
        Faithful(n, c, q) /\ load_layers[n][c].ok =>
            Agree(n, c.p, load_layers[n][c].topics, c.layers, c.doc, q)

\* A single end.
LEMMA AnswersOne ==
    ASSUME NEW p, NEW path \in Seq(Name), NEW t, NEW leaf \in BOOLEAN,
           p = "device" /\ leaf => "LifeDevice" \in t.devices
    PROVE  Answers(p, {[name |-> path, topic |-> t]}, {[path |-> path, leaf |-> leaf]})
  <1> DEFINE e == [name |-> path, topic |-> t]
             y == [path |-> path, leaf |-> leaf]
  <1>1. e.name = path /\ e.topic = t /\ y.path = path /\ y.leaf = leaf
    OBVIOUS
  <1>2. y \in [path : Seq(Name), leaf : BOOLEAN]
    OBVIOUS
  <1> HIDE DEF e, y
  <1>3. Met(p, e, {y})
    BY <1>1 DEF Met
  <1>4. Answers(p, {e}, {y})
    BY <1>1, <1>2, <1>3 DEF Answers
  <1> QED BY <1>4 DEF e, y

\* A topic of a call, with what is below it, and the ends of its path.
LEMMA GrownAnswers ==
    ASSUME NEW n \in Nat, n + 1 <= Depth, AsConfigured(n), NEW c \in Calls(n + 1),
           NEW q \in Seq(Name), Faithful(n + 1, c, q), NEW layer \in ToSet(c.layers),
           layer \in Layer(LayersTo[n]), ~GivesUp(c.p, layer, c.tokens, c.doc),
           NEW m \in ToSet(Made(c, layer)), m \in Makes, Deeper(n, c, layer, m).ok
    PROVE  Answers(c.p, ToSet(Ends(n, Grown(n, c, layer, m), q)),
                   PathEnds(n, layer, c.doc, Append(q, m.topic.name)))
  <1> DEFINE t == Grown(n, c, layer, m)
             path == Append(q, m.topic.name)
             p == c.p
             doc == c.doc
  <1>1. /\ t.topics = Deeper(n, c, layer, m).topics
        /\ t.name = m.topic.name /\ t.devices = m.topic.devices
    BY DEF Grown, Makes, Topic
  <1>2. m.topic.name \in Name
    BY DEF Makes, Topic
  <1>3. path \in Seq(Name) /\ FullName(q, t) = path
    BY <1>1, <1>2 DEF FullName
  <1>4. Typed(n) /\ n <= Depth
    BY LoadType, ConfigurationAssumption
  <1>5. \A x : ToSet(<<x>>) = {x}
    BY DEF ToSet
  <1>6. t.topics = <<>> => ToSet(Ends(n, t, q)) = {[name |-> path, topic |-> t]}
    BY <1>3, <1>5 DEF Ends
  <1>7. CASE IsLeaf(layer)
    <2>1. t.topics = <<>> /\ LifeDeviceOk(p, layer)
      BY <1>1, <1>7 DEF Deeper
    <2>2. p = "device" => "LifeDevice" \in t.devices
      <3>1. m.topic.devices = IF p = "device" THEN layer.devices ELSE {}
        <4>1. \E group \in ToSet(Groups(c.p, layer, c.tokens, c.doc)) :
                 \E j \in DOMAIN group : m = Make(c, layer, group, j)
          BY MadeFrom
        <4>2. \E group : \E j : m = Make(c, layer, group, j)
          BY <4>1
        <4> QED BY <1>7, <4>2, MakeHas
      <3> QED BY <1>1, <1>7, <2>1, <3>1 DEF LifeDeviceOk
    <2>3. PathEnds(n, layer, doc, path) = {[path |-> path, leaf |-> TRUE]}
      BY <1>7 DEF PathEnds
    <2> HIDE DEF t, path
    <2>4. Answers(p, {[name |-> path, topic |-> t]}, {[path |-> path, leaf |-> TRUE]})
      BY <1>3, <2>2, AnswersOne
    <2> QED BY <1>6, <2>1, <2>3, <2>4 DEF t, path
  <1>8. CASE ~IsLeaf(layer)
    <2> DEFINE b == BelowCall(c, layer, m)
               E == ToSet(childless[n][Tree(t.topics, path)])
               P == OnwardFrom(n, layer, doc, path)
    <2>1. b \in Calls(n)
      BY <1>8, BelowCallType
    <2>2. Faithful(n, b, path)
      BY <1>8, FaithfulBelow
    <2>3. b.p = p /\ b.doc = doc /\ b.layers = Below(layer)
      BY <1>8 DEF BelowCall, Calls, Below
    <2>4. Deeper(n, c, layer, m) = load_layers[n][b]
      BY <1>8 DEF Deeper
    <2> HIDE DEF b, t, path
    <2>5. Agree(n, b.p, t.topics, b.layers, b.doc, path)
      BY <1>1, <1>3, <2>1, <2>2, <2>4 DEF AsConfigured
    <2>6. Answers(p, E, P)
      BY <2>3, <2>5 DEF Agree, OnwardFrom
    <2>7. t.topics \in Seq(TopicsTo[n])
      BY <1>1, <1>4, <2>1, <2>4 DEF Typed, Loads
    <2>8. CASE t.topics = <<>>
      <3>1. childless[n][Tree(t.topics, path)] = <<>>
        BY <1>3, <1>4, <2>8, ChildlessEmpty
      <3>2. E = {}
        BY <3>1 DEF ToSet
      <3> HIDE DEF E, P
      <3>3. P = {}
        <4>1. {y.path : y \in P} = {e.name : e \in E}
          BY <2>6 DEF Answers
        <4>2. {e.name : e \in E} = {}
          BY <3>2
        <4> QED BY <4>1, <4>2
      <3>4. PathEnds(n, layer, doc, path) = {[path |-> path, leaf |-> FALSE]}
        BY <1>8, <3>3 DEF PathEnds, P
      <3>5. Answers(p, {[name |-> path, topic |-> t]}, {[path |-> path, leaf |-> FALSE]})
        BY <1>3, AnswersOne
      <3> QED BY <1>6, <2>8, <3>4, <3>5 DEF t, path
    <2>9. CASE t.topics # <<>>
      <3>1. E # {}
        <4>1. Ending(n)
          BY <1>4, TopicsEnd
        <4> QED BY <1>3, <2>7, <2>9, <4>1 DEF Ending
      <3>2. ToSet(Ends(n, t, q)) = E
        BY <1>3, <2>9 DEF Ends
      <3> HIDE DEF E, P
      <3>3. P # {}
        <4>1. {y.path : y \in P} = {e.name : e \in E}
          BY <2>6 DEF Answers
        <4>2. {e.name : e \in E} # {}
          BY <3>1
        <4> QED BY <4>1, <4>2
      <3>4. PathEnds(n, layer, doc, path) = P
        BY <1>8, <3>3 DEF PathEnds, P
      <3> QED BY <2>6, <3>2, <3>4 DEF t, path
    <2> QED BY <2>8, <2>9
  <1> QED BY <1>7, <1>8

\* AsConfigured one deeper.
LEMMA ConfiguredUp ==
    ASSUME NEW n \in Nat, n + 1 <= Depth, AsConfigured(n), NEW c \in Calls(n + 1),
           NEW q \in Seq(Name), Faithful(n + 1, c, q), load_layers[n + 1][c].ok
    PROVE  Agree(n + 1, c.p, load_layers[n + 1][c].topics, c.layers, c.doc, q)
  <1> DEFINE ts == load_layers[n + 1][c].topics
             MadeBy(layer) == ToSet(Made(c, layer))
             Found(layer, m) == ToSet(Ends(n, Grown(n, c, layer, m), q))
             Path(layer, m) == PathEnds(n, layer, c.doc, Append(q, m.topic.name))
             I == UNION {{<<layer, m>> : m \in MadeBy(layer)} : layer \in Enabled(c.layers)}
             E == [i \in I |-> Found(i[1], i[2])]
             P == [i \in I |-> Path(i[1], i[2])]
  <1>1. CallGives(n, c)
    BY CallGivesAlways
  <1>2. /\ ts \in Seq(TopicsTo[n + 1])
        /\ ToSet(ts) = UNION {{Grown(n, c, layer, m) : m \in MadeBy(layer)} :
                                 layer \in Enabled(c.layers)}
    BY <1>1 DEF CallGives, Loads
  <1>3. ASSUME NEW layer \in Enabled(c.layers)
        PROVE  /\ layer \in ToSet(c.layers) /\ layer \in Layer(LayersTo[n])
               /\ ~GivesUp(c.p, layer, c.tokens, c.doc)
               /\ \A m \in MadeBy(layer) : m \in Makes /\ Deeper(n, c, layer, m).ok
    <2>1. /\ layer \in Layer(LayersTo[n]) /\ ~GivesUp(c.p, layer, c.tokens, c.doc)
          /\ Made(c, layer) \in Seq(Makes)
          /\ \A m \in ToSet(Made(c, layer)) : Deeper(n, c, layer, m).ok
      BY <1>1 DEF CallGives
    <2>2. \A m \in ToSet(Made(c, layer)) : m \in Makes
      BY <2>1 DEF ToSet
    <2> QED BY <2>1, <2>2 DEF Enabled
  <1>4. ASSUME NEW layer \in Enabled(c.layers), NEW m \in MadeBy(layer)
        PROVE  Answers(c.p, Found(layer, m), Path(layer, m))
    BY <1>3, GrownAnswers
  <1>5. ToSet(childless[n + 1][Tree(ts, q)]) = UNION {ToSet(Ends(n, t, q)) : t \in ToSet(ts)}
    BY <1>2, ChildlessElements
  <1>6. /\ c.layers \in Seq(LayersTo[n + 1]) /\ c.doc \in Documents
    BY DEF Calls
  <1>7. PathsBelow[n + 1][Way(c.layers, c.doc, q)] =
          UNION {OnLayer(n, layer, c.doc, q) : layer \in Enabled(c.layers)}
    <2>1. PathsOn(n, c.layers, c.doc, q)
      BY <1>6, PathsUp
    <2> QED BY <2>1 DEF PathsOn
  <1>8. ASSUME NEW layer \in Enabled(c.layers)
        PROVE  OnLayer(n, layer, c.doc, q) = UNION {Path(layer, m) : m \in MadeBy(layer)}
    <2>1. layer.prefix.form = "wild" => c.tokens = q
      BY <1>3, WildFaithful
    <2>2. {m.topic.name : m \in MadeBy(layer)} = NamesBelow(layer, q, c.doc)
      BY <1>3, <2>1, MadeNames
    <2> DEFINE At(name) == PathEnds(n, layer, c.doc, Append(q, name))
    <2>3. OnLayer(n, layer, c.doc, q) = UNION {At(name) : name \in NamesBelow(layer, q, c.doc)}
      BY DEF OnLayer
    <2>4. \A m : Path(layer, m) = At(m.topic.name)
      OBVIOUS
    <2> HIDE DEF At, MadeBy, Path
    <2>5. {At(name) : name \in {m.topic.name : m \in MadeBy(layer)}} =
            {Path(layer, m) : m \in MadeBy(layer)}
      BY <2>4
    <2> QED BY <2>2, <2>3, <2>5
  <1> HIDE DEF MadeBy, Found, Path
  <1>9. \A i : i \in I <=> \E layer \in Enabled(c.layers) : \E m \in MadeBy(layer) : i = <<layer, m>>
    OBVIOUS
  <1>10. ASSUME NEW i \in I PROVE Answers(c.p, E[i], P[i])
    <2>1. PICK layer \in Enabled(c.layers) : \E m \in MadeBy(layer) : i = <<layer, m>>
      BY <1>9
    <2>2. PICK m \in MadeBy(layer) : i = <<layer, m>>
      BY <2>1
    <2>3. E[i] = Found(layer, m) /\ P[i] = Path(layer, m)
      BY <2>2
    <2> QED BY <1>4, <2>3
  <1>11. ASSUME NEW layer \in Enabled(c.layers), NEW m \in MadeBy(layer)
         PROVE  /\ <<layer, m>> \in I
                /\ E[<<layer, m>>] = Found(layer, m) /\ P[<<layer, m>>] = Path(layer, m)
    <2>1. <<layer, m>> \in I
      BY <1>9
    <2> HIDE DEF I
    <2> QED BY <2>1
  <1>12. \A i \in I : \E layer \in Enabled(c.layers) : \E m \in MadeBy(layer) :
           E[i] = Found(layer, m) /\ P[i] = Path(layer, m)
    <2> HIDE DEF E, P, I
    <2> QED BY <1>9, <1>11
  <1> HIDE DEF I, E, P
  <1>13. ToSet(childless[n + 1][Tree(ts, q)]) = Gathered(I, E)
    <2>1. \A t : t \in ToSet(ts) <=>
            \E layer \in Enabled(c.layers) : \E m \in MadeBy(layer) : t = Grown(n, c, layer, m)
      BY <1>2
    <2>2. ASSUME NEW e
          PROVE  e \in UNION {ToSet(Ends(n, t, q)) : t \in ToSet(ts)} <=>
                   \E layer \in Enabled(c.layers) : \E m \in MadeBy(layer) : e \in Found(layer, m)
      <3>1. e \in UNION {ToSet(Ends(n, t, q)) : t \in ToSet(ts)} <=>
              \E t \in ToSet(ts) : e \in ToSet(Ends(n, t, q))
        OBVIOUS
      <3> QED BY <2>1, <3>1 DEF Found
    <2>3. ASSUME NEW e
          PROVE  e \in Gathered(I, E) <=>
                   \E layer \in Enabled(c.layers) : \E m \in MadeBy(layer) : e \in Found(layer, m)
      <3>1. e \in Gathered(I, E) <=> \E i \in I : e \in E[i]
        BY DEF Gathered
      <3> QED BY <1>11, <1>12, <3>1
    <2> QED BY <1>5, <2>2, <2>3
  <1>14. PathsBelow[n + 1][Way(c.layers, c.doc, q)] = Gathered(I, P)
    <2>1. ASSUME NEW y
          PROVE  y \in UNION {OnLayer(n, layer, c.doc, q) : layer \in Enabled(c.layers)} <=>
                   \E layer \in Enabled(c.layers) : \E m \in MadeBy(layer) : y \in Path(layer, m)
      BY <1>8
    <2>2. ASSUME NEW y
          PROVE  y \in Gathered(I, P) <=>
                   \E layer \in Enabled(c.layers) : \E m \in MadeBy(layer) : y \in Path(layer, m)
      <3>1. y \in Gathered(I, P) <=> \E i \in I : y \in P[i]
        BY DEF Gathered
      <3> QED BY <1>11, <1>12, <3>1
    <2> QED BY <1>7, <2>1, <2>2
  <1>15. Answers(c.p, Gathered(I, E), Gathered(I, P))
    BY <1>10, AnswersUnion
  <1> QED BY <1>13, <1>14, <1>15 DEF Agree

\* AsConfigured at every depth, by induction.
LEMMA ConfiguredAlways == \A n \in Nat : n <= Depth => AsConfigured(n)
  <1> DEFINE Good == {n \in Nat : n <= Depth => AsConfigured(n)}
  <1>1. 0 \in Good
    <2> SUFFICES ASSUME NEW c \in Calls(0), NEW q \in Seq(Name)
                 PROVE  Agree(0, c.p, load_layers[0][c].topics, c.layers, c.doc, q)
      BY DEF AsConfigured
    <2>1. load_layers[0][c].topics = <<>>
      BY LoadNothing DEF Nothing
    <2>2. childless[0][Tree(<<>>, q)] = <<>>
      BY ChildlessEmpty, ConfigurationAssumption
    <2>3. PathsBelow[0][Way(c.layers, c.doc, q)] = {}
      BY PathsNone DEF Calls
    <2>4. ToSet(<<>>) = {}
      BY DEF ToSet
    <2>5. Answers(c.p, {}, {})
      BY DEF Answers
    <2> QED BY <2>1, <2>2, <2>3, <2>4, <2>5 DEF Agree
  <1>2. ASSUME NEW n \in Nat, n \in Good PROVE n + 1 \in Good
    <2> SUFFICES ASSUME n + 1 <= Depth PROVE AsConfigured(n + 1)
      OBVIOUS
    <2>1. AsConfigured(n)
      BY <1>2, ConfigurationAssumption
    <2> QED BY <2>1, ConfiguredUp DEF AsConfigured
  <1>3. Nat \subseteq Good
    <2> HIDE DEF Good
    <2> QED BY <1>1, <1>2, SetInduction
  <1> QED BY <1>3

\* Two lists of layers, one after the other.
LEMMA AgreeJoined ==
    ASSUME NEW n \in Nat, n <= Depth, NEW p, NEW doc \in Documents, NEW q \in Seq(Name),
           NEW s \in Seq(TopicsTo[n]), NEW t \in Seq(TopicsTo[n]),
           NEW k \in Seq(LayersTo[n]), NEW l \in Seq(LayersTo[n]),
           Agree(n, p, s, k, doc, q), Agree(n, p, t, l, doc, q)
    PROVE  Agree(n, p, s \o t, k \o l, doc, q)
  <1> DEFINE r == s \o t
             j == k \o l
             E(x) == ToSet(childless[n][Tree(x, q)])
             P(x) == PathsBelow[n][Way(x, doc, q)]
  <1>1. r \in Seq(TopicsTo[n]) /\ ToSet(r) = ToSet(s) \cup ToSet(t)
    BY JoinElements
  <1>2. j \in Seq(LayersTo[n]) /\ ToSet(j) = ToSet(k) \cup ToSet(l)
    BY JoinElements
  <1>3. Answers(p, E(s), P(k)) /\ Answers(p, E(t), P(l))
    BY DEF Agree
  <1> HIDE DEF r, j
  <1>4. E(r) = E(s) \cup E(t) /\ P(j) = P(k) \cup P(l)
    <2>1. CASE n = 0
      <3>1. \A x \in Seq(TopicsTo[0]) : childless[0][Tree(x, q)] = <<>>
        BY ChildlessNone
      <3>2. \A x \in Seq(LayersTo[0]) : PathsBelow[0][Way(x, doc, q)] = {}
        BY PathsNone
      <3>3. ToSet(<<>>) = {}
        BY DEF ToSet
      <3> QED BY <1>1, <1>2, <2>1, <3>1, <3>2, <3>3
    <2>2. CASE n # 0
      <3>1. PICK m \in Nat : n = m + 1
        <4>1. n - 1 \in Nat /\ n = (n - 1) + 1
          BY <2>2
        <4> QED BY <4>1
      <3> DEFINE At(u) == ToSet(Ends(m, u, q))
                 On(layer) == OnLayer(m, layer, doc, q)
      <3>2. \A x \in Seq(TopicsTo[n]) : E(x) = UNION {At(u) : u \in ToSet(x)}
        BY <3>1, ChildlessElements
      <3>3. ASSUME NEW x \in Seq(LayersTo[n])
            PROVE  P(x) = UNION {On(layer) : layer \in Enabled(x)}
        <4>1. PathsOn(m, x, doc, q)
          BY <3>1, PathsUp
        <4> QED BY <3>1, <4>1 DEF PathsOn
      <3>4. Enabled(j) = Enabled(k) \cup Enabled(l)
        BY <1>2 DEF Enabled
      <3> HIDE DEF At, On, E, P
      <3>5. E(r) = E(s) \cup E(t)
        <4>1. \A x \in Seq(TopicsTo[n]) : \A e : e \in E(x) <=> \E u \in ToSet(x) : e \in At(u)
          BY <3>2
        <4> QED BY <1>1, <4>1
      <3>6. P(j) = P(k) \cup P(l)
        <4>1. \A x \in Seq(LayersTo[n]) : \A y : y \in P(x) <=> \E u \in Enabled(x) : y \in On(u)
          BY <3>3
        <4> QED BY <1>2, <3>4, <4>1
      <3> QED BY <3>5, <3>6
    <2> QED BY <2>1, <2>2
  <1>5. Answers(p, E(s) \cup E(t), P(k) \cup P(l))
    <2> HIDE DEF E, P
    <2> DEFINE EE == [i \in {1, 2} |-> IF i = 1 THEN E(s) ELSE E(t)]
               PP == [i \in {1, 2} |-> IF i = 1 THEN P(k) ELSE P(l)]
    <2>1. EE[1] = E(s) /\ EE[2] = E(t) /\ PP[1] = P(k) /\ PP[2] = P(l)
      OBVIOUS
    <2> HIDE DEF EE, PP
    <2>2. \A i \in {1, 2} : Answers(p, EE[i], PP[i])
      BY <1>3, <2>1
    <2>3. Answers(p, Gathered({1, 2}, EE), Gathered({1, 2}, PP))
      BY <2>2, AnswersUnion
    <2>4. Gathered({1, 2}, EE) = E(s) \cup E(t) /\ Gathered({1, 2}, PP) = P(k) \cup P(l)
      BY <2>1 DEF Gathered
    <2> QED BY <2>3, <2>4
  <1> QED BY <1>4, <1>5 DEF Agree, r, j

\* What is loaded so far is what the layers so far say.
LoadedAsConfigured(p) ==
    Agree(Depth, p, gTopics[p], SubSeq(configuration.layers, 1, li[p]),
          configuration.doc[p], <<>>)

\* The inductive invariant of the names.
NamesInv ==
    /\ TreeInv
    /\ \A p \in Program : phase[p] = "up" => li[p] = Len(configuration.layers)
    /\ \A p \in Program : p = "user" \/ TokensApart => LoadedAsConfigured(p)

\* What a configuration has.
LEMMA ConfigurationHas ==
    ASSUME configuration \in Configurations, NEW p \in Program
    PROVE  /\ configuration.layers \in Seq(LayersTo[Depth])
           /\ Len(configuration.layers) \in Nat
           /\ configuration.doc[p] \in Documents
  <1>1. configuration.layers \in Seq(LayersTo[Depth]) /\ configuration.doc \in [Program -> Documents]
    BY ConfigurationAssumption
  <1> DEFINE layers == configuration.layers
  <1>2. Len(layers) \in Nat
    <2>1. layers \in Seq(LayersTo[Depth])
      BY <1>1
    <2> HIDE DEF layers
    <2> QED BY <2>1
  <1> QED BY <1>1, <1>2

\* The call of one turn has the tokens of the empty path: none.
LEMMA TopFaithful ==
    ASSUME configuration \in Configurations, NEW p \in Program,
           NEW i \in 1 .. Len(configuration.layers), p = "user" \/ TokensApart
    PROVE  Faithful(Depth, TopCall(p, i), <<>>)
  <1>1. /\ TopCall(p, i).p = p /\ TopCall(p, i).tokens = <<>>
        /\ TopCall(p, i).layers = <<configuration.layers[i]>>
        /\ TopCall(p, i).doc = configuration.doc[p]
    BY DEF TopCall
  <1>2. CASE p = "user"
    BY <1>1, <1>2 DEF Faithful
  <1>3. CASE p = "device"
    <2>1. configuration.layers \in Seq(Apart[Depth]) /\ OneKey(configuration.doc["device"])
      BY <1>3 DEF TokensApart, OneKey
    <2>2. configuration.layers[i] \in Apart[Depth]
      BY <2>1
    <2>3. <<configuration.layers[i]>> \in Seq(Apart[Depth])
      BY <2>2, OneType
    <2> QED BY <1>1, <1>3, <2>1, <2>3 DEF Faithful
  <1> QED BY <1>2, <1>3 DEF Program

\* NamesInv holds at first ...
LEMMA NamesInit == Init => NamesInv
  <1> SUFFICES ASSUME Init, NEW p \in Program PROVE LoadedAsConfigured(p)
    BY TreeInit DEF NamesInv, Init
  <1>1. /\ configuration.layers \in Seq(LayersTo[Depth]) /\ Len(configuration.layers) \in Nat
        /\ configuration.doc[p] \in Documents
    BY ConfigurationHas DEF Init
  <1>2. gTopics[p] = <<>> /\ li[p] = 0
    BY DEF Init
  <1>3. SubSeq(configuration.layers, 1, 0) = <<>>
    BY <1>1, SubSeqEmpty
  <1>4. childless[Depth][Tree(<<>>, <<>>)] = <<>>
    <2>1. <<>> \in Seq(Name) /\ Depth \in Nat /\ Depth <= Depth
      BY ConfigurationAssumption
    <2> QED BY <2>1, ChildlessEmpty
  <1>5. PathsBelow[Depth][Way(<<>>, configuration.doc[p], <<>>)] = {}
    <2>1. <<>> \in Seq(Name) /\ Depth \in Nat
      BY ConfigurationAssumption
    <2>2. CASE Depth = 0
      <3>1. <<>> \in Seq(LayersTo[0])
        OBVIOUS
      <3> QED BY <1>1, <2>1, <2>2, <3>1, PathsNone
    <2>3. CASE Depth # 0
      <3>1. PICK n \in Nat : Depth = n + 1
        <4>1. Depth - 1 \in Nat /\ Depth = (Depth - 1) + 1
          BY <2>1, <2>3
        <4> QED BY <4>1
      <3>2. <<>> \in Seq(LayersTo[n + 1]) /\ n + 1 <= Depth
        BY <3>1
      <3>3. PathsOn(n, <<>>, configuration.doc[p], <<>>)
        BY <1>1, <2>1, <3>2, PathsUp
      <3>4. Enabled(<<>>) = {}
        BY DEF Enabled, ToSet
      <3> QED BY <3>1, <3>3, <3>4 DEF PathsOn
    <2> QED BY <2>2, <2>3
  <1>6. Answers(p, ToSet(<<>>), {})
    BY DEF Answers, ToSet
  <1> QED BY <1>2, <1>3, <1>4, <1>5, <1>6 DEF LoadedAsConfigured, Agree

\* ... after a turn of the loop ...
LEMMA NamesLoads == ASSUME NamesInv, NEW p \in Program, LoadLayer(p) PROVE NamesInv'
  <1> DEFINE i == li[p] + 1
             layers == configuration.layers
             loaded == load_layers[Depth][TopCall(p, i)]
  <1>1. TreeInv'
    BY TreeLoads DEF NamesInv
  <1>2. configuration \in Configurations /\ gTopics[p] \in Seq(TopicsTo[Depth])
    BY DEF NamesInv, TreeInv, Typing
  <1>3. /\ layers \in Seq(LayersTo[Depth]) /\ Len(layers) \in Nat
        /\ configuration.doc[p] \in Documents
    BY <1>2, ConfigurationHas
  <1>4. i \in 1 .. Len(layers) /\ li[p] \in 0 .. Len(layers) /\ li[p] < Len(layers)
    <2>1. li[p] \in 0 .. Len(configuration.layers)
      BY DEF NamesInv, TreeInv, Typing
    <2> QED BY <1>3, <2>1 DEF LoadLayer
  <1>5. /\ phase[p] = "layers"
        /\ IF loaded.ok
           THEN /\ gTopics' = [gTopics EXCEPT ![p] = @ \o loaded.topics]
                /\ li' = [li EXCEPT ![p] = @ + 1]
                /\ UNCHANGED phase
           ELSE /\ phase' = [phase EXCEPT ![p] = "exit"]
                /\ UNCHANGED <<gTopics, li>>
        /\ UNCHANGED <<configuration, gTopicmap>>
    BY DEF LoadLayer, TopCall
  <1>6. TokensApart' <=> TokensApart
    BY <1>5 DEF TokensApart
  <1>7. ASSUME p = "user" \/ TokensApart, loaded.ok
        PROVE  Agree(Depth, p, gTopics[p] \o loaded.topics, SubSeq(layers, 1, i),
                     configuration.doc[p], <<>>)
    <2>1. TopCall(p, i) \in Calls(Depth) /\ Faithful(Depth, TopCall(p, i), <<>>)
      BY <1>2, <1>4, <1>7, TopCallType, TopFaithful
    <2>2. Depth \in Nat /\ Depth <= Depth /\ <<>> \in Seq(Name)
      BY ConfigurationAssumption
    <2>3. /\ TopCall(p, i).p = p /\ TopCall(p, i).layers = <<layers[i]>>
          /\ TopCall(p, i).doc = configuration.doc[p]
      BY DEF TopCall
    <2>4. AsConfigured(Depth)
      BY <2>2, ConfiguredAlways
    <2>5. Agree(Depth, p, loaded.topics, <<layers[i]>>, configuration.doc[p], <<>>)
      BY <1>7, <2>1, <2>2, <2>3, <2>4 DEF AsConfigured
    <2>6. Agree(Depth, p, gTopics[p], SubSeq(layers, 1, li[p]), configuration.doc[p], <<>>)
      BY <1>7 DEF NamesInv, LoadedAsConfigured
    <2>7. loaded.topics \in Seq(TopicsTo[Depth])
      BY <1>2, <1>4, TopLoads DEF Loads
    <2> HIDE DEF loaded, layers
    <2>8. /\ SubSeq(layers, 1, li[p]) \in Seq(LayersTo[Depth])
          /\ <<layers[i]>> \in Seq(LayersTo[Depth])
          /\ SubSeq(layers, 1, i) = SubSeq(layers, 1, li[p]) \o <<layers[i]>>
      BY <1>3, <1>4, SubSeqUp
    <2> QED BY <1>2, <1>3, <2>2, <2>5, <2>6, <2>7, <2>8, AgreeJoined
  <1>8. ASSUME NEW r \in Program, (r = "user" \/ TokensApart)'
        PROVE  LoadedAsConfigured(r)'
    <2>1. r = "user" \/ TokensApart
      BY <1>6, <1>8
    <2>2. LoadedAsConfigured(r)
      BY <2>1 DEF NamesInv
    <2> HIDE DEF loaded
    <2>3. CASE r = p /\ loaded.ok
      <3>1. gTopics'[r] = gTopics[p] \o loaded.topics /\ li'[r] = i
        BY <1>5, <2>3 DEF NamesInv, TreeInv, Typing
      <3>2. configuration' = configuration
        BY <1>5
      <3> QED BY <1>7, <2>1, <2>3, <3>1, <3>2 DEF LoadedAsConfigured
    <2>4. CASE r # p \/ ~loaded.ok
      <3>1. gTopics'[r] = gTopics[r] /\ li'[r] = li[r] /\ configuration' = configuration
        BY <1>5, <2>4 DEF NamesInv, TreeInv, Typing
      <3> QED BY <2>2, <3>1 DEF LoadedAsConfigured
    <2> QED BY <2>3, <2>4
  <1>9. ASSUME NEW r \in Program, phase'[r] = "up"
        PROVE  li'[r] = Len(configuration'.layers)
    <2> HIDE DEF loaded
    <2>1. r # p /\ phase[r] = "up" /\ li'[r] = li[r] /\ configuration' = configuration
      BY <1>5, <1>9 DEF NamesInv, TreeInv, Typing
    <2> QED BY <2>1 DEF NamesInv
  <1> QED BY <1>1, <1>8, <1>9 DEF NamesInv

\* ... and after the map is made.
LEMMA NamesMade == ASSUME NamesInv, NEW p \in Program, MakeTopicList(p) PROVE NamesInv'
  <1>1. TreeInv'
    BY TreeMade DEF NamesInv
  <1>2. /\ li[p] = Len(configuration.layers)
        /\ phase' = [phase EXCEPT ![p] = "up"]
        /\ UNCHANGED <<configuration, li, gTopics>>
    BY DEF MakeTopicList
  <1>3. \A r \in Program : phase'[r] = "up" => li'[r] = Len(configuration'.layers)
    BY <1>2 DEF NamesInv, TreeInv, Typing
  <1>4. TokensApart' <=> TokensApart
    BY <1>2 DEF TokensApart
  <1>5. \A r \in Program : LoadedAsConfigured(r)' <=> LoadedAsConfigured(r)
    BY <1>2 DEF LoadedAsConfigured
  <1> QED BY <1>1, <1>3, <1>4, <1>5 DEF NamesInv

\* So NamesInv is an invariant.
LEMMA NamesCorrect == Spec => []NamesInv
  <1>1. NamesInv /\ [Next]_vars => NamesInv'
    <2> SUFFICES ASSUME NamesInv, [Next]_vars PROVE NamesInv'
      OBVIOUS
    <2>1. CASE UNCHANGED vars
      <3>1. TreeInv'
        BY <2>1 DEF NamesInv, vars, TreeInv, Typing, MapMade
      <3> QED BY <2>1, <3>1 DEF vars, NamesInv, LoadedAsConfigured, TokensApart
    <2>2. CASE Next
      BY <2>2, NamesLoads, NamesMade DEF Next
    <2> QED BY <2>1, <2>2
  <1> QED BY <1>1, NamesInit, PTL DEF Spec

\* Once a program is up, its map against the paths of the configuration.
LEMMA UpAnswers ==
    ASSUME NamesInv, NEW p \in Program, phase[p] = "up", p = "user" \/ TokensApart
    PROVE  LET list == childless[Depth][Tree(gTopics[p], <<>>)]
           IN  /\ Answers(p, ToSet(list), Paths(p))
               /\ DOMAIN gTopicmap[p] = {e.name : e \in ToSet(list)}
               /\ \A n \in DOMAIN gTopicmap[p] :
                    [name |-> n, topic |-> gTopicmap[p][n]] \in ToSet(list)
  <1> DEFINE layers == configuration.layers
             ts == gTopics[p]
             list == childless[Depth][Tree(ts, <<>>)]
             map == makeTopicList(ts, <<>>, <<>>)
  <1>1. layers \in Seq(LayersTo[Depth]) /\ Len(layers) \in Nat
    BY ConfigurationHas DEF NamesInv, TreeInv, Typing
  <1>2. SubSeq(layers, 1, Len(layers)) = layers
    BY <1>1, SubSeqAll
  <1>3. Agree(Depth, p, ts, layers, configuration.doc[p], <<>>)
    <2>1. LoadedAsConfigured(p) /\ li[p] = Len(layers)
      BY DEF NamesInv
    <2> QED BY <1>2, <2>1 DEF LoadedAsConfigured
  <1>4. Answers(p, ToSet(list), Paths(p))
    BY <1>3 DEF Agree, Paths, Way
  <1>5. ts \in Seq(TopicsTo[Depth]) /\ gTopicmap[p] = map
    BY DEF NamesInv, TreeInv, Typing, MapMade
  <1>6. /\ DOMAIN map = {e.name : e \in ToSet(list)}
        /\ \A n \in DOMAIN map : [name |-> n, topic |-> map[n]] \in ToSet(list)
    BY <1>5, MapIs
  <1> HIDE DEF list, map
  <1>7. /\ Answers(p, ToSet(list), Paths(p))
        /\ DOMAIN gTopicmap[p] = {e.name : e \in ToSet(list)}
        /\ \A n \in DOMAIN gTopicmap[p] :
             [name |-> n, topic |-> gTopicmap[p][n]] \in ToSet(list)
    BY <1>4, <1>5, <1>6
  <1> QED BY <1>7 DEF list

\* The names both programs go up with are the ends of the paths through the
\* enabled layers: of every configuration on the user, and on the device where
\* no siblings share their tokens above a "$n" (load_layer, makeTopicList).
THEOREM NamesAreAsConfigured == Spec => []NamesAsConfigured
  <1>1. NamesInv => NamesAsConfigured
    <2> SUFFICES ASSUME NamesInv, NEW p \in Program, phase[p] = "up", p = "user" \/ TokensApart
                 PROVE  DOMAIN gTopicmap[p] = {x.path : x \in Paths(p)}
      BY DEF NamesAsConfigured
    <2> DEFINE list == childless[Depth][Tree(gTopics[p], <<>>)]
    <2>1. Answers(p, ToSet(list), Paths(p)) /\ DOMAIN gTopicmap[p] = {e.name : e \in ToSet(list)}
      BY UpAnswers
    <2> HIDE DEF list
    <2> QED BY <2>1 DEF Answers
  <1> QED BY <1>1, NamesCorrect, PTL

\* The device does not go up with a leaf layer that has no LifeDevice, at any
\* depth and after any topics before it ("LifeDevice Required item").
THEOREM LeavesHaveTheirDevices == Spec => []LeavesHaveDevices
  <1>1. NamesInv => LeavesHaveDevices
    <2> SUFFICES ASSUME NamesInv, phase["device"] = "up", TokensApart,
                        NEW x \in Paths("device"), x.leaf,
                        [x EXCEPT !.leaf = FALSE] \notin Paths("device")
                 PROVE  "LifeDevice" \in gTopicmap["device"][x.path].devices
      BY DEF LeavesHaveDevices
    <2> DEFINE list == childless[Depth][Tree(gTopics["device"], <<>>)]
               map == gTopicmap["device"]
               P == Paths("device")
    <2>1. /\ Answers("device", ToSet(list), P)
          /\ DOMAIN map = {e.name : e \in ToSet(list)}
          /\ \A n \in DOMAIN map : [name |-> n, topic |-> map[n]] \in ToSet(list)
      <3>1. "device" \in Program
        BY DEF Program
      <3> QED BY <3>1, UpAnswers
    <2> HIDE DEF list, map, P
    <2>2. P \subseteq [path : Seq(Name), leaf : BOOLEAN] /\ x \in P
      BY <2>1 DEF Answers, P
    <2>3. x.path \in DOMAIN map
      BY <2>1, <2>2 DEF Answers
    <2> DEFINE e == [name |-> x.path, topic |-> map[x.path]]
    <2>4. e \in ToSet(list) /\ e.name = x.path /\ e.topic = map[x.path]
      BY <2>1, <2>3
    <2> HIDE DEF e
    <2>5. Met("device", e, P)
      BY <2>1, <2>4 DEF Answers
    <2>6. PICK y \in P : y.path = e.name /\ (y.leaf => "LifeDevice" \in e.topic.devices)
      BY <2>5, Zenon DEF Met
    <2>7. y.leaf
      <3>1. y \in [path : Seq(Name), leaf : BOOLEAN] /\ x \in [path : Seq(Name), leaf : BOOLEAN]
        BY <2>2
      <3>2. y = [x EXCEPT !.leaf = y.leaf]
        BY <2>4, <2>6, <3>1
      <3>3. y # [x EXCEPT !.leaf = FALSE]
        BY DEF P
      <3> QED BY <3>1, <3>2, <3>3
    <2> QED BY <2>4, <2>6, <2>7 DEF map
  <1> QED BY <1>1, NamesCorrect, PTL
==============================================================================
