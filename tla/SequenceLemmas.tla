---------------------------- MODULE SequenceLemmas ----------------------------
(***************************************************************************)
(* Lemmas about sequences for the other proof modules: what FlattenSeq of  *)
(* the community modules returns, and what a loop that appends zero, one   *)
(* or more elements for each element of a list makes of the whole list.    *)
(* The induction theorems of the library take an operator as a parameter,  *)
(* which the provers cannot instantiate; here induction is over a set, and *)
(* rests on the minimal element that a well-founded relation has (WFMin).  *)
(***************************************************************************)
EXTENDS Integers, SequencesExt, SequenceTheorems, WellFoundedInduction, TLAPS

Less == {p \in Nat \X Nat : p[1] < p[2]}

\* Induction over the natural numbers: a set that holds 0, and n + 1 with each n,
\* holds them all.
LEMMA SetInduction ==
    ASSUME NEW S, 0 \in S, \A n \in Nat : n \in S => n + 1 \in S
    PROVE  Nat \subseteq S
  <1> SUFFICES ASSUME ~(Nat \subseteq S) PROVE FALSE
    OBVIOUS
  <1> DEFINE T == Nat \ S
  <1>1. T \subseteq Nat /\ T # {}
    OBVIOUS
  <1>2. IsWellFoundedOn(Less, Nat)
    BY NatLessThanWellFounded, Zenon DEF OpToRel, Less
  <1>3. PICK x \in T : \A y \in T : ~(<<y, x>> \in Less)
    BY <1>1, <1>2, WFMin
  <1>4. x \in Nat /\ x # 0 /\ x - 1 \in Nat /\ x - 1 < x
    OBVIOUS
  <1>5. <<x - 1, x>> \in Less
    BY <1>4 DEF Less
  <1>6. x - 1 \in S
    BY <1>3, <1>4, <1>5
  <1> QED BY <1>4, <1>6

---------------------------------------------------------------------------
(* FlattenSeq, which is the last value of a recursive function.            *)

\* f is the recursive function of FlattenSeq(ss).
IsFlatten(f, ss) ==
    f = [i \in 1 .. Len(ss) |-> IF i = 1 THEN ss[i] ELSE f[i-1] \o ss[i]]

\* What such a function is at the first index and at each later one.
LEMMA FlattenAt ==
    ASSUME NEW ss, Len(ss) \in Nat, NEW f, IsFlatten(f, ss)
    PROVE  /\ 1 <= Len(ss) => f[1] = ss[1]
           /\ \A i \in Nat : 1 <= i /\ i + 1 <= Len(ss) => f[i + 1] = f[i] \o ss[i + 1]
  <1>1. 1 <= Len(ss) => f[1] = ss[1]
    BY DEF IsFlatten
  <1>2. ASSUME NEW i \in Nat, 1 <= i, i + 1 <= Len(ss)
        PROVE  f[i + 1] = f[i] \o ss[i + 1]
    <2>1. PICK j \in Nat : j = i + 1
      OBVIOUS
    <2>2. j \in 1 .. Len(ss) /\ j # 1 /\ j - 1 = i
      BY <1>2, <2>1
    <2>3. f[j] = f[i] \o ss[j]
      BY <2>2, Zenon DEF IsFlatten
    <2> QED BY <2>1, <2>3, Zenon
  <1> QED BY <1>1, <1>2

\* There is one, of sequences over the elements ss is made of ...
LEMMA FlattenExists ==
    ASSUME NEW T, NEW ss \in Seq(Seq(T))
    PROVE  \E f \in [1 .. Len(ss) -> Seq(T)] : IsFlatten(f, ss)
  <1> DEFINE Good == {n \in Nat : \A xs \in [1 .. n -> Seq(T)] :
                        \E f \in [1 .. n -> Seq(T)] : IsFlatten(f, xs)}
  <1>1. 0 \in Good
    <2> SUFFICES ASSUME NEW xs \in [1 .. 0 -> Seq(T)]
                 PROVE  \E f \in [1 .. 0 -> Seq(T)] : IsFlatten(f, xs)
      OBVIOUS
    <2>1. Len(xs) = 0
      OBVIOUS
    <2>2. IsFlatten(xs, xs)
      BY <2>1 DEF IsFlatten
    <2> QED BY <2>2
  <1>2. ASSUME NEW n \in Nat, n \in Good PROVE n + 1 \in Good
    <2> SUFFICES ASSUME NEW xs \in [1 .. n + 1 -> Seq(T)]
                 PROVE  \E f \in [1 .. n + 1 -> Seq(T)] : IsFlatten(f, xs)
      OBVIOUS
    <2> DEFINE ys == [i \in 1 .. n |-> xs[i]]
    <2>1. ys \in [1 .. n -> Seq(T)] /\ Len(ys) = n /\ Len(xs) = n + 1
      OBVIOUS
    <2>2. PICK g \in [1 .. n -> Seq(T)] : IsFlatten(g, ys)
      BY <1>2, <2>1
    <2> DEFINE f == [i \in 1 .. n + 1 |-> IF i = 1 THEN xs[i]
                       ELSE IF i = n + 1 THEN g[n] \o xs[i] ELSE g[i]]
    <2>3. f \in [1 .. n + 1 -> Seq(T)]
      OBVIOUS
    <2>4. \A i \in 1 .. n : f[i] = g[i]
      BY <2>1, <2>2 DEF IsFlatten
    <2>5. IsFlatten(f, xs)
      <3>1. f[1] = xs[1]
        OBVIOUS
      <3>2. n # 0 => f[n + 1] = f[n] \o xs[n + 1]
        <4> SUFFICES ASSUME n # 0 PROVE f[n + 1] = f[n] \o xs[n + 1]
          OBVIOUS
        <4>1. n \in 1 .. n /\ n + 1 \in 1 .. n + 1 /\ n + 1 # 1
          OBVIOUS
        <4>2. f[n + 1] = g[n] \o xs[n + 1]
          BY <4>1
        <4>3. f[n] = g[n]
          BY <2>4, <4>1
        <4> HIDE DEF f
        <4> QED BY <4>2, <4>3
      <3>3. ASSUME NEW j \in Nat, 1 <= j, j + 1 <= n
            PROVE  f[j + 1] = f[j] \o xs[j + 1]
        <4>1. j \in 1 .. n /\ j + 1 \in 1 .. n /\ ys[j + 1] = xs[j + 1]
          BY <3>3
        <4>2. g[j + 1] = g[j] \o ys[j + 1]
          BY <2>1, <2>2, <3>3, FlattenAt
        <4>3. f[j + 1] = g[j + 1] /\ f[j] = g[j]
          BY <2>4, <4>1
        <4> QED BY <4>1, <4>2, <4>3
      <3> HIDE DEF f
      <3>4. ASSUME NEW i \in 1 .. n + 1, i # 1
            PROVE  f[i] = f[i - 1] \o xs[i]
        <4>1. i - 1 \in Nat /\ 1 <= i - 1 /\ (i - 1) + 1 = i /\ (i = n + 1 => i - 1 = n /\ n # 0)
          BY <3>4
        <4>2. CASE i = n + 1
          BY <4>1, <4>2, <3>2
        <4>3. CASE i # n + 1
          <5>1. f[(i - 1) + 1] = f[i - 1] \o xs[(i - 1) + 1]
            <6>1. i - 1 \in Nat /\ 1 <= i - 1 /\ (i - 1) + 1 <= n
              BY <4>1, <4>3
            <6>2. \A j \in Nat : 1 <= j /\ j + 1 <= n => f[j + 1] = f[j] \o xs[j + 1]
              BY <3>3
            <6> QED BY <6>1, <6>2
          <5> QED BY <4>1, <5>1
        <4> QED BY <4>2, <4>3
      <3>5. f = [i \in 1 .. n + 1 |-> f[i]]
        BY <2>3
      <3>6. f = [i \in 1 .. n + 1 |-> IF i = 1 THEN xs[i] ELSE f[i-1] \o xs[i]]
        BY <3>1, <3>4, <3>5
      <3> QED BY <3>6, <2>1 DEF IsFlatten
    <2> QED BY <2>3, <2>5
  <1>3. Len(ss) \in Good
    <2> HIDE DEF Good
    <2> QED BY <1>1, <1>2, SetInduction
  <1> QED BY <1>3

\* ... and only one.
LEMMA FlattenUnique ==
    ASSUME NEW ss, Len(ss) \in Nat, NEW f, NEW g, IsFlatten(f, ss), IsFlatten(g, ss)
    PROVE  \A i \in 1 .. Len(ss) : f[i] = g[i]
  <1> DEFINE Good == {n \in Nat : n + 1 \in 1 .. Len(ss) => f[n + 1] = g[n + 1]}
  <1>1. 0 \in Good
    BY DEF IsFlatten
  <1>2. ASSUME NEW n \in Nat, n \in Good PROVE n + 1 \in Good
    <2> SUFFICES ASSUME n + 2 \in 1 .. Len(ss) PROVE f[n + 2] = g[n + 2]
      OBVIOUS
    <2>1. n + 1 \in 1 .. Len(ss) /\ n + 2 # 1
      OBVIOUS
    <2>2. f[n + 2] = f[n + 1] \o ss[n + 2] /\ g[n + 2] = g[n + 1] \o ss[n + 2]
      <3>1. n + 1 \in Nat /\ 1 <= n + 1 /\ (n + 1) + 1 <= Len(ss) /\ (n + 1) + 1 = n + 2
        OBVIOUS
      <3>2. /\ f[(n + 1) + 1] = f[n + 1] \o ss[(n + 1) + 1]
            /\ g[(n + 1) + 1] = g[n + 1] \o ss[(n + 1) + 1]
        BY <3>1, FlattenAt
      <3> QED BY <3>1, <3>2
    <2> QED BY <2>1, <2>2, <1>2
  <1>3. Nat \subseteq Good
    <2> HIDE DEF Good
    <2> QED BY <1>1, <1>2, SetInduction
  <1>4. ASSUME NEW i \in 1 .. Len(ss) PROVE f[i] = g[i]
    <2>1. i - 1 \in Good
      BY <1>3
    <2> QED BY <2>1
  <1> QED BY <1>4

\* The last value of such a function is what FlattenSeq returns.
LEMMA FlattenIs ==
    ASSUME NEW ss, Len(ss) \in Nat \ {0}, NEW f, IsFlatten(f, ss)
    PROVE  FlattenSeq(ss) = f[Len(ss)]
  <1> DEFINE g == CHOOSE h : h = [i \in 1 .. Len(ss) |->
                                    IF i = 1 THEN ss[i] ELSE h[i-1] \o ss[i]]
  <1>1. \E h : h = [i \in 1 .. Len(ss) |-> IF i = 1 THEN ss[i] ELSE h[i-1] \o ss[i]]
    BY DEF IsFlatten
  <1>2. g = [i \in 1 .. Len(ss) |-> IF i = 1 THEN ss[i] ELSE g[i-1] \o ss[i]]
    BY <1>1
  <1>3. IsFlatten(g, ss)
    BY <1>2 DEF IsFlatten
  <1>4. FlattenSeq(ss) = g[Len(ss)]
    BY DEF FlattenSeq
  <1> HIDE DEF g
  <1>5. g[Len(ss)] = f[Len(ss)]
    BY <1>3, FlattenUnique
  <1> QED BY <1>4, <1>5

\* What FlattenSeq makes of no sequence.
LEMMA FlattenEmpty == FlattenSeq(<<>>) = <<>>
  BY DEF FlattenSeq

\* It adds no element: the result is over what the sequences are over.
LEMMA FlattenType ==
    ASSUME NEW T, NEW ss \in Seq(Seq(T))
    PROVE  FlattenSeq(ss) \in Seq(T)
  <1>1. CASE ss = <<>>
    <2>1. <<>> \in Seq(T)
      OBVIOUS
    <2> QED BY <1>1, <2>1, FlattenEmpty
  <1>2. CASE ss # <<>>
    <2>1. Len(ss) \in Nat \ {0}
      BY <1>2
    <2>2. PICK f \in [1 .. Len(ss) -> Seq(T)] : IsFlatten(f, ss)
      BY FlattenExists
    <2>3. FlattenSeq(ss) = f[Len(ss)]
      BY <2>1, <2>2, FlattenIs
    <2>4. Len(ss) \in 1 .. Len(ss)
      BY <2>1
    <2>5. f[Len(ss)] \in Seq(T)
      BY <2>2, <2>4
    <2> QED BY <2>3, <2>5
  <1> QED BY <1>1, <1>2

\* What it makes of one sequence more.
LEMMA FlattenAppend ==
    ASSUME NEW T, NEW ss \in Seq(Seq(T)), NEW s \in Seq(T)
    PROVE  FlattenSeq(Append(ss, s)) = FlattenSeq(ss) \o s
  <1> DEFINE n  == Len(ss)
             xs == Append(ss, s)
  <1>1. /\ n \in Nat /\ xs \in Seq(Seq(T)) /\ Len(xs) = n + 1 /\ xs[n + 1] = s
        /\ \A i \in 1 .. n : xs[i] = ss[i]
    OBVIOUS
  <1> HIDE DEF xs
  <1>2. PICK f \in [1 .. Len(xs) -> Seq(T)] : IsFlatten(f, xs)
    BY <1>1, FlattenExists
  <1>3. FlattenSeq(xs) = f[n + 1]
    BY <1>1, <1>2, FlattenIs
  <1>4. /\ 1 <= Len(xs) => f[1] = xs[1]
        /\ \A i \in Nat : 1 <= i /\ i + 1 <= Len(xs) => f[i + 1] = f[i] \o xs[i + 1]
    <2>1. Len(xs) \in Nat
      BY <1>1
    <2> QED BY <1>2, <2>1, FlattenAt, Zenon
  <1>5. CASE n = 0
    <2>1. f[n + 1] = s
      <3>1. f[1] = xs[1]
        BY <1>1, <1>5, <1>4
      <3> QED BY <1>1, <1>5, <3>1
    <2>2. ss = <<>> /\ <<>> \o s = s
      BY <1>5
    <2> QED BY <1>3, <2>1, <2>2, FlattenEmpty DEF xs
  <1>6. CASE n # 0
    <2>1. f[n + 1] = f[n] \o s
      <3>1. n \in Nat /\ 1 <= n /\ n + 1 <= Len(xs)
        BY <1>1, <1>6
      <3>2. f[n + 1] = f[n] \o xs[n + 1]
        BY <1>1, <1>4, <3>1
      <3> QED BY <1>1, <3>2
    <2> DEFINE g == [i \in 1 .. n |-> f[i]]
    <2>2. ASSUME NEW i \in 1 .. n, i # 1
          PROVE  f[i] = f[i - 1] \o ss[i]
      <3>1. /\ i - 1 \in Nat /\ 1 <= i - 1 /\ (i - 1) + 1 <= Len(xs)
            /\ (i - 1) + 1 = i /\ xs[i] = ss[i]
        BY <1>1, <2>2
      <3>2. f[(i - 1) + 1] = f[i - 1] \o xs[(i - 1) + 1]
        BY <1>1, <1>4, <3>1
      <3> QED BY <3>1, <3>2
    <2>3. f[1] = ss[1]
      <3>1. f[1] = xs[1]
        BY <1>1, <1>6, <1>4
      <3> QED BY <1>1, <1>6, <3>1
    <2>4. ASSUME NEW i \in 1 .. n
          PROVE  g[i] = IF i = 1 THEN ss[i] ELSE g[i - 1] \o ss[i]
      <3>1. i # 1 => i - 1 \in 1 .. n
        OBVIOUS
      <3> QED BY <2>2, <2>3, <3>1
    <2>5. IsFlatten(g, ss)
      <3>1. g = [i \in 1 .. n |-> IF i = 1 THEN ss[i] ELSE g[i - 1] \o ss[i]]
        BY <2>4
      <3> QED BY <3>1 DEF IsFlatten
    <2>6. FlattenSeq(ss) = g[n] /\ g[n] = f[n]
      BY <1>1, <1>6, <2>5, FlattenIs
    <2> QED BY <1>3, <2>1, <2>6 DEF xs
  <1> QED BY <1>1, <1>5, <1>6

---------------------------------------------------------------------------
\* Induction over sequences: a set that holds the empty one, and with each
\* sequence every longer one by an element, holds them all.
LEMMA SeqInduction ==
    ASSUME NEW S, NEW P, <<>> \in P,
           \A s \in Seq(S), x \in S : s \in P => Append(s, x) \in P
    PROVE  Seq(S) \subseteq P
  <1> DEFINE Good == {n \in Nat : \A s \in Seq(S) : Len(s) = n => s \in P}
  <1>1. 0 \in Good
    BY EmptySeq
  <1>2. ASSUME NEW n \in Nat, n \in Good PROVE n + 1 \in Good
    <2> SUFFICES ASSUME NEW s \in Seq(S), Len(s) = n + 1 PROVE s \in P
      OBVIOUS
    <2>1. PICK r \in Seq(S), x \in S : s = Append(r, x)
      BY SequenceEmptyOrAppend
    <2>2. Len(r) = n
      BY <2>1
    <2> QED BY <1>2, <2>1, <2>2
  <1>3. Nat \subseteq Good
    <2> HIDE DEF Good
    <2> QED BY <1>1, <1>2, SetInduction
  <1>4. ASSUME NEW s \in Seq(S) PROVE s \in P
    <2>1. Len(s) \in Good
      BY <1>3
    <2> QED BY <2>1
  <1> QED BY <1>4

---------------------------------------------------------------------------
(* Replacing each element of a sequence by a sequence.                     *)

\* Its elements are the elements of the sequences.
LEMMA FlattenElements ==
    ASSUME NEW T, NEW ss \in Seq(Seq(T))
    PROVE  ToSet(FlattenSeq(ss)) = UNION {ToSet(ss[k]) : k \in DOMAIN ss}
  <1> DEFINE Parts(xs) == UNION {ToSet(xs[k]) : k \in DOMAIN xs}
             P == {xs \in Seq(Seq(T)) : ToSet(FlattenSeq(xs)) = Parts(xs)}
  <1>1. <<>> \in P
    <2>1. ToSet(<<>>) = {} /\ Parts(<<>>) = {} /\ <<>> \in Seq(Seq(T))
      BY DEF ToSet
    <2> QED BY <2>1, FlattenEmpty
  <1>2. ASSUME NEW xs \in Seq(Seq(T)), NEW s \in Seq(T), xs \in P
        PROVE  Append(xs, s) \in P
    <2> DEFINE ys == Append(xs, s)
    <2>1. FlattenSeq(ys) = FlattenSeq(xs) \o s
      BY FlattenAppend
    <2>2. FlattenSeq(xs) \in Seq(T)
      BY FlattenType
    <2>3. \A r \in Seq(T) : ToSet(r \o s) = ToSet(r) \cup ToSet(s)
      <3> SUFFICES ASSUME NEW r \in Seq(T)
                   PROVE  ToSet(r \o s) = ToSet(r) \cup ToSet(s)
        OBVIOUS
      <3>1. ToSet(r \o s) \subseteq ToSet(r) \cup ToSet(s)
        BY DEF ToSet
      <3>2. ToSet(r) \subseteq ToSet(r \o s)
        BY DEF ToSet
      <3>3. ASSUME NEW i \in DOMAIN s PROVE s[i] \in ToSet(r \o s)
        <4>1. (r \o s)[Len(r) + i] = s[i] /\ Len(r) + i \in DOMAIN (r \o s)
          OBVIOUS
        <4> QED BY <4>1 DEF ToSet
      <3> QED BY <3>1, <3>2, <3>3 DEF ToSet
    <2>4. Parts(ys) = Parts(xs) \cup ToSet(s)
      <3>1. /\ DOMAIN ys = DOMAIN xs \cup {Len(xs) + 1} /\ ys[Len(xs) + 1] = s
            /\ \A k \in DOMAIN xs : ys[k] = xs[k]
        OBVIOUS
      <3> HIDE DEF ys
      <3>2. ASSUME NEW x PROVE x \in Parts(ys) <=> x \in Parts(xs) \/ x \in ToSet(s)
        <4>1. x \in Parts(ys) <=> \E k \in DOMAIN ys : x \in ToSet(ys[k])
          OBVIOUS
        <4>2. x \in Parts(xs) <=> \E k \in DOMAIN xs : x \in ToSet(xs[k])
          OBVIOUS
        <4> HIDE DEF Parts
        <4> QED BY <3>1, <4>1, <4>2
      <3> HIDE DEF Parts
      <3> QED BY <3>2
    <2>5. ys \in Seq(Seq(T))
      OBVIOUS
    <2> HIDE DEF Parts
    <2>6. ToSet(FlattenSeq(ys)) = Parts(ys)
      <3> HIDE DEF ys
      <3> QED BY <1>2, <2>1, <2>2, <2>3, <2>4
    <2> QED BY <2>5, <2>6
  <1>3. Seq(Seq(T)) \subseteq P
    <2> HIDE DEF P
    <2> QED BY <1>1, <1>2, SeqInduction
  <1> QED BY <1>3

\* Concatenation, kept opaque: the provers reason about it by these lemmas.
Cat(r, s) == r \o s

\* Nothing added on either side.
LEMMA CatEmpty ==
    ASSUME NEW S, NEW s \in Seq(S)
    PROVE  Cat(s, <<>>) = s /\ Cat(<<>>, s) = s
  BY DEF Cat

\* One element more on the right.
LEMMA CatAppend ==
    ASSUME NEW S, NEW r \in Seq(S), NEW s \in Seq(S), NEW x \in S
    PROVE  Cat(r, Append(s, x)) = Append(Cat(r, s), x) /\ Cat(r, s) \in Seq(S)
  BY DEF Cat

\* Three in a row.
LEMMA CatAssociative ==
    ASSUME NEW S, NEW q \in Seq(S), NEW r \in Seq(S), NEW s \in Seq(S)
    PROVE  Cat(Cat(q, r), s) = Cat(q, Cat(r, s))
  BY DEF Cat

\* The functions that give a sequence for an element; opaque, like Cat.
Expansions(S, T) == [S -> Seq(T)]

\* Such a function's value at an element.
LEMMA ExpansionAt ==
    ASSUME NEW S, NEW T, NEW g \in Expansions(S, T), NEW x \in S
    PROVE  g[x] \in Seq(T)
  BY DEF Expansions

\* s with each element replaced by the sequence g gives for it.
FlatMap(g, s) == FlattenSeq([k \in DOMAIN s |-> g[s[k]]])

\* The list without elements.
LEMMA FlatMapEmpty == ASSUME NEW g PROVE FlatMap(g, <<>>) = <<>>
  <1>1. [k \in DOMAIN <<>> |-> g[<<>>[k]]] = <<>>
    OBVIOUS
  <1> QED BY <1>1, FlattenEmpty DEF FlatMap

\* What FlatMap flattens is a sequence of sequences.
LEMMA FlatMapParts ==
    ASSUME NEW S, NEW T, NEW g \in Expansions(S, T), NEW s \in Seq(S)
    PROVE  [k \in DOMAIN s |-> g[s[k]]] \in Seq(Seq(T))
  <1>1. Len(s) \in Nat /\ DOMAIN s = 1 .. Len(s)
    OBVIOUS
  <1>2. \A k \in 1 .. Len(s) : g[s[k]] \in Seq(T)
    BY DEF Expansions
  <1>3. [k \in DOMAIN s |-> g[s[k]]] \in [1 .. Len(s) -> Seq(T)]
    BY <1>1, <1>2
  <1> QED BY <1>1, <1>3

\* One element more adds what g gives for it.
LEMMA FlatMapAppend ==
    ASSUME NEW S, NEW T, NEW g \in Expansions(S, T), NEW s \in Seq(S), NEW x \in S
    PROVE  FlatMap(g, Append(s, x)) = Cat(FlatMap(g, s), g[x])
  <1> DEFINE ss == [k \in DOMAIN s |-> g[s[k]]]
             r  == Append(s, x)
  <1>1. ss \in Seq(Seq(T)) /\ g[x] \in Seq(T)
    BY FlatMapParts, ExpansionAt
  <1>2. [k \in DOMAIN r |-> g[r[k]]] = Append(ss, g[x])
    OBVIOUS
  <1>4. FlattenSeq(Append(ss, g[x])) = FlattenSeq(ss) \o g[x]
    BY <1>1, FlattenAppend
  <1>5. FlatMap(g, r) = Cat(FlatMap(g, s), g[x])
    BY <1>2, <1>4, Zenon DEF FlatMap, Cat
  <1> QED BY <1>5

\* The result is over what g gives sequences of.
LEMMA FlatMapType ==
    ASSUME NEW S, NEW T, NEW g \in Expansions(S, T), NEW s \in Seq(S)
    PROVE  FlatMap(g, s) \in Seq(T)
  <1> DEFINE ss == [k \in DOMAIN s |-> g[s[k]]]
  <1>1. ss \in Seq(Seq(T))
    BY FlatMapParts
  <1> QED BY <1>1, FlattenType DEF FlatMap

\* A list of one element.
LEMMA FlatMapOne ==
    ASSUME NEW S, NEW T, NEW g \in Expansions(S, T), NEW x \in S
    PROVE  FlatMap(g, <<x>>) = g[x]
  <1>1. <<>> \in Seq(S) /\ Append(<<>>, x) = <<x>>
    OBVIOUS
  <1>2. FlatMap(g, Append(<<>>, x)) = Cat(<<>>, g[x])
    BY <1>1, FlatMapAppend, FlatMapEmpty
  <1>3. Cat(<<>>, g[x]) = g[x]
    BY DEF Cat
  <1> QED BY <1>1, <1>2, <1>3

\* Two lists in a row.
LEMMA FlatMapConcat ==
    ASSUME NEW S, NEW T, NEW g \in Expansions(S, T), NEW r \in Seq(S), NEW s \in Seq(S)
    PROVE  FlatMap(g, Cat(r, s)) = Cat(FlatMap(g, r), FlatMap(g, s))
  <1> DEFINE P == {q \in Seq(S) : FlatMap(g, Cat(r, q)) = Cat(FlatMap(g, r), FlatMap(g, q))}
  <1>1. <<>> \in P
    <2>1. <<>> \in Seq(S) /\ FlatMap(g, r) \in Seq(T)
      BY FlatMapType
    <2>2. Cat(r, <<>>) = r /\ Cat(FlatMap(g, r), <<>>) = FlatMap(g, r)
      BY <2>1, CatEmpty
    <2> QED BY <2>1, <2>2, FlatMapEmpty
  <1>2. ASSUME NEW q \in Seq(S), NEW x \in S, q \in P PROVE Append(q, x) \in P
    <2>1. Cat(r, Append(q, x)) = Append(Cat(r, q), x) /\ Cat(r, q) \in Seq(S)
      BY CatAppend
    <2>2. FlatMap(g, Append(Cat(r, q), x)) = Cat(FlatMap(g, Cat(r, q)), g[x])
      BY <2>1, FlatMapAppend
    <2>3. FlatMap(g, Append(q, x)) = Cat(FlatMap(g, q), g[x])
      BY FlatMapAppend
    <2>4. /\ FlatMap(g, r) \in Seq(T) /\ FlatMap(g, q) \in Seq(T) /\ g[x] \in Seq(T)
      BY FlatMapType, ExpansionAt
    <2>5. Cat(Cat(FlatMap(g, r), FlatMap(g, q)), g[x]) = Cat(FlatMap(g, r), Cat(FlatMap(g, q), g[x]))
      BY <2>4, CatAssociative
    <2>6. FlatMap(g, Cat(r, q)) = Cat(FlatMap(g, r), FlatMap(g, q))
      BY <1>2
    <2>7. FlatMap(g, Cat(r, Append(q, x))) = Cat(FlatMap(g, r), FlatMap(g, Append(q, x)))
      BY <2>1, <2>2, <2>3, <2>5, <2>6, Zenon
    <2>8. Append(q, x) \in Seq(S)
      OBVIOUS
    <2> QED BY <2>7, <2>8
  <1>3. Seq(S) \subseteq P
    <2> HIDE DEF P
    <2> QED BY <1>1, <1>2, SeqInduction
  <1> QED BY <1>3

\* Two replacements in turn are one.
LEMMA FlatMapTwice ==
    ASSUME NEW S, NEW T, NEW U, NEW g \in Expansions(S, T), NEW h \in Expansions(T, U),
           NEW s \in Seq(S)
    PROVE  FlatMap(h, FlatMap(g, s)) = FlatMap([x \in S |-> FlatMap(h, g[x])], s)
  <1> DEFINE gh == [x \in S |-> FlatMap(h, g[x])]
             P == {q \in Seq(S) : FlatMap(h, FlatMap(g, q)) = FlatMap(gh, q)}
  <1>0. \A a, b \in Seq(T) : FlatMap(h, Cat(a, b)) = Cat(FlatMap(h, a), FlatMap(h, b))
    BY FlatMapConcat, SMT
  <1>1. <<>> \in P
    BY FlatMapEmpty
  <1>2. gh \in Expansions(S, U)
    <2>1. \A x \in S : FlatMap(h, g[x]) \in Seq(U)
      BY FlatMapType, ExpansionAt
    <2> QED BY <2>1 DEF Expansions
  <1>3. ASSUME NEW q \in Seq(S), NEW x \in S, q \in P PROVE Append(q, x) \in P
    <2>1. FlatMap(g, q) \in Seq(T) /\ g[x] \in Seq(T)
      BY FlatMapType, ExpansionAt
    <2>2. FlatMap(g, Append(q, x)) = Cat(FlatMap(g, q), g[x])
      BY FlatMapAppend
    <2>3. FlatMap(h, Cat(FlatMap(g, q), g[x])) = Cat(FlatMap(h, FlatMap(g, q)), FlatMap(h, g[x]))
      BY <1>0, <2>1
    <2>4. gh[x] = FlatMap(h, g[x]) /\ FlatMap(h, FlatMap(g, q)) = FlatMap(gh, q)
      BY <1>3
    <2> HIDE DEF gh
    <2>5. FlatMap(gh, Append(q, x)) = Cat(FlatMap(gh, q), gh[x])
      BY <1>2, FlatMapAppend
    <2>6. FlatMap(h, FlatMap(g, Append(q, x))) = FlatMap(gh, Append(q, x))
      BY <2>2, <2>3, <2>4, <2>5
    <2> QED BY <2>6
  <1>4. Seq(S) \subseteq P
    <2> HIDE DEF P
    <2> QED BY <1>1, <1>3, SeqInduction
  <1> QED BY <1>4

\* Replacing the elements of a flattened sequence, and flattening the replaced.
LEMMA FlatMapFlatten ==
    ASSUME NEW S, NEW T, NEW g \in Expansions(S, T), NEW ss \in Seq(Seq(S))
    PROVE  FlatMap(g, FlattenSeq(ss)) = FlattenSeq([k \in DOMAIN ss |-> FlatMap(g, ss[k])])
  <1> DEFINE id == [q \in Seq(S) |-> q]
             gs == [q \in Seq(S) |-> FlatMap(g, id[q])]
  <1>1. id \in [Seq(S) -> Seq(S)]
    OBVIOUS
  <1>2. FlatMap(id, ss) = FlattenSeq(ss)
    <2>1. [k \in DOMAIN ss |-> id[ss[k]]] = ss
      OBVIOUS
    <2> QED BY <2>1, Zenon DEF FlatMap
  <1>3. FlatMap(g, FlatMap(id, ss)) = FlatMap(gs, ss)
    <2>1. \A R : \A i \in Expansions(R, S) : \A q \in Seq(R) :
            FlatMap(g, FlatMap(i, q)) = FlatMap([x \in R |-> FlatMap(g, i[x])], q)
      BY FlatMapTwice, SMT
    <2>2. id \in Expansions(Seq(S), S)
      BY <1>1 DEF Expansions
    <2> HIDE DEF id
    <2>3. \A q \in Seq(Seq(S)) :
            FlatMap(g, FlatMap(id, q)) = FlatMap([x \in Seq(S) |-> FlatMap(g, id[x])], q)
      BY <2>1, <2>2, Zenon
    <2>4. FlatMap(g, FlatMap(id, ss)) = FlatMap([x \in Seq(S) |-> FlatMap(g, id[x])], ss)
      BY <2>3, Zenon
    <2> QED BY <2>4
  <1>4. [k \in DOMAIN ss |-> gs[ss[k]]] = [k \in DOMAIN ss |-> FlatMap(g, ss[k])]
    OBVIOUS
  <1> HIDE DEF gs
  <1> QED BY <1>2, <1>3, <1>4 DEF FlatMap

\* Applying a function to each element is a replacement too.
LEMMA FlatMapApply ==
    ASSUME NEW S, NEW T, NEW g \in Expansions(S, T), NEW f,
           \A x \in S : g[x] = <<f[x]>>,
           NEW s \in Seq(S)
    PROVE  [k \in DOMAIN s |-> f[s[k]]] = FlatMap(g, s)
  <1> DEFINE Apply(q) == [k \in DOMAIN q |-> f[q[k]]]
             P == {q \in Seq(S) : Apply(q) = FlatMap(g, q)}
  <1>1. <<>> \in P
    <2>1. Apply(<<>>) = <<>>
      OBVIOUS
    <2>2. <<>> \in Seq(S)
      OBVIOUS
    <2> HIDE DEF Apply
    <2> QED BY <2>1, <2>2, FlatMapEmpty
  <1>2. \A x \in S : f[x] \in T
    <2>1. \A x \in S : <<f[x]>> \in Seq(T)
      BY ExpansionAt
    <2> QED BY <2>1
  <1>3. ASSUME NEW q \in Seq(S), NEW x \in S, q \in P PROVE Append(q, x) \in P
    <2>1. Apply(Append(q, x)) = Cat(Apply(q), <<f[x]>>)
      <3>1. Apply(q) \in Seq(T) /\ Len(Apply(q)) = Len(q) /\ f[x] \in T
        BY <1>2
      <3>2. DOMAIN Append(q, x) = 1 .. Len(q) + 1
        OBVIOUS
      <3> QED BY <3>1, <3>2 DEF Cat
    <2>2. g[x] = <<f[x]>> /\ Apply(q) = FlatMap(g, q)
      BY <1>3
    <2> HIDE DEF Apply
    <2>3. FlatMap(g, Append(q, x)) = Cat(FlatMap(g, q), g[x])
      BY FlatMapAppend
    <2>4. Apply(Append(q, x)) = FlatMap(g, Append(q, x))
      BY <2>1, <2>2, <2>3
    <2> QED BY <2>4
  <1>4. Seq(S) \subseteq P
    <2> HIDE DEF P
    <2> QED BY <1>1, <1>3, SeqInduction
  <1> QED BY <1>4

(***************************************************************************)
(* Short lists, and lists put together.                                    *)
(***************************************************************************)
\* A function on an initial piece of the naturals is a list.
LEMMA ListType == ASSUME NEW S, NEW n \in Nat, NEW s \in [1 .. n -> S] PROVE s \in Seq(S)
  OBVIOUS

\* A list of one.
LEMMA OneType == ASSUME NEW S, NEW x \in S PROVE <<x>> \in Seq(S)
  OBVIOUS

\* One element in front of a list.
LEMMA ConsIs ==
    ASSUME NEW S, NEW k \in S, NEW s \in Seq(S)
    PROVE  /\ <<k>> \o s \in Seq(S) /\ Len(<<k>> \o s) = Len(s) + 1
           /\ (<<k>> \o s)[1] = k
           /\ \A i \in 1 .. Len(s) : (<<k>> \o s)[i + 1] = s[i]
  OBVIOUS

\* What is behind it is told by the whole.
LEMMA ConsInjective ==
    ASSUME NEW S, NEW k \in S, NEW r \in Seq(S), NEW s \in Seq(S), <<k>> \o r = <<k>> \o s
    PROVE  r = s
  <1>1. Len(r) \in Nat /\ Len(s) \in Nat
    OBVIOUS
  <1>2. Len(r) = Len(s)
    <2>1. Len(r) + 1 = Len(s) + 1
      BY ConsIs
    <2> QED BY <1>1, <2>1
  <1>3. ASSUME NEW i \in 1 .. Len(s) PROVE r[i] = s[i]
    <2>1. (<<k>> \o r)[i + 1] = r[i]
      BY <1>2, ConsIs
    <2>2. (<<k>> \o s)[i + 1] = s[i]
      BY ConsIs
    <2> QED BY <2>1, <2>2
  <1> QED BY <1>2, <1>3, SeqEqual

\* All but the last of a list.
LEMMA FrontIs ==
    ASSUME NEW S, NEW s \in Seq(S), Len(s) >= 1
    PROVE  /\ Front(s) \in Seq(S) /\ Len(Front(s)) = Len(s) - 1
           /\ \A i \in 1 .. Len(s) - 1 : Front(s)[i] = s[i]
  <1>1. PICK m \in Nat : m = Len(s) - 1 /\ m <= Len(s)
    <2>1. Len(s) - 1 \in Nat /\ Len(s) - 1 <= Len(s)
      OBVIOUS
    <2> QED BY <2>1
  <1>2. /\ SubSeq(s, 1, m) \in Seq(S) /\ Len(SubSeq(s, 1, m)) = m
        /\ \A i \in 1 .. m : SubSeq(s, 1, m)[i] = s[i]
    BY <1>1, SubSeqProperties
  <1> QED BY <1>1, <1>2 DEF Front

\* Front of a list of one more in front.
LEMMA FrontCons ==
    ASSUME NEW S, NEW k \in S, NEW s \in Seq(S), Len(s) >= 1
    PROVE  Front(<<k>> \o s) = <<k>> \o Front(s)
  <1> DEFINE r == <<k>> \o s
             f == Front(s)
             g == <<k>> \o f
  <1>1. /\ r \in Seq(S) /\ Len(r) = Len(s) + 1 /\ r[1] = k
        /\ \A i \in 1 .. Len(s) : r[i + 1] = s[i]
    BY ConsIs
  <1>2. f \in Seq(S) /\ Len(f) = Len(s) - 1 /\ \A i \in 1 .. Len(s) - 1 : f[i] = s[i]
    BY FrontIs
  <1>3. /\ g \in Seq(S) /\ Len(g) = Len(f) + 1 /\ g[1] = k
        /\ \A i \in 1 .. Len(f) : g[i + 1] = f[i]
    <2> HIDE DEF f
    <2> QED BY <1>2, ConsIs
  <1>0. Len(s) \in Nat
    OBVIOUS
  <1> HIDE DEF r, f, g
  <1>4. /\ Front(r) \in Seq(S) /\ Len(Front(r)) = Len(r) - 1
        /\ \A i \in 1 .. Len(r) - 1 : Front(r)[i] = r[i]
    BY <1>0, <1>1, FrontIs
  <1>5. Len(Front(r)) = Len(s) /\ Len(g) = Len(s)
    BY <1>0, <1>1, <1>2, <1>3, <1>4
  <1>6. ASSUME NEW i \in 1 .. Len(s) PROVE Front(r)[i] = g[i]
    <2>1. Front(r)[i] = r[i]
      BY <1>0, <1>1, <1>4
    <2>2. CASE i = 1
      BY <1>1, <1>3, <2>1, <2>2
    <2>3. CASE i # 1
      <3>1. PICK j \in 1 .. Len(s) - 1 : i = j + 1
        <4>1. i - 1 \in 1 .. Len(s) - 1 /\ i = (i - 1) + 1
          BY <1>0, <2>3
        <4> QED BY <4>1
      <3>2. j \in 1 .. Len(s) /\ j \in 1 .. Len(f)
        BY <1>0, <1>2
      <3>3. r[j + 1] = s[j] /\ g[j + 1] = f[j] /\ f[j] = s[j]
        BY <1>1, <1>2, <1>3, <3>1, <3>2
      <3> QED BY <2>1, <3>1, <3>3
    <2> QED BY <2>2, <2>3
  <1>7. Front(r) = g
    BY <1>3, <1>4, <1>5, <1>6, SeqEqual
  <1> QED BY <1>7 DEF r, f, g

\* The elements of two lists joined.
LEMMA JoinElements ==
    ASSUME NEW S, NEW s \in Seq(S), NEW t \in Seq(S)
    PROVE  s \o t \in Seq(S) /\ ToSet(s \o t) = ToSet(s) \cup ToSet(t)
  <1> DEFINE r == s \o t
  <1>1. /\ r \in Seq(S) /\ Len(r) = Len(s) + Len(t)
        /\ \A k \in 1 .. Len(s) : r[k] = s[k]
        /\ \A k \in 1 .. Len(t) : r[Len(s) + k] = t[k]
    OBVIOUS
  <1>2. /\ Len(s) \in Nat /\ DOMAIN s = 1 .. Len(s)
        /\ Len(t) \in Nat /\ DOMAIN t = 1 .. Len(t) /\ DOMAIN r = 1 .. Len(r)
    BY <1>1
  <1> HIDE DEF r
  <1>3. ASSUME NEW k \in DOMAIN r PROVE r[k] \in ToSet(s) \cup ToSet(t)
    <2>1. CASE k <= Len(s)
      <3>1. k \in DOMAIN s /\ r[k] = s[k]
        BY <1>1, <1>2, <1>3, <2>1
      <3> QED BY <3>1 DEF ToSet
    <2>2. CASE ~(k <= Len(s))
      <3>1. k - Len(s) \in DOMAIN t /\ r[k] = t[k - Len(s)]
        BY <1>1, <1>2, <1>3, <2>2
      <3> QED BY <3>1 DEF ToSet
    <2> QED BY <2>1, <2>2
  <1>4. \A k \in DOMAIN s : k \in DOMAIN r /\ r[k] = s[k]
    BY <1>1, <1>2
  <1>5. \A k \in DOMAIN t : Len(s) + k \in DOMAIN r /\ r[Len(s) + k] = t[k]
    BY <1>1, <1>2
  <1>6. ToSet(r) = ToSet(s) \cup ToSet(t)
    BY <1>3, <1>4, <1>5 DEF ToSet
  <1> QED BY <1>1, <1>6 DEF r

\* A list of one more.
LEMMA SubSeqUp ==
    ASSUME NEW S, NEW s \in Seq(S), NEW i \in 0 .. Len(s), i < Len(s)
    PROVE  /\ SubSeq(s, 1, i) \in Seq(S) /\ <<s[i + 1]>> \in Seq(S)
           /\ SubSeq(s, 1, i + 1) = SubSeq(s, 1, i) \o <<s[i + 1]>>
  <1>1. Len(s) \in Nat /\ i \in Nat /\ i + 1 \in 1 .. Len(s) /\ s[i + 1] \in S
    OBVIOUS
  <1>2. SubSeq(s, 1, i) \in Seq(S) /\ Len(SubSeq(s, 1, i)) = i
        /\ \A k \in 1 .. i : SubSeq(s, 1, i)[k] = s[k]
    BY <1>1, SubSeqProperties
  <1>3. SubSeq(s, 1, i + 1) \in Seq(S) /\ Len(SubSeq(s, 1, i + 1)) = i + 1
        /\ \A k \in 1 .. i + 1 : SubSeq(s, 1, i + 1)[k] = s[k]
    BY <1>1, SubSeqProperties
  <1> DEFINE a == SubSeq(s, 1, i)
             b == SubSeq(s, 1, i + 1)
             x == s[i + 1]
  <1>4. /\ a \in Seq(S) /\ Len(a) = i /\ \A k \in 1 .. i : a[k] = s[k]
        /\ b \in Seq(S) /\ Len(b) = i + 1 /\ \A k \in 1 .. i + 1 : b[k] = s[k]
        /\ x \in S /\ x = s[i + 1]
    BY <1>1, <1>2, <1>3
  <1> HIDE DEF a, b, x
  <1>5. b = a \o <<x>>
    BY <1>1, <1>4
  <1>6. <<x>> \in Seq(S)
    BY <1>4, OneType
  <1> QED BY <1>4, <1>5, <1>6 DEF a, b, x

\* The whole of a list.
LEMMA SubSeqAll == ASSUME NEW S, NEW s \in Seq(S) PROVE SubSeq(s, 1, Len(s)) = s
  <1> DEFINE a == SubSeq(s, 1, Len(s))
  <1>1. Len(s) \in Nat
    OBVIOUS
  <1>2. a \in Seq(S) /\ Len(a) = Len(s) /\ \A k \in 1 .. Len(s) : a[k] = s[k]
    BY <1>1, SubSeqProperties
  <1> HIDE DEF a
  <1>3. a = s
    BY <1>1, <1>2
  <1> QED BY <1>3 DEF a
=============================================================================
