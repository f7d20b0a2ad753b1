----------------------------- MODULE CommandsProofs -----------------------------
(***************************************************************************)
(* Proofs about Manifest, for any manifests and names: what the layers are *)
(* expanded to, which are refused for a cycle, and what the commands find  *)
(* in the DAG that is built of them; and about Commands, for any files,    *)
(* variables and command lines.                                            *)
(***************************************************************************)
EXTENDS Commands, FiniteSetTheorems, WellFoundedInduction, TLAPS


-----------------------------------------------------------------------------
(* Sequences.                                                              *)

(* A non-empty set of natural numbers has a least element.                 *)
LEMMA LeastNat ==
    ASSUME NEW T \in SUBSET Nat, T # {}
    PROVE  \E n \in T : \A m \in T : n <= m
<1>1. PICK n \in T : \A m \in T : <<m, n>> \notin OpToRel(<, Nat)
  BY NatLessThanWellFounded, WFMin, Zenon
<1>2. \A m \in T : ~(m < n)
  BY <1>1 DEF OpToRel
<1> QED
  BY <1>2

(* The elements of s come first in a concatenation, then those of t.       *)
LEMMA Joined ==
    ASSUME NEW S, NEW s \in Seq(S), NEW t \in Seq(S)
    PROVE  /\ s \o t \in Seq(S) /\ Len(s) \in Nat /\ Len(t) \in Nat
           /\ DOMAIN s = 1..Len(s) /\ DOMAIN t = 1..Len(t) /\ DOMAIN (s \o t) = 1..(Len(s) + Len(t))
           /\ \A k \in 1..Len(s) : (s \o t)[k] = s[k]
           /\ \A k \in 1..Len(t) : (s \o t)[Len(s) + k] = t[k]
OBVIOUS

(* g holds the concatenations of the first sequences of ss, k of them.     *)
Flattens(g, ss, k) == g = [i \in 1..k |-> IF i = 1 THEN ss[i] ELSE g[i-1] \o ss[i]]

(* The function that FlattenSeq is defined by exists, however many         *)
(* sequences there are.                                                    *)
LEMMA FlattenExists ==
    ASSUME NEW ss
    PROVE  \A k \in Nat : \E g : Flattens(g, ss, k)
<1> DEFINE Without == {k \in Nat : ~\E g : Flattens(g, ss, k)}
<1> SUFFICES ASSUME Without # {} PROVE FALSE
  OBVIOUS
<1>1. PICK m \in Without : \A n \in Without : m <= n
  <2>1. Without \in SUBSET Nat
    OBVIOUS
  <2> HIDE DEF Without
  <2> QED
    BY <2>1, LeastNat
<1>2. m \in Nat /\ ~\E g : Flattens(g, ss, m)
  OBVIOUS
<1>3. PICK below : m # 0 => Flattens(below, ss, m - 1)
  <2>1. CASE m # 0
    <3>1. m - 1 \in Nat /\ m - 1 \notin Without
      BY <1>1, <1>2, <2>1
    <3> QED
      BY <3>1
  <2> QED
    BY <2>1
<1> DEFINE g == [i \in 1..m |-> IF i = 1 THEN ss[i] ELSE below[i-1] \o ss[i]]
<1>4. ASSUME NEW i \in 1..m, i # 1 PROVE g[i-1] = below[i-1]
  <2>1. i - 1 \in 1..m /\ i - 1 \in 1..(m-1) /\ m # 0
    BY <1>2, <1>4
  <2>2. below[i-1] = IF i - 1 = 1 THEN ss[i-1] ELSE below[i-1-1] \o ss[i-1]
    BY <1>3, <2>1 DEF Flattens
  <2>3. g[i-1] = IF i - 1 = 1 THEN ss[i-1] ELSE below[i-1-1] \o ss[i-1]
    BY <2>1
  <2> QED
    BY <2>2, <2>3
<1>5. g = [i \in 1..m |-> IF i = 1 THEN ss[i] ELSE g[i-1] \o ss[i]]
  <2>1. \A i \in 1..m : g[i] = IF i = 1 THEN ss[i] ELSE g[i-1] \o ss[i]
    BY <1>4
  <2>2. g = [i \in 1..m |-> g[i]]
    OBVIOUS
  <2> HIDE DEF g
  <2> QED
    BY <2>1, <2>2
<1>6. Flattens(g, ss, m)
  <2> HIDE DEF g
  <2> QED
    BY <1>5, Zenon DEF Flattens
<1> QED
  BY <1>2, <1>6

(* FlattenSeq has the elements of all sequences, and no others.            *)
LEMMA Flattened ==
    ASSUME NEW S, NEW ss \in Seq(Seq(S)), ss # <<>>
    PROVE  /\ FlattenSeq(ss) \in Seq(S)
           /\ \A c : c \in ToSet(FlattenSeq(ss)) <=> \E i \in 1..Len(ss) : c \in ToSet(ss[i])
<1>1. Len(ss) \in Nat /\ Len(ss) # 0 /\ \A i \in 1..Len(ss) : ss[i] \in Seq(S)
  OBVIOUS
<1>2. PICK g : Flattens(g, ss, Len(ss)) /\ FlattenSeq(ss) = g[Len(ss)]
  <2>1. \E g : g = [i \in 1..Len(ss) |-> IF i = 1 THEN ss[i] ELSE g[i-1] \o ss[i]]
    BY <1>1, FlattenExists DEF Flattens
  <2> DEFINE f == CHOOSE g : g = [i \in 1..Len(ss) |-> IF i = 1 THEN ss[i] ELSE g[i-1] \o ss[i]]
  <2>2. f = [i \in 1..Len(ss) |-> IF i = 1 THEN ss[i] ELSE f[i-1] \o ss[i]]
    BY <2>1, Zenon
  <2>3. FlattenSeq(ss) = f[Len(ss)]
    BY <1>1 DEF FlattenSeq
  <2> HIDE DEF f
  <2> QED
    BY <2>2, <2>3 DEF Flattens
<1> DEFINE Good(k) == /\ g[k] \in Seq(S)
                      /\ \A c : c \in ToSet(g[k]) <=> \E i \in 1..k : c \in ToSet(ss[i])
           Bad == {k \in 1..Len(ss) : ~Good(k)}
<1>3. ASSUME NEW k \in 1..Len(ss), k = 1 \/ Good(k - 1) PROVE Good(k)
  <2>1. CASE k = 1
    <3>1. g[k] = ss[1]
      BY <1>2, <2>1 DEF Flattens
    <3> QED
      BY <1>1, <2>1, <3>1
  <2>2. CASE k # 1
    <3>1. g[k] = g[k-1] \o ss[k] /\ g[k-1] \in Seq(S) /\ ss[k] \in Seq(S)
      BY <1>1, <1>2, <1>3, <2>2 DEF Flattens
    <3>2. \A c : c \in ToSet(g[k]) <=> c \in ToSet(g[k-1]) \/ c \in ToSet(ss[k])
      <4> DEFINE s == g[k-1]
                 t == ss[k]
      <4>0. s \in Seq(S) /\ t \in Seq(S)
        BY <3>1
      <4> HIDE DEF s, t
      <4>1. /\ Len(s) \in Nat /\ Len(t) \in Nat /\ DOMAIN s = 1..Len(s) /\ DOMAIN t = 1..Len(t)
            /\ DOMAIN (s \o t) = 1..(Len(s) + Len(t))
            /\ \A i \in 1..Len(s) : (s \o t)[i] = s[i]
            /\ \A i \in 1..Len(t) : (s \o t)[Len(s) + i] = t[i]
        BY <4>0, Joined
      <4>2. ASSUME NEW c, c \in ToSet(s \o t) PROVE c \in ToSet(s) \/ c \in ToSet(t)
        <5>1. PICK i \in 1..(Len(s) + Len(t)) : c = (s \o t)[i]
          BY <4>1, <4>2 DEF ToSet
        <5>2. CASE i <= Len(s)
          BY <4>1, <5>1, <5>2 DEF ToSet
        <5>3. CASE i > Len(s)
          <6>1. i - Len(s) \in 1..Len(t) /\ Len(s) + (i - Len(s)) = i
            BY <4>1, <5>1, <5>3
          <6>2. c = t[i - Len(s)]
            BY <4>1, <5>1, <6>1
          <6> QED
            BY <4>1, <6>1, <6>2 DEF ToSet
        <5> QED
          BY <4>1, <5>2, <5>3
      <4>3. ASSUME NEW c, c \in ToSet(s) PROVE c \in ToSet(s \o t)
        <5>1. PICK i \in 1..Len(s) : c = s[i]
          BY <4>1, <4>3 DEF ToSet
        <5>2. i \in 1..(Len(s) + Len(t)) /\ c = (s \o t)[i]
          BY <4>1, <5>1
        <5> QED
          BY <4>1, <5>2 DEF ToSet
      <4>4. ASSUME NEW c, c \in ToSet(t) PROVE c \in ToSet(s \o t)
        <5>1. PICK i \in 1..Len(t) : c = t[i]
          BY <4>1, <4>4 DEF ToSet
        <5>2. Len(s) + i \in 1..(Len(s) + Len(t)) /\ c = (s \o t)[Len(s) + i]
          BY <4>1, <5>1
        <5> QED
          BY <4>1, <5>2 DEF ToSet
      <4>5. g[k] = s \o t
        BY <3>1 DEF s, t
      <4> QED
        BY <4>2, <4>3, <4>4, <4>5 DEF s, t
    <3>3. \A c : c \in ToSet(g[k-1]) <=> \E i \in 1..(k-1) : c \in ToSet(ss[i])
      BY <1>3, <2>2
    <3>4. \A c : (\E i \in 1..k : c \in ToSet(ss[i]))
                 <=> (\E i \in 1..(k-1) : c \in ToSet(ss[i])) \/ c \in ToSet(ss[k])
      BY <1>1
    <3>5. g[k] \in Seq(S)
      BY <3>1
    <3> QED
      BY <3>2, <3>3, <3>4, <3>5
  <2> QED
    BY <2>1, <2>2
<1> HIDE DEF Good
<1>4. Bad = {}
  <2> SUFFICES ASSUME Bad # {} PROVE FALSE
    OBVIOUS
  <2>1. Bad \in SUBSET Nat
    OBVIOUS
  <2>2. PICK k \in Bad : \A n \in Bad : k <= n
    <3> HIDE DEF Bad
    <3> QED
      BY <2>1, LeastNat
  <2>3. k \in 1..Len(ss) /\ ~Good(k)
    OBVIOUS
  <2>4. k = 1 \/ Good(k - 1)
    <3>1. k - 1 \notin Bad /\ (k = 1 \/ k - 1 \in 1..Len(ss))
      BY <1>1, <2>2, <2>3
    <3> QED
      BY <3>1
  <2> QED
    BY <1>3, <2>3, <2>4
<1>5. Good(Len(ss))
  <2>1. Len(ss) \in 1..Len(ss)
    BY <1>1
  <2> QED
    BY <1>4, <2>1
<1>6. /\ g[Len(ss)] \in Seq(S)
      /\ \A c : c \in ToSet(g[Len(ss)]) <=> \E i \in 1..Len(ss) : c \in ToSet(ss[i])
  BY <1>5 DEF Good
<1>7. FlattenSeq(ss) = g[Len(ss)]
  BY <1>2
<1> QED
  BY <1>6, <1>7, Zenon

-----------------------------------------------------------------------------
(* What a manifest expands to.                                             *)

Part == UNION {ToSet(name) : name \in Names}
Text == Seq(Part)

ConcreteType == [name: Text, deps: Seq(Text), logical: Text, arch: Text]

(* The architectures of a layer, and its concrete layer for one of them.   *)
Arches(m, i) == IF m.archs = <<>> THEN {NoArch} ELSE ToSet(LayerArches(m, m.layers[i]))

Unfolded(l, a) == Concrete(l.name \o a, [k \in DOMAIN l.deps |-> l.deps[k] \o a], l.name, a)

(* A name, and the empty string, is a sequence of parts.                   *)
LEMMA NamesAreText == Names \subseteq Text /\ <<>> \in Text
<1>1. ASSUME NEW name \in Names PROVE name \in Text
  <2>1. name \in Seq(ToSet(name)) /\ ToSet(name) \subseteq Part
    BY ManifestsAssumption DEF Part
  <2>2. Len(name) \in Nat /\ name \in [1..Len(name) -> Part]
    BY <2>1
  <2> QED
    BY <2>2 DEF Text
<1> QED
  BY <1>1 DEF Text

(* Joining two names makes a name, which is empty only if both are.        *)
LEMMA TextJoin ==
    ASSUME NEW s \in Text, NEW t \in Text
    PROVE  /\ s \o t \in Text /\ s \o <<>> = s
           /\ s # <<>> => s \o t # <<>>
BY DEF Text

(* The names a parsed layer holds, one by one.                             *)
LEMMA LayerFields ==
    ASSUME NEW l \in LayerType
    PROVE  /\ l.name \in Text /\ l.deps \in Seq(Text) /\ l.arches \in Seq(Text)
           /\ DOMAIN l.deps = 1..Len(l.deps) /\ Len(l.deps) \in Nat
           /\ \A k \in DOMAIN l.deps : l.deps[k] \in Text
<1>1. l.name \in Names \union {<<>>} /\ l.deps \in Seq(Names) /\ l.arches \in Seq(Names)
  BY DEF LayerType
<1>2. \A s \in Seq(Names) : s \in Seq(Text)
  BY NamesAreText
<1>3. l.deps \in Seq(Text)
  BY <1>1, <1>2
<1>4. DOMAIN l.deps = 1..Len(l.deps) /\ Len(l.deps) \in Nat /\ \A k \in DOMAIN l.deps : l.deps[k] \in Text
  BY <1>3
<1> QED
  BY <1>1, <1>2, <1>4, NamesAreText

(* The layers and architectures a parsed manifest holds, one by one.       *)
LEMMA Parsed ==
    ASSUME NEW m \in Manifests
    PROVE  /\ m.layers \in Seq(LayerType) /\ Len(m.layers) \in Nat /\ DOMAIN m.layers = 1..Len(m.layers)
           /\ \A i \in DOMAIN m.layers : m.layers[i] \in LayerType
           /\ m.archs \in Seq(Text)
<1>1. m.layers \in Seq(LayerType) /\ m.archs \in Seq(Names \union {<<>>})
  BY ManifestsAssumption
<1>2. m.archs \in Seq(Text)
  BY <1>1, NamesAreText
<1> QED
  BY <1>1, <1>2

(* Every layer of an expandable manifest has an architecture, and it is    *)
(* the empty one exactly when the manifest declares none.                  *)
LEMMA ArchesAreText ==
    ASSUME NEW m \in Manifests, Expandable(m), NEW i \in DOMAIN m.layers
    PROVE  /\ Arches(m, i) # {}
           /\ \A a \in Arches(m, i) : a \in Text /\ (a = NoArch <=> m.archs = <<>>)
<1>1. CASE m.archs = <<>>
  BY <1>1, NamesAreText DEF Arches, NoArch
<1>2. CASE m.archs # <<>>
  <2> DEFINE l == m.layers[i]
  <2>1. m.archs \in Seq(Text) /\ l.arches \in Seq(Text) /\ m.layers[i] \in LayerType
    BY Parsed, LayerFields
  <2>2. LayerArches(m, l) \in Seq(Text) /\ LayerArches(m, l) # <<>>
    BY <1>2, <2>1 DEF LayerArches
  <2>3. ToSet(LayerArches(m, l)) \subseteq ToSet(m.archs)
    BY <1>2 DEF Expandable, LayerArches
  <2>4. \A a \in ToSet(m.archs) : a \in Text /\ a # <<>>
    BY <1>2, <2>1 DEF Expandable, ToSet
  <2>5. 1 \in DOMAIN LayerArches(m, l)
    <3> HIDE DEF l
    <3> QED
      BY <2>2
  <2>6. ToSet(LayerArches(m, l)) # {}
    BY <2>5 DEF ToSet
  <2> QED
    BY <1>2, <2>3, <2>4, <2>6 DEF Arches, NoArch
<1> QED
  BY <1>1, <1>2

(* The fields of the concrete layer of a layer and an architecture.        *)
LEMMA UnfoldedFields ==
    ASSUME NEW l \in LayerType, NEW a \in Text
    PROVE  /\ Unfolded(l, a) \in ConcreteType
           /\ Unfolded(l, a).name = l.name \o a /\ Unfolded(l, a).logical = l.name
           /\ Unfolded(l, a).arch = a
           /\ DOMAIN Unfolded(l, a).deps = DOMAIN l.deps
           /\ Len(Unfolded(l, a).deps) = Len(l.deps)
           /\ \A k \in DOMAIN l.deps : Unfolded(l, a).deps[k] = l.deps[k] \o a
<1> DEFINE deps == [k \in DOMAIN l.deps |-> l.deps[k] \o a]
<1>1. /\ l.name \in Text /\ l.name \o a \in Text
      /\ DOMAIN l.deps = 1..Len(l.deps) /\ Len(l.deps) \in Nat
      /\ \A k \in DOMAIN l.deps : l.deps[k] \in Text /\ l.deps[k] \o a \in Text
  BY LayerFields, TextJoin
<1>2. deps \in Seq(Text) /\ Len(deps) = Len(l.deps)
  <2>1. deps \in [1..Len(l.deps) -> Text]
    BY <1>1
  <2> HIDE DEF deps
  <2> QED
    BY <1>1, <2>1
<1>3. Unfolded(l, a) = [name |-> l.name \o a, deps |-> deps, logical |-> l.name, arch |-> a]
  BY DEF Unfolded, Concrete
<1>4. DOMAIN deps = DOMAIN l.deps /\ \A k \in DOMAIN l.deps : deps[k] = l.deps[k] \o a
  OBVIOUS
<1> HIDE DEF deps
<1> QED
  BY <1>1, <1>2, <1>3, <1>4 DEF ConcreteType

(* Without architectures a concrete layer is the layer itself.             *)
LEMMA UnfoldedPlain ==
    ASSUME NEW l \in LayerType
    PROVE  Unfolded(l, NoArch) = Concrete(l.name, l.deps, l.name, NoArch)
<1>1. /\ l.name \in Text /\ l.deps \in Seq(Text) /\ \A k \in DOMAIN l.deps : l.deps[k] \in Text
  BY LayerFields
<1>2. l.name \o NoArch = l.name /\ \A k \in DOMAIN l.deps : l.deps[k] \o NoArch = l.deps[k]
  BY <1>1, TextJoin DEF NoArch
<1>3. [k \in DOMAIN l.deps |-> l.deps[k] \o NoArch] = l.deps
  <2>1. [k \in DOMAIN l.deps |-> l.deps[k] \o NoArch] = [k \in DOMAIN l.deps |-> l.deps[k]]
    BY <1>2
  <2>2. l.deps = [k \in DOMAIN l.deps |-> l.deps[k]]
    BY <1>1
  <2> QED
    BY <2>1, <2>2
<1> QED
  BY <1>2, <1>3 DEF Unfolded

(* expand yields each layer for each of its architectures, and no other.   *)
LEMMA Expands ==
    ASSUME NEW m \in Manifests, Valid(m), Expandable(m)
    PROVE  /\ Expansion(m) \in Seq(ConcreteType)
           /\ \A c : c \in ToSet(Expansion(m)) <=>
                 \E i \in DOMAIN m.layers : \E a \in Arches(m, i) : c = Unfolded(m.layers[i], a)
<1>1. /\ m.layers # <<>> /\ Len(m.layers) \in Nat /\ DOMAIN m.layers = 1..Len(m.layers)
      /\ \A i \in DOMAIN m.layers : m.layers[i] \in LayerType
  BY Parsed DEF Valid
<1>2. \A i \in DOMAIN m.layers : \A a \in Arches(m, i) : a \in Text
  BY ArchesAreText
<1>3. CASE m.archs = <<>>
  <2> DEFINE e == [i \in DOMAIN m.layers |-> Unfolded(m.layers[i], NoArch)]
  <2>1. \A i \in DOMAIN m.layers : /\ Unfolded(m.layers[i], NoArch) \in ConcreteType
                                   /\ Unfolded(m.layers[i], NoArch) =
                                        Concrete(m.layers[i].name, m.layers[i].deps, m.layers[i].name, NoArch)
    BY <1>1, NamesAreText, UnfoldedFields, UnfoldedPlain DEF NoArch
  <2>2. Expansion(m) = e
    BY <1>3, <2>1 DEF Expansion
  <2>3. e \in [1..Len(m.layers) -> ConcreteType]
    BY <1>1, <2>1
  <2>4. \A c : c \in ToSet(e) <=> \E i \in DOMAIN m.layers : c = Unfolded(m.layers[i], NoArch)
    BY DEF ToSet
  <2>5. e \in Seq(ConcreteType)
    <3> HIDE DEF e
    <3> QED
      BY <1>1, <2>3
  <2>6. \A i \in DOMAIN m.layers : Arches(m, i) = {NoArch}
    BY <1>3 DEF Arches
  <2> HIDE DEF e
  <2> QED
    BY <2>2, <2>4, <2>5, <2>6
<1>4. CASE m.archs # <<>>
  <2> DEFINE ss == [i \in DOMAIN m.layers |-> ExpandLayer(m, m.layers[i])]
  <2>1. ASSUME NEW i \in DOMAIN m.layers
        PROVE  /\ ExpandLayer(m, m.layers[i]) \in Seq(ConcreteType)
               /\ \A c : c \in ToSet(ExpandLayer(m, m.layers[i])) <=>
                     \E a \in Arches(m, i) : c = Unfolded(m.layers[i], a)
    <3> DEFINE l == m.layers[i]
               arches == LayerArches(m, l)
               x == [k \in DOMAIN arches |-> Unfolded(l, arches[k])]
    <3>1. l \in LayerType /\ l.arches \in Seq(Text) /\ m.archs \in Seq(Text)
      BY <1>1, Parsed, LayerFields
    <3>2. arches \in Seq(Text)
      BY <3>1 DEF LayerArches
    <3>3. DOMAIN arches = 1..Len(arches) /\ Len(arches) \in Nat /\ \A k \in DOMAIN arches : arches[k] \in Text
      <4> HIDE DEF arches
      <4> QED
        BY <3>2
    <3>4. ExpandLayer(m, l) = x
      BY DEF ExpandLayer, Unfolded
    <3>5. \A k \in DOMAIN arches : Unfolded(l, arches[k]) \in ConcreteType
      <4> HIDE DEF arches, l
      <4> QED
        BY <3>1, <3>3, UnfoldedFields
    <3>6. x \in Seq(ConcreteType)
      <4>1. x \in [1..Len(arches) -> ConcreteType]
        BY <3>3, <3>5
      <4> HIDE DEF x, arches
      <4> QED
        BY <3>3, <4>1
    <3>7. Arches(m, i) = {arches[k] : k \in DOMAIN arches}
      BY <1>4 DEF Arches, ToSet
    <3>8. \A c : c \in ToSet(x) <=> \E a \in Arches(m, i) : c = Unfolded(l, a)
      <4>1. \A c : c \in ToSet(x) <=> \E k \in DOMAIN arches : c = Unfolded(l, arches[k])
        BY DEF ToSet
      <4> HIDE DEF x, arches, l
      <4> QED
        BY <3>7, <4>1
    <3> QED
      BY <3>4, <3>6, <3>8
  <2>2. DOMAIN ss = 1..Len(m.layers) /\ ss \in [1..Len(m.layers) -> Seq(ConcreteType)]
    BY <1>1, <2>1
  <2>3. \A i \in DOMAIN m.layers : ss[i] = ExpandLayer(m, m.layers[i])
    OBVIOUS
  <2>4. Expansion(m) = FlattenSeq(ss)
    BY <1>4 DEF Expansion
  <2> HIDE DEF ss
  <2>5. ss \in Seq(Seq(ConcreteType)) /\ Len(ss) = Len(m.layers) /\ Len(m.layers) # 0
    BY <1>1, <2>2, Parsed
  <2>6. ss # <<>>
    BY <2>5
  <2>7. /\ FlattenSeq(ss) \in Seq(ConcreteType)
        /\ \A c : c \in ToSet(FlattenSeq(ss)) <=> \E i \in 1..Len(ss) : c \in ToSet(ss[i])
    BY <2>5, <2>6, Flattened
  <2>8. ASSUME NEW c
        PROVE  c \in ToSet(FlattenSeq(ss)) <=>
                 \E i \in DOMAIN m.layers : \E a \in Arches(m, i) : c = Unfolded(m.layers[i], a)
    <3>1. 1..Len(ss) = DOMAIN m.layers
      BY <1>1, <2>5
    <3>2. \A i \in DOMAIN m.layers : c \in ToSet(ss[i]) <=>
              \E a \in Arches(m, i) : c = Unfolded(m.layers[i], a)
      BY <2>1, <2>3
    <3> QED
      BY <2>7, <3>1, <3>2
  <2> QED
    BY <2>4, <2>7, <2>8
<1> QED
  BY <1>3, <1>4

-----------------------------------------------------------------------------
(* What the DAG is.                                                        *)

(* Every layer is found, each name with one of the layers that bear it.    *)
LEMMA NodesAreLayers ==
    ASSUME NEW S, NEW layers \in Seq(S)
    PROVE  /\ \A i \in DOMAIN layers : layers[i].name \in DOMAIN Nodes(layers)
           /\ \A n \in DOMAIN Nodes(layers) :
                 Nodes(layers)[n].name = n /\ Nodes(layers)[n] \in ToSet(layers)
<1>1. Len(layers) \in Nat /\ DOMAIN layers = 1..Len(layers)
  OBVIOUS
<1>2. DOMAIN Nodes(layers) = {layers[i].name : i \in DOMAIN layers}
  BY DEF Nodes
<1>3. ASSUME NEW n \in DOMAIN Nodes(layers)
      PROVE  Nodes(layers)[n].name = n /\ Nodes(layers)[n] \in ToSet(layers)
  <2> DEFINE Kept(i) == layers[i].name = n /\ \A k \in DOMAIN layers : layers[k].name = n => k <= i
             Left == {x \in Nat : \E i \in DOMAIN layers : layers[i].name = n /\ x = Len(layers) - i}
  <2>1. Left # {} /\ Left \in SUBSET Nat
    <3>1. PICK i \in DOMAIN layers : layers[i].name = n
      BY <1>2
    <3>2. Len(layers) - i \in Left
      BY <1>1, <3>1
    <3> QED
      BY <3>2
  <2>2. PICK x \in Left : \A y \in Left : x <= y
    <3> HIDE DEF Left
    <3> QED
      BY <2>1, LeastNat
  <2>3. PICK i \in DOMAIN layers : layers[i].name = n /\ x = Len(layers) - i
    OBVIOUS
  <2>4. ASSUME NEW k \in DOMAIN layers, layers[k].name = n PROVE k <= i
    <3>1. Len(layers) - k \in Left
      BY <1>1, <2>4
    <3>2. Len(layers) - i <= Len(layers) - k
      BY <2>2, <2>3, <3>1
    <3> QED
      BY <1>1, <3>2
  <2>5. \E k \in DOMAIN layers : Kept(k)
    BY <2>3, <2>4
  <2>6. Nodes(layers)[n] = layers[CHOOSE k \in DOMAIN layers : Kept(k)]
    BY <1>2 DEF Nodes
  <2> HIDE DEF Left
  <2>7. PICK k \in DOMAIN layers : Nodes(layers)[n] = layers[k] /\ layers[k].name = n
    BY <2>5, <2>6
  <2> QED
    BY <2>7 DEF ToSet
<1> QED
  BY <1>2, <1>3

(* The DAG of a manifest.                                                  *)
Graph(m) == Nodes(Expansion(m))

(* The node of a name is a concrete layer of that name, and each concrete  *)
(* layer has a node under its name.                                        *)
LEMMA GraphNodes ==
    ASSUME NEW m \in Manifests, Valid(m), Expandable(m)
    PROVE  /\ \A n \in DOMAIN Graph(m) : \E i \in DOMAIN m.layers : \E a \in Arches(m, i) :
                 Graph(m)[n] = Unfolded(m.layers[i], a) /\ n = m.layers[i].name \o a
           /\ \A i \in DOMAIN m.layers : \A a \in Arches(m, i) : m.layers[i].name \o a \in DOMAIN Graph(m)
<1>1. /\ Expansion(m) \in Seq(ConcreteType)
      /\ \A c : c \in ToSet(Expansion(m)) <=>
            \E i \in DOMAIN m.layers : \E a \in Arches(m, i) : c = Unfolded(m.layers[i], a)
  BY Expands
<1>2. ASSUME NEW i \in DOMAIN m.layers, NEW a \in Arches(m, i)
      PROVE  Unfolded(m.layers[i], a).name = m.layers[i].name \o a
  BY Parsed, ArchesAreText, UnfoldedFields
<1>3. /\ \A i \in DOMAIN Expansion(m) : Expansion(m)[i].name \in DOMAIN Graph(m)
      /\ \A n \in DOMAIN Graph(m) : Graph(m)[n].name = n /\ Graph(m)[n] \in ToSet(Expansion(m))
  BY <1>1, NodesAreLayers DEF Graph
<1>4. ASSUME NEW n \in DOMAIN Graph(m)
      PROVE  \E i \in DOMAIN m.layers : \E a \in Arches(m, i) :
                 Graph(m)[n] = Unfolded(m.layers[i], a) /\ n = m.layers[i].name \o a
  BY <1>1, <1>2, <1>3
<1>5. ASSUME NEW i \in DOMAIN m.layers, NEW a \in Arches(m, i)
      PROVE  m.layers[i].name \o a \in DOMAIN Graph(m)
  <2>1. Unfolded(m.layers[i], a) \in ToSet(Expansion(m))
    BY <1>1
  <2>2. PICK k \in DOMAIN Expansion(m) : Unfolded(m.layers[i], a) = Expansion(m)[k]
    BY <2>1 DEF ToSet
  <2> QED
    BY <1>2, <1>3, <2>2
<1> QED
  BY <1>4, <1>5

(* Where concrete names are apart, each concrete layer is its node.        *)
LEMMA GraphFinds ==
    ASSUME NEW m \in Manifests, Valid(m), Expandable(m), ExpansionsApart(m),
           NEW i \in DOMAIN m.layers, NEW a \in Arches(m, i)
    PROVE  /\ m.layers[i].name \o a \in DOMAIN Graph(m)
           /\ Graph(m)[m.layers[i].name \o a] = Unfolded(m.layers[i], a)
<1>1. m.layers[i].name \o a \in DOMAIN Graph(m)
  BY GraphNodes
<1>2. PICK k \in DOMAIN m.layers : \E b \in Arches(m, k) :
          /\ Graph(m)[m.layers[i].name \o a] = Unfolded(m.layers[k], b)
          /\ m.layers[i].name \o a = m.layers[k].name \o b
  BY <1>1, GraphNodes
<1>3. PICK b \in Arches(m, k) :
          /\ Graph(m)[m.layers[i].name \o a] = Unfolded(m.layers[k], b)
          /\ m.layers[i].name \o a = m.layers[k].name \o b
  BY <1>2
<1>4. i = k /\ a = b
  <2>1. CASE m.archs = <<>>
    <3>1. a = <<>> /\ b = <<>>
      BY <2>1 DEF Arches, NoArch
    <3>2. m.layers[i].name \in Text /\ m.layers[k].name \in Text
      BY Parsed, LayerFields
    <3>3. m.layers[i].name = m.layers[k].name
      BY <1>3, <3>1, <3>2, TextJoin
    <3> QED
      BY <3>1, <3>3 DEF Valid
  <2>2. CASE m.archs # <<>>
    <3>1. /\ a \in ToSet(LayerArches(m, m.layers[i]))
          /\ b \in ToSet(LayerArches(m, m.layers[k]))
      BY <2>2 DEF Arches
    <3>2. \A x \in ToSet(LayerArches(m, m.layers[i])), y \in ToSet(LayerArches(m, m.layers[k])) :
              m.layers[i].name \o x = m.layers[k].name \o y => i = k /\ x = y
      BY DEF ExpansionsApart
    <3> QED
      BY <1>3, <3>1, <3>2
  <2> QED
    BY <2>1, <2>2
<1> QED
  BY <1>1, <1>3, <1>4

-----------------------------------------------------------------------------
(* What the commands find in a DAG.                                        *)

(* A node is a concrete layer, under the name its layer and arch make.     *)
LEMMA GraphNode ==
    ASSUME NEW m \in Manifests, Valid(m), Expandable(m), NEW d, d = Graph(m), NEW n \in DOMAIN d
    PROVE  /\ n = d[n].logical \o d[n].arch /\ d[n].logical \in Text
           /\ d[n].arch = NoArch <=> m.archs = <<>>
<1>1. PICK i \in DOMAIN m.layers : \E a \in Arches(m, i) :
          d[n] = Unfolded(m.layers[i], a) /\ n = m.layers[i].name \o a
  BY GraphNodes
<1>2. PICK a \in Arches(m, i) : d[n] = Unfolded(m.layers[i], a) /\ n = m.layers[i].name \o a
  BY <1>1
<1>3. m.layers[i] \in LayerType /\ a \in Text /\ (a = NoArch <=> m.archs = <<>>)
  BY Parsed, ArchesAreText
<1>4. d[n].logical = m.layers[i].name /\ d[n].arch = a
  BY <1>2, <1>3, UnfoldedFields
<1> QED
  BY <1>2, <1>3, <1>4, LayerFields

(* The commands take a DAG for one of several architectures exactly when   *)
(* the manifest declares some.                                             *)
LEMMA GraphIsMultiArch ==
    ASSUME NEW m \in Manifests, Valid(m), Expandable(m), NEW d, d = Graph(m)
    PROVE  IsMultiArch(d) <=> m.archs # <<>>
<1>1. 1 \in DOMAIN m.layers
  BY Parsed DEF Valid
<1>2. PICK a : a \in Arches(m, 1)
  BY <1>1, ArchesAreText
<1>3. DOMAIN d # {}
  BY <1>1, <1>2, GraphNodes
<1> QED
  BY <1>3, GraphNode DEF IsMultiArch

(* The concrete layers that are walked for a logical layer are its own,    *)
(* and each is walked.                                                     *)
LEMMA GraphWalk ==
    ASSUME NEW m \in Manifests, Valid(m), Expandable(m), NEW d, d = Graph(m)
    PROVE  /\ UNION {ConcreteLayersFor(d, l) : l \in LogicalNames(d)} = DOMAIN d
           /\ \A l \in LogicalNames(d) : \A n \in ConcreteLayersFor(d, l) : d[n].logical = l
<1>1. IsMultiArch(d) <=> m.archs # <<>>
  BY GraphIsMultiArch
<1>2. ASSUME NEW n \in DOMAIN d
      PROVE  d[n].logical \in LogicalNames(d) /\ n \in ConcreteLayersFor(d, d[n].logical)
  <2>1. n = d[n].logical \o d[n].arch /\ d[n].logical \in Text /\ (d[n].arch = NoArch <=> m.archs = <<>>)
    BY <1>2, GraphNode
  <2>2. CASE m.archs # <<>>
    <3>1. d[n].arch \in ArchesFor(d, d[n].logical)
      BY <2>1, <2>2 DEF ArchesFor
    <3> QED
      BY <1>1, <2>1, <2>2, <3>1 DEF ConcreteLayersFor, LogicalNames
  <2>3. CASE m.archs = <<>>
    <3>1. n = d[n].logical
      BY <2>1, <2>3, TextJoin DEF NoArch
    <3> QED
      BY <1>1, <2>3, <3>1 DEF ConcreteLayersFor, LogicalNames
  <2> QED
    BY <2>2, <2>3
<1>3. ASSUME NEW l \in LogicalNames(d), NEW n \in ConcreteLayersFor(d, l)
      PROVE  n \in DOMAIN d /\ d[n].logical = l
  <2>1. CASE m.archs # <<>>
    <3>1. PICK a \in ArchesFor(d, l) : n = l \o a
      BY <1>1, <1>3, <2>1 DEF ConcreteLayersFor
    <3>2. PICK k \in DOMAIN d : d[k].logical = l /\ d[k].arch = a
      BY <3>1 DEF ArchesFor
    <3>3. k = n
      BY <3>1, <3>2, GraphNode
    <3> QED
      BY <3>2, <3>3
  <2>2. CASE m.archs = <<>>
    <3>1. n = l /\ n \in DOMAIN d
      BY <1>1, <1>3, <2>2 DEF ConcreteLayersFor
    <3>2. n = d[n].logical
      <4>1. n = d[n].logical \o d[n].arch /\ d[n].logical \in Text /\ d[n].arch = NoArch
        BY <2>2, <3>1, GraphNode
      <4> QED
        BY <4>1, TextJoin DEF NoArch
    <3> QED
      BY <3>1, <3>2
  <2> QED
    BY <2>1, <2>2
<1>4. ASSUME NEW n \in UNION {ConcreteLayersFor(d, l) : l \in LogicalNames(d)}
      PROVE  n \in DOMAIN d
  <2>1. PICK l \in LogicalNames(d) : n \in ConcreteLayersFor(d, l)
    BY <1>4
  <2> QED
    BY <2>1, <1>3
<1>5. ASSUME NEW n \in DOMAIN d
      PROVE  n \in UNION {ConcreteLayersFor(d, l) : l \in LogicalNames(d)}
  <2>1. PICK l \in LogicalNames(d) : n \in ConcreteLayersFor(d, l)
    BY <1>2, <1>5
  <2> QED
    BY <2>1
<1>6. UNION {ConcreteLayersFor(d, l) : l \in LogicalNames(d)} = DOMAIN d
  BY <1>4, <1>5
<1>7. \A l \in LogicalNames(d) : \A n \in ConcreteLayersFor(d, l) : d[n].logical = l
  BY <1>3
<1> QED
  BY <1>6, <1>7

(* The parents of a node are the nodes of its layer's parents for its      *)
(* arch.                                                                   *)
LEMMA GraphParents ==
    ASSUME NEW m \in Manifests, Valid(m), Expandable(m), ExpansionsApart(m),
           NEW d, d = Graph(m), NEW n \in DOMAIN d
    PROVE  \E i \in DOMAIN m.layers :
              /\ m.layers[i].name = d[n].logical
              /\ Len(d[n].deps) = Len(m.layers[i].deps)
              /\ \A k \in DOMAIN d[n].deps :
                  /\ d[n].deps[k] \in DOMAIN d
                  /\ d[d[n].deps[k]].arch = d[n].arch
                  /\ d[d[n].deps[k]].logical = m.layers[i].deps[k]
<1>1. PICK i \in DOMAIN m.layers : \E a \in Arches(m, i) : d[n] = Unfolded(m.layers[i], a)
  BY GraphNodes
<1>2. PICK a \in Arches(m, i) : d[n] = Unfolded(m.layers[i], a)
  BY <1>1
<1>l. PICK l : l = m.layers[i]
  OBVIOUS
<1>3. l \in LayerType /\ a \in Text
  BY <1>l, Parsed, ArchesAreText
<1>4. /\ d[n].logical = l.name /\ d[n].arch = a
      /\ DOMAIN d[n].deps = DOMAIN l.deps /\ Len(d[n].deps) = Len(l.deps)
      /\ \A k \in DOMAIN l.deps : d[n].deps[k] = l.deps[k] \o a
  <2>1. d[n] = Unfolded(l, a)
    BY <1>l, <1>2
  <2> QED
    BY <2>1, <1>3, UnfoldedFields
<1>5. ASSUME NEW k \in DOMAIN l.deps
      PROVE  /\ d[n].deps[k] \in DOMAIN d /\ d[d[n].deps[k]].arch = a
             /\ d[d[n].deps[k]].logical = l.deps[k]
  <2>1. l.deps[k] \in LayerNames(m)
    BY <1>l, <1>5 DEF Valid, ToSet
  <2>2. PICK p \in DOMAIN m.layers : m.layers[p].name = l.deps[k]
    BY <2>1 DEF LayerNames
  <2>3. a \in Arches(m, p)
    <3>1. CASE m.archs = <<>>
      BY <1>2, <3>1 DEF Arches
    <3>2. CASE m.archs # <<>>
      <4>1. m.layers[p].name \in ToSet(l.deps)
        BY <1>5, <2>2 DEF ToSet
      <4>2. ToSet(LayerArches(m, l)) \subseteq ToSet(LayerArches(m, m.layers[p]))
        BY <1>l, <3>2, <4>1 DEF Expandable
      <4> QED
        BY <1>l, <1>2, <3>2, <4>2 DEF Arches
    <3> QED
      BY <3>1, <3>2
  <2>4. /\ m.layers[p].name \o a \in DOMAIN d
        /\ d[m.layers[p].name \o a] = Unfolded(m.layers[p], a)
    BY <2>3, GraphFinds
  <2>5. d[n].deps[k] = m.layers[p].name \o a
    BY <1>4, <1>5, <2>2
  <2>6. m.layers[p] \in LayerType
    BY Parsed
  <2> QED
    BY <1>3, <2>2, <2>4, <2>5, <2>6, UnfoldedFields
<1> QED
  BY <1>l, <1>4, <1>5

(* Each layer resolves for each of its architectures, to itself.           *)
LEMMA GraphResolves ==
    ASSUME NEW m \in Manifests, Valid(m), Expandable(m), ExpansionsApart(m), NamesApart(m),
           NEW d, d = Graph(m), NEW i \in DOMAIN m.layers, NEW a \in Arches(m, i)
    PROVE  LET n == Resolve(d, m.layers[i].name, a)
           IN  n # Failed /\ d[n].logical = m.layers[i].name /\ d[n].arch = a
<1> DEFINE name == m.layers[i].name
<1>1. /\ m.layers[i] \in LayerType /\ name \in Text /\ name # <<>> /\ a \in Text
      /\ a = NoArch <=> m.archs = <<>>
  BY Parsed, LayerFields, ArchesAreText DEF Valid
<1>2. name \o a \in DOMAIN d /\ d[name \o a] = Unfolded(m.layers[i], a)
  BY GraphFinds
<1>3. d[name \o a].logical = name /\ d[name \o a].arch = a /\ name \o a # <<>>
  BY <1>1, <1>2, UnfoldedFields, TextJoin
<1>4. Resolve(d, name, a) = name \o a
  <2>1. CASE m.archs = <<>>
    <3>1. a = NoArch /\ name \o a = name
      BY <1>1, <2>1, TextJoin DEF NoArch
    <3>2. ~IsMultiArch(d)
      BY <2>1, GraphIsMultiArch
    <3> QED
      BY <1>2, <3>1, <3>2 DEF Resolve
  <2>2. CASE m.archs # <<>>
    <3>1. IsMultiArch(d) /\ a # NoArch
      BY <1>1, <2>2, GraphIsMultiArch
    <3>2. name \notin DOMAIN d
      <4> SUFFICES ASSUME name \in DOMAIN d PROVE FALSE
        OBVIOUS
      <4>1. PICK k \in DOMAIN m.layers : \E b \in Arches(m, k) : name = m.layers[k].name \o b
        BY GraphNodes
      <4> QED
        BY <2>2, <4>1 DEF Arches, NamesApart
    <3> QED
      BY <1>2, <3>1, <3>2 DEF Resolve
  <2> QED
    BY <2>1, <2>2
<1> QED
  BY <1>3, <1>4 DEF Failed

-----------------------------------------------------------------------------
(* Cycles.                                                                 *)

(* S holds its own dependencies, and can be numbered so that each comes    *)
(* before what depends on it.                                              *)
Before(d, S, rank) ==
    \A n \in S : \A i \in DOMAIN d[n].deps : d[n].deps[i] \in S /\ rank[d[n].deps[i]] < rank[n]

Ranked(d, S) == \E b \in Nat : \E rank \in [S -> 0..b] : Before(d, S, rank)

LEMMA NoneRanked == \A d : Ranked(d, {})
<1> SUFFICES ASSUME NEW d PROVE Ranked(d, {})
  OBVIOUS
<1>1. [n \in {} |-> 0] \in [{} -> 0..0] /\ Before(d, {}, [n \in {} |-> 0])
  BY DEF Before
<1> QED
  BY <1>1 DEF Ranked

(* A layer whose dependencies have numbers can be given one.               *)
LEMMA RankOneMore ==
    ASSUME NEW d, NEW S, Ranked(d, S), NEW n, \A i \in DOMAIN d[n].deps : d[n].deps[i] \in S
    PROVE  Ranked(d, S \union {n})
<1>1. PICK b \in Nat : \E rank \in [S -> 0..b] : Before(d, S, rank)
  BY DEF Ranked
<1>2. PICK rank \in [S -> 0..b] : Before(d, S, rank)
  BY <1>1
<1>3. CASE n \in S
  <2>1. S \union {n} = S
    BY <1>3
  <2> QED
    BY <2>1
<1>4. CASE n \notin S
  <2> DEFINE T == S \union {n}
             more == [x \in T |-> IF x = n THEN b + 1 ELSE rank[x]]
  <2>1. b + 1 \in Nat /\ more \in [T -> 0..(b + 1)]
    BY <1>1, <1>2
  <2>2. \A x \in S : more[x] = rank[x] /\ rank[x] \in 0..b
    BY <1>2, <1>4
  <2>3. more[n] = b + 1
    OBVIOUS
  <2>4. ASSUME NEW x \in T, NEW i \in DOMAIN d[x].deps
        PROVE  d[x].deps[i] \in T /\ more[d[x].deps[i]] < more[x]
    <3>1. CASE x = n
      <4>1. d[x].deps[i] \in S
        BY <2>4, <3>1
      <4> QED
        BY <1>1, <2>2, <2>3, <3>1, <4>1
    <3>2. CASE x # n
      <4>1. x \in S
        BY <2>4, <3>2
      <4>2. d[x].deps[i] \in S /\ rank[d[x].deps[i]] < rank[x]
        BY <1>2, <2>4, <4>1 DEF Before
      <4>3. more[d[x].deps[i]] = rank[d[x].deps[i]] /\ more[x] = rank[x]
        BY <2>2, <4>1, <4>2
      <4> QED
        BY <4>2, <4>3
    <3> QED
      BY <3>1, <3>2
  <2>5. Before(d, T, more)
    <3> HIDE DEF more, T
    <3> QED
      BY <2>4 DEF Before
  <2> HIDE DEF more
  <2> QED
    BY <2>1, <2>5 DEF Ranked
<1> QED
  BY <1>3, <1>4

(* Each layer of a path depends on the next.                               *)
IsWalk(d, p) == \A k \in DOMAIN p : k + 1 \in DOMAIN p => p[k + 1] \in ToSet(d[p[k]].deps)

(* What a node is.                                                         *)
LEMMA GraphType ==
    ASSUME NEW m \in Manifests, Valid(m), Expandable(m), NEW d, d = Graph(m), NEW n \in DOMAIN d
    PROVE  /\ d[n] \in ConcreteType /\ d[n].name = n
           /\ d[n].deps \in Seq(Text) /\ Len(d[n].deps) \in Nat /\ DOMAIN d[n].deps = 1..Len(d[n].deps)
<1>1. Expansion(m) \in Seq(ConcreteType) /\ d = Nodes(Expansion(m))
  BY Expands DEF Graph
<1>2. d[n].name = n /\ d[n] \in ToSet(Expansion(m))
  BY <1>1, NodesAreLayers
<1>3. PICK i \in DOMAIN Expansion(m) : d[n] = Expansion(m)[i]
  BY <1>2 DEF ToSet
<1>4. d[n] \in ConcreteType
  BY <1>1, <1>3
<1>5. d[n].deps \in Seq(Text)
  BY <1>4 DEF ConcreteType
<1> QED
  BY <1>2, <1>4, <1>5

(* A concrete layer that depends on another is an expansion of a layer     *)
(* that depends on the other's.                                            *)
LEMMA GraphEdge ==
    ASSUME NEW m \in Manifests, Valid(m), Expandable(m), ExpansionsApart(m),
           NEW d, d = Graph(m), NEW n \in DOMAIN d, NEW p \in ToSet(d[n].deps)
    PROVE  /\ p \in DOMAIN d
           /\ \E i \in DOMAIN m.layers : /\ m.layers[i].name = d[n].logical
                                         /\ d[p].logical \in ToSet(m.layers[i].deps)
<1>1. PICK i \in DOMAIN m.layers :
              /\ m.layers[i].name = d[n].logical
              /\ Len(d[n].deps) = Len(m.layers[i].deps)
              /\ \A k \in DOMAIN d[n].deps :
                  /\ d[n].deps[k] \in DOMAIN d
                  /\ d[d[n].deps[k]].arch = d[n].arch
                  /\ d[d[n].deps[k]].logical = m.layers[i].deps[k]
  BY GraphParents
<1>2. PICK k \in DOMAIN d[n].deps : p = d[n].deps[k]
  BY DEF ToSet
<1>3. DOMAIN m.layers[i].deps = 1..Len(m.layers[i].deps) /\ DOMAIN d[n].deps = 1..Len(d[n].deps)
  BY Parsed, LayerFields, GraphType
<1>4. d[p].logical = m.layers[i].deps[k] /\ k \in DOMAIN m.layers[i].deps
  BY <1>1, <1>2, <1>3
<1> QED
  BY <1>1, <1>2, <1>4 DEF ToSet

(* A walk that comes back to itself shows a circle of layers.              *)
LEMMA CircleFound ==
    ASSUME NEW m \in Manifests, Valid(m), Expandable(m), ExpansionsApart(m),
           NEW d, d = Graph(m), NEW p \in Seq(DOMAIN d), IsWalk(d, p),
           NEW j \in DOMAIN p, p[j] \in ToSet(d[p[Len(p)]].deps)
    PROVE  Circular(m)
<1>1. Len(p) \in Nat /\ DOMAIN p = 1..Len(p) /\ \A k \in DOMAIN p : p[k] \in DOMAIN d
  OBVIOUS
<1> DEFINE S == {d[p[k]].logical : k \in {q \in DOMAIN p : j <= q}}
<1>2. ASSUME NEW k \in DOMAIN p, j <= k
      PROVE  \E i \in DOMAIN m.layers : /\ m.layers[i].name = d[p[k]].logical
                                        /\ ToSet(m.layers[i].deps) \intersect S # {}
  <2>1. PICK q \in DOMAIN p : j <= q /\ p[q] \in ToSet(d[p[k]].deps)
    <3>1. CASE k = Len(p)
      BY <1>1, <3>1
    <3>2. CASE k # Len(p)
      <4>1. k + 1 \in DOMAIN p /\ j <= k + 1
        BY <1>1, <1>2, <3>2
      <4> QED
        BY <4>1 DEF IsWalk
    <3> QED
      BY <3>1, <3>2
  <2>2. p[k] \in DOMAIN d /\ d[p[q]].logical \in S
    BY <1>1, <2>1
  <2>3. PICK i \in DOMAIN m.layers : /\ m.layers[i].name = d[p[k]].logical
                                     /\ d[p[q]].logical \in ToSet(m.layers[i].deps)
    BY <2>1, <2>2, GraphEdge
  <2> HIDE DEF S
  <2> QED
    BY <2>2, <2>3
<1>3. S # {}
  <2>1. j <= j
    BY <1>1
  <2>2. d[p[j]].logical \in S
    BY <2>1
  <2> QED
    BY <2>2
<1>4. \A n \in S : \E i \in DOMAIN m.layers :
          m.layers[i].name = n /\ ToSet(m.layers[i].deps) \intersect S # {}
  BY <1>2
<1>5. S \subseteq LayerNames(m)
  <2> HIDE DEF S
  <2> QED
    BY <1>4 DEF LayerNames
<1> HIDE DEF S
<1> QED
  BY <1>3, <1>4, <1>5 DEF Circular

(* The layers of a circle, expanded for one architecture, can not all be   *)
(* numbered.                                                               *)
LEMMA NoCircleWhenRanked ==
    ASSUME NEW m \in Manifests, Valid(m), Expandable(m), ExpansionsApart(m),
           NEW d, d = Graph(m), Ranked(d, DOMAIN d)
    PROVE  ~Circular(m)
<1> SUFFICES ASSUME Circular(m) PROVE FALSE
  OBVIOUS
<1>1. PICK S \in SUBSET LayerNames(m) :
          /\ S # {}
          /\ \A n \in S : \E i \in DOMAIN m.layers :
                m.layers[i].name = n /\ ToSet(m.layers[i].deps) \intersect S # {}
  BY DEF Circular
<1>2. PICK b \in Nat : \E rank \in [DOMAIN d -> 0..b] : Before(d, DOMAIN d, rank)
  BY DEF Ranked
<1>3. PICK rank \in [DOMAIN d -> 0..b] : Before(d, DOMAIN d, rank)
  BY <1>2
<1> DEFINE T == {x \in DOMAIN d : d[x].logical \in S}
           R == {rank[x] : x \in T}
<1>4. ASSUME NEW i \in DOMAIN m.layers, NEW a \in Arches(m, i)
      PROVE  /\ m.layers[i].name \o a \in DOMAIN d
             /\ d[m.layers[i].name \o a].logical = m.layers[i].name
             /\ d[m.layers[i].name \o a].arch = a
  <2>1. /\ m.layers[i].name \o a \in DOMAIN d
        /\ d[m.layers[i].name \o a] = Unfolded(m.layers[i], a)
    BY GraphFinds
  <2>2. m.layers[i] \in LayerType /\ a \in Text
    BY Parsed, ArchesAreText
  <2> QED
    BY <2>1, <2>2, UnfoldedFields
<1>5. T # {}
  <2>1. PICK n \in S : TRUE
    BY <1>1
  <2>2. PICK i \in DOMAIN m.layers : m.layers[i].name = n
    BY <1>1, <2>1
  <2>3. PICK a : a \in Arches(m, i)
    BY ArchesAreText
  <2> QED
    BY <1>4, <2>2, <2>3
<1>6. R # {} /\ R \in SUBSET Nat
  BY <1>2, <1>3, <1>5
<1>7. PICK least \in R : \A r \in R : least <= r
  <2> HIDE DEF R
  <2> QED
    BY <1>6, LeastNat
<1>8. PICK x \in T : least = rank[x]
  BY <1>7
<1>9. PICK i \in DOMAIN m.layers :
          m.layers[i].name = d[x].logical /\ ToSet(m.layers[i].deps) \intersect S # {}
  BY <1>1, <1>8
<1>10. PICK k \in DOMAIN m.layers[i].deps : m.layers[i].deps[k] \in S
  BY <1>9 DEF ToSet
<1>11. PICK h \in DOMAIN m.layers :
              /\ m.layers[h].name = d[x].logical
              /\ Len(d[x].deps) = Len(m.layers[h].deps)
              /\ \A q \in DOMAIN d[x].deps :
                  /\ d[x].deps[q] \in DOMAIN d
                  /\ d[d[x].deps[q]].arch = d[x].arch
                  /\ d[d[x].deps[q]].logical = m.layers[h].deps[q]
  BY <1>8, GraphParents
<1>12. h = i
  BY <1>9, <1>11 DEF Valid
<1>13. k \in DOMAIN d[x].deps
  <2>1. DOMAIN m.layers[i].deps = 1..Len(m.layers[i].deps) /\ DOMAIN d[x].deps = 1..Len(d[x].deps)
    BY <1>8, Parsed, LayerFields, GraphType
  <2> QED
    BY <1>10, <1>11, <1>12, <2>1
<1>14. d[x].deps[k] \in T
  BY <1>10, <1>11, <1>12, <1>13
<1>15. rank[d[x].deps[k]] < rank[x] /\ rank[d[x].deps[k]] \in R
  BY <1>3, <1>8, <1>13, <1>14 DEF Before
<1>16. rank[d[x].deps[k]] \in Nat /\ rank[x] \in Nat
  BY <1>2, <1>3, <1>8, <1>14
<1>17. rank[x] <= rank[d[x].deps[k]]
  <2> HIDE DEF R, T
  <2> QED
    BY <1>7, <1>8, <1>15
<1> QED
  BY <1>15, <1>16, <1>17

-----------------------------------------------------------------------------
(* The walk of checkCycle.                                                 *)

Distinct(p) == \A i, k \in DOMAIN p : p[i] = p[k] => i = k

(* The layers that have been left, in this walk or an earlier one, can be  *)
(* numbered; a layer from which a walk has started is among them or the    *)
(* root of this one.                                                       *)
Walk(d, u, p, v) ==
    /\ p \in Seq(DOMAIN d) /\ IsWalk(d, p) /\ Distinct(p)
    /\ u \subseteq DOMAIN d /\ v \subseteq DOMAIN d
    /\ \A i \in DOMAIN p : p[i] \notin v
    /\ \E S \in SUBSET DOMAIN d :
          /\ Ranked(d, S) /\ v \subseteq S
          /\ \A n \in DOMAIN d : n \in u \/ n \in S \/ (p # <<>> /\ n = p[1])

LEMMA WalkStarts ==
    ASSUME NEW d, NEW u, NEW v, NEW n \in u, Walk(d, u, <<>>, v)
    PROVE  Walk(d, u \ {n}, <<n>>, {})
<1>1. n \in DOMAIN d /\ u \subseteq DOMAIN d
  BY DEF Walk
<1>2. <<n>> \in Seq(DOMAIN d) /\ DOMAIN <<n>> = {1} /\ <<n>>[1] = n /\ <<n>> # <<>>
  BY <1>1
<1>3. IsWalk(d, <<n>>) /\ Distinct(<<n>>)
  BY <1>2 DEF IsWalk, Distinct
<1>4. PICK S \in SUBSET DOMAIN d : Ranked(d, S) /\ \A x \in DOMAIN d : x \in u \/ x \in S
  BY DEF Walk
<1>5. \A x \in DOMAIN d : x \in u \ {n} \/ x \in S \/ (<<n>> # <<>> /\ x = <<n>>[1])
  BY <1>2, <1>4
<1> QED
  BY <1>1, <1>2, <1>3, <1>4, <1>5 DEF Walk

LEMMA WalkGoesDown ==
    ASSUME NEW d, NEW u, NEW p, NEW v, Walk(d, u, p, v), p # <<>>,
           NEW dep \in ToSet(d[Last(p)].deps), dep \in DOMAIN d, dep \notin v, dep \notin ToSet(p)
    PROVE  Walk(d, u, Append(p, dep), v)
<1> DEFINE q == Append(p, dep)
<1>1. p \in Seq(DOMAIN d) /\ Len(p) \in Nat /\ Len(p) > 0 /\ DOMAIN p = 1..Len(p)
  BY DEF Walk
<1>2. /\ q \in Seq(DOMAIN d) /\ DOMAIN q = 1..(Len(p) + 1) /\ q # <<>>
      /\ q[Len(p) + 1] = dep /\ \A k \in 1..Len(p) : q[k] = p[k]
  BY <1>1
<1> HIDE DEF q
<1>3. IsWalk(d, q)
  <2> SUFFICES ASSUME NEW k \in DOMAIN q, k + 1 \in DOMAIN q PROVE q[k + 1] \in ToSet(d[q[k]].deps)
    BY DEF IsWalk
  <2>1. CASE k = Len(p)
    BY <1>1, <1>2, <2>1 DEF Last
  <2>2. CASE k # Len(p)
    <3>1. k \in 1..Len(p) /\ k + 1 \in 1..Len(p)
      BY <1>1, <1>2, <2>2
    <3> QED
      BY <1>1, <1>2, <3>1 DEF Walk, IsWalk
  <2> QED
    BY <2>1, <2>2
<1>4. Distinct(q)
  <2> SUFFICES ASSUME NEW i \in DOMAIN q, NEW k \in DOMAIN q, q[i] = q[k] PROVE i = k
    BY DEF Distinct
  <2>1. \A x \in 1..Len(p) : q[x] # dep
    BY <1>1, <1>2 DEF ToSet
  <2>2. CASE i = Len(p) + 1 \/ k = Len(p) + 1
    BY <1>1, <1>2, <2>1, <2>2
  <2>3. CASE i # Len(p) + 1 /\ k # Len(p) + 1
    <3>1. i \in 1..Len(p) /\ k \in 1..Len(p)
      BY <1>1, <1>2, <2>3
    <3> QED
      BY <1>1, <1>2, <3>1 DEF Walk, Distinct
  <2> QED
    BY <2>2, <2>3
<1>5. \A i \in DOMAIN q : q[i] \notin v
  BY <1>1, <1>2 DEF Walk
<1>6. q[1] = p[1]
  BY <1>1, <1>2
<1>7. q \in Seq(DOMAIN d) /\ u \subseteq DOMAIN d /\ v \subseteq DOMAIN d
  BY <1>2 DEF Walk
<1>8. \E S \in SUBSET DOMAIN d :
          /\ Ranked(d, S) /\ v \subseteq S
          /\ \A n \in DOMAIN d : n \in u \/ n \in S \/ (q # <<>> /\ n = q[1])
  BY <1>2, <1>6 DEF Walk
<1>9. Walk(d, u, q, v)
  BY <1>3, <1>4, <1>5, <1>7, <1>8 DEF Walk
<1> QED
  BY <1>9 DEF q

LEMMA WalkGoesUp ==
    ASSUME NEW d, NEW u, NEW p, NEW v, Walk(d, u, p, v), p # <<>>,
           \A i \in DOMAIN d[Last(p)].deps : d[Last(p)].deps[i] \in v
    PROVE  Walk(d, u, Front(p), v \union {Last(p)})
<1> DEFINE q == Front(p)
           n == Last(p)
<1>1. p \in Seq(DOMAIN d) /\ Len(p) \in Nat /\ Len(p) > 0 /\ DOMAIN p = 1..Len(p)
  BY DEF Walk
<1>2. /\ q \in Seq(DOMAIN d) /\ DOMAIN q = 1..(Len(p) - 1) /\ Len(q) = Len(p) - 1
      /\ \A k \in 1..(Len(p) - 1) : q[k] = p[k]
      /\ n = p[Len(p)] /\ n \in DOMAIN d
  BY <1>1 DEF Front, Last
<1>3. \A i \in DOMAIN d[n].deps : d[n].deps[i] \in v
  OBVIOUS
<1> HIDE DEF q, n
<1>4. IsWalk(d, q)
  <2> SUFFICES ASSUME NEW k \in DOMAIN q, k + 1 \in DOMAIN q PROVE q[k + 1] \in ToSet(d[q[k]].deps)
    BY DEF IsWalk
  <2>1. k \in DOMAIN p /\ k + 1 \in DOMAIN p /\ q[k] = p[k] /\ q[k + 1] = p[k + 1]
    BY <1>1, <1>2
  <2> QED
    BY <2>1 DEF Walk, IsWalk
<1>5. \A i \in DOMAIN q : i \in DOMAIN p /\ q[i] = p[i] /\ q[i] # n
  <2> SUFFICES ASSUME NEW i \in DOMAIN q PROVE i \in DOMAIN p /\ q[i] = p[i] /\ q[i] # n
    OBVIOUS
  <2>1. i \in DOMAIN p /\ Len(p) \in DOMAIN p /\ i # Len(p) /\ q[i] = p[i]
    BY <1>1, <1>2
  <2>2. p[i] # p[Len(p)]
    BY <2>1 DEF Walk, Distinct
  <2> QED
    BY <1>2, <2>1, <2>2
<1>6. Distinct(q) /\ \A i \in DOMAIN q : q[i] \notin v \union {n}
  BY <1>5 DEF Walk, Distinct
<1>7. PICK S \in SUBSET DOMAIN d :
          /\ Ranked(d, S) /\ v \subseteq S
          /\ \A x \in DOMAIN d : x \in u \/ x \in S \/ (p # <<>> /\ x = p[1])
  BY DEF Walk
<1>8. Ranked(d, S \union {n}) /\ v \union {n} \subseteq S \union {n} /\ S \union {n} \in SUBSET DOMAIN d
  BY <1>2, <1>3, <1>7, RankOneMore
<1>9. ASSUME NEW x \in DOMAIN d PROVE x \in u \/ x \in S \union {n} \/ (q # <<>> /\ x = q[1])
  <2>1. CASE x = p[1]
    <3>1. CASE Len(p) = 1
      BY <1>2, <2>1, <3>1
    <3>2. CASE Len(p) # 1
      <4>1. 1 \in 1..(Len(p) - 1)
        BY <1>1, <3>2
      <4> QED
        BY <1>2, <2>1, <4>1
    <3> QED
      BY <3>1, <3>2
  <2>2. CASE x # p[1]
    BY <1>7, <2>2
  <2> QED
    BY <2>1, <2>2
<1>10. u \subseteq DOMAIN d /\ v \union {n} \subseteq DOMAIN d
  BY <1>2 DEF Walk
<1>11. Walk(d, u, q, v \union {n})
  BY <1>2, <1>4, <1>6, <1>8, <1>9, <1>10 DEF Walk
<1> QED
  BY <1>11 DEF q, n

-----------------------------------------------------------------------------
(* The invariant: how far loading has come is what has been checked.       *)

Built == phase \in {"checking", "ready"}

Inv ==
    /\ manifest \in Manifests
    /\ phase \in {"parsed", "valid", "expanded", "checking", "ready", "invalid", "cyclic"}
    /\ phase \in {"valid", "expanded", "checking", "ready", "cyclic"} => Valid(manifest)
    /\ phase \in {"expanded", "checking", "ready", "cyclic"} =>
         Expandable(manifest) /\ concrete = Expansion(manifest)
    /\ dag = IF Built THEN Graph(manifest) ELSE <<>>
    /\ phase \in {"parsed", "valid", "expanded"} => path = <<>> /\ visited = {}
    /\ Distinct(path)
    /\ phase = "checking" => Walk(dag, unchecked, path, visited)
    /\ phase = "ready"    => Ranked(dag, DOMAIN dag)
    /\ phase = "cyclic"   => (ExpansionsApart(manifest) => Circular(manifest))

(* What a DAG that is built is.                                            *)
LEMMA BuiltDAG ==
    ASSUME Inv, Built
    PROVE  /\ manifest \in Manifests /\ Valid(manifest) /\ Expandable(manifest)
           /\ dag = Graph(manifest)
BY DEF Inv, Built

LEMMA Ready ==
    ASSUME Inv, phase = "ready"
    PROVE  /\ manifest \in Manifests /\ Valid(manifest) /\ Expandable(manifest)
           /\ dag = Graph(manifest)
BY BuiltDAG DEF Built

(* NewDAG starts with no walk done.                                        *)
LEMMA NewDAGInv == ASSUME Inv, NewDAG PROVE Inv'
<1>1. /\ phase = "expanded" /\ phase' = "checking" /\ manifest' = manifest /\ concrete' = concrete
      /\ dag' = Nodes(concrete) /\ unchecked' = DOMAIN dag' /\ path' = path /\ visited' = visited
  BY DEF NewDAG
<1>2. dag' = Graph(manifest)
  BY <1>1 DEF Inv, Graph
<1>3. Walk(dag', unchecked', path', visited')
  <2>1. PICK d : d = dag'
    OBVIOUS
  <2>2. <<>> \in Seq(DOMAIN d) /\ DOMAIN <<>> = {}
    OBVIOUS
  <2>3. IsWalk(d, <<>>) /\ Distinct(<<>>)
    BY <2>2 DEF IsWalk, Distinct
  <2>4. Walk(d, DOMAIN d, <<>>, {})
    BY <2>2, <2>3, NoneRanked DEF Walk
  <2> QED
    BY <1>1, <2>1, <2>4 DEF Inv
<1> QED
  BY <1>1, <1>2, <1>3 DEF Inv, Built

LEMMA StartAtInv == ASSUME Inv, NEW n \in unchecked, StartAt(n) PROVE Inv'
<1>1. /\ phase = "checking" /\ phase' = phase /\ manifest' = manifest /\ concrete' = concrete
      /\ dag' = dag /\ path = <<>> /\ path' = <<n>> /\ unchecked' = unchecked \ {n} /\ visited' = {}
  BY DEF StartAt
<1>2. Walk(dag', unchecked', path', visited')
  <2>1. PICK d, u, v, x : d = dag /\ u = unchecked /\ v = visited /\ x = n
    OBVIOUS
  <2>2. Walk(d, u, <<>>, v) /\ x \in u
    BY <1>1, <2>1 DEF Inv
  <2>3. Walk(d, u \ {x}, <<x>>, {})
    BY <2>2, WalkStarts
  <2> QED
    BY <1>1, <2>1, <2>3
<1>3. Distinct(path')
  BY <1>2 DEF Walk
<1> QED
  BY <1>1, <1>2, <1>3 DEF Inv, Built

(* A dependency on the path closes a circle; one that is unknown does not  *)
(* occur.                                                                  *)
LEMMA VisitDepInv == ASSUME Inv, VisitDep PROVE Inv'
<1>1. /\ phase = "checking" /\ path # <<>> /\ manifest' = manifest /\ concrete' = concrete
      /\ unchecked' = unchecked /\ visited' = visited
  BY DEF VisitDep
<1>2. PICK i \in Unvisited :
          IF dag[Last(path)].deps[i] \in ToSet(path) \/ dag[Last(path)].deps[i] \notin DOMAIN dag
          THEN phase' = "cyclic" /\ dag' = <<>> /\ path' = path
          ELSE path' = Append(path, dag[Last(path)].deps[i]) /\ phase' = phase /\ dag' = dag
  BY DEF VisitDep
<1>3. PICK m, d, u, p, v, dep :
          /\ m = manifest /\ d = dag /\ u = unchecked /\ p = path /\ v = visited
          /\ dep = dag[Last(path)].deps[i]
  OBVIOUS
<1>4. /\ dep \in ToSet(d[Last(p)].deps) /\ dep \notin v
  BY <1>2, <1>3 DEF Unvisited, Visited, ToSet
<1>5. /\ m \in Manifests /\ Valid(m) /\ Expandable(m) /\ d = Graph(m)
      /\ Walk(d, u, p, v) /\ Distinct(p) /\ p # <<>>
  BY <1>1, <1>3, BuiltDAG DEF Inv, Built
<1>6. /\ p \in Seq(DOMAIN d) /\ IsWalk(d, p) /\ Last(p) = p[Len(p)] /\ Last(p) \in DOMAIN d
  <2>1. p \in Seq(DOMAIN d) /\ IsWalk(d, p) /\ Last(p) = p[Len(p)]
    BY <1>5 DEF Walk, Last
  <2> QED
    BY <1>5, <2>1
<1>7. CASE dep \in ToSet(p) \/ dep \notin DOMAIN d
  <2>1. phase' = "cyclic" /\ dag' = <<>> /\ path' = path
    BY <1>2, <1>3, <1>7
  <2>2. ASSUME ExpansionsApart(m) PROVE Circular(m)
    <3>1. dep \in DOMAIN d
      BY <1>4, <1>5, <1>6, <2>2, GraphEdge
    <3>2. PICK j \in DOMAIN p : p[j] = dep
      BY <1>7, <3>1 DEF ToSet
    <3> QED
      BY <1>4, <1>5, <1>6, <2>2, <3>2, CircleFound
  <2> QED
    BY <1>1, <1>3, <2>1, <2>2 DEF Inv, Built
<1>8. CASE ~(dep \in ToSet(p) \/ dep \notin DOMAIN d)
  <2>1. path' = Append(path, dep) /\ phase' = phase /\ dag' = dag
    BY <1>2, <1>3, <1>8
  <2>2. Walk(d, u, Append(p, dep), v)
    BY <1>4, <1>5, <1>8, WalkGoesDown
  <2>3. Walk(dag', unchecked', path', visited')
    BY <1>1, <1>3, <2>1, <2>2
  <2>4. Distinct(path')
    BY <2>3 DEF Walk
  <2> QED
    BY <1>1, <2>1, <2>3, <2>4 DEF Inv, Built
<1> QED
  BY <1>7, <1>8

LEMMA LeaveInv == ASSUME Inv, Leave PROVE Inv'
<1>1. /\ phase = "checking" /\ path # <<>> /\ phase' = phase /\ manifest' = manifest
      /\ concrete' = concrete /\ dag' = dag /\ unchecked' = unchecked
      /\ path' = Front(path) /\ visited' = visited \union {Last(path)}
      /\ \A i \in DOMAIN dag[Last(path)].deps : dag[Last(path)].deps[i] \in visited
  BY DEF Leave, Unvisited, Visited
<1>2. Walk(dag', unchecked', path', visited')
  <2>1. PICK d, u, p, v : d = dag /\ u = unchecked /\ p = path /\ v = visited
    OBVIOUS
  <2>2. /\ Walk(d, u, p, v) /\ p # <<>>
        /\ \A i \in DOMAIN d[Last(p)].deps : d[Last(p)].deps[i] \in v
    BY <1>1, <2>1 DEF Inv
  <2>3. Walk(d, u, Front(p), v \union {Last(p)})
    BY <2>2, WalkGoesUp
  <2> QED
    BY <1>1, <2>1, <2>3
<1>3. Distinct(path')
  BY <1>2 DEF Walk
<1> QED
  BY <1>1, <1>2, <1>3 DEF Inv, Built

(* With no walk left to start every layer is numbered.                     *)
LEMMA AllCheckedInv == ASSUME Inv, AllChecked PROVE Inv'
<1>1. /\ phase = "checking" /\ path = <<>> /\ unchecked = {} /\ phase' = "ready"
      /\ manifest' = manifest /\ concrete' = concrete /\ dag' = dag
      /\ unchecked' = unchecked /\ path' = path /\ visited' = visited
  BY DEF AllChecked, walk
<1>2. PICK S \in SUBSET DOMAIN dag : Ranked(dag, S) /\ \A n \in DOMAIN dag : n \in S
  BY <1>1 DEF Inv, Walk
<1>3. S = DOMAIN dag
  BY <1>2
<1> QED
  BY <1>1, <1>2, <1>3 DEF Inv, Built

(* Each step of loading keeps what the steps before it have checked.       *)
LEMMA InvInit == Init => Inv
<1>1. Distinct(<<>>)
  BY DEF Distinct
<1> QED
  BY <1>1 DEF Init, Inv, Built

LEMMA InvNext == Inv /\ [Next]_vars => Inv'
<1> SUFFICES ASSUME Inv, [Next]_vars PROVE Inv'
  OBVIOUS
<1>1. CASE Validate
  BY <1>1 DEF Validate, walk, Inv, Built
<1>2. CASE Expand
  BY <1>2 DEF Expand, walk, Inv, Built
<1>3. CASE NewDAG
  BY <1>3, NewDAGInv
<1>4. CASE CheckCycle
  BY <1>4, StartAtInv, VisitDepInv, LeaveInv, AllCheckedInv DEF CheckCycle
<1>5. CASE Loaded \/ UNCHANGED vars
  BY <1>5 DEF Loaded, vars, walk, Inv, Built
<1> QED
  BY <1>1, <1>2, <1>3, <1>4, <1>5 DEF Next

LEMMA AlwaysInv == Spec => []Inv
BY InvInit, InvNext, PTL DEF Spec

-----------------------------------------------------------------------------
(* What the invariant means for a DAG.                                     *)
LEMMA InvIsTyped == Inv => TypeOK
<1> SUFFICES ASSUME Inv PROVE TypeOK
  OBVIOUS
<1>1. ASSUME NEW n \in DOMAIN dag PROVE dag[n].name = n
  <2>1. CASE Built
    <3>1. PICK m, d : m = manifest /\ d = dag
      OBVIOUS
    <3>2. m \in Manifests /\ Valid(m) /\ Expandable(m) /\ d = Graph(m)
      BY <2>1, <3>1, BuiltDAG
    <3> QED
      BY <1>1, <3>1, <3>2, GraphType
  <2>2. CASE ~Built
    BY <1>1, <2>2 DEF Inv
  <2> QED
    BY <2>1, <2>2
<1>2. ASSUME phase = "checking"
      PROVE  unchecked \union visited \union ToSet(path) \subseteq DOMAIN dag
  <2>1. path \in Seq(DOMAIN dag) /\ unchecked \subseteq DOMAIN dag /\ visited \subseteq DOMAIN dag
    BY <1>2 DEF Inv, Walk
  <2>2. ToSet(path) \subseteq DOMAIN dag
    BY <2>1 DEF ToSet
  <2> QED
    BY <2>1, <2>2
<1> QED
  BY <1>1, <1>2 DEF Inv, TypeOK, Distinct, Built

(* Every variable has its type, the DAG finds each layer under its own     *)
(* name, and the walk of checkCycle never holds a layer twice (NewDAG).    *)
THEOREM TypeCorrect == Spec => []TypeOK
BY InvIsTyped, AlwaysInv, PTL

(* A manifest whose concrete names are apart is refused for a cycle        *)
(* exactly when layers depend on each other in a circle (NewDAG,           *)
(* checkCycle): the layers the walks have left can be numbered with every  *)
(* parent before its children, and a walk is refused at a layer on its     *)
(* own path.                                                               *)
THEOREM CyclesRefused == Spec => [](ExpansionsApart(manifest) => AcceptsExactlyDags)
<1>1. ASSUME Inv, ExpansionsApart(manifest) PROVE AcceptsExactlyDags
  <2>1. ASSUME phase = "ready" PROVE ~Circular(manifest)
    <3>1. PICK m, d : m = manifest /\ d = dag
      OBVIOUS
    <3>2. /\ m \in Manifests /\ Valid(m) /\ Expandable(m) /\ ExpansionsApart(m) /\ d = Graph(m)
          /\ Ranked(d, DOMAIN d)
      BY <1>1, <2>1, <3>1, Ready DEF Inv
    <3>3. ~Circular(m)
      BY <3>2, NoCircleWhenRanked
    <3> QED
      BY <3>1, <3>3
  <2> QED
    BY <1>1, <2>1 DEF AcceptsExactlyDags, Inv
<1>2. Inv => (ExpansionsApart(manifest) => AcceptsExactlyDags)
  BY <1>1
<1> QED
  BY <1>2, AlwaysInv, PTL

(* A promote of the whole manifest walks every concrete layer exactly      *)
(* under its own logical layer, whatever the layers and architectures are  *)
(* called: even where NewDAG kept one of two expansions with one name      *)
(* (LogicalNames, concreteLayersFor).                                      *)
THEOREM BulkWalksAll == Spec => []BulkCoversAll
<1>1. ASSUME Inv, phase = "ready"
      PROVE  /\ UNION {ConcreteLayersFor(dag, l) : l \in LogicalNames(dag)} = DOMAIN dag
             /\ \A l \in LogicalNames(dag) : \A n \in ConcreteLayersFor(dag, l) : dag[n].logical = l
  <2>1. PICK m, d : m = manifest /\ d = dag
    OBVIOUS
  <2>2. m \in Manifests /\ Valid(m) /\ Expandable(m) /\ d = Graph(m)
    BY <1>1, <2>1, Ready
  <2> QED
    BY <2>1, <2>2, GraphWalk
<1>2. Inv => BulkCoversAll
  BY <1>1 DEF BulkCoversAll
<1> QED
  BY <1>2, AlwaysInv, PTL

(* A child is built on the expansion of its own parents for its own arch,  *)
(* all of them there, in a manifest whose concrete names are apart         *)
(* (expand).                                                               *)
THEOREM ParentsOfOwnArch == Spec => [](ExpansionsApart(manifest) => ParentsAreSameArch)
<1>1. ASSUME Inv, phase = "ready", ExpansionsApart(manifest)
      PROVE  ParentsAreSameArch
  <2>1. PICK m, d : m = manifest /\ d = dag
    OBVIOUS
  <2>2. m \in Manifests /\ Valid(m) /\ Expandable(m) /\ ExpansionsApart(m) /\ d = Graph(m)
    BY <1>1, <2>1, Ready
  <2> QED
    BY <2>1, <2>2, GraphParents DEF ParentsAreSameArch
<1>2. Inv => (ExpansionsApart(manifest) => ParentsAreSameArch)
  BY <1>1 DEF ParentsAreSameArch
<1> QED
  BY <1>2, AlwaysInv, PTL

(* Every layer of the manifest, with every arch it builds for, resolves,   *)
(* and to itself, where no layer and no expansion has the concrete name of *)
(* another (Resolve).                                                      *)
THEOREM ExpansionsResolve ==
    Spec => [](ExpansionsApart(manifest) /\ NamesApart(manifest) => EveryExpansionResolves)
<1>1. ASSUME Inv, phase = "ready", ExpansionsApart(manifest), NamesApart(manifest)
      PROVE  EveryExpansionResolves
  <2>1. PICK m, d : m = manifest /\ d = dag
    OBVIOUS
  <2>2. m \in Manifests /\ Valid(m) /\ Expandable(m) /\ ExpansionsApart(m) /\ NamesApart(m) /\ d = Graph(m)
    BY <1>1, <2>1, Ready
  <2>3. \A i \in DOMAIN m.layers : Wanted(m.layers[i]) \subseteq Arches(m, i)
    BY <2>1 DEF Wanted, Arches, LayerArches, ToSet
  <2> QED
    BY <2>1, <2>2, <2>3, GraphResolves DEF EveryExpansionResolves
<1>2. Inv => (ExpansionsApart(manifest) /\ NamesApart(manifest) => EveryExpansionResolves)
  BY <1>1 DEF EveryExpansionResolves
<1> QED
  BY <1>2, AlwaysInv, PTL

-----------------------------------------------------------------------------
(* Tags.                                                                   *)

(* A numbering in which every parent comes before its children.            *)
Numbers(d, rank) == \E b \in Nat : rank \in [DOMAIN d -> 0..b] /\ Before(d, DOMAIN d, rank)

RankOf(d) == CHOOSE rank : Numbers(d, rank)

LEMMA RankOfIs ==
    ASSUME NEW d, Ranked(d, DOMAIN d)
    PROVE  /\ \A n \in DOMAIN d : RankOf(d)[n] \in Nat
           /\ \A n \in DOMAIN d : \A i \in DOMAIN d[n].deps :
                 d[n].deps[i] \in DOMAIN d /\ RankOf(d)[d[n].deps[i]] < RankOf(d)[n]
<1>1. \E rank : Numbers(d, rank)
  BY DEF Ranked, Numbers
<1>2. Numbers(d, RankOf(d))
  BY <1>1, Zenon DEF RankOf
<1> QED
  BY <1>2 DEF Numbers, Before

(* The tag of a layer over the tags of its parents.                        *)
Over(g, d, c, n) == TagOf(d, n, c, [i \in DOMAIN d[n].deps |-> g[d[n].deps[i]]])

UpTo(d, k) == {n \in DOMAIN d : RankOf(d)[n] <= k}

Solves(g, d, c, S) == g = [n \in S |-> Over(g, d, c, n)]

(* Tags exist for the layers up to every number.                           *)
LEMMA SolutionUpTo ==
    ASSUME NEW d, NEW c, Ranked(d, DOMAIN d)
    PROVE  \A k \in Nat : \E g : Solves(g, d, c, UpTo(d, k))
<1> DEFINE Without == {k \in Nat : ~\E g : Solves(g, d, c, UpTo(d, k))}
<1> SUFFICES ASSUME Without # {} PROVE FALSE
  OBVIOUS
<1>1. PICK m \in Without : \A k \in Without : m <= k
  <2>1. Without \in SUBSET Nat
    OBVIOUS
  <2> HIDE DEF Without
  <2> QED
    BY <2>1, LeastNat
<1>2. m \in Nat /\ ~\E g : Solves(g, d, c, UpTo(d, m))
  OBVIOUS
<1>3. PICK below : m # 0 => Solves(below, d, c, UpTo(d, m - 1))
  <2>1. CASE m # 0
    <3>1. m - 1 \in Nat /\ m - 1 \notin Without
      BY <1>1, <1>2, <2>1
    <3> QED
      BY <3>1
  <2> QED
    BY <2>1
<1> DEFINE g == [n \in UpTo(d, m) |-> Over(below, d, c, n)]
<1>4. ASSUME NEW n \in UpTo(d, m) PROVE Over(g, d, c, n) = Over(below, d, c, n)
  <2>1. ASSUME NEW i \in DOMAIN d[n].deps PROVE g[d[n].deps[i]] = below[d[n].deps[i]]
    <3> DEFINE p == d[n].deps[i]
    <3>1. /\ n \in DOMAIN d /\ RankOf(d)[n] \in Nat /\ RankOf(d)[n] <= m
          /\ p \in DOMAIN d /\ RankOf(d)[p] \in Nat /\ RankOf(d)[p] < RankOf(d)[n]
      BY RankOfIs DEF UpTo
    <3>2. m # 0 /\ p \in UpTo(d, m - 1) /\ p \in UpTo(d, m)
      BY <1>2, <3>1 DEF UpTo
    <3> HIDE DEF p
    <3>3. g[p] = Over(below, d, c, p)
      BY <3>2
    <3>4. below[p] = Over(below, d, c, p)
      BY <1>3, <3>2, Zenon DEF Solves
    <3> QED
      BY <3>3, <3>4 DEF p
  <2>2. [i \in DOMAIN d[n].deps |-> g[d[n].deps[i]]] = [i \in DOMAIN d[n].deps |-> below[d[n].deps[i]]]
    <3> HIDE DEF g
    <3> QED
      BY <2>1
  <2> HIDE DEF g
  <2> QED
    BY <2>2 DEF Over
<1>5. g = [n \in UpTo(d, m) |-> Over(g, d, c, n)]
  BY <1>4
<1>6. Solves(g, d, c, UpTo(d, m))
  <2> HIDE DEF g
  <2> QED
    BY <1>5, Zenon DEF Solves
<1> QED
  BY <1>2, <1>6

(* The tags a checkout stands for satisfy their equation.                  *)
LEMMA TagsEquation ==
    ASSUME NEW d, NEW c, Ranked(d, DOMAIN d)
    PROVE  \A n \in DOMAIN d :
              TagsOf(d, c)[n] = TagOf(d, n, c, ParentTags(d, n, TagsOf(d, c)))
<1>1. PICK b \in Nat : RankOf(d) \in [DOMAIN d -> 0..b]
  <2>1. \E rank : Numbers(d, rank)
    BY DEF Ranked, Numbers
  <2>2. Numbers(d, RankOf(d))
    BY <2>1, Zenon DEF RankOf
  <2> QED
    BY <2>2 DEF Numbers
<1>2. UpTo(d, b) = DOMAIN d
  BY <1>1 DEF UpTo
<1>3. \E g : Solves(g, d, c, DOMAIN d)
  BY <1>2, SolutionUpTo
<1>4. \E tag : tag = [n \in DOMAIN d |-> TagOf(d, n, c, [i \in DOMAIN d[n].deps |-> tag[d[n].deps[i]]])]
  BY <1>3, Zenon DEF Solves, Over
<1>5. TagsOf(d, c) =
        [n \in DOMAIN d |-> TagOf(d, n, c, [i \in DOMAIN d[n].deps |-> TagsOf(d, c)[d[n].deps[i]]])]
  BY <1>4, Zenon DEF TagsOf
<1> QED
  BY <1>5, Zenon DEF ParentTags

(* A set of indices has a greatest.                                        *)
LEMMA GreatestIndex ==
    ASSUME NEW n \in Nat, NEW T \in SUBSET (1..n), T # {}
    PROVE  \E i \in T : \A k \in T : k <= i
<1> DEFINE Left == {n - i : i \in T}
<1>1. Left \in SUBSET Nat /\ Left # {}
  OBVIOUS
<1>2. PICK x \in Left : \A y \in Left : x <= y
  <2> HIDE DEF Left
  <2> QED
    BY <1>1, LeastNat
<1>3. PICK i \in T : x = n - i
  OBVIOUS
<1>4. ASSUME NEW k \in T PROVE k <= i
  <2>1. n - k \in Left
    OBVIOUS
  <2>2. n - i <= n - k
    BY <1>2, <1>3, <2>1
  <2> QED
    BY <2>2
<1> QED
  BY <1>4

(* The variable of a parent that shares its name with no other parent is   *)
(* bound to that parent's tag, whatever else is bound.                     *)
LEMMA ParentIsBound ==
    ASSUME NEW d, NEW n, NEW known, NEW cli, NEW self, NEW p \in ToSet(d[n].deps),
           Len(d[n].deps) \in Nat, DOMAIN d[n].deps = 1..Len(d[n].deps),
           \A k \in DOMAIN d[n].deps : d[n].deps[k] # p =>
               ParentVarName(d, d[n].deps[k]) # ParentVarName(d, p)
    PROVE  RenderVars(d, n, cli, ParentTags(d, n, known), self)[ParentVarName(d, p)] = known[p]
<1> DEFINE deps == d[n].deps
           pts  == ParentTags(d, n, known)
           v    == ParentVarName(d, p)
           Latest(w) == CHOOSE i \in DOMAIN deps :
                        /\ ParentVarName(d, deps[i]) = w
                        /\ \A k \in DOMAIN deps : ParentVarName(d, deps[k]) = w => k <= i
           parents == [w \in {ParentVarName(d, deps[i]) : i \in DOMAIN deps} |-> pts[Latest(w)]]
           own     == IF d[n].arch = NoArch THEN Bound(<<"tag">>, self)
                      ELSE MergeVars(Bound(<<"tag">>, self), Bound(<<"arch">>, d[n].arch))
           direct  == MergeVars(own, parents)
<1>1. \A i \in DOMAIN deps : pts[i] = known[deps[i]]
  BY DEF ParentTags
<1>2. v \in DOMAIN parents /\ parents[v] = known[p]
  <2> DEFINE T == {i \in 1..Len(deps) : ParentVarName(d, deps[i]) = v}
  <2>1. T \in SUBSET (1..Len(deps)) /\ T # {}
    BY DEF ToSet
  <2>2. PICK i \in T : \A k \in T : k <= i
    <3> HIDE DEF T
    <3> QED
      BY <2>1, GreatestIndex
  <2>3. \E k \in DOMAIN deps : /\ ParentVarName(d, deps[k]) = v
                               /\ \A q \in DOMAIN deps : ParentVarName(d, deps[q]) = v => q <= k
    BY <2>2
  <2>4. Latest(v) \in DOMAIN deps /\ ParentVarName(d, deps[Latest(v)]) = v
    BY <2>3
  <2>5. deps[Latest(v)] = p
    BY <2>4
  <2>6. v \in {ParentVarName(d, deps[k]) : k \in DOMAIN deps}
    BY <2>2
  <2>7. parents[v] = pts[Latest(v)]
    BY <2>6
  <2> QED
    BY <1>1, <2>4, <2>5, <2>6, <2>7
<1>3. v \in DOMAIN direct /\ direct[v] = known[p]
  <2> HIDE DEF parents, own, v
  <2> QED
    BY <1>2 DEF MergeVars
<1> DEFINE computed == Computed(d, n, pts, self)
<1>4. v \in DOMAIN computed /\ computed[v] = known[p]
  <2>1. CASE Len(deps) = 1
    <3>1. 1 \in DOMAIN deps /\ deps[1] = p /\ pts[1] = known[p]
      BY <1>1, <2>1 DEF ToSet
    <3>2. computed = MergeVars(direct, Bound(<<"parent", "tag">>, pts[1]))
      BY <2>1 DEF Computed
    <3> HIDE DEF computed, direct, v, pts
    <3> QED
      BY <1>3, <3>1, <3>2 DEF MergeVars, Bound
  <2>2. CASE Len(deps) # 1
    <3>1. computed = direct
      BY <2>2 DEF Computed
    <3> HIDE DEF computed, direct
    <3> QED
      BY <1>3, <3>1
  <2> QED
    BY <2>1, <2>2
<1>5. RenderVars(d, n, cli, pts, self)[v] = computed[v]
  <2>1. RenderVars(d, n, cli, pts, self) = MergeVars(MergeVars(VarsOf(d[n].logical, d[n].arch), cli), computed)
    BY DEF RenderVars
  <2> HIDE DEF computed, v, pts
  <2> QED
    BY <1>4, <2>1 DEF MergeVars
<1> QED
  BY <1>4, <1>5

-----------------------------------------------------------------------------
(* What the commands come to, over a DAG d in phase p, with flags c.       *)

ClosedUp(d, S) == \A n \in S : ToSet(d[n].deps) \subseteq S

HashableIn(d, c, n) == Hashable(d, n, c, ParentTags(d, n, TagsOf(d, c)))

HasLayer(p, d, c) == p = "ready" /\ ResolveManifestLayer(d, c) # Failed

(* The layer and its ancestors can all be hashed.                          *)
AllHashable(d, c) ==
    \E S \in SUBSET DOMAIN d : /\ ResolveManifestLayer(d, c) \in S /\ ClosedUp(d, S)
                               /\ \A n \in S : HashableIn(d, c, n)

FinalVars(d, c) ==
    LET n == ResolveManifestLayer(d, c)
    IN  IF c.manifest THEN RenderVars(d, n, c.vars, ParentTags(d, n, TagsOf(d, c)), TagsOf(d, c)[n])
        ELSE c.vars

FinalTemplate(d, c) == c.templates[IF c.manifest THEN d[ResolveManifestLayer(d, c)].logical ELSE <<>>]

FinalText(d, c) == RenderConfig(FinalTemplate(d, c), FinalVars(d, c))

Late == {"render", "parse", "backend", "publishers"}

(* A command that comes to stage s has passed those before it.             *)
Reaches(p, d, c, s) ==
    /\ s # "flags" => ValidFlags(c)
    /\ s \notin {"flags", "vars"} => c.varsLoad
    /\ s \in {"manifest", "tags"} => c.manifest
    /\ s \in {"tags"} \union Late /\ c.manifest => HasLayer(p, d, c)
    /\ s \in Late /\ c.manifest => AllHashable(d, c)
    /\ s \in Late \ {"render"} => Renders(FinalTemplate(d, c), FinalVars(d, c))
    /\ s \in {"backend", "publishers"} => ParseAndValidate(FinalText(d, c))
    /\ s = "publishers" => NewBackend(FinalText(d, c).config.manager)

StopsAt(p, d, c, s) ==
    /\ Reaches(p, d, c, s)
    /\ s = "flags" => ~ValidFlags(c)
    /\ s = "vars" => ~c.varsLoad
    /\ s = "manifest" => ~HasLayer(p, d, c)
    /\ s = "tags" => ~AllHashable(d, c)
    /\ s = "render" => ~Renders(FinalTemplate(d, c), FinalVars(d, c))
    /\ s = "parse" => ~ParseAndValidate(FinalText(d, c))
    /\ s = "backend" => ~NewBackend(FinalText(d, c).config.manager)
    /\ s = "publishers" => ~NewPublishers(FinalText(d, c).config, c.credentials)

(* How command x may have ended, e, and with what output, o.               *)
EndedAs(p, d, c, x, e, o) ==
    \/ e = "not run" /\ o = <<>>
    \/ /\ e \in Stages /\ o = <<>>
       /\ x = "validate" => e # "publishers"
       /\ x # "render" => StopsAt(p, d, c, e)
    \/ /\ e = "done" /\ o = FinalText(d, c)
       /\ Reaches(p, d, c, "parse")
       /\ x # "render" => Reaches(p, d, c, "publishers")
       /\ x = "build" => NewPublishers(FinalText(d, c).config, c.credentials)

-----------------------------------------------------------------------------
(* The invariant.                                                          *)

(* ComputeTags goes down from layer n to parents that are in every closed  *)
(* set n is in, and has all tags below the layers it has tagged.           *)
Tagging(d, c, n, st, tg) ==
    /\ st \in Seq(DOMAIN d)
    /\ \A i, k \in DOMAIN st : i < k => RankOf(d)[st[k]] < RankOf(d)[st[i]]
    /\ \A S \in SUBSET DOMAIN d : n \in S /\ ClosedUp(d, S) => ToSet(st) \subseteq S
    /\ DOMAIN tg \subseteq DOMAIN d /\ ClosedUp(d, DOMAIN tg)
    /\ \A k \in DOMAIN tg : tg[k] = TagsOf(d, c)[k] /\ HashableIn(d, c, k)
    /\ IF st = <<>> THEN n \in DOMAIN tg ELSE st[1] = n

(* Where a command is, with what it has by then.                           *)
StageInv ==
    /\ stage \in Stages
    /\ at \in DOMAIN Order => Reaches(phase, dag, call, stage)
    /\ at \notin DOMAIN Order => stage = "flags"
    /\ stage \in {"flags", "vars", "manifest"} => stack = <<>> /\ tags = <<>>
    /\ stage = "tags" => Tagging(dag, call, target, stack, tags)
    /\ stage \in Late => stack = <<>> /\ DOMAIN tags \subseteq DOMAIN dag
    /\ stage \in {"tags"} \union Late /\ call.manifest => target = ResolveManifestLayer(dag, call)
    /\ stage \in Late => bound = FinalVars(dag, call)
    /\ stage \in Late \ {"render"} => rendering = FinalText(dag, call) /\ Cmd # "render"
    /\ stage = "publishers" => Cmd = "build"

EndedInv ==
    /\ ended \in [ToSet(Order) -> Stages \union {"not run", "done"}]
    /\ output = [x \in ToSet(Order) |-> output[x]]
    /\ \A k \in DOMAIN Order :
          /\ ended[Order[k]] = "not run" <=> at <= k
          /\ EndedAs(phase, dag, call, Order[k], ended[Order[k]], output[Order[k]])

SessionInv ==
    /\ at \in 0..(Len(Order) + 1)
    /\ at > 0 => phase \in {"ready", "invalid", "cyclic"}
    /\ StageInv /\ EndedInv

-----------------------------------------------------------------------------
(* The walk starts at the layer itself.                                    *)
LEMMA TaggingStarts ==
    ASSUME NEW d, NEW c, NEW n \in DOMAIN d
    PROVE  Tagging(d, c, n, <<n>>, <<>>)
<1>1. <<n>> \in Seq(DOMAIN d) /\ <<n>> # <<>> /\ DOMAIN <<n>> = {1} /\ <<n>>[1] = n
  OBVIOUS
<1>2. ToSet(<<n>>) = {n}
  BY DEF ToSet
<1>3. DOMAIN <<>> = {}
  OBVIOUS
<1> QED
  BY <1>1, <1>2, <1>3 DEF Tagging, ClosedUp

(* It goes down to a parent.                                               *)
LEMMA TaggingDown ==
    ASSUME NEW d, NEW c, NEW n, NEW st, NEW tg, Ranked(d, DOMAIN d), Tagging(d, c, n, st, tg),
           st # <<>>, NEW i \in DOMAIN d[Last(st)].deps
    PROVE  Tagging(d, c, n, Append(st, d[Last(st)].deps[i]), tg)
<1> DEFINE p    == d[Last(st)].deps[i]
           more == Append(st, p)
<1>1. st \in Seq(DOMAIN d) /\ Len(st) \in Nat /\ Len(st) # 0 /\ DOMAIN st = 1..Len(st)
  BY DEF Tagging
<1>2. Last(st) = st[Len(st)] /\ Last(st) \in DOMAIN d /\ Last(st) \in ToSet(st)
  BY <1>1 DEF Last, ToSet
<1>3. /\ \A k \in DOMAIN d : RankOf(d)[k] \in Nat
      /\ p \in DOMAIN d /\ RankOf(d)[p] < RankOf(d)[Last(st)]
  BY <1>2, RankOfIs
<1>4. p \in ToSet(d[Last(st)].deps)
  BY DEF ToSet
<1> HIDE DEF p
<1>5. /\ more \in Seq(DOMAIN d) /\ more # <<>> /\ DOMAIN more = 1..(Len(st) + 1)
      /\ \A k \in 1..Len(st) : more[k] = st[k]
      /\ more[Len(st) + 1] = p
  BY <1>1, <1>3
<1> HIDE DEF more
<1>6. ASSUME NEW j \in DOMAIN more, NEW k \in DOMAIN more, j < k
      PROVE  RankOf(d)[more[k]] < RankOf(d)[more[j]]
  <2>1. j \in 1..Len(st) /\ more[j] = st[j] /\ st[j] \in DOMAIN d
    BY <1>1, <1>5, <1>6
  <2>2. CASE k \in 1..Len(st)
    BY <1>1, <1>5, <1>6, <2>1, <2>2 DEF Tagging
  <2>3. CASE k = Len(st) + 1
    <3>1. j = Len(st) \/ RankOf(d)[Last(st)] < RankOf(d)[st[j]]
      BY <1>1, <1>2, <2>1 DEF Tagging
    <3>2. more[k] = p /\ RankOf(d)[Last(st)] \in Nat /\ RankOf(d)[st[j]] \in Nat /\ RankOf(d)[p] \in Nat
      BY <1>2, <1>3, <1>5, <2>1, <2>3
    <3> QED
      BY <1>2, <1>3, <2>1, <3>1, <3>2
  <2> QED
    BY <1>1, <1>5, <2>2, <2>3
<1>7. ASSUME NEW S \in SUBSET DOMAIN d, n \in S, ClosedUp(d, S) PROVE ToSet(more) \subseteq S
  <2>1. ToSet(st) \subseteq S
    BY <1>7 DEF Tagging
  <2>2. p \in S
    BY <1>2, <1>4, <1>7, <2>1 DEF ClosedUp
  <2> QED
    BY <1>1, <1>5, <2>1, <2>2 DEF ToSet
<1>8. more[1] = n
  BY <1>1, <1>5 DEF Tagging
<1>9. Tagging(d, c, n, more, tg)
  <2> USE DEF Tagging
  <2> QED
    BY <1>5, <1>6, <1>7, <1>8
<1> QED
  BY <1>9 DEF more, p

(* The tags of the parents of a layer are those of the checkout, when they *)
(* are all there.                                                          *)
LEMMA TaggedParents ==
    ASSUME NEW d, NEW c, NEW n, NEW st, NEW tg, Tagging(d, c, n, st, tg), NEW k,
           \A i \in DOMAIN d[k].deps : d[k].deps[i] \in DOMAIN tg
    PROVE  ParentTags(d, k, tg) = ParentTags(d, k, TagsOf(d, c))
<1>1. \A i \in DOMAIN d[k].deps : tg[d[k].deps[i]] = TagsOf(d, c)[d[k].deps[i]]
  BY DEF Tagging
<1> QED
  BY <1>1 DEF ParentTags

(* A layer whose parents are tagged is tagged and left.                    *)
LEMMA TaggingUp ==
    ASSUME NEW d, NEW c, NEW n, NEW st, NEW tg, Ranked(d, DOMAIN d), Tagging(d, c, n, st, tg),
           st # <<>>, \A i \in DOMAIN d[Last(st)].deps : d[Last(st)].deps[i] \in DOMAIN tg,
           Hashable(d, Last(st), c, ParentTags(d, Last(st), tg))
    PROVE  Tagging(d, c, n, Front(st),
                   MergeVars(tg, Bound(Last(st), TagOf(d, Last(st), c, ParentTags(d, Last(st), tg)))))
<1> DEFINE l    == Last(st)
           tag  == TagOf(d, l, c, ParentTags(d, l, tg))
           more == MergeVars(tg, Bound(l, tag))
           left == Front(st)
<1>1. st \in Seq(DOMAIN d) /\ Len(st) \in Nat /\ Len(st) # 0 /\ DOMAIN st = 1..Len(st)
  BY DEF Tagging
<1>2. l = st[Len(st)] /\ l \in DOMAIN d
  BY <1>1 DEF Last
<1>3. /\ left \in Seq(DOMAIN d) /\ Len(left) = Len(st) - 1 /\ DOMAIN left = 1..(Len(st) - 1)
      /\ \A k \in 1..(Len(st) - 1) : left[k] = st[k]
  BY <1>1 DEF Front
<1>4. ParentTags(d, l, tg) = ParentTags(d, l, TagsOf(d, c))
  BY TaggedParents
<1>5. tag = TagsOf(d, c)[l] /\ HashableIn(d, c, l)
  BY <1>2, <1>4, TagsEquation DEF HashableIn
<1> HIDE DEF l, tag, left
<1>6. /\ DOMAIN more = DOMAIN tg \union {l}
      /\ \A k \in DOMAIN more : more[k] = IF k = l THEN tag ELSE tg[k]
  BY DEF MergeVars, Bound
<1> HIDE DEF more
<1>7. ClosedUp(d, DOMAIN more)
  <2>1. ToSet(d[l].deps) \subseteq DOMAIN tg
    BY DEF ToSet, l
  <2>2. ClosedUp(d, DOMAIN tg)
    BY DEF Tagging
  <2> QED
    BY <1>6, <2>1, <2>2 DEF ClosedUp
<1>8. \A i, k \in DOMAIN left : i < k => RankOf(d)[left[k]] < RankOf(d)[left[i]]
  <2>1. \A i, k \in DOMAIN st : i < k => RankOf(d)[st[k]] < RankOf(d)[st[i]]
    BY DEF Tagging
  <2> QED
    BY <1>1, <1>3, <2>1
<1>9. \A S \in SUBSET DOMAIN d : n \in S /\ ClosedUp(d, S) => ToSet(left) \subseteq S
  <2>1. \A S \in SUBSET DOMAIN d : n \in S /\ ClosedUp(d, S) => ToSet(st) \subseteq S
    BY DEF Tagging
  <2>2. ToSet(left) \subseteq ToSet(st)
    BY <1>1, <1>3 DEF ToSet
  <2> QED
    BY <2>1, <2>2
<1>10. \A k \in DOMAIN more : k \in DOMAIN d /\ more[k] = TagsOf(d, c)[k] /\ HashableIn(d, c, k)
  BY <1>2, <1>5, <1>6 DEF Tagging
<1>11. IF left = <<>> THEN n \in DOMAIN more ELSE left[1] = n
  <2>1. st[1] = n
    BY DEF Tagging
  <2>2. CASE Len(st) = 1
    BY <1>2, <1>3, <1>6, <2>1, <2>2
  <2>3. CASE Len(st) # 1
    <3>1. left # <<>> /\ 1 \in 1..(Len(st) - 1)
      BY <1>1, <1>3, <2>3
    <3> QED
      BY <1>3, <2>1, <3>1
  <2> QED
    BY <2>2, <2>3
<1>12. Tagging(d, c, n, left, more)
  <2>1. DOMAIN more \subseteq DOMAIN d
    BY <1>10
  <2> QED
    BY <1>3, <1>7, <1>8, <1>9, <1>10, <1>11, <2>1, Zenon DEF Tagging
<1> QED
  BY <1>12 DEF more, left, l, tag

(* Where the walk meets a layer that cannot be hashed, not all can.        *)
LEMMA TaggingStops ==
    ASSUME NEW d, NEW c, NEW st, NEW tg, Tagging(d, c, ResolveManifestLayer(d, c), st, tg),
           st # <<>>, \A i \in DOMAIN d[Last(st)].deps : d[Last(st)].deps[i] \in DOMAIN tg,
           ~Hashable(d, Last(st), c, ParentTags(d, Last(st), tg))
    PROVE  ~AllHashable(d, c)
<1> SUFFICES ASSUME NEW S \in SUBSET DOMAIN d, ResolveManifestLayer(d, c) \in S, ClosedUp(d, S),
                    \A n \in S : HashableIn(d, c, n)
             PROVE  FALSE
  BY DEF AllHashable
<1>1. ToSet(st) \subseteq S
  BY DEF Tagging
<1>2. Last(st) \in ToSet(st)
  <2>1. st \in Seq(DOMAIN d) /\ Len(st) \in DOMAIN st
    BY DEF Tagging
  <2> QED
    BY <2>1 DEF Last, ToSet
<1>3. ParentTags(d, Last(st), tg) = ParentTags(d, Last(st), TagsOf(d, c))
  BY TaggedParents
<1>4. HashableIn(d, c, Last(st))
  BY <1>1, <1>2
<1> QED
  BY <1>3, <1>4 DEF HashableIn

(* At its end all can, and the layer's variables are what they come to.    *)
LEMMA TaggingEnds ==
    ASSUME NEW d, NEW c, NEW n, NEW tg, n = ResolveManifestLayer(d, c), c.manifest,
           Tagging(d, c, n, <<>>, tg)
    PROVE  /\ AllHashable(d, c)
           /\ RenderVars(d, n, c.vars, ParentTags(d, n, tg), tg[n]) = FinalVars(d, c)
<1>1. /\ DOMAIN tg \in SUBSET DOMAIN d /\ ClosedUp(d, DOMAIN tg) /\ n \in DOMAIN tg
      /\ \A k \in DOMAIN tg : tg[k] = TagsOf(d, c)[k] /\ HashableIn(d, c, k)
  BY DEF Tagging
<1>2. AllHashable(d, c)
  BY <1>1 DEF AllHashable
<1>3. \A i \in DOMAIN d[n].deps : d[n].deps[i] \in DOMAIN tg
  BY <1>1 DEF ClosedUp, ToSet
<1>4. ParentTags(d, n, tg) = ParentTags(d, n, TagsOf(d, c))
  BY <1>3, TaggedParents
<1> QED
  BY <1>1, <1>2, <1>4 DEF FinalVars

(* A command stops at one stage at most.                                   *)
LEMMA StopsOnce ==
    ASSUME NEW p, NEW d, NEW c, NEW s \in Stages, NEW t \in Stages,
           StopsAt(p, d, c, s), StopsAt(p, d, c, t)
    PROVE  s = t
BY DEF Stages, StopsAt, Reaches, Late

LEMMA OrderIs ==
    /\ Len(Order) = 3 /\ DOMAIN Order = 1..3 /\ ToSet(Order) = {"validate", "render", "build"}
    /\ Order[1] = "validate" /\ Order[2] = "render" /\ Order[3] = "build"
BY DEF Order, ToSet

-----------------------------------------------------------------------------
(* The steps.                                                              *)

LEMMA LayerInDAG ==
    ASSUME NEW d, NEW c, ResolveManifestLayer(d, c) # Failed
    PROVE  ResolveManifestLayer(d, c) \in DOMAIN d
BY DEF ResolveManifestLayer, Resolve

(* A command that runs has no result yet.                                  *)
LEMMA NotEnded ==
    ASSUME SessionInv, at \in DOMAIN Order
    PROVE  /\ Cmd = Order[at] /\ Cmd \in ToSet(Order) /\ ended[Cmd] = "not run" /\ output[Cmd] = <<>>
           /\ at \in 1..3 /\ phase \in {"ready", "invalid", "cyclic"}
<1>1. at \in 1..3 /\ at > 0 /\ at <= at
  BY OrderIs
<1>2. Cmd = Order[at] /\ Cmd \in ToSet(Order)
  BY <1>1, OrderIs DEF Cmd
<1>3. EndedInv /\ phase \in {"ready", "invalid", "cyclic"}
  BY <1>1 DEF SessionInv
<1>4. ended[Cmd] = "not run"
  BY <1>1, <1>2, <1>3 DEF EndedInv
<1>5. EndedAs(phase, dag, call, Cmd, ended[Cmd], output[Cmd])
  BY <1>2, <1>3 DEF EndedInv
<1>6. output[Cmd] = <<>>
  <2>1. "not run" \notin Stages /\ "not run" # "done"
    BY DEF Stages
  <2> QED
    BY <1>4, <1>5, <2>1 DEF EndedAs
<1> QED
  BY <1>1, <1>2, <1>3, <1>4, <1>6

(* A command that ends in a way it may leaves the others as they were.     *)
LEMMA Ending ==
    ASSUME SessionInv, at \in DOMAIN Order, NEW how \in Stages \union {"done"}, NEW text,
           End(how), output' = [output EXCEPT ![Cmd] = text],
           EndedAs(phase, dag, call, Cmd, how, text)
    PROVE  SessionInv'
<1>1. /\ at \in 1..3 /\ Cmd = Order[at] /\ Cmd \in ToSet(Order) /\ at' = at + 1
      /\ stage' = "flags" /\ stack' = <<>> /\ tags' = <<>>
      /\ phase' = phase /\ dag' = dag /\ call' = call
      /\ ended' = [ended EXCEPT ![Cmd] = how]
      /\ phase \in {"ready", "invalid", "cyclic"}
  <2>1. /\ at' = at + 1 /\ stage' = "flags" /\ stack' = <<>> /\ tags' = <<>>
        /\ ended' = [ended EXCEPT ![Cmd] = how] /\ UNCHANGED <<call, vars>>
    BY DEF End
  <2> QED
    BY <2>1, NotEnded DEF vars
<1>2. StageInv'
  <2>1. Reaches(phase', dag', call', stage')
    BY <1>1 DEF Reaches, Late
  <2> QED
    BY <1>1, <2>1 DEF StageInv, Stages, Late
<1>3. ended' \in [ToSet(Order) -> Stages \union {"not run", "done"}]
  BY <1>1 DEF SessionInv, EndedInv
<1>4. output' = [x \in ToSet(Order) |-> output'[x]] /\ output'[Cmd] = text
      /\ \A x \in ToSet(Order) : x # Cmd => output'[x] = output[x]
  BY <1>1 DEF SessionInv, EndedInv
<1>5. ASSUME NEW k \in DOMAIN Order
      PROVE  /\ ended'[Order[k]] = "not run" <=> at' <= k
             /\ EndedAs(phase', dag', call', Order[k], ended'[Order[k]], output'[Order[k]])
  <2>1. k \in 1..3 /\ Order[k] \in ToSet(Order)
    BY OrderIs
  <2>2. CASE k = at
    <3>1. Order[k] = Cmd /\ ended'[Order[k]] = how /\ how # "not run" /\ output'[Order[k]] = text
      BY <1>1, <1>4, <2>2 DEF SessionInv, EndedInv, Stages
    <3>2. ~(at' <= k)
      BY <1>1, <2>2
    <3> QED
      BY <1>1, <3>1, <3>2
  <2>3. CASE k # at
    <3>1. Order[k] # Cmd
      BY <1>1, <2>1, <2>3, OrderIs
    <3>2. ended'[Order[k]] = ended[Order[k]] /\ output'[Order[k]] = output[Order[k]]
      BY <1>1, <1>4, <2>1, <3>1 DEF SessionInv, EndedInv
    <3>3. at' <= k <=> at <= k
      BY <1>1, <2>1, <2>3
    <3> QED
      BY <1>1, <3>2, <3>3 DEF SessionInv, EndedInv
  <2> QED
    BY <2>2, <2>3
<1>6. EndedInv'
  BY <1>3, <1>4, <1>5 DEF EndedInv, Order
<1>7. at' \in 0..(Len(Order) + 1) /\ (at' > 0 => phase' \in {"ready", "invalid", "cyclic"})
  BY <1>1, OrderIs
<1> QED
  BY <1>2, <1>6, <1>7 DEF SessionInv, Order

(* It may fail where the flags and the files make it.                      *)
LEMMA Failing ==
    ASSUME SessionInv, at \in DOMAIN Order, Fails,
           Cmd # "render" => StopsAt(phase, dag, call, stage)
    PROVE  SessionInv'
<1>1. PICK s : s = stage
  OBVIOUS
<1>2. s \in Stages /\ End(s)
  BY <1>1 DEF SessionInv, StageInv, Fails
<1>3. output' = [output EXCEPT ![Cmd] = <<>>]
  <2>1. output' = output /\ output[Cmd] = <<>> /\ output = [x \in ToSet(Order) |-> output[x]]
    BY NotEnded DEF Fails, SessionInv, EndedInv
  <2> QED
    BY <2>1
<1>4. EndedAs(phase, dag, call, Cmd, s, <<>>)
  BY <1>1, <1>2 DEF EndedAs, SessionInv, StageInv
<1> QED
  BY <1>2, <1>3, <1>4, Ending

(* Going on, it only has to be well where it comes.                        *)
LEMMA Going ==
    ASSUME SessionInv, UNCHANGED <<vars, call, at, ended, output>>, StageInv'
    PROVE  SessionInv'
<1>1. phase' = phase /\ dag' = dag /\ call' = call /\ at' = at /\ ended' = ended /\ output' = output
  BY DEF vars
<1>2. EndedInv'
  BY <1>1 DEF SessionInv, EndedInv, Order
<1> QED
  BY <1>1, <1>2 DEF SessionInv, Order

LEMMA CheckFlagsInv == ASSUME SessionInv, CheckFlags PROVE SessionInv'
<1>1. at \in DOMAIN Order /\ stage = "flags"
  BY DEF CheckFlags, Running
<1>2. CASE ~ValidFlags(call) /\ Fails
  <2>1. StopsAt(phase, dag, call, stage)
    BY <1>1, <1>2 DEF StopsAt, Reaches, Late
  <2> QED
    BY <1>1, <1>2, <2>1, Failing
<1>3. CASE ValidFlags(call) /\ Goto("vars") /\ UNCHANGED <<target, hashing, bound, rendering>>
  <2>1. /\ stage' = "vars" /\ stack' = stack /\ tags' = tags /\ call' = call /\ at' = at
        /\ UNCHANGED <<vars, call, at, ended, output>>
    BY <1>3 DEF Goto, hashing
  <2>2. Reaches(phase', dag', call', stage')
    BY <1>3, <2>1 DEF Reaches, Late
  <2>3. StageInv'
    BY <1>1, <2>1, <2>2 DEF SessionInv, StageInv, Stages, Late, Order
  <2> QED
    BY <2>1, <2>3, Going
<1> QED
  BY <1>2, <1>3 DEF CheckFlags

LEMMA LoadVarsInv == ASSUME SessionInv, LoadVars PROVE SessionInv'
<1>1. at \in DOMAIN Order /\ stage = "vars" /\ Reaches(phase, dag, call, "vars")
  BY DEF LoadVars, Running, SessionInv, StageInv
<1>2. CASE ~call.varsLoad /\ Fails
  <2>1. StopsAt(phase, dag, call, stage)
    BY <1>1, <1>2 DEF StopsAt
  <2> QED
    BY <1>1, <1>2, <2>1, Failing
<1>3. CASE /\ call.varsLoad /\ call.manifest
           /\ Goto("manifest") /\ UNCHANGED <<target, hashing, bound, rendering>>
  <2>1. /\ stage' = "manifest" /\ stack' = stack /\ tags' = tags /\ call' = call /\ at' = at
        /\ UNCHANGED <<vars, call, at, ended, output>>
    BY <1>3 DEF Goto, hashing
  <2>2. Reaches(phase', dag', call', stage')
    BY <1>1, <1>3, <2>1 DEF Reaches, Late
  <2>3. StageInv'
    BY <1>1, <2>1, <2>2 DEF SessionInv, StageInv, Stages, Late, Order
  <2> QED
    BY <2>1, <2>3, Going
<1>4. CASE /\ call.varsLoad /\ ~call.manifest /\ bound' = call.vars
           /\ Goto("render") /\ UNCHANGED <<target, hashing, rendering>>
  <2>1. /\ stage' = "render" /\ stack' = stack /\ tags' = tags /\ call' = call /\ at' = at
        /\ dag' = dag /\ UNCHANGED <<vars, call, at, ended, output>>
    BY <1>4 DEF Goto, hashing, vars
  <2>2. Reaches(phase', dag', call', stage')
    BY <1>1, <1>4, <2>1 DEF Reaches, Late
  <2>3. bound' = FinalVars(dag', call')
    BY <1>4, <2>1 DEF FinalVars
  <2>4. DOMAIN tags' \subseteq DOMAIN dag' /\ stack' = <<>>
    BY <1>1, <2>1 DEF SessionInv, StageInv
  <2>5. StageInv'
    BY <1>1, <1>4, <2>1, <2>2, <2>3, <2>4 DEF StageInv, Stages, Late, Order
  <2> QED
    BY <2>1, <2>5, Going
<1> QED
  BY <1>2, <1>3, <1>4 DEF LoadVars

LEMMA LoadDAGInv == ASSUME SessionInv, LoadDAG PROVE SessionInv'
<1>1. /\ at \in DOMAIN Order /\ stage = "manifest" /\ Reaches(phase, dag, call, "manifest")
      /\ tags = <<>>
  BY DEF LoadDAG, Running, SessionInv, StageInv
<1> DEFINE n == ResolveManifestLayer(dag, call)
<1>2. CASE (phase # "ready" \/ n = Failed) /\ Fails
  <2>1. StopsAt(phase, dag, call, stage)
    BY <1>1, <1>2 DEF StopsAt, HasLayer
  <2> QED
    BY <1>1, <1>2, <2>1, Failing
<1>3. CASE /\ phase = "ready" /\ n # Failed /\ target' = n /\ stack' = <<n>>
           /\ Goto("tags") /\ UNCHANGED <<tags, bound, rendering>>
  <2>1. /\ stage' = "tags" /\ tags' = <<>> /\ call' = call /\ at' = at /\ dag' = dag /\ phase' = phase
        /\ UNCHANGED <<vars, call, at, ended, output>>
    BY <1>1, <1>3 DEF Goto, vars
  <2>2. Reaches(phase', dag', call', stage')
    BY <1>1, <1>3, <2>1 DEF Reaches, Late, HasLayer
  <2>3. Tagging(dag', call', target', stack', tags')
    <3>1. PICK d, c, l : d = dag /\ c = call /\ l = n
      OBVIOUS
    <3>2. l \in DOMAIN d
      BY <1>3, <3>1, LayerInDAG
    <3>3. Tagging(d, c, l, <<l>>, <<>>)
      BY <3>2, TaggingStarts
    <3> QED
      BY <1>3, <2>1, <3>1, <3>3
  <2>4. StageInv'
    BY <1>1, <1>3, <2>1, <2>2, <2>3 DEF StageInv, Stages, Late, Order
  <2> QED
    BY <2>1, <2>4, Going
<1> QED
  BY <1>2, <1>3 DEF LoadDAG

(* The tags are computed in a DAG, of the layer the command is for.        *)
LEMMA WhileTagging ==
    ASSUME Inv, SessionInv, Running("tags")
    PROVE  /\ at \in DOMAIN Order /\ stage = "tags" /\ call.manifest
           /\ target = ResolveManifestLayer(dag, call) /\ Ranked(dag, DOMAIN dag)
           /\ Tagging(dag, call, target, stack, tags) /\ Reaches(phase, dag, call, "tags")
<1>1. at \in DOMAIN Order /\ stage = "tags"
  BY DEF Running
<1>2. Reaches(phase, dag, call, "tags") /\ Tagging(dag, call, target, stack, tags)
  BY <1>1 DEF SessionInv, StageInv
<1>3. call.manifest /\ phase = "ready"
  BY <1>2 DEF Reaches, HasLayer, Late
<1>4. target = ResolveManifestLayer(dag, call)
  BY <1>1, <1>3 DEF SessionInv, StageInv, Late
<1> QED
  BY <1>1, <1>2, <1>3, <1>4 DEF Inv

LEMMA VisitParentInv == ASSUME Inv, SessionInv, VisitParent PROVE SessionInv'
<1>1. /\ at \in DOMAIN Order /\ stage = "tags" /\ call.manifest
      /\ target = ResolveManifestLayer(dag, call) /\ Ranked(dag, DOMAIN dag)
      /\ Tagging(dag, call, target, stack, tags) /\ Reaches(phase, dag, call, "tags")
  BY WhileTagging DEF VisitParent
<1>2. /\ UNCHANGED <<vars, call, at, stage, target, tags, bound, rendering, ended, output>>
      /\ phase' = phase /\ dag' = dag /\ stack # <<>>
      /\ \E i \in DOMAIN dag[Last(stack)].deps : stack' = Append(stack, dag[Last(stack)].deps[i])
  BY DEF VisitParent, vars, Untagged
<1>3. Tagging(dag, call, target, stack', tags)
  <2>1. PICK d, c, n, st, tg : d = dag /\ c = call /\ n = target /\ st = stack /\ tg = tags
    OBVIOUS
  <2>2. PICK i \in DOMAIN d[Last(st)].deps : stack' = Append(st, d[Last(st)].deps[i])
    BY <1>2, <2>1
  <2>3. Tagging(d, c, n, Append(st, d[Last(st)].deps[i]), tg)
    BY <1>1, <1>2, <2>1, TaggingDown
  <2> QED
    BY <2>1, <2>2, <2>3
<1>4. StageInv'
  BY <1>1, <1>2, <1>3 DEF StageInv, Stages, Late, Order
<1> QED
  BY <1>2, <1>4, Going

LEMMA ComputeTagInv == ASSUME Inv, SessionInv, ComputeTag PROVE SessionInv'
<1>1. /\ at \in DOMAIN Order /\ stage = "tags" /\ call.manifest
      /\ target = ResolveManifestLayer(dag, call) /\ Ranked(dag, DOMAIN dag)
      /\ Tagging(dag, call, target, stack, tags) /\ Reaches(phase, dag, call, "tags")
  BY WhileTagging DEF ComputeTag
<1>2. PICK d, c, n, st, tg : d = dag /\ c = call /\ n = target /\ st = stack /\ tg = tags
  OBVIOUS
<1>3. /\ Tagging(d, c, n, st, tg) /\ Ranked(d, DOMAIN d) /\ n = ResolveManifestLayer(d, c) /\ st # <<>>
      /\ \A i \in DOMAIN d[Last(st)].deps : d[Last(st)].deps[i] \in DOMAIN tg
  BY <1>1, <1>2 DEF ComputeTag, Untagged
<1> DEFINE ok == Hashable(dag, Last(stack), call, ParentTags(dag, Last(stack), tags))
<1>4. CASE ~ok /\ Fails
  <2>1. ~AllHashable(d, c)
    BY <1>2, <1>3, <1>4, TaggingStops
  <2>2. StopsAt(phase, dag, call, stage)
    BY <1>1, <1>2, <2>1 DEF StopsAt
  <2> QED
    BY <1>1, <1>4, <2>2, Failing
<1>5. CASE /\ ok
           /\ tags' = MergeVars(tags, Bound(Last(stack),
                          TagOf(dag, Last(stack), call, ParentTags(dag, Last(stack), tags))))
           /\ stack' = Front(stack)
           /\ Goto("tags") /\ UNCHANGED <<target, bound, rendering>>
  <2>1. /\ stage' = "tags" /\ call' = call /\ at' = at /\ dag' = dag /\ phase' = phase
        /\ UNCHANGED <<vars, call, at, ended, output>>
    BY <1>5 DEF Goto, vars
  <2>2. Tagging(dag, call, target, stack', tags')
    <3>1. Hashable(d, Last(st), c, ParentTags(d, Last(st), tg))
      BY <1>2, <1>5
    <3>2. Tagging(d, c, n, Front(st),
                  MergeVars(tg, Bound(Last(st), TagOf(d, Last(st), c, ParentTags(d, Last(st), tg)))))
      BY <1>3, <3>1, TaggingUp
    <3> QED
      BY <1>2, <1>5, <3>2
  <2>3. StageInv'
    BY <1>1, <1>5, <2>1, <2>2 DEF StageInv, Stages, Late, Order
  <2> QED
    BY <2>1, <2>3, Going
<1> QED
  BY <1>4, <1>5 DEF ComputeTag

LEMMA PrepareLayerRenderInv == ASSUME Inv, SessionInv, PrepareLayerRender PROVE SessionInv'
<1>1. /\ at \in DOMAIN Order /\ stage = "tags" /\ call.manifest
      /\ target = ResolveManifestLayer(dag, call)
      /\ Tagging(dag, call, target, stack, tags) /\ Reaches(phase, dag, call, "tags")
  BY WhileTagging DEF PrepareLayerRender
<1>2. /\ stack = <<>> /\ stage' = "render"
      /\ bound' = RenderVars(dag, target, call.vars, ParentTags(dag, target, tags), tags[target])
      /\ UNCHANGED <<vars, call, at, target, ended, output>> /\ stack' = stack /\ tags' = tags
      /\ dag' = dag /\ phase' = phase /\ rendering' = rendering
  BY DEF PrepareLayerRender, Goto, vars, hashing
<1>3. AllHashable(dag, call) /\ bound' = FinalVars(dag, call)
  <2>1. PICK d, c, n, tg : d = dag /\ c = call /\ n = target /\ tg = tags
    OBVIOUS
  <2>2. /\ AllHashable(d, c)
        /\ RenderVars(d, n, c.vars, ParentTags(d, n, tg), tg[n]) = FinalVars(d, c)
    BY <1>1, <1>2, <2>1, TaggingEnds
  <2> QED
    BY <1>2, <2>1, <2>2
<1>4. Reaches(phase, dag, call, "render")
  BY <1>1, <1>3 DEF Reaches, Late
<1>5. DOMAIN tags \subseteq DOMAIN dag
  BY <1>1 DEF Tagging
<1>6. StageInv'
  BY <1>1, <1>2, <1>3, <1>4, <1>5 DEF StageInv, Stages, Late, Order
<1> QED
  BY <1>2, <1>6, Going

(* What a command has from then on.                                        *)
LEMMA Prepared ==
    ASSUME SessionInv, at \in DOMAIN Order, stage \in Late
    PROVE  /\ Reaches(phase, dag, call, stage) /\ stack = <<>> /\ DOMAIN tags \subseteq DOMAIN dag
           /\ call.manifest => target = ResolveManifestLayer(dag, call)
           /\ Template = FinalTemplate(dag, call) /\ bound = FinalVars(dag, call)
           /\ RenderConfig(Template, bound) = FinalText(dag, call)
           /\ stage # "render" => rendering = FinalText(dag, call) /\ Cmd # "render"
<1>1. /\ Reaches(phase, dag, call, stage) /\ stack = <<>> /\ DOMAIN tags \subseteq DOMAIN dag
      /\ call.manifest => target = ResolveManifestLayer(dag, call)
      /\ bound = FinalVars(dag, call)
      /\ stage # "render" => rendering = FinalText(dag, call) /\ Cmd # "render"
  BY DEF SessionInv, StageInv
<1>2. Template = FinalTemplate(dag, call)
  BY <1>1 DEF Template, FinalTemplate
<1> QED
  BY <1>1, <1>2 DEF FinalText

(* It goes on with all it has.                                             *)
LEMMA GoingLate ==
    ASSUME SessionInv, at \in DOMAIN Order, stage \in Late, NEW next \in Late \ {"render"}, Goto(next),
           UNCHANGED <<target, hashing, bound>>, rendering' = FinalText(dag, call),
           Reaches(phase, dag, call, next), Cmd # "render", next = "publishers" => Cmd = "build"
    PROVE  SessionInv'
<1>1. /\ stage' = next /\ UNCHANGED <<vars, call, at, ended, output, target, bound>>
      /\ dag' = dag /\ phase' = phase /\ stack' = stack /\ tags' = tags
  BY DEF Goto, vars, hashing
<1>2. Cmd' = Cmd
  BY <1>1 DEF Cmd, Order
<1>3. /\ stack = <<>> /\ DOMAIN tags \subseteq DOMAIN dag /\ bound = FinalVars(dag, call)
      /\ call.manifest => target = ResolveManifestLayer(dag, call)
  BY Prepared
<1>4. StageInv'
  BY <1>1, <1>2, <1>3 DEF StageInv, Stages, Late, Order
<1> QED
  BY <1>1, <1>4, Going

LEMMA RenderInv == ASSUME SessionInv, Render PROVE SessionInv'
<1>1. at \in DOMAIN Order /\ stage = "render" /\ stage \in Late
  BY DEF Render, Running, Late
<1>2. /\ Reaches(phase, dag, call, "render")
      /\ Template = FinalTemplate(dag, call) /\ bound = FinalVars(dag, call)
      /\ RenderConfig(Template, bound) = FinalText(dag, call)
  BY <1>1, Prepared
<1>3. CASE ~Renders(Template, bound) /\ Fails
  <2>1. StopsAt(phase, dag, call, stage)
    BY <1>1, <1>2, <1>3 DEF StopsAt
  <2> QED
    BY <1>1, <1>3, <2>1, Failing
<1>4. ASSUME Renders(Template, bound) PROVE Reaches(phase, dag, call, "parse")
  BY <1>2, <1>4 DEF Reaches, Late
<1>5. CASE Renders(Template, bound) /\ Cmd = "render" /\ EndsWith("done", RenderConfig(Template, bound))
  <2>1. PICK text : text = RenderConfig(Template, bound)
    OBVIOUS
  <2>2. End("done") /\ output' = [output EXCEPT ![Cmd] = text]
    BY <1>5, <2>1 DEF EndsWith
  <2>3. EndedAs(phase, dag, call, Cmd, "done", text)
    BY <1>2, <1>4, <1>5, <2>1 DEF EndedAs
  <2> QED
    BY <1>1, <2>2, <2>3, Ending
<1>6. CASE Cmd = "render" /\ Fails
  BY <1>1, <1>6, Failing
<1>7. CASE /\ Renders(Template, bound) /\ Cmd # "render" /\ rendering' = RenderConfig(Template, bound)
           /\ Goto("parse") /\ UNCHANGED <<target, hashing, bound>>
  <2>1. "parse" \in Late \ {"render"} /\ rendering' = FinalText(dag, call)
    BY <1>2, <1>7 DEF Late
  <2> QED
    BY <1>1, <1>4, <1>7, <2>1, GoingLate
<1> QED
  BY <1>3, <1>5, <1>6, <1>7 DEF Render

LEMMA ParseInv == ASSUME SessionInv, Parse PROVE SessionInv'
<1>1. at \in DOMAIN Order /\ stage = "parse" /\ stage \in Late
  BY DEF Parse, Running, Late
<1>2. Reaches(phase, dag, call, "parse") /\ rendering = FinalText(dag, call) /\ Cmd # "render"
  BY <1>1, Prepared
<1>3. CASE ~ParseAndValidate(rendering) /\ Fails
  <2>1. StopsAt(phase, dag, call, stage)
    BY <1>1, <1>2, <1>3 DEF StopsAt
  <2> QED
    BY <1>1, <1>3, <2>1, Failing
<1>4. CASE ParseAndValidate(rendering) /\ Goto("backend") /\ UNCHANGED <<target, hashing, bound, rendering>>
  <2>1. Reaches(phase, dag, call, "backend")
    BY <1>2, <1>4 DEF Reaches, Late
  <2>2. "backend" \in Late \ {"render"} /\ rendering' = FinalText(dag, call)
    BY <1>2, <1>4 DEF Late
  <2> QED
    BY <1>1, <1>2, <1>4, <2>1, <2>2, GoingLate
<1> QED
  BY <1>3, <1>4 DEF Parse

LEMMA BackendInv == ASSUME SessionInv, Backend PROVE SessionInv'
<1>1. at \in DOMAIN Order /\ stage = "backend" /\ stage \in Late
  BY DEF Backend, Running, Late
<1>2. Reaches(phase, dag, call, "backend") /\ rendering = FinalText(dag, call) /\ Cmd # "render"
  BY <1>1, Prepared
<1> DEFINE ok == NewBackend(rendering.config.manager)
<1>3. CASE ~ok /\ Fails
  <2>1. StopsAt(phase, dag, call, stage)
    BY <1>1, <1>2, <1>3 DEF StopsAt
  <2> QED
    BY <1>1, <1>3, <2>1, Failing
<1>4. ASSUME ok PROVE Reaches(phase, dag, call, "publishers") /\ Reaches(phase, dag, call, "parse")
  BY <1>2, <1>4 DEF Reaches, Late
<1>5. CASE ok /\ Cmd = "validate" /\ EndsWith("done", rendering)
  <2>1. PICK text : text = rendering
    OBVIOUS
  <2>2. End("done") /\ output' = [output EXCEPT ![Cmd] = text]
    BY <1>5, <2>1 DEF EndsWith
  <2>3. EndedAs(phase, dag, call, Cmd, "done", text)
    BY <1>2, <1>4, <1>5, <2>1 DEF EndedAs
  <2> QED
    BY <1>1, <2>2, <2>3, Ending
<1>6. CASE ok /\ Cmd = "build" /\ Goto("publishers") /\ UNCHANGED <<target, hashing, bound, rendering>>
  <2>1. "publishers" \in Late \ {"render"} /\ rendering' = FinalText(dag, call)
    BY <1>2, <1>6 DEF Late
  <2> QED
    BY <1>1, <1>2, <1>4, <1>6, <2>1, GoingLate
<1> QED
  BY <1>3, <1>5, <1>6 DEF Backend

LEMMA PublishersInv == ASSUME SessionInv, Publishers PROVE SessionInv'
<1>1. at \in DOMAIN Order /\ stage = "publishers" /\ stage \in Late
  BY DEF Publishers, Running, Late
<1>2. /\ Reaches(phase, dag, call, "publishers") /\ rendering = FinalText(dag, call)
      /\ Reaches(phase, dag, call, "parse")
  <2>1. Reaches(phase, dag, call, "publishers") /\ rendering = FinalText(dag, call)
    BY <1>1, Prepared
  <2> QED
    BY <2>1 DEF Reaches, Late
<1> DEFINE ok == NewPublishers(rendering.config, call.credentials)
<1>3. CASE ~ok /\ Fails
  <2>1. StopsAt(phase, dag, call, stage)
    BY <1>1, <1>2, <1>3 DEF StopsAt
  <2> QED
    BY <1>1, <1>3, <2>1, Failing
<1>4. CASE ok /\ EndsWith("done", rendering)
  <2>1. PICK text : text = rendering
    OBVIOUS
  <2>2. End("done") /\ output' = [output EXCEPT ![Cmd] = text]
    BY <1>4, <2>1 DEF EndsWith
  <2>3. EndedAs(phase, dag, call, Cmd, "done", text)
    BY <1>2, <1>4, <2>1 DEF EndedAs
  <2> QED
    BY <1>1, <2>2, <2>3, Ending
<1> QED
  BY <1>3, <1>4 DEF Publishers

(* Before the first command nothing depends on the manifest or the call.   *)
LEMMA NothingRuns ==
    ASSUME SessionInv, at = 0
    PROVE  /\ stage = "flags" /\ stack = <<>> /\ tags = <<>>
           /\ \A k \in DOMAIN Order : ended[Order[k]] = "not run" /\ output[Order[k]] = <<>>
<1>1. stage = "flags" /\ stack = <<>> /\ tags = <<>>
  BY OrderIs DEF SessionInv, StageInv
<1>2. ASSUME NEW k \in DOMAIN Order PROVE ended[Order[k]] = "not run" /\ output[Order[k]] = <<>>
  <2>1. at <= k
    BY OrderIs
  <2>2. ended[Order[k]] = "not run" /\ EndedAs(phase, dag, call, Order[k], ended[Order[k]], output[Order[k]])
    BY <2>1 DEF SessionInv, EndedInv
  <2> QED
    BY <2>2 DEF EndedAs, Stages
<1> QED
  BY <1>1, <1>2

LEMMA LoadingInv == ASSUME Inv, SessionInv, Loading PROVE SessionInv'
<1>1. phase \notin {"ready", "invalid", "cyclic"}
  <2>1. phase \in {"parsed", "valid", "expanded", "checking"}
    BY DEF Loading, Validate, Expand, NewDAG, CheckCycle, StartAt, VisitDep, Leave, AllChecked
  <2> QED
    BY <2>1
<1>2. at = 0
  BY <1>1, OrderIs DEF SessionInv
<1>3. /\ at' = at /\ stage' = stage /\ stack' = stack /\ tags' = tags
      /\ ended' = ended /\ output' = output
  BY DEF Loading, session, hashing
<1>4. /\ stage = "flags" /\ stack = <<>> /\ tags = <<>>
      /\ \A k \in DOMAIN Order : ended[Order[k]] = "not run" /\ output[Order[k]] = <<>>
  BY <1>2, NothingRuns
<1>5. StageInv'
  <2>1. at' \notin DOMAIN Order
    BY <1>2, <1>3, OrderIs
  <2> QED
    BY <1>3, <1>4, <2>1 DEF StageInv, Stages, Late
<1>6. ASSUME NEW k \in DOMAIN Order
      PROVE  EndedAs(phase', dag', call', Order[k], ended'[Order[k]], output'[Order[k]])
  BY <1>3, <1>4 DEF EndedAs
<1>7. EndedInv'
  BY <1>3, <1>6 DEF SessionInv, EndedInv, Order
<1> QED
  BY <1>2, <1>3, <1>5, <1>7 DEF SessionInv, Order

LEMMA InvokeInv == ASSUME SessionInv, Invoke PROVE SessionInv'
<1>1. /\ at = 0 /\ at' = 1 /\ phase \in {"ready", "invalid", "cyclic"} /\ phase' = phase
      /\ stage' = stage /\ stack' = stack /\ tags' = tags /\ ended' = ended /\ output' = output
  BY DEF Invoke, vars, hashing
<1>2. /\ stage = "flags" /\ stack = <<>> /\ tags = <<>>
      /\ \A k \in DOMAIN Order : ended[Order[k]] = "not run" /\ output[Order[k]] = <<>>
  BY <1>1, NothingRuns
<1>3. StageInv'
  <2>1. Reaches(phase', dag', call', "flags")
    BY DEF Reaches, Late
  <2> QED
    BY <1>1, <1>2, <2>1 DEF StageInv, Stages, Late
<1>4. ASSUME NEW k \in DOMAIN Order
      PROVE  /\ EndedAs(phase', dag', call', Order[k], ended'[Order[k]], output'[Order[k]])
             /\ ended'[Order[k]] = "not run" <=> at' <= k
  <2>1. at' <= k
    BY <1>1, OrderIs
  <2>2. ended'[Order[k]] = "not run" /\ output'[Order[k]] = <<>>
    BY <1>1, <1>2
  <2> QED
    BY <2>1, <2>2 DEF EndedAs
<1>5. EndedInv'
  BY <1>1, <1>4 DEF SessionInv, EndedInv, Order
<1> QED
  BY <1>1, <1>3, <1>5, OrderIs DEF SessionInv, Order

LEMMA SessionInvInit == CommandsInit => SessionInv
<1> SUFFICES ASSUME SessionInit PROVE SessionInv
  BY DEF CommandsInit
<1>1. at = 0 /\ stage = "flags" /\ stack = <<>> /\ tags = <<>>
  BY DEF SessionInit
<1>2. StageInv
  BY <1>1, OrderIs DEF StageInv, Stages, Late
<1>3. ASSUME NEW k \in DOMAIN Order
      PROVE  /\ ended[Order[k]] = "not run" <=> at <= k
             /\ EndedAs(phase, dag, call, Order[k], ended[Order[k]], output[Order[k]])
  <2>1. at <= k /\ Order[k] \in ToSet(Order)
    BY <1>1, OrderIs
  <2>2. ended[Order[k]] = "not run" /\ output[Order[k]] = <<>>
    BY <2>1 DEF SessionInit
  <2> QED
    BY <2>1, <2>2 DEF EndedAs
<1>4. EndedInv
  <2>1. /\ ended \in [ToSet(Order) -> Stages \union {"not run", "done"}]
        /\ output = [x \in ToSet(Order) |-> output[x]]
    BY DEF SessionInit
  <2> QED
    BY <1>3, <2>1 DEF EndedInv
<1> QED
  BY <1>1, <1>2, <1>4, OrderIs DEF SessionInv

(* Both invariants hold together: a command leaves what was loaded.        *)
LEMMA CommandsInvNext == Inv /\ SessionInv /\ [CommandsNext]_allVars => Inv' /\ SessionInv'
<1> SUFFICES ASSUME Inv, SessionInv, [CommandsNext]_allVars PROVE Inv' /\ SessionInv'
  OBVIOUS
<1>1. [Next]_vars
  <2>1. CASE Loading
    BY <2>1 DEF Loading, Next
  <2>2. CASE UNCHANGED vars
    BY <2>2
  <2>3. ~Loading => UNCHANGED vars
    BY DEF CommandsNext, Invoke, CheckFlags, LoadVars, LoadDAG, VisitParent, ComputeTag,
           PrepareLayerRender, Render, Parse, Backend, Publishers, AllEnded, Fails, EndsWith,
           End, Goto, allVars
  <2> QED
    BY <2>1, <2>2, <2>3
<1>2. Inv'
  BY <1>1, InvNext
<1>3. ASSUME UNCHANGED allVars PROVE SessionInv'
  <2>1. /\ UNCHANGED <<vars, call, at, ended, output>> /\ phase' = phase /\ dag' = dag
        /\ UNCHANGED <<stage, target, stack, tags, bound, rendering>>
    BY <1>3 DEF allVars, session, hashing, vars
  <2>2. StageInv'
    BY <2>1 DEF SessionInv, StageInv, Order, Cmd
  <2> QED
    BY <2>1, <2>2, Going
<1>4. ASSUME CommandsNext PROVE SessionInv'
  BY <1>3, <1>4, LoadingInv, InvokeInv, CheckFlagsInv, LoadVarsInv, LoadDAGInv, VisitParentInv,
     ComputeTagInv, PrepareLayerRenderInv, RenderInv, ParseInv, BackendInv, PublishersInv
     DEF CommandsNext, AllEnded
<1> QED
  BY <1>2, <1>3, <1>4

LEMMA CommandsAlways == CommandsSpec => [](Inv /\ SessionInv)
<1>1. CommandsInit => Inv /\ SessionInv
  BY InvInit, SessionInvInit DEF CommandsInit
<1> QED
  BY <1>1, CommandsInvNext, PTL DEF CommandsSpec

-----------------------------------------------------------------------------
(* What the commands promise.                                              *)

(* Every variable has its type, the manifest's too, and the walk over the  *)
(* ancestors of a layer never holds one twice (ComputeTags).               *)
THEOREM CommandsTypeCorrect == CommandsSpec => []CommandsTypeOK
<1>1. ASSUME Inv, SessionInv PROVE CommandsTypeOK
  <2>1. ToSet(stack) \union DOMAIN tags \subseteq DOMAIN dag /\ \A i, k \in DOMAIN stack : stack[i] = stack[k] => i = k
    <3>1. CASE stage = "tags"
      <4>1. Tagging(dag, call, target, stack, tags)
        BY <1>1, <3>1 DEF SessionInv, StageInv
      <4>2. stack \in Seq(DOMAIN dag) /\ DOMAIN tags \subseteq DOMAIN dag
        BY <4>1 DEF Tagging
      <4>3. at \in DOMAIN Order /\ Ranked(dag, DOMAIN dag)
        <5>1. at \in DOMAIN Order
          BY <1>1, <3>1 DEF SessionInv, StageInv
        <5> QED
          BY <1>1, <3>1, <5>1, WhileTagging DEF Running
      <4>4. PICK d, st : d = dag /\ st = stack
        OBVIOUS
      <4>5. ASSUME NEW i \in DOMAIN st, NEW k \in DOMAIN st, st[i] = st[k] PROVE i = k
        <5>1. i \in Nat /\ k \in Nat /\ st[i] \in DOMAIN d
          BY <4>2, <4>4
        <5>2. RankOf(d)[st[i]] \in Nat
          BY <4>3, <4>4, <5>1, RankOfIs
        <5>3. ~(i < k) /\ ~(k < i)
          BY <4>1, <4>4, <4>5, <5>2 DEF Tagging
        <5> QED
          BY <5>1, <5>3
      <4>6. ToSet(stack) \subseteq DOMAIN dag
        BY <4>2 DEF ToSet
      <4> QED
        BY <4>2, <4>4, <4>5, <4>6
    <3>2. CASE stage # "tags"
      <4>1. stack = <<>> /\ DOMAIN tags \subseteq DOMAIN dag
        BY <1>1, <3>2 DEF SessionInv, StageInv, Stages, Late
      <4> QED
        BY <4>1 DEF ToSet
    <3> QED
      BY <3>1, <3>2
  <2>2. stage = "tags" => target \in DOMAIN dag
    <3> SUFFICES ASSUME stage = "tags" PROVE target \in DOMAIN dag
      OBVIOUS
    <3>1. at \in DOMAIN Order
      BY <1>1 DEF SessionInv, StageInv
    <3>2. target = ResolveManifestLayer(dag, call) /\ Reaches(phase, dag, call, "tags") /\ call.manifest
      BY <1>1, <3>1, WhileTagging DEF Running
    <3>3. ResolveManifestLayer(dag, call) # Failed
      BY <3>2 DEF Reaches, HasLayer
    <3>4. PICK d, c : d = dag /\ c = call
      OBVIOUS
    <3> QED
      BY <3>2, <3>3, <3>4, LayerInDAG
  <2>3. DOMAIN FinalText(dag, call) # {} /\ FinalText(dag, call) # <<>>
    BY DEF FinalText, RenderConfig
  <2>4. stage \in {"parse", "backend", "publishers"} => rendering # <<>>
    BY <1>1, <2>3 DEF SessionInv, StageInv, Late
  <2>5. \A x \in ToSet(Order) : output[x] # <<>> <=> ended[x] = "done"
    <3> SUFFICES ASSUME NEW x \in ToSet(Order) PROVE output[x] # <<>> <=> ended[x] = "done"
      OBVIOUS
    <3>1. PICK k \in DOMAIN Order : x = Order[k]
      BY DEF ToSet
    <3>2. EndedAs(phase, dag, call, x, ended[x], output[x])
      BY <1>1, <3>1 DEF SessionInv, EndedInv
    <3> QED
      BY <2>3, <3>2 DEF EndedAs, Stages
  <2> QED
    BY <1>1, <2>1, <2>2, <2>4, <2>5, InvIsTyped DEF CommandsTypeOK, SessionInv, StageInv, EndedInv
<1> QED
  BY <1>1, CommandsAlways, PTL

(* How each command has ended, all having run.                             *)
LEMMA EndedHow ==
    ASSUME SessionInv, at > Len(Order), NEW x \in ToSet(Order)
    PROVE  ended[x] # "not run" /\ EndedAs(phase, dag, call, x, ended[x], output[x])
<1>1. PICK k \in DOMAIN Order : x = Order[k]
  BY DEF ToSet
<1>2. ~(at <= k)
  BY <1>1, OrderIs DEF SessionInv
<1> QED
  BY <1>1, <1>2 DEF SessionInv, EndedInv

(* What can be published but not built wants credentials.                  *)
LEMMA OnlyCredentials ==
    ASSUME NEW g, NEW credentials, ValidConfig(g), ~NewPublishers(g, credentials)
    PROVE  ~credentials /\ \E p \in g.publish : p.type = "s3" /\ ~p.promoteOnly
BY DEF ValidConfig, ValidPublish, NewPublishers, BuildTargets

(* validate gives the answer build would, and render exactly what a build  *)
(* would consume, whatever the manifest and the files (runValidate,        *)
(* runRender, runBuild).                                                   *)
THEOREM CommandsDoAgree == CommandsSpec => []CommandsAgree
<1>1. ASSUME SessionInv, at > Len(Order) PROVE CommandsAgree
  <2>1. /\ ended["validate"] # "not run"
        /\ EndedAs(phase, dag, call, "validate", ended["validate"], output["validate"])
    BY <1>1, OrderIs, EndedHow
  <2>2. /\ ended["build"] # "not run"
        /\ EndedAs(phase, dag, call, "build", ended["build"], output["build"])
    BY <1>1, OrderIs, EndedHow
  <2>3. EndedAs(phase, dag, call, "render", ended["render"], output["render"])
    BY <1>1, OrderIs, EndedHow
  <2>4. PICK p, d, c, ev, eb : p = phase /\ d = dag /\ c = call /\ ev = ended["validate"] /\ eb = ended["build"]
    OBVIOUS
  <2>5. output["render"] \in {<<>>, FinalText(d, c)}
    BY <2>3, <2>4 DEF EndedAs
  <2>6. CASE ev = "done"
    <3>1. output["validate"] = FinalText(d, c) /\ Reaches(p, d, c, "publishers")
      BY <2>1, <2>4, <2>6 DEF EndedAs, Stages
    <3>2. CASE eb = "done"
      <4>1. output["build"] = FinalText(d, c)
        BY <2>2, <2>4, <3>2 DEF EndedAs, Stages
      <4> QED
        BY <2>4, <2>5, <2>6, <3>1, <3>2, <4>1 DEF CommandsAgree
    <3>3. CASE eb # "done"
      <4>1. eb \in Stages /\ StopsAt(p, d, c, eb)
        BY <2>2, <2>4, <3>3 DEF EndedAs
      <4>2. eb = "publishers"
        BY <3>1, <4>1 DEF StopsAt, Reaches, Stages, Late
      <4>3. ~NewPublishers(FinalText(d, c).config, c.credentials)
        BY <4>1, <4>2 DEF StopsAt
      <4>4. ValidConfig(FinalText(d, c).config)
        BY <3>1 DEF Reaches, ParseAndValidate
      <4>5. ~c.credentials /\ \E q \in FinalText(d, c).config.publish : q.type = "s3" /\ ~q.promoteOnly
        BY <4>3, <4>4, OnlyCredentials
      <4>6. Credentials /\ ~call.credentials
        BY <2>4, <3>1, <4>5 DEF Credentials
      <4> QED
        BY <2>4, <2>5, <2>6, <3>1, <3>3, <4>2, <4>6 DEF CommandsAgree
    <3> QED
      BY <3>2, <3>3
  <2>7. CASE ev # "done"
    <3>1. ev \in Stages /\ ev # "publishers" /\ StopsAt(p, d, c, ev)
      BY <2>1, <2>4, <2>7 DEF EndedAs
    <3>2. eb # "done"
      <4> SUFFICES ASSUME eb = "done" PROVE FALSE
        OBVIOUS
      <4>1. Reaches(p, d, c, "publishers") /\ Reaches(p, d, c, "parse")
        BY <2>2, <2>4 DEF EndedAs, Stages
      <4> QED
        BY <3>1, <4>1 DEF StopsAt, Reaches, Stages, Late
    <3>3. eb \in Stages /\ StopsAt(p, d, c, eb)
      BY <2>2, <2>4, <3>2 DEF EndedAs
    <3>4. ev = eb
      BY <3>1, <3>3, StopsOnce
    <3> QED
      BY <2>4, <2>7, <3>2, <3>4 DEF CommandsAgree
  <2> QED
    BY <2>6, <2>7
<1>2. Inv /\ SessionInv => CommandsAgree
  BY <1>1 DEF CommandsAgree
<1> QED
  BY <1>2, CommandsAlways, PTL

(* The tag a child is rendered with for a parent is the one that a build   *)
(* of that parent with the same flags publishes under, whatever the user's *)
(* own variables are and however the DAG leads to the parent (RenderVars,  *)
(* ComputeTags).                                                           *)
THEOREM ParentTagIsPinned == CommandsSpec => []PinsParentTag
<1>1. ASSUME Inv, SessionInv, ended["build"] = "done", call.manifest PROVE PinsParentTag
  <2>1. EndedAs(phase, dag, call, "build", "done", output["build"])
    <3>1. 3 \in DOMAIN Order /\ Order[3] = "build"
      BY OrderIs
    <3> QED
      BY <1>1, <3>1 DEF SessionInv, EndedInv
  <2>2. output["build"] = FinalText(dag, call) /\ Reaches(phase, dag, call, "parse")
    BY <2>1 DEF EndedAs, Stages
  <2>3. PICK d, c, m : d = dag /\ c = call /\ m = manifest
    OBVIOUS
  <2> DEFINE n == ResolveManifestLayer(d, c)
             values == output["build"].values
  <2>4. phase = "ready" /\ n # Failed
    BY <1>1, <2>2, <2>3 DEF Reaches, HasLayer, Late
  <2>5. n \in DOMAIN d
    BY <2>4, LayerInDAG
  <2>6. Len(d[n].deps) \in Nat /\ DOMAIN d[n].deps = 1..Len(d[n].deps)
    <3>1. m \in Manifests /\ Valid(m) /\ Expandable(m) /\ d = Graph(m)
      BY <1>1, <2>3, <2>4, Ready
    <3> QED
      BY <2>5, <3>1, GraphType
  <2>7. values = [v \in FinalTemplate(d, c).refs |-> FinalVars(d, c)[v]]
    BY <2>2, <2>3 DEF FinalText, RenderConfig
  <2>8. FinalVars(d, c) = RenderVars(d, n, c.vars, ParentTags(d, n, TagsOf(d, c)), TagsOf(d, c)[n])
    BY <1>1, <2>3 DEF FinalVars
  <2>9. ASSUME NEW p \in ToSet(d[n].deps),
               \A k \in DOMAIN d[n].deps : d[n].deps[k] # p =>
                   ParentVarName(d, d[n].deps[k]) # ParentVarName(d, p),
               ParentVarName(d, p) \in DOMAIN values
        PROVE  values[ParentVarName(d, p)] = TagsOf(d, c)[p]
    <3>1. FinalVars(d, c)[ParentVarName(d, p)] = TagsOf(d, c)[p]
      <4> HIDE DEF n
      <4> QED
        BY <2>6, <2>8, <2>9, ParentIsBound
    <3> QED
      BY <2>7, <2>9, <3>1
  <2> QED
    BY <2>3, <2>9 DEF PinsParentTag
<1>2. Inv /\ SessionInv => PinsParentTag
  BY <1>1 DEF PinsParentTag
<1> QED
  BY <1>2, CommandsAlways, PTL
================================================================================
