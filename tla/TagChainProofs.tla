---------------------------- MODULE TagChainProofs ----------------------------
(***************************************************************************)
(* Proofs about TagChain, for every acyclic manifest and any number of     *)
(* checkouts, edits and builds.                                            *)
(***************************************************************************)
EXTENDS TagChain, SequenceTheorems, FiniteSetTheorems, WellFoundedInduction, TLAPS

-----------------------------------------------------------------------------
(* Induction over the depth of a layer, in first-order form.               *)

(* A non-empty set of natural numbers has a least element.                 *)
LEMMA LeastNat ==
    ASSUME NEW T \in SUBSET Nat, T # {}
    PROVE  \E n \in T : \A m \in T : n <= m
<1>1. PICK n \in T : \A m \in T : <<m, n>> \notin OpToRel(<, Nat)
  BY NatLessThanWellFounded, WFMin, Zenon
<1>2. \A m \in T : ~(m < n)
  BY <1>1 DEF OpToRel
<1> QED BY <1>2

(* A numbering of the layers in which every parent comes before.           *)
IsRank(rank) ==
    \A l \in Layers : \A i \in DOMAIN DependsOn[l] : rank[DependsOn[l][i]] < rank[l]

Rank == CHOOSE rank \in [Layers -> 0..Cardinality(Layers)] : IsRank(rank)

(* An acyclic manifest has one (DAG.Build refuses the others).             *)
LEMMA RankExists ==
    /\ Cardinality(Layers) \in Nat
    /\ Rank \in [Layers -> 0..Cardinality(Layers)]
    /\ \A l \in Layers : \A i \in DOMAIN DependsOn[l] :
          DependsOn[l][i] \in Layers /\ Rank[DependsOn[l][i]] < Rank[l]
<1>1. Cardinality(Layers) \in Nat
  BY TagChainAssumption, FS_CardinalityType
<1>2. \E rank \in [Layers -> 0..Cardinality(Layers)] : IsRank(rank)
  BY TagChainAssumption DEF IsRank
<1>3. Rank \in [Layers -> 0..Cardinality(Layers)] /\ IsRank(Rank)
  BY <1>2, Zenon DEF Rank
<1>4. \A l \in Layers : \A i \in DOMAIN DependsOn[l] : DependsOn[l][i] \in Layers
  BY TagChainAssumption
<1> QED BY <1>1, <1>3, <1>4 DEF IsRank

(* A layer without parents has no first parent; any other has one that is  *)
(* a layer of smaller rank.                                                *)
LEMMA FirstParentFacts ==
    \A l \in Layers :
        /\ 1 \in DOMAIN DependsOn[l] <=> DependsOn[l] # <<>>
        /\ DependsOn[l] # <<>> => /\ DependsOn[l][1] \in Layers
                                  /\ Rank[DependsOn[l][1]] < Rank[l]
<1> SUFFICES ASSUME NEW l \in Layers
             PROVE  /\ 1 \in DOMAIN DependsOn[l] <=> DependsOn[l] # <<>>
                    /\ DependsOn[l] # <<>> => /\ DependsOn[l][1] \in Layers
                                              /\ Rank[DependsOn[l][1]] < Rank[l]
  OBVIOUS
<1>1. DependsOn[l] \in Seq(Layers)
  BY TagChainAssumption
<1>2. 1 \in DOMAIN DependsOn[l] <=> DependsOn[l] # <<>>
  BY <1>1
<1> QED BY <1>2, RankExists

(* The image of a layer over the images of other layers, for one checkout. *)
Over(g, T, F, l) ==
    Image(IF DependsOn[l] = <<>> THEN None ELSE g[DependsOn[l][1]], T[l], F[l])

UpTo(n) == {l \in Layers : Rank[l] <= n}

Solves(g, T, F, S) == g = [l \in S |-> Over(g, T, F, l)]

(* The images a checkout stands for exist: the equation of Fresh has a     *)
(* solution on the layers up to every rank.                                *)
LEMMA SolutionUpTo == \A T, F : \A n \in Nat : \E g : Solves(g, T, F, UpTo(n))
<1> SUFFICES ASSUME NEW T, NEW F
             PROVE  \A n \in Nat : \E g : Solves(g, T, F, UpTo(n))
  OBVIOUS
<1> DEFINE Without == {n \in Nat : ~\E g : Solves(g, T, F, UpTo(n))}
<1> SUFFICES ASSUME Without # {} PROVE FALSE
  OBVIOUS
<1>1. PICK m \in Without : \A n \in Without : m <= n
  <2>1. Without \in SUBSET Nat OBVIOUS
  <2> HIDE DEF Without
  <2> QED BY <2>1, LeastNat
<1>2. m \in Nat /\ ~\E g : Solves(g, T, F, UpTo(m))
  OBVIOUS
<1>3. m = 0 \/ m - 1 \in Nat
  BY <1>2
<1>4. PICK below : m # 0 => Solves(below, T, F, UpTo(m - 1))
  <2>1. CASE m = 0
    BY <2>1
  <2>2. CASE m # 0
    <3>1. m - 1 \in Nat /\ m - 1 \notin Without
      BY <1>1, <1>2, <2>2
    <3> QED BY <3>1
  <2> QED BY <2>1, <2>2
<1> DEFINE g == [l \in UpTo(m) |-> Over(below, T, F, l)]
<1>5. ASSUME NEW l \in UpTo(m)
      PROVE  Over(g, T, F, l) = Over(below, T, F, l)
  <2>1. CASE DependsOn[l] = <<>>
    BY <2>1 DEF Over
  <2>2. CASE DependsOn[l] # <<>>
    <3> DEFINE p == DependsOn[l][1]
    <3>1. /\ l \in Layers /\ Rank[l] \in Nat /\ Rank[l] <= m
          /\ p \in Layers /\ Rank[p] \in Nat /\ Rank[p] < Rank[l]
      BY <2>2, FirstParentFacts, RankExists DEF UpTo
    <3>2. m # 0 /\ p \in UpTo(m - 1) /\ p \in UpTo(m)
      BY <1>2, <3>1 DEF UpTo
    <3>3. g[p] = Over(below, T, F, p) /\ below[p] = Over(below, T, F, p)
      <4> HIDE DEF p
      <4>1. g[p] = Over(below, T, F, p)
        BY <3>2
      <4>2. below[p] = Over(below, T, F, p)
        BY <1>4, <3>2, Zenon DEF Solves
      <4> QED BY <4>1, <4>2
    <3> HIDE DEF g
    <3> QED BY <2>2, <3>3 DEF Over
  <2> QED BY <2>1, <2>2
<1>6. g = [l \in UpTo(m) |-> Over(g, T, F, l)]
  BY <1>5
<1>7. Solves(g, T, F, UpTo(m))
  <2> HIDE DEF g
  <2> QED BY <1>6, Zenon DEF Solves
<1> QED BY <1>2, <1>7

(* Fresh satisfies its equation.                                           *)
LEMMA FreshEquation ==
    ASSUME NEW j
    PROVE  \A l \in Layers :
              Fresh(j)[l] = Image(IF DependsOn[l] = <<>> THEN None
                                  ELSE Fresh(j)[DependsOn[l][1]], text[j][l], files[j][l])
<1>1. UpTo(Cardinality(Layers)) = Layers
  BY RankExists DEF UpTo
<1>2. \E g : Solves(g, text[j], files[j], Layers)
  BY <1>1, RankExists, SolutionUpTo
<1>3. \E image : image =
         [l \in Layers |->
            Image(IF DependsOn[l] = <<>> THEN None ELSE image[DependsOn[l][1]],
                  text[j][l], files[j][l])]
  BY <1>2, Zenon DEF Solves, Over
<1>4. Fresh(j) =
         [l \in Layers |->
            Image(IF DependsOn[l] = <<>> THEN None ELSE Fresh(j)[DependsOn[l][1]],
                  text[j][l], files[j][l])]
  BY <1>3, Zenon DEF Fresh
<1> QED BY <1>4, Zenon

-----------------------------------------------------------------------------
(* The inductive invariant.                                                *)

States == {"idle", "hash", "probe", "build"} \union Ended

Types ==
    /\ text \in [Jobs -> [Layers -> Inputs]] /\ files \in [Jobs -> [Layers -> Inputs]]
    /\ edits \in 0..MaxEdits /\ runs \in [Jobs -> 0..MaxRuns]
    /\ pc \in [Jobs -> States]
    /\ target \in [Jobs -> Layers \union {None}]
    /\ stack \in [Jobs -> Seq(Layers)]
    /\ rendered \in [Jobs -> Inputs \union {None}]
    /\ tags = [j \in Jobs |-> tags[j]] /\ base = [j \in Jobs |-> base[j]]

(* The walk of ComputeTags goes down in rank, over layers without a tag,   *)
(* and started at the layer to build.                                      *)
WalkInv(j) ==
    /\ \A i, n \in DOMAIN stack[j] : i < n => Rank[stack[j][n]] < Rank[stack[j][i]]
    /\ \A i \in DOMAIN stack[j] : stack[j][i] \notin DOMAIN tags[j]
    /\ pc[j] # "idle" =>
         /\ target[j] \in Layers
         /\ stack[j] # <<>> => stack[j][1] = target[j]
         /\ stack[j] = <<>> => target[j] \in DOMAIN tags[j]

(* A tag is computed from the tags of all the parents and from the inputs  *)
(* of the checkout, which do not change while the build runs.              *)
TagOf(j, l) ==
    Compute([i \in DOMAIN DependsOn[l] |-> tags[j][DependsOn[l][i]]], text[j][l], files[j][l])

TagsInv(j) ==
    /\ DOMAIN tags[j] \subseteq Layers
    /\ pc[j] # "idle" =>
         \A l \in DOMAIN tags[j] :
            /\ \A i \in DOMAIN DependsOn[l] : DependsOn[l][i] \in DOMAIN tags[j]
            /\ tags[j][l] = TagOf(j, l)

FirstParentTag(j) == tags[j][DependsOn[target[j]][1]]

(* A build has rendered its own text, stands on the image that the tag of  *)
(* its first parent names, and ends with an image under its tag.           *)
BuildInv(j) ==
    /\ pc[j] \in {"probe", "build", "built", "skipped"} =>
         stack[j] = <<>> /\ rendered[j] = text[j][target[j]]
    /\ pc[j] \in {"hash", "probe"} => base[j] = None
    /\ pc[j] = "build" /\ DependsOn[target[j]] = <<>> => base[j] = None
    /\ pc[j] = "build" /\ DependsOn[target[j]] # <<>> =>
         FirstParentTag(j) \in DOMAIN registry /\ base[j] = registry[FirstParentTag(j)]
    /\ pc[j] \in {"built", "skipped"} => Tag(j) \in DOMAIN registry

(* The image under a tag is the one the tag describes, on top of the image *)
(* under the tag of the first parent.                                      *)
Described(reg, t) ==
    /\ 1 \in DOMAIN t.parents => t.parents[1] \in DOMAIN reg
    /\ reg[t] = Image(IF 1 \in DOMAIN t.parents THEN reg[t.parents[1]] ELSE None,
                      t.text, t.files)

Coherent == \A t \in DOMAIN registry : Described(registry, t)

JobInv(j) == WalkInv(j) /\ TagsInv(j) /\ BuildInv(j)

Inv == Types /\ (\A j \in Jobs : JobInv(j)) /\ Coherent

(* Before the first build there is nothing to describe.                    *)
LEMMA InvInit == Init => Inv
<1> SUFFICES ASSUME Init PROVE Inv
  OBVIOUS
<1>1. Types
  <2>1. <<>> \in Seq(Layers) OBVIOUS
  <2> QED BY <2>1, TagChainAssumption DEF Init, Types, States
<1>2. ASSUME NEW j \in Jobs PROVE JobInv(j)
  BY <1>2 DEF Init, JobInv, WalkInv, TagsInv, BuildInv, Empty
<1>3. Coherent
  BY DEF Init, Coherent, Empty
<1> QED BY <1>1, <1>2, <1>3 DEF Inv

(* A step of one checkout leaves the state of the others alone, and can    *)
(* only add to the registry.                                               *)
Untouched(k) ==
    /\ text'[k] = text[k] /\ files'[k] = files[k] /\ pc'[k] = pc[k]
    /\ target'[k] = target[k] /\ stack'[k] = stack[k] /\ tags'[k] = tags[k]
    /\ rendered'[k] = rendered[k] /\ base'[k] = base[k]

ImagesStay ==
    \A t \in DOMAIN registry : t \in DOMAIN registry' /\ registry'[t] = registry[t]

LEMMA UntouchedInv ==
    ASSUME NEW k \in Jobs, JobInv(k), Untouched(k), ImagesStay
    PROVE  JobInv(k)'
<1>1. WalkInv(k)'
  BY DEF JobInv, Untouched, WalkInv
<1>2. TagsInv(k)'
  BY DEF JobInv, Untouched, TagsInv, TagOf
<1>3. BuildInv(k)'
  BY DEF JobInv, Untouched, BuildInv, FirstParentTag, Tag, ImagesStay
<1> QED BY <1>1, <1>2, <1>3 DEF JobInv

(* What remains to be shown of a step of one checkout.                     *)
LEMMA StepOf ==
    ASSUME Inv, NEW j \in Jobs, Types', JobInv(j)', ImagesStay, Coherent',
           \A k \in Jobs \ {j} : Untouched(k)
    PROVE  Inv'
<1>1. ASSUME NEW k \in Jobs PROVE JobInv(k)'
  <2>1. CASE k = j
    BY <2>1
  <2>2. CASE k # j
    BY <2>2, UntouchedInv DEF Inv
  <2> QED BY <2>1, <2>2
<1> QED BY <1>1 DEF Inv

(* A step that leaves the registry alone keeps it coherent.                *)
LEMMA SameRegistry ==
    ASSUME Inv, registry' = registry
    PROVE  ImagesStay /\ Coherent'
BY DEF Inv, Coherent, ImagesStay

(* An edit happens between the builds of its checkout, and withdraws what  *)
(* the last one showed.                                                    *)
LEMMA EditInv == ASSUME Inv, NEW j \in Jobs, NEW l \in Layers, Edit(j, l) PROVE Inv'
<1>1. /\ pc[j] \in {"idle"} \union Ended /\ registry' = registry /\ stack' = stack
      /\ tags' = tags /\ target' = target /\ rendered' = rendered /\ base' = base
      /\ runs' = runs /\ pc' = [pc EXCEPT ![j] = IF @ \in Ended THEN "idle" ELSE @]
      /\ edits' \in 0..MaxEdits
  BY TagChainAssumption DEF Edit, run, hash, work, Inv, Types
<1>2. pc'[j] = "idle" /\ pc' \in [Jobs -> States]
  BY <1>1 DEF Inv, Types, States
<1>3. PICK v \in Inputs : \/ text' = [text EXCEPT ![j][l] = v] /\ files' = files
                          \/ files' = [files EXCEPT ![j][l] = v] /\ text' = text
  BY DEF Edit
<1>4. /\ text' \in [Jobs -> [Layers -> Inputs]] /\ files' \in [Jobs -> [Layers -> Inputs]]
      /\ \A k \in Jobs \ {j} : text'[k] = text[k] /\ files'[k] = files[k]
  <2>1. CASE text' = [text EXCEPT ![j][l] = v] /\ files' = files
    <3>1. [text[j] EXCEPT ![l] = v] \in [Layers -> Inputs]
      BY DEF Inv, Types
    <3>2. text' = [text EXCEPT ![j] = [text[j] EXCEPT ![l] = v]]
      BY <2>1
    <3>3. /\ text' \in [Jobs -> [Layers -> Inputs]]
          /\ \A k \in Jobs \ {j} : text'[k] = text[k]
      BY <3>1, <3>2 DEF Inv, Types
    <3> QED BY <2>1, <3>3 DEF Inv, Types
  <2>2. CASE files' = [files EXCEPT ![j][l] = v] /\ text' = text
    <3>1. [files[j] EXCEPT ![l] = v] \in [Layers -> Inputs]
      BY DEF Inv, Types
    <3>2. files' = [files EXCEPT ![j] = [files[j] EXCEPT ![l] = v]]
      BY <2>2
    <3>3. /\ files' \in [Jobs -> [Layers -> Inputs]]
          /\ \A k \in Jobs \ {j} : files'[k] = files[k]
      BY <3>1, <3>2 DEF Inv, Types
    <3> QED BY <2>2, <3>3 DEF Inv, Types
  <2> QED BY <1>3, <2>1, <2>2
<1>5. Types'
  BY <1>1, <1>2, <1>4 DEF Inv, Types
<1>6. JobInv(j)'
  <2>1. WalkInv(j)' BY <1>1, <1>2 DEF Inv, JobInv, WalkInv
  <2>2. TagsInv(j)' BY <1>1, <1>2 DEF Inv, JobInv, TagsInv
  <2>3. BuildInv(j)' BY <1>2 DEF BuildInv
  <2> QED BY <2>1, <2>2, <2>3 DEF JobInv
<1>7. \A k \in Jobs \ {j} : Untouched(k)
  BY <1>1, <1>4 DEF Untouched, Inv, Types
<1> QED BY <1>1, <1>5, <1>6, <1>7, SameRegistry, StepOf

(* A build starts its walk at the layer to build, with no tag.             *)
LEMMA StartInv == ASSUME Inv, NEW j \in Jobs, NEW l \in Layers, Start(j, l) PROVE Inv'
<1>1. /\ pc' = [pc EXCEPT ![j] = "hash"] /\ runs[j] < MaxRuns
      /\ runs' = [runs EXCEPT ![j] = @ + 1] /\ target' = [target EXCEPT ![j] = l]
      /\ stack' = [stack EXCEPT ![j] = <<l>>] /\ tags' = [tags EXCEPT ![j] = Empty]
      /\ rendered' = [rendered EXCEPT ![j] = None] /\ base' = [base EXCEPT ![j] = None]
      /\ text' = text /\ files' = files /\ edits' = edits /\ registry' = registry
  BY DEF Start, checkout
<1>2. <<l>> \in Seq(Layers) /\ Len(<<l>>) = 1 /\ <<l>>[1] = l /\ <<l>> # <<>>
  OBVIOUS
<1>3. /\ pc'[j] = "hash" /\ target'[j] = l /\ stack'[j] = <<l>> /\ tags'[j] = Empty
      /\ base'[j] = None
  BY <1>1 DEF Inv, Types
<1>4. Types'
  <2>1. runs' \in [Jobs -> 0..MaxRuns]
    BY <1>1, TagChainAssumption DEF Inv, Types
  <2>2. stack' \in [Jobs -> Seq(Layers)]
    BY <1>1, <1>2 DEF Inv, Types
  <2> QED BY <1>1, <2>1, <2>2 DEF Inv, Types, States
<1>5. JobInv(j)'
  <2>1. WalkInv(j)'
    BY <1>2, <1>3 DEF WalkInv, Empty
  <2>2. TagsInv(j)' BY <1>3 DEF TagsInv, Empty
  <2>3. BuildInv(j)' BY <1>3 DEF BuildInv
  <2> QED BY <2>1, <2>2, <2>3 DEF JobInv
<1>6. \A k \in Jobs \ {j} : Untouched(k)
  BY <1>1 DEF Untouched, Inv, Types
<1> QED BY <1>1, <1>4, <1>5, <1>6, SameRegistry, StepOf

(* A parent without a tag goes on the stack: its rank is below those of    *)
(* all the layers there.                                                   *)
LEMMA VisitParentInv == ASSUME Inv, NEW j \in Jobs, VisitParent(j) PROVE Inv'
<1>1. PICK i \in Pending(j) : stack' = [stack EXCEPT ![j] = Append(@, DependsOn[Top(j)][i])]
  BY DEF VisitParent
<1>2. /\ pc[j] = "hash" /\ stack[j] # <<>> /\ stack[j] \in Seq(Layers)
      /\ text' = text /\ files' = files /\ edits' = edits /\ pc' = pc /\ runs' = runs
      /\ target' = target /\ tags' = tags /\ rendered' = rendered /\ base' = base
      /\ registry' = registry
  BY DEF VisitParent, checkout, run, work, Inv, Types
<1> DEFINE p == DependsOn[Top(j)][i]
           n == Len(stack[j])
<1>3. n \in Nat \ {0} /\ Top(j) = stack[j][n] /\ Top(j) \in Layers
  BY <1>2 DEF Top, Last
<1>4. p \in Layers /\ p \notin DOMAIN tags[j] /\ Rank[p] < Rank[Top(j)]
  BY <1>1, <1>3, RankExists DEF Pending
<1> HIDE DEF p
<1>5. /\ stack'[j] = Append(stack[j], p) /\ stack'[j] \in Seq(Layers)
      /\ DOMAIN stack'[j] = 1..(n + 1) /\ stack'[j][n + 1] = p
      /\ \A k \in 1..n : stack'[j][k] = stack[j][k] /\ stack[j][k] \in Layers
  <2>1. stack'[j] = Append(stack[j], p)
    BY <1>1 DEF p, Inv, Types
  <2> QED BY <1>2, <1>4, <2>1
<1>6. Types'
  <2>1. stack' \in [Jobs -> Seq(Layers)]
    BY <1>1, <1>5 DEF Inv, Types
  <2> QED BY <1>2, <2>1 DEF Inv, Types
<1>7. JobInv(j)'
  <2>1. \A k \in 1..n : Rank[p] < Rank[stack[j][k]]
    <3> SUFFICES ASSUME NEW k \in 1..n PROVE Rank[p] < Rank[stack[j][k]]
      OBVIOUS
    <3>1. k = n \/ Rank[stack[j][n]] < Rank[stack[j][k]]
      BY <1>2, <1>3 DEF Inv, JobInv, WalkInv
    <3>2. Rank[p] \in Nat /\ Rank[stack[j][k]] \in Nat /\ Rank[stack[j][n]] \in Nat
      BY <1>3, <1>4, <1>5, RankExists
    <3> QED BY <1>3, <1>4, <3>1, <3>2
  <2>2. \A a, b \in 1..(n + 1) : a < b => Rank[stack'[j][b]] < Rank[stack'[j][a]]
    <3> SUFFICES ASSUME NEW a \in 1..(n + 1), NEW b \in 1..(n + 1), a < b
                 PROVE  Rank[stack'[j][b]] < Rank[stack'[j][a]]
      OBVIOUS
    <3>1. a \in 1..n BY <1>3
    <3>2. CASE b = n + 1
      BY <1>5, <2>1, <3>1, <3>2
    <3>3. CASE b \in 1..n
      BY <1>2, <1>5, <3>1, <3>3 DEF Inv, JobInv, WalkInv
    <3> QED BY <1>3, <3>2, <3>3
  <2>3. \A a \in 1..(n + 1) : stack'[j][a] \notin DOMAIN tags'[j]
    BY <1>2, <1>3, <1>4, <1>5 DEF Inv, JobInv, WalkInv
  <2>4. stack'[j] # <<>> /\ stack'[j][1] = target'[j] /\ target'[j] \in Layers
    BY <1>2, <1>3, <1>5 DEF Inv, JobInv, WalkInv
  <2>5. WalkInv(j)' BY <1>5, <2>2, <2>3, <2>4 DEF WalkInv
  <2>6. TagsInv(j)' BY <1>2 DEF Inv, JobInv, TagsInv, TagOf
  <2>7. BuildInv(j)' BY <1>2 DEF Inv, JobInv, BuildInv
  <2> QED BY <2>5, <2>6, <2>7 DEF JobInv
<1>8. \A k \in Jobs \ {j} : Untouched(k)
  BY <1>1, <1>2 DEF Untouched, Inv, Types
<1> QED BY <1>2, <1>6, <1>7, <1>8, SameRegistry, StepOf

(* The top of the stack gets its tag once all its parents have theirs.     *)
LEMMA ComputeTagInv == ASSUME Inv, NEW j \in Jobs, ComputeTag(j) PROVE Inv'
<1> DEFINE n == Len(stack[j])
           t == Compute(ParentTags(j), text[j][Top(j)], files[j][Top(j)])
<1>1. /\ pc[j] = "hash" /\ stack[j] # <<>> /\ stack[j] \in Seq(Layers) /\ Pending(j) = {}
      /\ text' = text /\ files' = files /\ edits' = edits /\ pc' = pc /\ runs' = runs
      /\ target' = target /\ rendered' = rendered /\ base' = base
      /\ registry' = registry
      /\ stack' = [stack EXCEPT ![j] = Front(@)]
  BY DEF ComputeTag, checkout, run, work, Inv, Types
<1>2. tags' = [tags EXCEPT ![j] = With(tags[j], Top(j), t)]
  BY DEF ComputeTag, Inv, Types
<1>3. n \in Nat \ {0} /\ Top(j) = stack[j][n] /\ Top(j) \in Layers
  BY <1>1 DEF Top, Last
<1>4. /\ stack'[j] = SubSeq(stack[j], 1, n - 1) /\ stack'[j] \in Seq(Layers)
      /\ DOMAIN stack'[j] = 1..(n - 1) /\ Len(stack'[j]) = n - 1
      /\ \A k \in 1..(n - 1) : stack'[j][k] = stack[j][k] /\ stack[j][k] \in Layers
  <2>1. stack'[j] = SubSeq(stack[j], 1, n - 1)
    BY <1>1 DEF Front, Inv, Types
  <2> QED BY <1>1, <1>3, <2>1
<1>5. /\ DOMAIN tags'[j] = DOMAIN tags[j] \union {Top(j)} /\ tags'[j][Top(j)] = t
      /\ \A x \in DOMAIN tags[j] : x # Top(j) => tags'[j][x] = tags[j][x]
  <2>1. tags'[j] = With(tags[j], Top(j), t)
    BY <1>2 DEF Inv, Types
  <2> HIDE DEF t
  <2> QED BY <2>1 DEF With
<1>6. Top(j) \notin DOMAIN tags[j]
  BY <1>1, <1>3 DEF Inv, JobInv, WalkInv
<1>7. \A k \in 1..(n - 1) : stack[j][k] # Top(j)
  <2> SUFFICES ASSUME NEW k \in 1..(n - 1) PROVE stack[j][k] # Top(j)
    OBVIOUS
  <2>1. Rank[stack[j][n]] < Rank[stack[j][k]]
    BY <1>1, <1>3 DEF Inv, JobInv, WalkInv
  <2>2. Rank[stack[j][n]] \in Nat /\ Rank[stack[j][k]] \in Nat
    BY <1>3, <1>4, RankExists
  <2> QED BY <1>3, <2>1, <2>2
<1>8. Types'
  <2>1. stack' \in [Jobs -> Seq(Layers)]
    BY <1>1, <1>4 DEF Inv, Types
  <2>2. tags' = [k \in Jobs |-> tags'[k]]
    BY <1>2 DEF Inv, Types
  <2> QED BY <1>1, <2>1, <2>2 DEF Inv, Types
<1>9. WalkInv(j)'
  <2>0. 1..(n - 1) \subseteq DOMAIN stack[j] /\ WalkInv(j)
    BY <1>1, <1>3 DEF Inv, JobInv
  <2>1. \A a, b \in 1..(n - 1) : a < b => Rank[stack'[j][b]] < Rank[stack'[j][a]]
    <3> SUFFICES ASSUME NEW a \in 1..(n - 1), NEW b \in 1..(n - 1), a < b
                 PROVE  Rank[stack'[j][b]] < Rank[stack'[j][a]]
      OBVIOUS
    <3>1. Rank[stack[j][b]] < Rank[stack[j][a]]
      BY <2>0 DEF WalkInv
    <3> HIDE DEF n, t
    <3> QED BY <1>4, <3>1
  <2>2. \A a \in 1..(n - 1) : stack'[j][a] \notin DOMAIN tags'[j]
    <3> SUFFICES ASSUME NEW a \in 1..(n - 1) PROVE stack'[j][a] \notin DOMAIN tags'[j]
      OBVIOUS
    <3>1. stack[j][a] \notin DOMAIN tags[j]
      BY <2>0 DEF WalkInv
    <3> HIDE DEF n, t
    <3> QED BY <1>4, <1>5, <1>7, <3>1
  <2>3. stack[j][1] = target[j] /\ target'[j] = target[j] /\ target[j] \in Layers
    BY <1>1 DEF Inv, JobInv, WalkInv
  <2>4. stack'[j] # <<>> => stack'[j][1] = target'[j]
    <3>1. stack'[j] # <<>> => 1 \in DOMAIN stack'[j]
      BY <1>4
    <3> QED BY <1>4, <2>3, <3>1
  <2>5. stack'[j] = <<>> => target'[j] \in DOMAIN tags'[j]
    <3>1. stack'[j] = <<>> => n = 1
      <4>1. stack'[j] = <<>> => Len(stack'[j]) = 0
        OBVIOUS
      <4>2. Len(stack'[j]) = n - 1 /\ n \in Nat
        BY <1>3, <1>4
      <4> HIDE DEF n
      <4> QED BY <4>1, <4>2
    <3> QED BY <1>3, <1>5, <2>3, <3>1
  <2> QED BY <1>4, <2>1, <2>2, <2>3, <2>4, <2>5 DEF WalkInv
<1>10. TagsInv(j)'
  <2>1. ASSUME NEW l \in Layers,
               \A i \in DOMAIN DependsOn[l] : DependsOn[l][i] \in DOMAIN tags[j]
        PROVE  TagOf(j, l)' = TagOf(j, l)
    <3>1. \A i \in DOMAIN DependsOn[l] :
             tags'[j][DependsOn[l][i]] = tags[j][DependsOn[l][i]]
      BY <1>5, <1>6, <2>1
    <3>2. [i \in DOMAIN DependsOn[l] |-> tags'[j][DependsOn[l][i]]]
            = [i \in DOMAIN DependsOn[l] |-> tags[j][DependsOn[l][i]]]
      BY <3>1
    <3> QED BY <1>1, <3>2 DEF TagOf
  <2>2. ASSUME NEW l \in DOMAIN tags[j]
        PROVE  /\ \A i \in DOMAIN DependsOn[l] : DependsOn[l][i] \in DOMAIN tags[j]
               /\ tags'[j][l] = TagOf(j, l)'
    <3>1. /\ l \in Layers /\ tags[j][l] = TagOf(j, l)
          /\ \A i \in DOMAIN DependsOn[l] : DependsOn[l][i] \in DOMAIN tags[j]
      BY <1>1 DEF Inv, JobInv, TagsInv
    <3> QED BY <1>5, <1>6, <2>1, <3>1
  <2>3. PICK top \in Layers : top = Top(j)
    BY <1>3
  <2>4. /\ \A i \in DOMAIN DependsOn[top] : DependsOn[top][i] \in DOMAIN tags[j]
        /\ tags'[j][top] = TagOf(j, top)'
    <3>1. \A i \in DOMAIN DependsOn[top] : DependsOn[top][i] \in DOMAIN tags[j]
      BY <1>1, <2>3 DEF Pending
    <3>2. tags'[j][top] = TagOf(j, top)
      BY <1>5, <2>3 DEF TagOf, ParentTags
    <3> QED BY <2>1, <3>1, <3>2
  <2>5. ASSUME NEW l \in DOMAIN tags'[j]
        PROVE  /\ \A i \in DOMAIN DependsOn[l] : DependsOn[l][i] \in DOMAIN tags'[j]
               /\ tags'[j][l] = TagOf(j, l)'
    <3>1. CASE l \in DOMAIN tags[j]
      BY <1>5, <2>2, <3>1
    <3>2. CASE l = top
      <4>1. \A i \in DOMAIN DependsOn[l] : DependsOn[l][i] \in DOMAIN tags'[j]
        BY <1>5, <2>4, <3>2
      <4>2. tags'[j][l] = TagOf(j, l)'
        BY <2>4, <3>2 DEF TagOf
      <4> QED BY <4>1, <4>2
    <3> QED BY <1>5, <2>3, <3>1, <3>2
  <2>6. DOMAIN tags'[j] \subseteq Layers
    BY <1>3, <1>5 DEF Inv, JobInv, TagsInv
  <2> QED BY <2>5, <2>6 DEF TagsInv
<1>11. BuildInv(j)'
  BY <1>1 DEF Inv, JobInv, BuildInv
<1>12. \A k \in Jobs \ {j} : Untouched(k)
  BY <1>1, <1>2 DEF Untouched, Inv, Types
<1> QED BY <1>1, <1>8, <1>9, <1>10, <1>11, <1>12, SameRegistry, StepOf DEF JobInv

(* A step of a build past its hash keeps the walk and the tags it made.    *)
LEMMA KeepsHash ==
    ASSUME Inv, NEW j \in Jobs, pc[j] # "idle",
           UNCHANGED <<text, files, target, stack, tags>>
    PROVE  WalkInv(j)' /\ TagsInv(j)'
<1>1. WalkInv(j)'
  BY DEF Inv, JobInv, WalkInv
<1>2. TagsInv(j)'
  BY DEF Inv, JobInv, TagsInv, TagOf
<1> QED BY <1>1, <1>2

(* The parts of the invariant that such a step leaves to show.             *)
LEMMA BuildStepOf ==
    ASSUME Inv, NEW j \in Jobs, pc[j] # "idle", ImagesStay, Coherent', BuildInv(j)',
           UNCHANGED <<checkout, run, hash>>,
           NEW s \in States, pc' = [pc EXCEPT ![j] = s],
           NEW r \in Inputs \union {None}, rendered' = [rendered EXCEPT ![j] = r],
           NEW b, base' = [base EXCEPT ![j] = b]
    PROVE  Inv'
<1>1. Types'
  BY DEF Inv, Types, checkout, run, hash
<1>2. WalkInv(j)' /\ TagsInv(j)'
  BY KeepsHash DEF checkout, run, hash
<1>3. \A k \in Jobs \ {j} : Untouched(k)
  BY DEF Untouched, Inv, Types, checkout, run, hash
<1> QED BY <1>1, <1>2, <1>3, StepOf DEF JobInv

(* The build renders the text it has hashed.                               *)
LEMMA RenderInv == ASSUME Inv, NEW j \in Jobs, Render(j) PROVE Inv'
<1>1. /\ pc[j] = "hash" /\ pc' = [pc EXCEPT ![j] = "probe"] /\ stack[j] = <<>>
      /\ rendered' = [rendered EXCEPT ![j] = text[j][target[j]]]
      /\ base' = [base EXCEPT ![j] = base[j]] /\ registry' = registry
      /\ UNCHANGED <<checkout, run, hash>>
  BY DEF Render, Move, Inv, Types
<1>2. target[j] \in Layers
  BY <1>1 DEF Inv, JobInv, WalkInv
<1>3. PICK r \in Inputs : r = text[j][target[j]]
  BY <1>2 DEF Inv, Types
<1>4. PICK b : b = base[j]
  OBVIOUS
<1>5. BuildInv(j)'
  <2>1. /\ pc'[j] = "probe" /\ rendered'[j] = text[j][target[j]] /\ base'[j] = None
        /\ text' = text /\ target' = target /\ stack' = stack
    BY <1>1 DEF Inv, Types, JobInv, BuildInv, checkout, run, hash
  <2> QED BY <1>1, <2>1 DEF BuildInv
<1> QED BY <1>1, <1>3, <1>4, <1>5, SameRegistry, BuildStepOf DEF States

(* A skip relies on an image that is under the tag, a failure on nothing.  *)
LEMMA SkipFailInv == ASSUME Inv, NEW j \in Jobs, Skip(j) \/ Fail(j) PROVE Inv'
<1>1. PICK s \in {"skipped", "failed"} : pc' = [pc EXCEPT ![j] = s]
  BY DEF Skip, Fail, Move
<1>2. /\ UNCHANGED <<checkout, run, hash, rendered, base, registry>>
      /\ pc[j] \in {"hash", "probe", "build"}
      /\ s = "skipped" => pc[j] = "probe" /\ Tag(j) \in DOMAIN registry
  <2>1. CASE Skip(j)
    BY <2>1 DEF Skip, Move, work
  <2>2. CASE Fail(j)
    BY <1>1, <2>2 DEF Fail, work, Inv, Types
  <2> QED BY <2>1, <2>2
<1>3. PICK r \in Inputs \union {None} : r = rendered[j]
  BY DEF Inv, Types
<1>4. PICK b : b = base[j]
  OBVIOUS
<1>5. rendered' = [rendered EXCEPT ![j] = r] /\ base' = [base EXCEPT ![j] = b]
  BY <1>2, <1>3, <1>4 DEF Inv, Types
<1>6. BuildInv(j)'
  <2>1. pc'[j] = s /\ Tag(j)' = Tag(j)
    BY <1>1, <1>2 DEF Inv, Types, Tag, run, hash
  <2> QED BY <1>1, <1>2, <2>1 DEF Inv, JobInv, BuildInv, checkout, run, hash
<1> QED BY <1>1, <1>2, <1>5, <1>6, SameRegistry, BuildStepOf DEF States, Ended

(* A build stands on the image under its first parent's tag.               *)
LEMMA PullBaseInv == ASSUME Inv, NEW j \in Jobs, PullBase(j) PROVE Inv'
<1>1. /\ pc[j] = "probe" /\ pc' = [pc EXCEPT ![j] = "build"] /\ registry' = registry
      /\ UNCHANGED <<checkout, run, hash, rendered>>
  BY DEF PullBase, Move
<1>2. base[j] = None
  BY <1>1 DEF Inv, JobInv, BuildInv
<1>3. PICK b : /\ base' = [base EXCEPT ![j] = b]
               /\ DependsOn[target[j]] = <<>> => b = None
               /\ DependsOn[target[j]] # <<>> =>
                    FirstParentTag(j) \in DOMAIN registry /\ b = registry[FirstParentTag(j)]
  <2>1. CASE DependsOn[target[j]] = <<>>
    <3>1. base' = [base EXCEPT ![j] = None]
      BY <1>2, <2>1 DEF PullBase, Inv, Types
    <3> QED BY <2>1, <3>1
  <2>2. CASE DependsOn[target[j]] # <<>>
    BY <2>2 DEF PullBase, FirstParentTag
  <2> QED BY <2>1, <2>2
<1>4. PICK r \in Inputs \union {None} : r = rendered[j]
  BY DEF Inv, Types
<1>5. rendered' = [rendered EXCEPT ![j] = r]
  BY <1>1, <1>4 DEF Inv, Types
<1>6. BuildInv(j)'
  <2>1. /\ pc'[j] = "build" /\ base'[j] = b
        /\ text' = text /\ target' = target /\ stack' = stack /\ tags' = tags
    BY <1>1, <1>3 DEF Inv, Types, checkout, run, hash
  <2> QED BY <1>1, <1>3, <2>1 DEF Inv, JobInv, BuildInv, FirstParentTag
<1> QED BY <1>1, <1>3, <1>5, <1>6, SameRegistry, BuildStepOf DEF States

(* A published image is the one its tag describes; an image already under  *)
(* that tag is the same one.                                               *)
LEMMA PublishInv == ASSUME Inv, NEW j \in Jobs, Publish(j) PROVE Inv' /\ ImagesStay
<1>1. /\ pc[j] = "build" /\ pc' = [pc EXCEPT ![j] = "built"]
      /\ UNCHANGED <<checkout, run, hash, rendered, base>>
      /\ registry' = With(registry, Tag(j), Image(base[j], rendered[j], files[j][target[j]]))
  BY DEF Publish, Move, work
<1>2. PICK tag : tag = Tag(j)
  OBVIOUS
<1>3. PICK image : image = Image(base[j], rendered[j], files[j][target[j]])
  OBVIOUS
<1>4. registry' = With(registry, tag, image)
  BY <1>1, <1>2, <1>3 DEF With, Image
<1>5. /\ DOMAIN registry' = DOMAIN registry \union {tag} /\ registry'[tag] = image
      /\ \A t \in DOMAIN registry : t # tag => registry'[t] = registry[t]
  BY <1>4 DEF With
<1>6. /\ target[j] \in Layers /\ stack[j] = <<>> /\ target[j] \in DOMAIN tags[j]
      /\ tag = TagOf(j, target[j]) /\ rendered[j] = text[j][target[j]]
  BY <1>1, <1>2 DEF Inv, JobInv, WalkInv, TagsInv, BuildInv, Tag
<1>7. /\ tag.text = rendered[j] /\ tag.files = files[j][target[j]]
      /\ DOMAIN tag.parents = DOMAIN DependsOn[target[j]]
      /\ 1 \in DOMAIN tag.parents => tag.parents[1] = FirstParentTag(j)
  BY <1>6 DEF TagOf, Compute, FirstParentTag
<1>8. 1 \in DOMAIN tag.parents <=> DependsOn[target[j]] # <<>>
  BY <1>6, <1>7, FirstParentFacts
<1>9. /\ 1 \in DOMAIN tag.parents => tag.parents[1] \in DOMAIN registry
      /\ image = Image(IF 1 \in DOMAIN tag.parents THEN registry[tag.parents[1]] ELSE None,
                       tag.text, tag.files)
  <2>1. CASE 1 \in DOMAIN tag.parents
    <3>1. FirstParentTag(j) \in DOMAIN registry /\ base[j] = registry[FirstParentTag(j)]
      BY <1>1, <1>8, <2>1 DEF Inv, JobInv, BuildInv
    <3> QED BY <1>3, <1>7, <2>1, <3>1 DEF Image
  <2>2. CASE 1 \notin DOMAIN tag.parents
    <3>1. base[j] = None
      BY <1>1, <1>8, <2>2 DEF Inv, JobInv, BuildInv
    <3> QED BY <1>3, <1>7, <2>2, <3>1 DEF Image
  <2> QED BY <2>1, <2>2
<1>10. ImagesStay
  <2> SUFFICES ASSUME NEW t \in DOMAIN registry
               PROVE  t \in DOMAIN registry' /\ registry'[t] = registry[t]
    BY DEF ImagesStay
  <2>1. CASE t = tag
    <3>1. registry[tag] = image
      BY <1>9, <2>1 DEF Inv, Coherent, Described
    <3> QED BY <1>5, <2>1, <3>1
  <2>2. CASE t # tag
    BY <1>5, <2>2
  <2> QED BY <2>1, <2>2
<1>11. Coherent'
  <2> SUFFICES ASSUME NEW t \in DOMAIN registry'
               PROVE  /\ 1 \in DOMAIN t.parents => t.parents[1] \in DOMAIN registry'
                      /\ registry'[t] =
                           Image(IF 1 \in DOMAIN t.parents THEN registry'[t.parents[1]]
                                 ELSE None, t.text, t.files)
    BY DEF Coherent, Described
  <2>1. CASE t \in DOMAIN registry
    BY <1>10, <2>1 DEF Inv, Coherent, Described, ImagesStay, Image
  <2>2. CASE t = tag
    BY <1>5, <1>9, <1>10, <2>2 DEF ImagesStay, Image
  <2> QED BY <1>5, <2>1, <2>2
<1>12. BuildInv(j)'
  <2>1. pc'[j] = "built" /\ Tag(j)' = tag /\ tag \in DOMAIN registry'
    BY <1>1, <1>2, <1>5 DEF Inv, Types, Tag, run, hash
  <2> QED BY <1>1, <1>6, <2>1 DEF Inv, JobInv, BuildInv, checkout, run, hash
<1>13. PICK r \in Inputs \union {None} : r = rendered[j]
  BY DEF Inv, Types
<1>14. PICK b : b = base[j]
  OBVIOUS
<1>15. rendered' = [rendered EXCEPT ![j] = r] /\ base' = [base EXCEPT ![j] = b]
  BY <1>1, <1>13, <1>14 DEF Inv, Types
<1> QED BY <1>1, <1>10, <1>11, <1>12, <1>15, BuildStepOf DEF States, Ended

(* Every step keeps the invariant.                                         *)
LEMMA InvStep == Inv /\ [Next]_vars => Inv'
<1> SUFFICES ASSUME Inv, [Next]_vars PROVE Inv'
  OBVIOUS
<1>1. ASSUME NEW j \in Jobs, NEW l \in Layers, Edit(j, l) \/ Start(j, l) PROVE Inv'
  BY <1>1, EditInv, StartInv
<1>2. ASSUME NEW j \in Jobs, VisitParent(j) \/ ComputeTag(j) \/ Build(j) PROVE Inv'
  BY <1>2, VisitParentInv, ComputeTagInv, RenderInv, SkipFailInv, PullBaseInv, PublishInv
     DEF Build
<1>3. ASSUME UNCHANGED vars PROVE Inv'
  <2>1. UNCHANGED <<checkout, pc, run, hash, rendered, base, registry>>
    BY <1>3 DEF vars, work
  <2>2. Types'
    BY <2>1 DEF Inv, Types, checkout, run, hash
  <2>3. \A k \in Jobs : Untouched(k)
    BY <2>1 DEF Untouched, checkout, run, hash
  <2>4. ASSUME NEW k \in Jobs PROVE JobInv(k)'
    BY <2>1, <2>3, SameRegistry, UntouchedInv DEF Inv
  <2> QED BY <2>1, <2>2, <2>4, SameRegistry DEF Inv
<1> QED BY <1>1, <1>2, <1>3 DEF Next, Finished

(* Every reachable state is typed, the walk of ComputeTags never holds a   *)
(* layer twice, and a build works under a tag it has (ComputeTags).        *)
THEOREM TypeCorrect == Spec => []TypeOK
<1>1. Inv => TypeOK
  <2> SUFFICES ASSUME Inv PROVE TypeOK
    OBVIOUS
  <2>1. ASSUME NEW j \in Jobs, NEW i \in DOMAIN stack[j], NEW n \in DOMAIN stack[j],
               stack[j][i] = stack[j][n]
        PROVE  i = n
    <3>1. stack[j] \in Seq(Layers) /\ i \in Nat /\ n \in Nat
      BY <2>1 DEF Inv, Types
    <3>2. stack[j][i] \in Layers /\ Rank[stack[j][i]] \in Nat
      BY <3>1, RankExists
    <3>3. ~(i < n) /\ ~(n < i)
      BY <2>1, <3>2 DEF Inv, JobInv, WalkInv
    <3> QED BY <3>1, <3>3
  <2>2. ASSUME NEW j \in Jobs, pc[j] \in {"probe", "build", "built", "skipped"}
        PROVE  target[j] \in DOMAIN tags[j]
    BY <2>2 DEF Inv, JobInv, WalkInv, BuildInv
  <2> QED BY <2>1, <2>2 DEF TypeOK, Inv, Types, States
<1> QED BY <1>1, InvInit, InvStep, PTL DEF Spec

(* In a coherent registry the image under a tag a build has computed is    *)
(* the one its checkout stands for: by induction over the rank of the      *)
(* layer, since a tag names the tag of the first parent.                   *)
LEMMA TagsMeanFresh ==
    ASSUME Inv, NEW j \in Jobs, pc[j] # "idle"
    PROVE  \A l \in DOMAIN tags[j] :
              tags[j][l] \in DOMAIN registry => registry[tags[j][l]] = Fresh(j)[l]
<1> DEFINE Wrong == {l \in DOMAIN tags[j] : /\ tags[j][l] \in DOMAIN registry
                                            /\ registry[tags[j][l]] # Fresh(j)[l]}
           Ranks == {Rank[l] : l \in Wrong}
<1> SUFFICES ASSUME Wrong # {} PROVE FALSE
  OBVIOUS
<1>1. Wrong \subseteq Layers
  BY DEF Inv, JobInv, TagsInv
<1>2. PICK l \in Wrong : \A k \in Wrong : Rank[l] <= Rank[k]
  <2>1. Ranks \in SUBSET Nat /\ Ranks # {}
    BY <1>1, RankExists
  <2>2. PICK n \in Ranks : \A m \in Ranks : n <= m
    <3> HIDE DEF Ranks
    <3> QED BY <2>1, LeastNat
  <2> QED BY <2>2
<1>3. /\ l \in Layers /\ l \in DOMAIN tags[j] /\ tags[j][l] \in DOMAIN registry
      /\ registry[tags[j][l]] # Fresh(j)[l]
      /\ \A i \in DOMAIN DependsOn[l] : DependsOn[l][i] \in DOMAIN tags[j]
      /\ tags[j][l] = TagOf(j, l)
  BY <1>1 DEF Inv, JobInv, TagsInv
<1> DEFINE t == tags[j][l]
           p == DependsOn[l][1]
<1>4. /\ t.text = text[j][l] /\ t.files = files[j][l]
      /\ DOMAIN t.parents = DOMAIN DependsOn[l]
      /\ 1 \in DOMAIN DependsOn[l] => t.parents[1] = tags[j][p]
  BY <1>3 DEF TagOf, Compute
<1>5. /\ 1 \in DOMAIN t.parents => t.parents[1] \in DOMAIN registry
      /\ registry[t] = Image(IF 1 \in DOMAIN t.parents THEN registry[t.parents[1]] ELSE None,
                             t.text, t.files)
  BY <1>3 DEF Inv, Coherent, Described
<1>6. 1 \in DOMAIN DependsOn[l] <=> DependsOn[l] # <<>>
  BY <1>3, FirstParentFacts
<1>7. DependsOn[l] # <<>> => registry[tags[j][p]] = Fresh(j)[p]
  <2> SUFFICES ASSUME DependsOn[l] # <<>> PROVE registry[tags[j][p]] = Fresh(j)[p]
    OBVIOUS
  <2>1. p \in Layers /\ Rank[p] < Rank[l] /\ p \in DOMAIN tags[j]
    BY <1>3, <1>6, FirstParentFacts
  <2>2. tags[j][p] \in DOMAIN registry
    BY <1>4, <1>5, <1>6
  <2>3. p \notin Wrong
    BY <1>2, <1>3, <2>1, RankExists
  <2> QED BY <2>1, <2>2, <2>3
<1>8. Fresh(j)[l] = Image(IF DependsOn[l] = <<>> THEN None ELSE Fresh(j)[p],
                          text[j][l], files[j][l])
  BY <1>3, FreshEquation
<1>9. registry[t] = Fresh(j)[l]
  BY <1>4, <1>5, <1>6, <1>7, <1>8 DEF Image
<1> QED BY <1>3, <1>9

(* When a build has succeeded, by building or by skipping, the image under *)
(* its tag is the one its checkout stands for, down to the root layer, and *)
(* stays so whatever other checkouts build or publish (Compute,            *)
(* ComputeTags, Build).                                                    *)
THEOREM TagMeansItsCheckout == Spec => []TagMeansCheckout
<1>1. Inv => TagMeansCheckout
  <2> SUFFICES ASSUME Inv, NEW j \in Jobs, pc[j] \in {"built", "skipped"}
               PROVE  registry[Tag(j)] = Fresh(j)[target[j]]
    BY DEF TagMeansCheckout
  <2>1. /\ pc[j] # "idle" /\ target[j] \in DOMAIN tags[j]
        /\ tags[j][target[j]] \in DOMAIN registry
    BY DEF Inv, JobInv, WalkInv, BuildInv, Tag
  <2> QED BY <2>1, TagsMeanFresh DEF Tag
<1> QED BY <1>1, InvInit, InvStep, PTL DEF Spec

(* An image under a tag is never taken away, and never replaced by another *)
(* (Builder.Build publishes under a content tag only).                     *)
THEOREM ImagesAreKept == Spec => TagsNeverMove
<1>1. Inv /\ [Next]_vars => [ImagesStay]_vars
  <2> SUFFICES ASSUME Inv, Next PROVE ImagesStay
    OBVIOUS
  <2>1. ASSUME NEW j \in Jobs, NEW l \in Layers, Edit(j, l) \/ Start(j, l) PROVE ImagesStay
    BY <2>1 DEF Edit, Start, ImagesStay
  <2>2. ASSUME NEW j \in Jobs, VisitParent(j) \/ ComputeTag(j) PROVE ImagesStay
    BY <2>2 DEF VisitParent, ComputeTag, ImagesStay
  <2>3. ASSUME NEW j \in Jobs, Build(j) PROVE ImagesStay
    BY <2>3, PublishInv DEF Build, Render, Skip, PullBase, Fail, ImagesStay
  <2> QED BY <2>1, <2>2, <2>3 DEF Next, Finished, vars, ImagesStay
<1> QED BY <1>1, InvInit, InvStep, PTL DEF Spec, TagsNeverMove, ImagesStay
=============================================================================
