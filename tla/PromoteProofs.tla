----------------------------- MODULE PromoteProofs -----------------------------
(***************************************************************************)
(* Proofs about Promote, for any number of jobs and builds and any layers, *)
(* arches and targets: Inv ties what a job has resolved, tried and written *)
(* to where it is; StaysInv, on top of it, ties that to what is released,  *)
(* and SourceOK ties what is released to the content tags.                 *)
(***************************************************************************)
EXTENDS Promote, TLAPS

Applying == {"target", "read", "write"}
Working  == {"resolve"} \union Applying

Resolvable == [typ: {"registry", "s3"}, src: Refs, dst: Refs \union Dirs,
               creds: BOOLEAN, arch: Nat]

-----------------------------------------------------------------------------
(* Targets.                                                                *)

LEMMA Layer ==
    ASSUME job \in [Jobs -> Inputs], NEW j \in Jobs
    PROVE  /\ job[j].layers \in Seq(Seq(Seq(TargetType))) /\ Len(job[j].layers) \in Nat \ {0}
           /\ \A l \in 1..Len(job[j].layers) :
                 /\ job[j].layers[l] \in Seq(Seq(TargetType)) /\ Len(job[j].layers[l]) \in Nat
                 /\ \A a \in 1..Len(job[j].layers[l]) :
                       /\ job[j].layers[l][a] \in Seq(TargetType)
                       /\ Len(job[j].layers[l][a]) \in Nat
                       /\ DOMAIN job[j].layers[l][a] = 1..Len(job[j].layers[l][a])
                       /\ \A i \in 1..Len(job[j].layers[l][a]) : job[j].layers[l][a][i] \in TargetType
<1>1. job[j] \in InputType /\ job[j].layers # <<>>
  BY PromoteAssumption
<1>2. job[j].layers \in Seq(Seq(Seq(TargetType)))
  BY <1>1 DEF InputType
<1>3. \A l \in 1..Len(job[j].layers) : job[j].layers[l] \in Seq(Seq(TargetType))
  BY <1>2
<1>4. \A l \in 1..Len(job[j].layers) : \A a \in 1..Len(job[j].layers[l]) :
          job[j].layers[l][a] \in Seq(TargetType)
  BY <1>3
<1>5. ASSUME NEW s \in Seq(TargetType)
      PROVE  Len(s) \in Nat /\ DOMAIN s = 1..Len(s) /\ \A i \in 1..Len(s) : s[i] \in TargetType
  OBVIOUS
<1>6. ASSUME NEW s \in Seq(Seq(TargetType)) PROVE Len(s) \in Nat
  OBVIOUS
<1>7. Len(job[j].layers) \in Nat \ {0}
  BY <1>1, <1>2
<1> QED
  BY <1>2, <1>3, <1>4, <1>5, <1>6, <1>7

LEMMA TargetKinds ==
    ASSUME NEW t \in TargetType
    PROVE  /\ t.typ \in {"registry", "s3"} /\ t.dst \in Refs \union Dirs
           /\ t.typ = "registry" <=> t.dst \in Refs
           /\ t.src \in Refs \union {None} /\ t.creds \in BOOLEAN
BY PromoteAssumption DEF TargetType

LEMMA InLayerIds ==
    ASSUME job \in [Jobs -> Inputs], NEW j \in Jobs, NEW l \in 1..Len(job[j].layers), NEW id
    PROVE  id \in LayerIds(j, l) <=>
              \E a \in 1..Len(job[j].layers[l]) : \E i \in 1..Len(job[j].layers[l][a]) :
                  id = <<l, a, job[j].layers[l][a][i].dst>>
<1> DEFINE arches == job[j].layers[l]
<1>1. DOMAIN arches = 1..Len(arches)
  BY Layer
<1>2. \A a \in 1..Len(arches) : DOMAIN arches[a] = 1..Len(arches[a])
  BY Layer
<1>3. LayerIds(j, l) = UNION {{<<l, a, arches[a][i].dst>> : i \in 1..Len(arches[a])} : a \in 1..Len(arches)}
  BY <1>1, <1>2 DEF LayerIds
<1> HIDE DEF arches
<1>4. id \in LayerIds(j, l) <=>
          \E a \in 1..Len(arches) : \E i \in 1..Len(arches[a]) : id = <<l, a, arches[a][i].dst>>
  BY <1>3
<1> QED
  BY <1>4, Zenon DEF arches

LEMMA InIds ==
    ASSUME job \in [Jobs -> Inputs], NEW j \in Jobs, NEW id
    PROVE  id \in Ids(j) <=> \E l \in 1..Len(job[j].layers) : id \in LayerIds(j, l)
<1>1. DOMAIN job[j].layers = 1..Len(job[j].layers)
  BY Layer
<1> QED
  BY <1>1 DEF Ids

LEMMA IdOfLayer ==
    ASSUME job \in [Jobs -> Inputs], NEW j \in Jobs, NEW l \in 1..Len(job[j].layers),
           NEW id \in Ids(j), id[1] = l
    PROVE  id \in LayerIds(j, l)
<1>1. PICK m \in 1..Len(job[j].layers) : id \in LayerIds(j, m)
  BY InIds
<1>2. id[1] = m
  BY <1>1, InLayerIds
<1> QED
  BY <1>1, <1>2

-----------------------------------------------------------------------------
(* The invariant.                                                          *)

Shape ==
    /\ job \in [Jobs -> Inputs]
    /\ pc \in [Jobs -> {"layer", "resolve", "target", "read", "write", "ended", "killed"}]
    /\ layer \in [Jobs -> Nat] /\ arch \in [Jobs -> Nat]
    /\ targets \in [Jobs -> Seq(Resolvable)]
    /\ pos \in [Jobs -> Nat] /\ objects \in [Jobs -> 0..3]
    /\ read \in [Jobs -> Contents \union {None}]
    /\ failed \in [Jobs -> BOOLEAN] /\ attempted \in [Jobs -> BOOLEAN]
    /\ result \in [Jobs -> {"none", "nil", "error"}]
    /\ tags \in [Refs -> Contents \union {None}]
    /\ local \in [Refs -> Contents \union {None}]
    /\ boot \in [Dirs -> [Object -> Contents \union {None}]]
    /\ DOMAIN resolved = Jobs
    /\ tried = [j \in Jobs |-> tried[j]] /\ written = [j \in Jobs |-> written[j]]

(* Where a job is.                                                         *)
Cursor(j) ==
    /\ layer[j] \in 1..(Len(job[j].layers) + 1)
    /\ pc[j] \in Working => layer[j] <= Len(job[j].layers) /\ arch[j] \in 0..Len(LayerOf(j))
    /\ pc[j] = "layer" => arch[j] = 0 /\ targets[j] = <<>>
    /\ pc[j] = "resolve" => pos[j] = 0
    /\ pc[j] \in Applying => arch[j] = Len(LayerOf(j)) /\ pos[j] \in 0..Len(targets[j])
    /\ pc[j] \in {"read", "write"} => pos[j] < Len(targets[j]) /\ ~job[j].dry
    /\ pc[j] = "write" => read[j] # None
    /\ pc[j] \notin {"write", "killed"} => read[j] = None
    /\ pc[j] = "ended" <=> result[j] # "none"
    /\ pc[j] = "ended" => layer[j] = Len(job[j].layers) + 1
    /\ result[j] = "nil" => ~failed[j]

(* The targets resolved so far are those of the arches resolved so far,    *)
(* and no two of them are one registry reference.                          *)
TargetsOf(arches, ts, n) ==
    /\ \A k \in 1..Len(ts) :
          /\ ts[k].arch \in 1..n
          /\ \E i \in 1..Len(arches[ts[k].arch]) : ts[k].dst = arches[ts[k].arch][i].dst
          /\ ts[k].typ = "registry" <=> ts[k].dst \in Refs
    /\ \A a \in 1..n : \A i \in 1..Len(arches[a]) :
          \E k \in 1..Len(ts) : ts[k].arch = a /\ ts[k].dst = arches[a][i].dst
    /\ \A k, m \in 1..Len(ts) :
          ts[k].dst \in Refs /\ ts[k].dst = ts[m].dst => k = m

Targets(j) == pc[j] \in Working => TargetsOf(LayerOf(j), targets[j], arch[j])

(* The targets of the layer that are dealt with.                           *)
Dealt(j) == {<<layer[j], targets[j][k].arch, targets[j][k].dst>> : k \in 1..pos[j]}

(* What was resolved, tried and written.                                   *)
Traces(j) ==
    /\ resolved[j] \subseteq 1..layer[j]
    /\ pc[j] \in {"layer", "resolve"} => layer[j] \notin resolved[j]
    /\ pc[j] \in Applying => layer[j] \in resolved[j]
    /\ tried[j] \subseteq {id \in Ids(j) : id[1] \in resolved[j]}
    /\ written[j] \subseteq tried[j]
    /\ pc[j] \in {"read", "write"} => TargetId(j) \in tried[j]
    /\ ~job[j].dry =>
          /\ \A l \in resolved[j] : l < layer[j] => LayerIds(j, l) \subseteq tried[j]
          /\ pc[j] \in Applying => Dealt(j) \subseteq tried[j]
    /\ ~job[j].dry /\ ~failed[j] =>
          /\ \A l \in 1..(layer[j] - 1) : LayerIds(j, l) \subseteq written[j]
          /\ pc[j] \in Applying => Dealt(j) \subseteq written[j]

OneArch(j) ==
    \A x, y \in written[j] : x[1] = y[1] /\ x[3] = y[3] /\ x[3] \in Refs => x[2] = y[2]

JobOK(j) == Cursor(j) /\ Targets(j) /\ Traces(j) /\ OneArch(j)

Inv == Shape /\ \A j \in Jobs : JobOK(j)

LEMMA InvInit == Init => Inv
<1> SUFFICES ASSUME Init PROVE Inv
  OBVIOUS
<1>1. Shape
  BY DEF Init, Shape, Contents
<1>2. ASSUME NEW j \in Jobs PROVE JobOK(j)
  <2>1. Len(job[j].layers) \in Nat \ {0}
    BY <1>1, Layer DEF Shape
  <2> QED
    BY <2>1 DEF Init, JobOK, Cursor, Targets, Traces, OneArch, Working, Applying
<1> QED
  BY <1>1, <1>2 DEF Inv

(* A job that does not move.                                               *)
Still(q) ==
    /\ pc'[q] = pc[q] /\ layer'[q] = layer[q] /\ arch'[q] = arch[q] /\ targets'[q] = targets[q]
    /\ pos'[q] = pos[q] /\ read'[q] = read[q] /\ failed'[q] = failed[q] /\ result'[q] = result[q]
    /\ resolved'[q] = resolved[q] /\ tried'[q] = tried[q] /\ written'[q] = written[q]

LEMMA JobsStay ==
    ASSUME job' = job, NEW q \in Jobs
    PROVE  Ids(q)' = Ids(q) /\ \A l : LayerIds(q, l)' = LayerIds(q, l)
BY DEF Ids, LayerIds

LEMMA Bystander ==
    ASSUME job' = job, NEW q \in Jobs, Still(q), JobOK(q)
    PROVE  JobOK(q)'
<1>1. Ids(q)' = Ids(q) /\ \A l : LayerIds(q, l)' = LayerIds(q, l)
  BY JobsStay
<1>2. LayerOf(q)' = LayerOf(q)
  BY DEF Still, LayerOf
<1>3. Cursor(q)'
  BY <1>2 DEF JobOK, Still, Cursor
<1>4. Targets(q)'
  BY <1>2 DEF JobOK, Still, Targets, TargetsOf
<1>5. Traces(q)'
  BY <1>1 DEF JobOK, Still, Traces, Dealt, TargetId, Target
<1>6. OneArch(q)'
  BY DEF JobOK, Still, OneArch
<1> QED
  BY <1>3, <1>4, <1>5, <1>6 DEF JobOK

LEMMA Combine ==
    ASSUME Inv, job' = job, Shape', NEW j \in Jobs, \A q \in Jobs \ {j} : Still(q), JobOK(j)'
    PROVE  Inv'
<1>1. ASSUME NEW q \in Jobs \ {j} PROVE JobOK(q)'
  BY Bystander DEF Inv
<1> QED
  BY <1>1 DEF Inv

(* What is known of a job before its step.                                 *)
LEMMA Known ==
    ASSUME Inv, NEW j \in Jobs
    PROVE  /\ Shape /\ Cursor(j) /\ Targets(j) /\ Traces(j) /\ OneArch(j)
           /\ Len(job[j].layers) \in Nat \ {0} /\ layer[j] \in 1..(Len(job[j].layers) + 1)
           /\ targets[j] \in Seq(Resolvable) /\ Len(targets[j]) \in Nat
<1>1. Shape /\ JobOK(j)
  BY DEF Inv
<1>2. job \in [Jobs -> Inputs] /\ targets \in [Jobs -> Seq(Resolvable)]
  BY <1>1 DEF Shape
<1> QED
  BY <1>1, <1>2, Layer DEF JobOK, Cursor

-----------------------------------------------------------------------------
(* Layers.                                                                 *)

(* A job between two layers: what holds of the layers behind it.           *)
LEMMA InvNextLayer ==
    ASSUME Inv, NEW j \in Jobs, job' = job,
           pc[j] \in {"layer", "resolve", "target"},
           layer[j] <= Len(job[j].layers), NextLayer(j), read' = read, result' = result,
           tried' = tried, written' = written, DOMAIN failed' = Jobs,
           failed[j] => failed'[j],
           resolved'[j] \subseteq resolved[j] \union {layer[j]},
           resolved[j] \subseteq resolved'[j],
           ~job[j].dry /\ layer[j] \in resolved'[j] => LayerIds(j, layer[j]) \subseteq tried[j],
           ~job[j].dry /\ ~failed'[j] => LayerIds(j, layer[j]) \subseteq written[j]
    PROVE  JobOK(j)'
<1>1. Ids(j)' = Ids(j) /\ \A l : LayerIds(j, l)' = LayerIds(j, l)
  BY JobsStay
<1>2. /\ pc'[j] = "layer" /\ layer'[j] = layer[j] + 1 /\ arch'[j] = 0 /\ targets'[j] = <<>>
      /\ layer[j] \in Nat
  BY Known DEF NextLayer, Goto, Set, Shape
<1>3. Cursor(j)'
  BY <1>2, Known DEF Cursor, Working, Applying
<1>4. Targets(j)'
  BY <1>2 DEF Targets, Working, Applying
<1>5. Traces(j)'
  <2>1. resolved'[j] \subseteq 1..layer[j]
    BY <1>2, Known DEF Traces
  <2>2. tried[j] \subseteq {id \in Ids(j) : id[1] \in resolved'[j]} /\ written[j] \subseteq tried[j]
    BY Known DEF Traces
  <2>3. ~job[j].dry => \A l \in resolved'[j] : LayerIds(j, l) \subseteq tried[j]
    <3> SUFFICES ASSUME ~job[j].dry, NEW l \in resolved'[j] PROVE LayerIds(j, l) \subseteq tried[j]
      OBVIOUS
    <3>1. CASE l = layer[j]
      BY <3>1
    <3>2. CASE l # layer[j]
      BY <3>2, <1>2, <2>1, Known DEF Traces
    <3> QED
      BY <3>1, <3>2
  <2>4. ~job[j].dry /\ ~failed'[j] => \A l \in 1..layer[j] : LayerIds(j, l) \subseteq written[j]
    <3> SUFFICES ASSUME ~job[j].dry, ~failed'[j], NEW l \in 1..layer[j]
                 PROVE  LayerIds(j, l) \subseteq written[j]
      OBVIOUS
    <3>1. CASE l = layer[j]
      BY <3>1
    <3>2. CASE l # layer[j]
      <4>1. l \in 1..(layer[j] - 1)
        BY <3>2, <1>2
      <4> QED
        BY <4>1, Known DEF Traces
    <3> QED
      BY <3>1, <3>2
  <2>5. layer[j] + 1 \notin resolved'[j] /\ resolved'[j] \subseteq 1..(layer[j] + 1)
    BY <1>2, <2>1
  <2>6. (layer[j] + 1) - 1 = layer[j]
    BY <1>2
  <2> QED
    BY <1>1, <1>2, <2>2, <2>3, <2>4, <2>5, <2>6 DEF Traces, Applying
<1>6. OneArch(j)'
  BY Known DEF OneArch
<1> QED
  BY <1>3, <1>4, <1>5, <1>6 DEF JobOK

(* A layer with no targets has nothing to release.                         *)
LEMMA NothingToRelease ==
    ASSUME Inv, NEW j \in Jobs, layer[j] <= Len(job[j].layers),
           \/ LayerOf(j) = <<>>
           \/ arch[j] = Len(LayerOf(j)) /\ targets[j] = <<>> /\ TargetsOf(LayerOf(j), targets[j], arch[j])
    PROVE  LayerIds(j, layer[j]) = {}
<1>1. job \in [Jobs -> Inputs] /\ layer[j] \in 1..Len(job[j].layers)
  BY Known DEF Shape
<1>2. \A a \in 1..Len(LayerOf(j)) : \A i \in 1..Len(LayerOf(j)[a]) : FALSE
  <2>1. CASE LayerOf(j) = <<>>
    BY <2>1
  <2>2. CASE arch[j] = Len(LayerOf(j)) /\ targets[j] = <<>> /\ TargetsOf(LayerOf(j), targets[j], arch[j])
    BY <2>2 DEF TargetsOf
  <2> QED
    BY <2>1, <2>2
<1> QED
  BY <1>1, <1>2, InLayerIds DEF LayerOf

LEMMA InvLayers ==
    ASSUME Inv, NEW j \in Jobs, Layers(j)
    PROVE  Inv'
<1>1. job' = job
  BY DEF Layers, StartLayer, ArchExcluded, End
<1>2. Ids(j)' = Ids(j) /\ \A l : LayerIds(j, l)' = LayerIds(j, l)
  BY <1>1, JobsStay
<1>3. CASE StartLayer(j)
  <2>1. Shape'
    BY <1>3, Known DEF Shape, StartLayer, Goto, Set, cursor, world, trace
  <2>2. \A q \in Jobs \ {j} : Still(q)
    BY <1>3, Known DEF Still, Shape, StartLayer, Goto, Set, cursor, world, trace
  <2>3. /\ pc[j] = "layer" /\ pc'[j] = "resolve" /\ pos'[j] = 0 /\ layer[j] <= Len(job[j].layers)
        /\ UNCHANGED <<layer, arch, targets, read, failed, result, resolved, tried, written>>
    BY <1>3, Known DEF Shape, StartLayer, Goto, Set, At, cursor, trace
  <2>4. LayerOf(j)' = LayerOf(j) /\ Len(LayerOf(j)) \in Nat
    BY <1>1, <2>3, Known, Layer DEF Shape, LayerOf
  <2>5. Cursor(j)'
    BY <1>1, <2>3, <2>4, Known DEF Cursor, Working, Applying
  <2>6. Targets(j)'
    <3>1. arch[j] = 0 /\ Len(targets[j]) = 0
      BY <2>3, Known DEF Cursor
    <3> QED
      BY <2>3, <3>1 DEF Targets, TargetsOf
  <2>7. Traces(j)'
    BY <1>1, <1>2, <2>3, Known DEF Traces, Applying
  <2>8. OneArch(j)'
    BY <2>3, Known DEF OneArch
  <2> QED
    BY <1>1, <2>1, <2>2, <2>5, <2>6, <2>7, <2>8, Combine DEF JobOK
<1>4. CASE ArchExcluded(j)
  <2>1. Shape'
    BY <1>4, Known DEF Shape, ArchExcluded, NoTarget, NextLayer, Goto, Set, apply, world, trace
  <2>2. \A q \in Jobs \ {j} : Still(q)
    BY <1>4, Known DEF Still, Shape, ArchExcluded, NoTarget, NextLayer, Goto, Set, apply, world, trace
  <2>3. /\ pc[j] = "layer" /\ layer[j] <= Len(job[j].layers) /\ LayerOf(j) = <<>> /\ NextLayer(j)
        /\ UNCHANGED <<read, result, resolved, tried, written>>
        /\ DOMAIN failed' = Jobs /\ (failed[j] => failed'[j])
    BY <1>4, Known DEF Shape, ArchExcluded, NoTarget, Set, At, apply, trace
  <2>4. LayerIds(j, layer[j]) = {}
    BY <2>3, NothingToRelease
  <2>5. JobOK(j)'
    BY <1>1, <2>3, <2>4, InvNextLayer
  <2> QED
    BY <1>1, <2>1, <2>2, <2>5, Combine
<1>5. CASE End(j)
  <2>1. Shape'
    BY <1>5, Known DEF Shape, End, Goto, Set, cursor, apply, world, trace
  <2>2. \A q \in Jobs \ {j} : Still(q)
    BY <1>5, Known DEF Still, Shape, End, Goto, Set, cursor, apply, world, trace
  <2>3. /\ pc[j] = "layer" /\ pc'[j] = "ended" /\ layer[j] > Len(job[j].layers)
        /\ result'[j] \in {"nil", "error"} /\ (result'[j] = "nil" => ~failed[j])
        /\ UNCHANGED <<layer, arch, targets, pos, read, failed, resolved, tried, written>>
    BY <1>5, Known DEF Shape, End, Goto, Set, At, cursor, apply, trace
  <2>4. Cursor(j)'
    BY <1>1, <2>3, Known DEF Cursor, Working, Applying
  <2>5. Targets(j)' /\ OneArch(j)'
    BY <2>3, Known DEF Targets, OneArch, Working, Applying
  <2>6. Traces(j)'
    BY <1>1, <1>2, <2>3, Known DEF Traces, Applying
  <2> QED
    BY <1>1, <2>1, <2>2, <2>4, <2>5, <2>6, Combine DEF JobOK
<1> QED
  BY <1>3, <1>4, <1>5 DEF Layers

-----------------------------------------------------------------------------
(* Resolving.                                                              *)

(* The elements of s come first in a concatenation, then those of t.       *)
LEMMA Joined ==
    ASSUME NEW S, NEW s \in Seq(S), NEW t \in Seq(S)
    PROVE  /\ Len(s \o t) = Len(s) + Len(t) /\ DOMAIN (s \o t) = 1..(Len(s) + Len(t))
           /\ \A k \in 1..Len(s) : (s \o t)[k] = s[k]
           /\ \A k \in 1..Len(t) : (s \o t)[Len(s) + k] = t[k]
OBVIOUS

(* The targets of the next arch.                                           *)
LEMMA NextArch ==
    ASSUME Inv, NEW j \in Jobs, pc[j] = "resolve", arch[j] < Len(LayerOf(j)),
           \A i \in DOMAIN Arch(j) : Arch(j)[i].src # None
    PROVE  /\ Arch(j) \in Seq(Resolvable)
           /\ Len(Arch(j)) = Len(LayerOf(j)[arch[j] + 1])
           /\ \A i \in 1..Len(Arch(j)) :
                 /\ Arch(j)[i].arch = arch[j] + 1
                 /\ Arch(j)[i].dst = LayerOf(j)[arch[j] + 1][i].dst
                 /\ Arch(j)[i].typ = "registry" <=> Arch(j)[i].dst \in Refs
<1>1. /\ job \in [Jobs -> Inputs] /\ layer[j] \in 1..Len(job[j].layers)
      /\ arch[j] + 1 \in 1..Len(LayerOf(j)) /\ arch[j] + 1 \in Nat
  BY Known DEF Shape, Cursor, Working, Applying
<1> DEFINE mine == LayerOf(j)[arch[j] + 1]
<1>2. DOMAIN mine = 1..Len(mine) /\ Len(mine) \in Nat /\ \A i \in 1..Len(mine) : mine[i] \in TargetType
  BY <1>1, Layer DEF LayerOf
<1>3. Arch(j) = [i \in 1..Len(mine) |-> [typ |-> mine[i].typ, src |-> mine[i].src, dst |-> mine[i].dst,
                                         creds |-> mine[i].creds, arch |-> arch[j] + 1]]
  BY <1>2 DEF Arch
<1>4. \A i \in 1..Len(mine) : /\ Arch(j)[i] \in Resolvable /\ Arch(j)[i].arch = arch[j] + 1
                              /\ Arch(j)[i].dst = mine[i].dst
                              /\ Arch(j)[i].typ = "registry" <=> Arch(j)[i].dst \in Refs
  <2> SUFFICES ASSUME NEW i \in 1..Len(mine)
               PROVE  /\ Arch(j)[i] \in Resolvable /\ Arch(j)[i].arch = arch[j] + 1
                      /\ Arch(j)[i].dst = mine[i].dst
                      /\ Arch(j)[i].typ = "registry" <=> Arch(j)[i].dst \in Refs
    OBVIOUS
  <2>1. Arch(j)[i] = [typ |-> mine[i].typ, src |-> mine[i].src, dst |-> mine[i].dst,
                      creds |-> mine[i].creds, arch |-> arch[j] + 1]
    BY <1>3
  <2>2. /\ mine[i].typ \in {"registry", "s3"} /\ mine[i].dst \in Refs \union Dirs
        /\ mine[i].typ = "registry" <=> mine[i].dst \in Refs
        /\ mine[i].src \in Refs \union {None} /\ mine[i].creds \in BOOLEAN
    BY <1>2, TargetKinds
  <2>3. mine[i].src # None
    <3> HIDE DEF mine
    <3>1. DOMAIN Arch(j) = 1..Len(mine)
      BY <1>3
    <3>2. Arch(j)[i].src = mine[i].src
      BY <2>1
    <3> QED
      BY <3>1, <3>2
  <2> HIDE DEF mine
  <2> QED
    BY <1>1, <2>1, <2>2, <2>3 DEF Resolvable
<1>5. Len(Arch(j)) = Len(mine) /\ Arch(j) \in Seq(Resolvable)
  <2> HIDE DEF mine
  <2>1. Arch(j) \in [1..Len(mine) -> Resolvable]
    BY <1>3, <1>4
  <2> QED
    BY <1>2, <2>1
<1> QED
  BY <1>4, <1>5

LEMMA Appended ==
    ASSUME Inv, NEW j \in Jobs, pc[j] = "resolve", arch[j] < Len(LayerOf(j)), ~Collides(j, Arch(j)),
           \A i \in DOMAIN Arch(j) : Arch(j)[i].src # None
    PROVE  TargetsOf(LayerOf(j), targets[j] \o Arch(j), arch[j] + 1)
<1> DEFINE old == targets[j]
           new == Arch(j)
           all == old \o new
           n   == arch[j] + 1
<1>1. /\ old \in Seq(Resolvable) /\ new \in Seq(Resolvable) /\ Len(old) \in Nat /\ Len(new) \in Nat
      /\ n \in 1..n /\ arch[j] \in Nat
  BY Known, NextArch DEF Shape
<1>2. /\ Len(all) = Len(old) + Len(new) /\ DOMAIN all = 1..(Len(old) + Len(new))
      /\ \A k \in 1..Len(old) : all[k] = old[k]
      /\ \A k \in 1..Len(new) : all[Len(old) + k] = new[k]
  <2>1. old \in Seq(Resolvable) /\ new \in Seq(Resolvable)
    BY <1>1
  <2> HIDE DEF old, new
  <2> QED
    BY <2>1, Joined
<1>3. TargetsOf(LayerOf(j), old, arch[j])
  BY Known DEF Targets, Working
<1>4. /\ Len(new) = Len(LayerOf(j)[n])
      /\ \A i \in 1..Len(new) : /\ new[i].arch = n /\ new[i].dst = LayerOf(j)[n][i].dst
                                /\ new[i].typ = "registry" <=> new[i].dst \in Refs
  BY NextArch
<1>5. \A i, m \in DOMAIN all : all[i].typ = "registry" /\ all[m].typ = "registry" /\ all[i].dst = all[m].dst
          => i = m
  BY DEF Collides
<1> HIDE DEF all, old, new, n
<1>6. ASSUME NEW k \in 1..Len(all)
      PROVE  \/ k \in 1..Len(old) /\ all[k] = old[k]
             \/ k - Len(old) \in 1..Len(new) /\ all[k] = new[k - Len(old)]
  <2>1. CASE k <= Len(old)
    BY <1>1, <1>2, <2>1
  <2>2. CASE k > Len(old)
    <3>1. k - Len(old) \in 1..Len(new) /\ Len(old) + (k - Len(old)) = k
      BY <1>1, <1>2, <2>2
    <3> QED
      BY <1>2, <3>1
  <2> QED
    BY <1>1, <1>2, <2>1, <2>2
<1>7. \A k \in 1..Len(all) :
          /\ all[k].arch \in 1..n
          /\ \E i \in 1..Len(LayerOf(j)[all[k].arch]) : all[k].dst = LayerOf(j)[all[k].arch][i].dst
          /\ all[k].typ = "registry" <=> all[k].dst \in Refs
  <2> SUFFICES ASSUME NEW k \in 1..Len(all)
               PROVE  /\ all[k].arch \in 1..n
                      /\ \E i \in 1..Len(LayerOf(j)[all[k].arch]) :
                            all[k].dst = LayerOf(j)[all[k].arch][i].dst
                      /\ all[k].typ = "registry" <=> all[k].dst \in Refs
    OBVIOUS
  <2>1. CASE k \in 1..Len(old) /\ all[k] = old[k]
    BY <1>1, <1>3, <2>1 DEF TargetsOf, n
  <2>2. CASE k - Len(old) \in 1..Len(new) /\ all[k] = new[k - Len(old)]
    <3>1. all[k].arch = n /\ all[k].dst = LayerOf(j)[n][k - Len(old)].dst
          /\ (all[k].typ = "registry" <=> all[k].dst \in Refs)
      BY <1>4, <2>2
    <3>2. k - Len(old) \in 1..Len(LayerOf(j)[n])
      BY <1>4, <2>2
    <3> QED
      BY <1>1, <3>1, <3>2
  <2> QED
    BY <1>6, <2>1, <2>2
<1>8. \A a \in 1..n : \A i \in 1..Len(LayerOf(j)[a]) :
          \E k \in 1..Len(all) : all[k].arch = a /\ all[k].dst = LayerOf(j)[a][i].dst
  <2> SUFFICES ASSUME NEW a \in 1..n, NEW i \in 1..Len(LayerOf(j)[a])
               PROVE  \E k \in 1..Len(all) : all[k].arch = a /\ all[k].dst = LayerOf(j)[a][i].dst
    OBVIOUS
  <2>1. CASE a = n
    <3>1. i \in 1..Len(new)
      BY <1>4, <2>1
    <3>2. Len(old) + i \in 1..Len(all)
      BY <1>1, <1>2, <3>1
    <3> QED
      BY <1>2, <1>4, <2>1, <3>1, <3>2
  <2>2. CASE a # n
    <3>1. a \in 1..arch[j]
      BY <1>1, <2>2 DEF n
    <3>2. PICK k \in 1..Len(old) : old[k].arch = a /\ old[k].dst = LayerOf(j)[a][i].dst
      BY <1>3, <3>1 DEF TargetsOf
    <3>3. k \in 1..Len(all)
      BY <1>1, <1>2
    <3> QED
      BY <1>2, <3>2, <3>3
  <2> QED
    BY <2>1, <2>2
<1>9. \A k, m \in 1..Len(all) : all[k].dst \in Refs /\ all[k].dst = all[m].dst => k = m
  BY <1>1, <1>2, <1>5, <1>7
<1> QED
  BY <1>7, <1>8, <1>9 DEF TargetsOf, all, old, new, n

(* With all arches resolved, the targets are what the layer has to release. *)
LEMMA CurrentIds ==
    ASSUME Inv, NEW j \in Jobs, layer[j] <= Len(job[j].layers),
           arch[j] = Len(LayerOf(j)), TargetsOf(LayerOf(j), targets[j], arch[j])
    PROVE  /\ \A k \in 1..Len(targets[j]) :
                 <<layer[j], targets[j][k].arch, targets[j][k].dst>> \in LayerIds(j, layer[j])
           /\ \A id \in LayerIds(j, layer[j]) : \E k \in 1..Len(targets[j]) :
                 id = <<layer[j], targets[j][k].arch, targets[j][k].dst>>
<1>1. job \in [Jobs -> Inputs] /\ layer[j] \in 1..Len(job[j].layers)
  BY Known DEF Shape
<1>2. \A id : id \in LayerIds(j, layer[j]) <=>
          \E a \in 1..Len(LayerOf(j)) : \E i \in 1..Len(LayerOf(j)[a]) :
              id = <<layer[j], a, LayerOf(j)[a][i].dst>>
  BY <1>1, InLayerIds DEF LayerOf
<1>3. ASSUME NEW k \in 1..Len(targets[j])
      PROVE  <<layer[j], targets[j][k].arch, targets[j][k].dst>> \in LayerIds(j, layer[j])
  <2>1. /\ targets[j][k].arch \in 1..Len(LayerOf(j))
        /\ \E i \in 1..Len(LayerOf(j)[targets[j][k].arch]) :
              targets[j][k].dst = LayerOf(j)[targets[j][k].arch][i].dst
    BY DEF TargetsOf
  <2> QED
    BY <1>2, <2>1
<1>4. ASSUME NEW id \in LayerIds(j, layer[j])
      PROVE  \E k \in 1..Len(targets[j]) : id = <<layer[j], targets[j][k].arch, targets[j][k].dst>>
  <2>1. PICK a \in 1..Len(LayerOf(j)) : \E i \in 1..Len(LayerOf(j)[a]) :
            id = <<layer[j], a, LayerOf(j)[a][i].dst>>
    BY <1>2
  <2>2. PICK i \in 1..Len(LayerOf(j)[a]) : id = <<layer[j], a, LayerOf(j)[a][i].dst>>
    BY <2>1
  <2>3. PICK k \in 1..Len(targets[j]) : targets[j][k].arch = a /\ targets[j][k].dst = LayerOf(j)[a][i].dst
    BY DEF TargetsOf
  <2> QED
    BY <2>2, <2>3
<1> QED
  BY <1>3, <1>4

LEMMA InvResolve ==
    ASSUME Inv, NEW j \in Jobs, Resolve(j)
    PROVE  Inv'
<1>1. job' = job /\ pc[j] = "resolve" /\ layer[j] <= Len(job[j].layers)
  BY Known DEF Resolve, ResolveArch, ResolveFails, NothingResolved, AllResolved, At, Cursor, Working
<1>2. Ids(j)' = Ids(j) /\ \A l : LayerIds(j, l)' = LayerIds(j, l)
  BY <1>1, JobsStay
<1>3. layer' = layer => LayerOf(j)' = LayerOf(j)
  BY <1>1 DEF LayerOf
<1>4. CASE ResolveArch(j)
  <2>1. targets[j] \o Arch(j) \in Seq(Resolvable) /\ arch[j] + 1 \in 0..Len(LayerOf(j))
    BY <1>1, <1>4, Known, NextArch DEF ResolveArch, Cursor, Working
  <2>2. Shape'
    BY <1>4, <2>1, Known DEF Shape, ResolveArch, Resolved, Set, apply, world, trace
  <2>3. \A q \in Jobs \ {j} : Still(q)
    BY <1>4, Known DEF Still, Shape, ResolveArch, Resolved, Set, apply, world, trace
  <2>4. /\ arch'[j] = arch[j] + 1 /\ targets'[j] = targets[j] \o Arch(j)
        /\ UNCHANGED <<pc, layer, pos, read, failed, result, resolved, tried, written>>
    BY <1>4, Known DEF Shape, ResolveArch, Resolved, Set, apply, trace
  <2>5. Cursor(j)'
    BY <1>1, <1>3, <2>1, <2>4, Known DEF Cursor, Working, Applying
  <2>6. TargetsOf(LayerOf(j), targets[j] \o Arch(j), arch[j] + 1)
    BY <1>1, <1>4, Appended DEF ResolveArch
  <2>7. Targets(j)'
    BY <1>3, <2>4, <2>6 DEF Targets
  <2>8. Traces(j)' /\ OneArch(j)'
    BY <1>1, <1>2, <2>4, Known DEF Traces, OneArch, Applying
  <2> QED
    BY <1>1, <2>2, <2>3, <2>5, <2>7, <2>8, Combine DEF JobOK
<1>5. CASE ResolveFails(j)
  <2>1. Shape'
    BY <1>5, Known DEF Shape, ResolveFails, NextLayer, Goto, Set, apply, world, trace
  <2>2. \A q \in Jobs \ {j} : Still(q)
    BY <1>5, Known DEF Still, Shape, ResolveFails, NextLayer, Goto, Set, apply, world, trace
  <2>3. /\ NextLayer(j) /\ UNCHANGED <<read, result, resolved, tried, written>>
        /\ DOMAIN failed' = Jobs /\ failed'[j] = TRUE
    BY <1>5, Known DEF Shape, ResolveFails, Set, apply, trace
  <2>4. layer[j] \notin resolved[j]
    BY <1>1, Known DEF Traces
  <2>5. JobOK(j)'
    BY <1>1, <2>3, <2>4, InvNextLayer
  <2> QED
    BY <1>1, <2>1, <2>2, <2>5, Combine
<1>6. CASE NothingResolved(j)
  <2>1. Shape'
    <3>1. Shape /\ failed[j] \in BOOLEAN /\ job[j].bulk \in BOOLEAN
      BY Known, PromoteAssumption DEF Shape, InputType
    <3>2. failed' \in [Jobs -> BOOLEAN]
      BY <1>6, <3>1 DEF Shape, NothingResolved, NoTarget, Set
    <3>3. /\ pc' = [pc EXCEPT ![j] = "layer"] /\ layer' = [layer EXCEPT ![j] = layer[j] + 1]
          /\ arch' = [arch EXCEPT ![j] = 0] /\ targets' = [targets EXCEPT ![j] = <<>>]
          /\ resolved' = [resolved EXCEPT ![j] = resolved[j] \union {layer[j]}]
          /\ UNCHANGED <<job, pos, objects, read, attempted, result, tags, boot, local, tried, written>>
      BY <1>6 DEF NothingResolved, NoTarget, NextLayer, Goto, Set, apply, world
    <3> QED
      BY <3>1, <3>2, <3>3 DEF Shape
  <2>2. \A q \in Jobs \ {j} : Still(q)
    <3>1. Shape
      BY Known
    <3> QED
      BY <1>6, <3>1 DEF Still, Shape, NothingResolved, NoTarget, NextLayer, Goto, Set, apply
  <2>3. /\ NextLayer(j) /\ UNCHANGED <<read, result, tried, written>>
        /\ DOMAIN failed' = Jobs /\ (failed[j] => failed'[j])
        /\ resolved'[j] = resolved[j] \union {layer[j]}
        /\ arch[j] = Len(LayerOf(j)) /\ targets[j] = <<>>
    BY <1>6, Known DEF Shape, NothingResolved, NoTarget, Set, apply
  <2>4. TargetsOf(LayerOf(j), targets[j], arch[j])
    BY <1>1, Known DEF Targets, Working
  <2>5. LayerIds(j, layer[j]) = {}
    BY <1>1, <2>3, <2>4, NothingToRelease
  <2>6. JobOK(j)'
    BY <1>1, <2>3, <2>5, InvNextLayer
  <2> QED
    BY <1>1, <2>1, <2>2, <2>6, Combine
<1>7. CASE AllResolved(j)
  <2>1. Shape'
    BY <1>7, Known DEF Shape, AllResolved, Goto, Set, cursor, apply, world
  <2>2. \A q \in Jobs \ {j} : Still(q)
    BY <1>7, Known DEF Still, Shape, AllResolved, Goto, Set, cursor, apply, world
  <2>3. /\ pc'[j] = "target" /\ resolved'[j] = resolved[j] \union {layer[j]}
        /\ arch[j] = Len(LayerOf(j))
        /\ UNCHANGED <<layer, arch, targets, pos, read, failed, result, tried, written>>
    BY <1>7, Known DEF Shape, AllResolved, Goto, Set, cursor, apply
  <2>4. pos[j] = 0
    BY <1>1, Known DEF Cursor
  <2>5. Cursor(j)'
    BY <1>1, <1>3, <2>3, <2>4, Known DEF Cursor, Working, Applying
  <2>6. Targets(j)'
    <3>1. TargetsOf(LayerOf(j), targets[j], arch[j])
      BY <1>1, Known DEF Targets, Working
    <3> QED
      BY <1>3, <2>3, <3>1 DEF Targets
  <2>7. Traces(j)'
    <3>1. Dealt(j)' = {}
      BY <2>3, <2>4 DEF Dealt
    <3>2. resolved'[j] \subseteq 1..layer[j] /\ layer[j] \in resolved'[j]
      BY <2>3, Known DEF Traces
    <3> QED
      BY <1>1, <1>2, <2>3, <3>1, <3>2, Known DEF Traces, Applying
  <2>8. OneArch(j)'
    BY <2>3, Known DEF OneArch
  <2> QED
    BY <1>1, <2>1, <2>2, <2>5, <2>6, <2>7, <2>8, Combine DEF JobOK
<1> QED
  BY <1>4, <1>5, <1>6, <1>7 DEF Resolve

-----------------------------------------------------------------------------
(* Applying.                                                               *)

LEMMA AtTheTarget ==
    ASSUME Inv, NEW j \in Jobs, pc[j] \in Applying, pos[j] < Len(targets[j])
    PROVE  /\ TargetId(j) = <<layer[j], Target(j).arch, Target(j).dst>>
           /\ Target(j) \in Resolvable /\ (Target(j).typ = "registry" <=> Target(j).dst \in Refs)
           /\ TargetId(j) \in LayerIds(j, layer[j]) /\ TargetId(j) \in Ids(j)
           /\ layer[j] \in resolved[j]
<1>1. /\ layer[j] \in 1..Len(job[j].layers) /\ arch[j] = Len(LayerOf(j)) /\ job \in [Jobs -> Inputs]
      /\ TargetsOf(LayerOf(j), targets[j], arch[j]) /\ layer[j] \in resolved[j]
  BY Known DEF Cursor, Targets, Traces, Working, Shape
<1>2. pos[j] + 1 \in 1..Len(targets[j])
  BY Known DEF Cursor
<1>3. Target(j) \in Resolvable /\ (Target(j).typ = "registry" <=> Target(j).dst \in Refs)
  BY <1>1, <1>2, Known DEF Target, TargetsOf
<1>4. TargetId(j) = <<layer[j], Target(j).arch, Target(j).dst>>
  BY DEF TargetId
<1>5. TargetId(j) \in LayerIds(j, layer[j])
  BY <1>1, <1>2, CurrentIds DEF TargetId, Target
<1>6. TargetId(j) \in Ids(j)
  BY <1>1, <1>5, InIds
<1> QED
  BY <1>1, <1>3, <1>4, <1>5, <1>6

(* Two targets of the layer are not one reference.                         *)
LEMMA NoClash ==
    ASSUME Inv, NEW j \in Jobs, pc[j] \in Applying,
           NEW x \in LayerIds(j, layer[j]), NEW y \in LayerIds(j, layer[j]), x[3] = y[3], x[3] \in Refs
    PROVE  x[2] = y[2]
<1>1. /\ layer[j] <= Len(job[j].layers) /\ arch[j] = Len(LayerOf(j))
      /\ TargetsOf(LayerOf(j), targets[j], arch[j])
  BY Known DEF Cursor, Targets, Working
<1>2. PICK k \in 1..Len(targets[j]) : x = <<layer[j], targets[j][k].arch, targets[j][k].dst>>
  BY <1>1, CurrentIds
<1>3. PICK m \in 1..Len(targets[j]) : y = <<layer[j], targets[j][m].arch, targets[j][m].dst>>
  BY <1>1, CurrentIds
<1>4. k = m
  BY <1>1, <1>2, <1>3 DEF TargetsOf
<1> QED
  BY <1>2, <1>3, <1>4

(* The traces of a job that deals with a target.                           *)
Marks(j) ==
    /\ tried[j] \subseteq tried'[j] /\ tried'[j] \subseteq tried[j] \union {TargetId(j)}
    /\ written[j] \subseteq written'[j] /\ written'[j] \subseteq written[j] \union {TargetId(j)}
    /\ written'[j] \subseteq tried'[j]
    /\ failed[j] => failed'[j]

LEMMA OneArchKept ==
    ASSUME Inv, NEW j \in Jobs, pc[j] \in Applying, pos[j] < Len(targets[j]), Marks(j)
    PROVE  OneArch(j)'
<1> SUFFICES ASSUME NEW x \in written'[j], NEW y \in written'[j], x[1] = y[1], x[3] = y[3], x[3] \in Refs
             PROVE  x[2] = y[2]
  BY DEF OneArch
<1>1. job \in [Jobs -> Inputs] /\ layer[j] \in 1..Len(job[j].layers)
  BY Known DEF Shape, Cursor, Working
<1>2. ASSUME NEW z \in written[j], z[1] = layer[j] PROVE z \in LayerIds(j, layer[j])
  BY <1>1, <1>2, Known, IdOfLayer DEF Traces
<1>3. TargetId(j) \in LayerIds(j, layer[j]) /\ TargetId(j)[1] = layer[j]
  BY AtTheTarget DEF TargetId
<1>4. CASE x \in written[j] /\ y \in written[j]
  BY <1>4, Known DEF OneArch
<1>5. CASE x = TargetId(j) \/ y = TargetId(j)
  <2>1. x \in LayerIds(j, layer[j]) /\ y \in LayerIds(j, layer[j])
    BY <1>2, <1>3, <1>5 DEF Marks
  <2> QED
    BY <2>1, NoClash
<1> QED
  BY <1>4, <1>5 DEF Marks

(* The target is over.                                                     *)
LEMMA TargetEnds ==
    ASSUME Inv, NEW j \in Jobs, job' = job, pc[j] \in Applying, pos[j] < Len(targets[j]),
           UNCHANGED <<layer, arch, targets, result, resolved>>,
           pc'[j] = "target", pos'[j] = pos[j] + 1, read'[j] = None, Marks(j),
           ~job[j].dry => TargetId(j) \in tried'[j],
           ~job[j].dry /\ ~failed'[j] => TargetId(j) \in written'[j]
    PROVE  JobOK(j)'
<1>1. Ids(j)' = Ids(j) /\ \A l : LayerIds(j, l)' = LayerIds(j, l)
  BY JobsStay
<1>2. LayerOf(j)' = LayerOf(j)
  BY DEF LayerOf
<1>3. Cursor(j)'
  <2>1. result[j] = "none"
    BY Known DEF Cursor, Applying, Shape
  <2> QED
    BY <1>2, <2>1, Known DEF Cursor, Working, Applying
<1>4. Targets(j)'
  BY <1>2, Known DEF Targets, Working, Applying
<1>5. Dealt(j)' = Dealt(j) \union {TargetId(j)}
  <2>1. pos[j] \in Nat
    BY Known DEF Shape
  <2>2. 1..(pos[j] + 1) = 1..pos[j] \union {pos[j] + 1}
    BY <2>1
  <2> QED
    BY <2>2 DEF Dealt, TargetId, Target
<1>6. Traces(j)'
  <2>1. TargetId(j) \in Ids(j) /\ TargetId(j)[1] = layer[j] /\ layer[j] \in resolved[j]
    BY AtTheTarget DEF TargetId
  <2>2. tried'[j] \subseteq {id \in Ids(j) : id[1] \in resolved[j]}
    BY <2>1, Known DEF Traces, Marks
  <2>3. ~job[j].dry => /\ \A l \in resolved[j] : l < layer[j] => LayerIds(j, l) \subseteq tried'[j]
                       /\ Dealt(j)' \subseteq tried'[j]
    BY <1>5, Known DEF Traces, Marks
  <2>4. ~job[j].dry /\ ~failed'[j] =>
            /\ \A l \in 1..(layer[j] - 1) : LayerIds(j, l) \subseteq written'[j]
            /\ Dealt(j)' \subseteq written'[j]
    BY <1>5, Known DEF Traces, Marks
  <2>5. resolved[j] \subseteq 1..layer[j]
    BY Known DEF Traces
  <2> QED
    BY <1>1, <2>1, <2>2, <2>3, <2>4, <2>5 DEF Traces, Marks, Applying
<1> QED
  BY <1>3, <1>4, <1>6, OneArchKept DEF JobOK

(* It goes on.                                                             *)
LEMMA TargetGoesOn ==
    ASSUME Inv, NEW j \in Jobs, job' = job, pc[j] \in Applying, pos[j] < Len(targets[j]),
           UNCHANGED <<layer, arch, targets, pos, result, resolved, written>>, ~job[j].dry,
           \/ pc'[j] = "read" /\ read'[j] = None
           \/ pc'[j] = "write" /\ read'[j] # None,
           Marks(j), failed'[j] = failed[j], TargetId(j) \in tried'[j]
    PROVE  JobOK(j)'
<1>1. Ids(j)' = Ids(j) /\ \A l : LayerIds(j, l)' = LayerIds(j, l)
  BY JobsStay
<1>2. LayerOf(j)' = LayerOf(j) /\ Dealt(j)' = Dealt(j) /\ TargetId(j)' = TargetId(j)
  BY DEF LayerOf, Dealt, TargetId, Target
<1>3. Cursor(j)'
  BY <1>2, Known DEF Cursor, Working, Applying
<1>4. Targets(j)'
  BY <1>2, Known DEF Targets, Working, Applying
<1>5. Traces(j)'
  <2>1. TargetId(j) \in Ids(j) /\ TargetId(j)[1] = layer[j] /\ layer[j] \in resolved[j]
    BY AtTheTarget DEF TargetId
  <2>2. tried'[j] \subseteq {id \in Ids(j) : id[1] \in resolved[j]}
    BY <2>1, Known DEF Traces, Marks
  <2> QED
    BY <1>1, <1>2, <2>1, <2>2, Known DEF Traces, Marks, Applying
<1> QED
  BY <1>3, <1>4, <1>5, OneArchKept DEF JobOK

(* The two ways a target leaves a job.                                     *)
LEMMA Over ==
    ASSUME Shape, NEW j \in Jobs, TargetOver(j)
    PROVE  /\ pc' = [pc EXCEPT ![j] = "target"] /\ pos' = [pos EXCEPT ![j] = pos[j] + 1]
           /\ objects' = [objects EXCEPT ![j] = 0] /\ read' = [read EXCEPT ![j] = None]
           /\ pc'[j] = "target" /\ pos'[j] = pos[j] + 1 /\ read'[j] = None
BY DEF Shape, TargetOver, Goto, Set

LEMMA Fails ==
    ASSUME Shape, NEW j \in Jobs, TargetFails(j)
    PROVE  /\ TargetOver(j) /\ failed' = [failed EXCEPT ![j] = TRUE] /\ failed'[j] = TRUE
BY DEF Shape, TargetFails, Set

(* A target that has failed: nothing is known to be written.               *)
LEMMA FailedTarget ==
    ASSUME Inv, NEW j \in Jobs, job' = job, pc[j] \in Applying, pos[j] < Len(targets[j]), TargetFails(j),
           UNCHANGED <<layer, arch, targets, result, resolved>>, Marks(j), TargetId(j) \in tried'[j]
    PROVE  JobOK(j)'
BY Known, Fails, Over, TargetEnds

(* What a step at a target of j may touch besides its place.               *)
Within(j) ==
    /\ UNCHANGED <<job, layer, arch, targets, attempted, result, resolved>>
    /\ \E t, w : tried' = Set(tried, j, t) /\ written' = Set(written, j, w)
    /\ \E b \in BOOLEAN : failed' = Set(failed, j, b)
    /\ tags' \in [Refs -> Contents \union {None}]
    /\ local' \in [Refs -> Contents \union {None}]
    /\ boot' \in [Dirs -> [Object -> Contents \union {None}]]

LEMMA TargetShape ==
    ASSUME Shape, NEW j \in Jobs, Within(j),
           NEW p \in Applying, pc' = Set(pc, j, p),
           NEW n \in Nat, pos' = Set(pos, j, n),
           NEW o \in 0..3, objects' = Set(objects, j, o),
           NEW c \in Contents \union {None}, read' = Set(read, j, c)
    PROVE  Shape' /\ \A q \in Jobs \ {j} : Still(q)
<1>1. PICK t, w : tried' = Set(tried, j, t) /\ written' = Set(written, j, w)
  BY DEF Within
<1>2. PICK b \in BOOLEAN : failed' = Set(failed, j, b)
  BY DEF Within
<1>3. Shape'
  <2>1. UNCHANGED <<job, layer, arch, targets, attempted, result, resolved>>
    BY DEF Within
  <2>2. /\ tags' \in [Refs -> Contents \union {None}]
        /\ local' \in [Refs -> Contents \union {None}]
        /\ boot' \in [Dirs -> [Object -> Contents \union {None}]]
    BY DEF Within
  <2>3. pc' \in [Jobs -> {"layer", "resolve", "target", "read", "write", "ended", "killed"}]
    BY DEF Shape, Set, Applying
  <2>4. pos' \in [Jobs -> Nat] /\ objects' \in [Jobs -> 0..3] /\ read' \in [Jobs -> Contents \union {None}]
    BY DEF Shape, Set
  <2>5. failed' \in [Jobs -> BOOLEAN] /\ tried' = [q \in Jobs |-> tried'[q]]
        /\ written' = [q \in Jobs |-> written'[q]]
    BY <1>1, <1>2 DEF Shape, Set
  <2> QED
    BY <2>1, <2>2, <2>3, <2>4, <2>5 DEF Shape
<1>4. ASSUME NEW q \in Jobs \ {j} PROVE Still(q)
  <2>1. /\ pc'[q] = pc[q] /\ pos'[q] = pos[q] /\ read'[q] = read[q] /\ failed'[q] = failed[q]
        /\ tried'[q] = tried[q] /\ written'[q] = written[q]
    BY <1>1, <1>2 DEF Shape, Set
  <2> QED
    BY <2>1 DEF Still, Within
<1> QED
  BY <1>3, <1>4

LEMMA OverShape ==
    ASSUME Shape, NEW j \in Jobs, Within(j), TargetOver(j)
    PROVE  Shape' /\ \A q \in Jobs \ {j} : Still(q)
<1>1. pos[j] + 1 \in Nat
  BY DEF Shape
<1>2. /\ pc' = Set(pc, j, "target") /\ pos' = Set(pos, j, pos[j] + 1)
      /\ objects' = Set(objects, j, 0) /\ read' = Set(read, j, None)
  BY DEF TargetOver, Goto, Set
<1>3. 0 \in 0..3 /\ "target" \in Applying /\ None \in Contents \union {None}
  BY DEF Applying
<1> QED
  BY <1>1, <1>2, <1>3, TargetShape

(* A job that stays at its target: its own place.                          *)
LEMMA StayShape ==
    ASSUME Shape, NEW j \in Jobs, Within(j), NEW p \in Applying, pc' = Set(pc, j, p), pos' = pos,
           NEW o \in 0..3, objects' = Set(objects, j, o),
           NEW c \in Contents \union {None}, read' = Set(read, j, c)
    PROVE  Shape' /\ \A q \in Jobs \ {j} : Still(q)
<1>1. pos[j] \in Nat /\ pos' = Set(pos, j, pos[j])
  BY DEF Shape, Set
<1> QED
  BY <1>1, TargetShape

(* A variable that does not change, as one that is set to what it was.     *)
LEMMA SetToItself ==
    ASSUME Shape, NEW j \in Jobs
    PROVE  /\ objects = Set(objects, j, objects[j]) /\ objects[j] \in 0..3
           /\ read = Set(read, j, read[j]) /\ read[j] \in Contents \union {None}
           /\ pc = Set(pc, j, pc[j])
           /\ tried = Set(tried, j, tried[j]) /\ written = Set(written, j, written[j])
           /\ failed = Set(failed, j, failed[j]) /\ failed[j] \in BOOLEAN
<1>1. \A f : DOMAIN f = Jobs /\ (f = [q \in Jobs |-> f[q]]) => f = Set(f, j, f[j])
  BY DEF Set
<1>2. /\ objects = [q \in Jobs |-> objects[q]] /\ read = [q \in Jobs |-> read[q]]
      /\ pc = [q \in Jobs |-> pc[q]] /\ failed = [q \in Jobs |-> failed[q]]
      /\ DOMAIN objects = Jobs /\ DOMAIN read = Jobs /\ DOMAIN pc = Jobs /\ DOMAIN failed = Jobs
  BY DEF Shape
<1>3. /\ tried = [q \in Jobs |-> tried[q]] /\ written = [q \in Jobs |-> written[q]]
      /\ DOMAIN tried = Jobs /\ DOMAIN written = Jobs
  BY DEF Shape
<1>4. objects[j] \in 0..3 /\ read[j] \in Contents \union {None} /\ failed[j] \in BOOLEAN
  BY DEF Shape
<1> QED
  BY <1>1, <1>2, <1>3, <1>4

LEMMA InvBegin ==
    ASSUME Inv, NEW j \in Jobs, DryRun(j) \/ BeginTarget(j)
    PROVE  Inv'
<1>1. /\ job' = job /\ Shape /\ pc[j] = "target" /\ pc[j] \in Applying /\ pos[j] < Len(targets[j])
      /\ UNCHANGED <<layer, arch, targets, attempted, result, tags, boot, local, resolved, written>>
  BY Known DEF DryRun, BeginTarget, AtTarget, At, Applying, cursor, world, trace
<1>2. written[j] \subseteq tried[j] /\ read[j] = None
  BY <1>1, Known DEF Traces, Cursor
<1>3. /\ tags \in [Refs -> Contents \union {None}] /\ local \in [Refs -> Contents \union {None}]
      /\ boot \in [Dirs -> [Object -> Contents \union {None}]]
  BY <1>1 DEF Shape
<1>4. CASE DryRun(j)
  <2>1. TargetOver(j) /\ failed' = failed /\ tried' = tried /\ job[j].dry
    BY <1>4 DEF DryRun, trace
  <2>2. Within(j)
    BY <1>1, <1>3, <2>1, SetToItself DEF Within
  <2>3. Shape' /\ \A q \in Jobs \ {j} : Still(q)
    BY <1>1, <2>1, <2>2, OverShape
  <2>4. JobOK(j)'
    BY <1>1, <1>2, <2>1, Over, TargetEnds DEF Marks
  <2> QED
    BY <1>1, <2>3, <2>4, Combine
<1>5. CASE BeginTarget(j)
  <2>1. ~job[j].dry /\ tried' = Set(tried, j, tried[j] \union {TargetId(j)})
    BY <1>5 DEF BeginTarget
  <2>2. tried'[j] = tried[j] \union {TargetId(j)}
    BY <1>1, <2>1 DEF Shape, Set
  <2>3. TargetFails(j) \/ (Goto(j, "read") /\ UNCHANGED <<apply, failed>>)
    BY <1>5 DEF BeginTarget, BadCreds
  <2>4. CASE TargetFails(j)
    <3>1. Within(j)
      <4>1. failed' = Set(failed, j, TRUE) /\ written' = Set(written, j, written[j])
        BY <1>1, <2>4, SetToItself DEF TargetFails
      <4> QED
        BY <1>1, <1>3, <2>1, <4>1 DEF Within
    <3>2. Shape' /\ \A q \in Jobs \ {j} : Still(q)
      BY <1>1, <2>4, <3>1, OverShape DEF TargetFails
    <3>3. JobOK(j)'
      BY <1>1, <1>2, <2>2, <2>4, Fails, FailedTarget DEF Marks
    <3> QED
      BY <1>1, <3>2, <3>3, Combine
  <2>5. CASE Goto(j, "read") /\ UNCHANGED <<apply, failed>>
    <3>1. pc' = Set(pc, j, "read") /\ UNCHANGED <<pos, objects, read, failed>> /\ "read" \in Applying
      BY <2>5 DEF Goto, Set, apply, Applying
    <3>2. Within(j)
      BY <1>1, <1>3, <2>1, <3>1, SetToItself DEF Within
    <3>3. Shape' /\ \A q \in Jobs \ {j} : Still(q)
      BY <1>1, <3>1, <3>2, SetToItself, StayShape
    <3>4. pc'[j] = "read"
      BY <1>1, <3>1 DEF Shape, Set
    <3>5. JobOK(j)'
      BY <1>1, <1>2, <2>1, <2>2, <3>1, <3>4, TargetGoesOn DEF Marks
    <3> QED
      BY <1>1, <3>3, <3>5, Combine
  <2> QED
    BY <2>3, <2>4, <2>5
<1> QED
  BY <1>4, <1>5

LEMMA InvRead ==
    ASSUME Inv, NEW j \in Jobs, ReadTag(j) \/ PullSource(j)
    PROVE  Inv'
<1>1. /\ job' = job /\ Shape /\ pc[j] = "read" /\ pc[j] \in Applying
      /\ pos[j] < Len(targets[j]) /\ ~job[j].dry
      /\ UNCHANGED <<layer, arch, targets, attempted, result, tags, boot, resolved, tried, written>>
  BY Known DEF ReadTag, PullSource, At, Applying, Cursor, cursor, world, trace
<1>2. /\ written[j] \subseteq tried[j] /\ TargetId(j) \in tried[j]
      /\ tags \in [Refs -> Contents \union {None}] /\ local \in [Refs -> Contents \union {None}]
      /\ boot \in [Dirs -> [Object -> Contents \union {None}]]
  BY <1>1, Known DEF Traces, Shape
<1>3. Source(j) \in Refs /\ tags[Source(j)] \in Contents \union {None}
      /\ local[Source(j)] \in Contents \union {None}
  BY <1>1, <1>2, AtTheTarget DEF Source, Resolvable
<1>4. /\ local' \in [Refs -> Contents \union {None}]
      /\ TargetFails(j) \/ \E c \in Contents : Take(j, c)
  <2>1. CASE ReadTag(j)
    BY <1>2, <1>3, <2>1 DEF ReadTag, world
  <2>2. CASE PullSource(j)
    <3>1. CASE local[Source(j)] # None /\ Take(j, local[Source(j)]) /\ UNCHANGED local
      BY <1>2, <1>3, <3>1
    <3>2. CASE /\ local[Source(j)] = None /\ tags[Source(j)] # None
               /\ local' = Set(local, Source(j), tags[Source(j)])
               /\ Take(j, tags[Source(j)]) \/ TargetFails(j)
      BY <1>2, <1>3, <3>2 DEF Set
    <3>3. CASE TargetFails(j) /\ UNCHANGED local
      BY <1>2, <3>3
    <3> QED
      BY <2>2, <3>1, <3>2, <3>3 DEF PullSource
  <2> QED
    BY <2>1, <2>2
<1>5. CASE TargetFails(j)
  <2>1. Within(j)
    <3>1. failed' = Set(failed, j, TRUE)
      BY <1>5 DEF TargetFails
    <3> QED
      BY <1>1, <1>2, <1>4, <3>1, SetToItself DEF Within
  <2>2. Shape' /\ \A q \in Jobs \ {j} : Still(q)
    BY <1>1, <1>5, <2>1, OverShape DEF TargetFails
  <2>3. JobOK(j)'
    BY <1>1, <1>2, <1>5, Fails, FailedTarget DEF Marks
  <2> QED
    BY <1>1, <2>2, <2>3, Combine
<1>6. ASSUME NEW c \in Contents, Take(j, c) PROVE Inv'
  <2>1. /\ pc' = Set(pc, j, "write") /\ read' = Set(read, j, c) /\ UNCHANGED <<pos, objects, failed>>
        /\ "write" \in Applying /\ c # None
    BY <1>6, PromoteAssumption DEF Take, Goto, Set, Applying
  <2>2. Within(j)
    BY <1>1, <1>2, <1>4, <2>1, SetToItself DEF Within
  <2>3. Shape' /\ \A q \in Jobs \ {j} : Still(q)
    BY <1>1, <2>1, <2>2, SetToItself, StayShape
  <2>4. pc'[j] = "write" /\ read'[j] = c
    BY <1>1, <2>1 DEF Shape, Set
  <2>5. JobOK(j)'
    BY <1>1, <1>2, <2>1, <2>4, TargetGoesOn DEF Marks
  <2> QED
    BY <1>1, <2>3, <2>5, Combine
<1> QED
  BY <1>4, <1>5, <1>6

LEMMA InvWriteTag ==
    ASSUME Inv, NEW j \in Jobs, WriteTag(j)
    PROVE  Inv'
<1>1. /\ job' = job /\ Shape /\ pc[j] = "write" /\ pc[j] \in Applying
      /\ pos[j] < Len(targets[j]) /\ ~job[j].dry /\ Target(j).typ = "registry"
      /\ UNCHANGED <<layer, arch, targets, attempted, result, boot, local, resolved, tried>>
  BY Known DEF WriteTag, At, Applying, Cursor, cursor
<1>2. /\ written[j] \subseteq tried[j] /\ TargetId(j) \in tried[j]
      /\ tags \in [Refs -> Contents \union {None}] /\ local \in [Refs -> Contents \union {None}]
      /\ boot \in [Dirs -> [Object -> Contents \union {None}]]
      /\ read[j] \in Contents \union {None}
  BY <1>1, Known DEF Traces, Shape
<1>3. tags' = Set(tags, Target(j).dst, read[j]) \/ tags' = tags
  BY DEF WriteTag
<1>4. tags' \in [Refs -> Contents \union {None}]
  BY <1>2, <1>3 DEF Set
<1>5. (MarkWritten(j) /\ TargetOver(j) /\ UNCHANGED failed) \/ (MarkWritten(j) /\ TargetFails(j))
      \/ (UNCHANGED written /\ TargetFails(j))
  BY DEF WriteTag
<1>6. ASSUME MarkWritten(j)
      PROVE  /\ written' = Set(written, j, written[j] \union {TargetId(j)})
             /\ written'[j] = written[j] \union {TargetId(j)}
  BY <1>1, <1>6 DEF MarkWritten, Shape, Set
<1>7. CASE MarkWritten(j) /\ TargetOver(j) /\ UNCHANGED failed
  <2>1. Within(j)
    BY <1>1, <1>2, <1>4, <1>6, <1>7, SetToItself DEF Within
  <2>2. Shape' /\ \A q \in Jobs \ {j} : Still(q)
    BY <1>1, <1>7, <2>1, OverShape
  <2>3. JobOK(j)'
    BY <1>1, <1>2, <1>6, <1>7, Over, TargetEnds DEF Marks
  <2> QED
    BY <1>1, <2>2, <2>3, Combine
<1>8. CASE TargetFails(j) /\ (MarkWritten(j) \/ UNCHANGED written)
  <2>1. Within(j)
    <3>1. failed' = Set(failed, j, TRUE)
      BY <1>8 DEF TargetFails
    <3>2. \E w : written' = Set(written, j, w)
      BY <1>1, <1>6, <1>8, SetToItself
    <3> QED
      BY <1>1, <1>2, <1>4, <3>1, <3>2, SetToItself DEF Within
  <2>2. Shape' /\ \A q \in Jobs \ {j} : Still(q)
    BY <1>1, <1>8, <2>1, OverShape DEF TargetFails
  <2>3. Marks(j)
    BY <1>1, <1>2, <1>6, <1>8, Fails DEF Marks
  <2>4. JobOK(j)'
    BY <1>1, <1>2, <1>8, <2>3, FailedTarget
  <2> QED
    BY <1>1, <2>2, <2>4, Combine
<1> QED
  BY <1>5, <1>7, <1>8

LEMMA InvUpload ==
    ASSUME Inv, NEW j \in Jobs, UploadObject(j) \/ Materialized(j)
    PROVE  Inv'
<1>1. /\ job' = job /\ Shape /\ pc[j] = "write" /\ pc[j] \in Applying
      /\ pos[j] < Len(targets[j]) /\ ~job[j].dry /\ Target(j).typ = "s3"
      /\ UNCHANGED <<layer, arch, targets, attempted, result, tags, local, resolved, tried>>
  BY Known DEF UploadObject, Materialized, At, Applying, Cursor, cursor, world, trace
<1>2. /\ written[j] \subseteq tried[j] /\ TargetId(j) \in tried[j]
      /\ tags \in [Refs -> Contents \union {None}] /\ local \in [Refs -> Contents \union {None}]
      /\ boot \in [Dirs -> [Object -> Contents \union {None}]]
      /\ read[j] \in Contents \union {None} /\ read[j] # None /\ objects[j] \in 0..3
  BY <1>1, Known DEF Traces, Cursor, Shape
<1>3. boot' \in [Dirs -> [Object -> Contents \union {None}]]
  <2>1. CASE boot' = boot
    BY <1>2, <2>1
  <2>2. CASE boot' = [boot EXCEPT ![Target(j).dst][objects[j] + 1] = read[j]]
    BY <1>2, <2>2
  <2> QED
    BY <2>1, <2>2 DEF UploadObject, Materialized, world
<1>4. CASE UploadObject(j) /\ TargetFails(j)
  <2>1. written' = written /\ failed' = Set(failed, j, TRUE)
    BY <1>4 DEF UploadObject, TargetFails, trace
  <2>2. Within(j)
    BY <1>1, <1>2, <1>3, <2>1, SetToItself DEF Within
  <2>3. Shape' /\ \A q \in Jobs \ {j} : Still(q)
    BY <1>1, <1>4, <2>2, OverShape DEF TargetFails
  <2>4. JobOK(j)'
    BY <1>1, <1>2, <1>4, <2>1, Fails, FailedTarget DEF Marks
  <2> QED
    BY <1>1, <2>3, <2>4, Combine
<1>5. CASE UploadObject(j) /\ objects' = Set(objects, j, objects[j] + 1)
           /\ UNCHANGED <<pc, pos, read, failed>>
  <2>1. written' = written /\ objects[j] < 3
    BY <1>5 DEF UploadObject, trace
  <2>2. Within(j)
    BY <1>1, <1>2, <1>3, <1>5, <2>1, SetToItself DEF Within
  <2>3. objects[j] + 1 \in 0..3
    BY <1>2, <2>1
  <2>4. pc' = Set(pc, j, pc[j]) /\ read' = Set(read, j, read[j])
    BY <1>1, <1>5, SetToItself
  <2>5. Shape' /\ \A q \in Jobs \ {j} : Still(q)
    BY <1>1, <1>2, <1>5, <2>2, <2>3, <2>4, StayShape
  <2>6. JobOK(j)'
    BY <1>1, <1>2, <1>5, <2>1, TargetGoesOn DEF Marks
  <2> QED
    BY <1>1, <2>5, <2>6, Combine
<1>6. CASE Materialized(j)
  <2>1. /\ TargetOver(j) /\ failed' = failed
        /\ written' = Set(written, j, written[j] \union {TargetId(j)})
    BY <1>6 DEF Materialized, MarkWritten
  <2>2. written'[j] = written[j] \union {TargetId(j)}
    BY <1>1, <2>1 DEF Shape, Set
  <2>3. Within(j)
    BY <1>1, <1>2, <1>3, <2>1, SetToItself DEF Within
  <2>4. Shape' /\ \A q \in Jobs \ {j} : Still(q)
    BY <1>1, <2>1, <2>3, OverShape
  <2>5. JobOK(j)'
    BY <1>1, <1>2, <2>1, <2>2, Over, TargetEnds DEF Marks
  <2> QED
    BY <1>1, <2>4, <2>5, Combine
<1> QED
  BY <1>4, <1>5, <1>6 DEF UploadObject

LEMMA InvLayerDone ==
    ASSUME Inv, NEW j \in Jobs, LayerDone(j)
    PROVE  Inv'
<1>1. /\ job' = job /\ Shape /\ pc[j] = "target" /\ layer[j] <= Len(job[j].layers)
      /\ pos[j] = Len(targets[j]) /\ NextLayer(j) /\ arch[j] = Len(LayerOf(j))
      /\ TargetsOf(LayerOf(j), targets[j], arch[j])
      /\ UNCHANGED <<pos, objects, read, failed, result, tags, boot, local, resolved, tried, written>>
  BY Known DEF LayerDone, At, Cursor, Targets, Working, Applying, apply, world, trace
<1>2. attempted' = Set(attempted, j, TRUE)
  BY DEF LayerDone
<1>3. LayerIds(j, layer[j]) \subseteq Dealt(j)
  BY <1>1, CurrentIds DEF Dealt
<1>4. /\ pc' = [pc EXCEPT ![j] = "layer"] /\ layer' = [layer EXCEPT ![j] = layer[j] + 1]
      /\ arch' = [arch EXCEPT ![j] = 0] /\ targets' = [targets EXCEPT ![j] = <<>>]
  BY <1>1 DEF NextLayer, Goto, Set
<1>5. Shape'
  BY <1>1, <1>2, <1>4 DEF Shape, Set
<1>6. \A q \in Jobs \ {j} : Still(q)
  BY <1>1, <1>4 DEF Shape, Still
<1>7. JobOK(j)'
  <2>1. /\ ~job[j].dry => Dealt(j) \subseteq tried[j]
        /\ ~job[j].dry /\ ~failed[j] => Dealt(j) \subseteq written[j]
    BY <1>1, Known DEF Traces, Applying
  <2>2. DOMAIN failed' = Jobs
    BY <1>1 DEF Shape
  <2> QED
    BY <1>1, <1>3, <2>1, <2>2, InvNextLayer
<1> QED
  BY <1>1, <1>5, <1>6, <1>7, Combine

LEMMA InvKill ==
    ASSUME Inv, NEW j \in Jobs, Kill(j)
    PROVE  Inv'
<1>1. /\ job' = job /\ Shape /\ pc[j] \notin {"ended", "killed"} /\ pc' = [pc EXCEPT ![j] = "killed"]
      /\ UNCHANGED <<layer, arch, targets, pos, objects, read, failed, attempted, result,
                     tags, boot, local, resolved, tried, written>>
  BY Known DEF Kill, Goto, cursor, apply, world, trace
<1>2. Shape'
  BY <1>1 DEF Shape
<1>3. \A q \in Jobs \ {j} : Still(q)
  BY <1>1 DEF Shape, Still
<1>4. pc'[j] = "killed"
  BY <1>1 DEF Shape
<1>5. Ids(j)' = Ids(j) /\ \A l : LayerIds(j, l)' = LayerIds(j, l)
  BY <1>1, JobsStay
<1>6. Cursor(j)'
  BY <1>1, <1>4, Known DEF Cursor, Working, Applying
<1>7. Targets(j)' /\ OneArch(j)'
  BY <1>1, <1>4, Known DEF Targets, OneArch, Working, Applying
<1>8. Traces(j)'
  BY <1>1, <1>4, <1>5, Known DEF Traces, Applying
<1> QED
  BY <1>1, <1>2, <1>3, <1>6, <1>7, <1>8, Combine DEF JobOK

LEMMA InvPush ==
    ASSUME Inv, NEW r \in Sources, NEW b \in Builds, Push(r, b)
    PROVE  Inv'
<1>1. /\ job' = job /\ r \in Refs /\ tags' = [tags EXCEPT ![r] = <<r, b>>]
      /\ UNCHANGED <<pc, layer, arch, targets, pos, objects, read, failed, attempted, result,
                     boot, local, resolved, tried, written>>
  BY DEF Push, Set, Sources, cursor, apply, trace
<1>2. Shape'
  <2>1. <<r, b>> \in Contents
    BY <1>1 DEF Contents
  <2> QED
    BY <1>1, <2>1 DEF Inv, Shape
<1>3. ASSUME NEW q \in Jobs PROVE JobOK(q)'
  BY <1>1, Bystander DEF Inv, Still
<1> QED
  BY <1>2, <1>3 DEF Inv

LEMMA InvUnchanged ==
    ASSUME Inv, UNCHANGED vars
    PROVE  Inv'
<1>1. UNCHANGED <<job, pc, layer, arch, targets, pos, objects, read, failed, attempted, result,
                  tags, boot, local, resolved, tried, written>>
  BY DEF vars, cursor, apply, world, trace
<1>2. Shape'
  BY <1>1 DEF Inv, Shape
<1>3. ASSUME NEW q \in Jobs PROVE JobOK(q)'
  BY <1>1, Bystander DEF Inv, Still
<1> QED
  BY <1>2, <1>3 DEF Inv

LEMMA InvStep == Inv /\ [Next]_vars => Inv'
<1> SUFFICES ASSUME Inv, [Next]_vars PROVE Inv'
  OBVIOUS
<1>1. ASSUME NEW j \in Jobs, Layers(j) \/ Resolve(j) \/ Apply(j) \/ Kill(j) PROVE Inv'
  BY <1>1, InvLayers, InvResolve, InvBegin, InvRead, InvWriteTag, InvUpload, InvLayerDone, InvKill
     DEF Apply
<1>2. ASSUME NEW r \in Sources, NEW b \in Builds, Push(r, b) PROVE Inv'
  BY <1>2, InvPush
<1>3. CASE UNCHANGED vars
  BY <1>3, InvUnchanged
<1> QED
  BY <1>1, <1>2, <1>3 DEF Next, Finished

LEMMA AlwaysInv == Spec => []Inv
BY InvInit, InvStep, PTL DEF Spec

-----------------------------------------------------------------------------
(* A promote that ends with nil, and is not a dry run, has written every   *)
(* target of every layer it was given, whatever fails, is rebuilt or is    *)
(* promoted at the same time (runPromote, promoteLayer).                   *)
THEOREM NilIsReleased == Spec => []NilMeansReleased
<1>1. ASSUME Inv, NEW j \in Jobs, result[j] = "nil", ~job[j].dry PROVE written[j] = Ids(j)
  <2>1. /\ layer[j] = Len(job[j].layers) + 1 /\ ~failed[j] /\ Len(job[j].layers) \in Nat
        /\ job \in [Jobs -> Inputs] /\ written[j] \subseteq Ids(j)
    BY <1>1, Known DEF Cursor, Traces, Shape
  <2>2. \A l \in 1..Len(job[j].layers) : LayerIds(j, l) \subseteq written[j]
    BY <1>1, <2>1, Known DEF Traces
  <2>3. Ids(j) \subseteq written[j]
    BY <2>1, <2>2, InIds
  <2> QED
    BY <2>1, <2>3
<1>2. Inv => NilMeansReleased
  BY <1>1 DEF NilMeansReleased
<1> QED
  BY <1>2, AlwaysInv, PTL

(* A promote that was not killed has tried each target of each layer it    *)
(* could resolve: no failure withholds the rest (promoteLayer).            *)
THEOREM NoTargetWithheld == Spec => []EveryTargetTried
<1>1. ASSUME Inv, NEW j \in Jobs, pc[j] = "ended", ~job[j].dry
      PROVE  tried[j] = {id \in Ids(j) : id[1] \in resolved[j]}
  <2>1. /\ layer[j] = Len(job[j].layers) + 1 /\ Len(job[j].layers) \in Nat
        /\ job \in [Jobs -> Inputs] /\ tried[j] \subseteq {id \in Ids(j) : id[1] \in resolved[j]}
    BY <1>1, Known DEF Cursor, Traces, Shape
  <2>2. ASSUME NEW id \in Ids(j), id[1] \in resolved[j] PROVE id \in tried[j]
    <3>1. PICK l \in 1..Len(job[j].layers) : id \in LayerIds(j, l)
      BY <2>1, InIds
    <3>2. id[1] = l /\ l < layer[j]
      BY <2>1, <3>1, InLayerIds
    <3> QED
      BY <1>1, <2>2, <3>1, <3>2, Known DEF Traces
  <2> QED
    BY <2>1, <2>2
<1>2. Inv => EveryTargetTried
  BY <1>1 DEF EveryTargetTried, At
<1> QED
  BY <1>2, AlwaysInv, PTL

(* Nothing of a layer is written before all of its arches are resolved     *)
(* (promoteLayer).                                                         *)
THEOREM ResolvedFirst == Spec => []ResolveBeforeWrite
<1>1. Inv => ResolveBeforeWrite
  BY Known DEF ResolveBeforeWrite, Traces
<1> QED
  BY <1>1, AlwaysInv, PTL

(* Two arches of a layer never write one registry reference in one promote *)
(* (promoteLayer).                                                         *)
THEOREM ArchesApart == Spec => []OneArchPerRef
<1>1. Inv => OneArchPerRef
  BY Known DEF OneArchPerRef, OneArch
<1> QED
  BY <1>1, AlwaysInv, PTL

(* Every variable has its type, and a target is looked at only while it is *)
(* one of the layer's.                                                     *)
THEOREM TypeCorrect == Spec => []TypeOK
<1>1. Inv => TypeOK
  <2> SUFFICES ASSUME Inv PROVE TypeOK
    OBVIOUS
  <2>1. Shape
    BY DEF Inv
  <2>2. ASSUME NEW j \in Jobs
        PROVE  /\ layer[j] \in 1..(Len(job[j].layers) + 1)
               /\ pos[j] \in 0..Len(targets[j]) \/ At(j, "layer") \/ At(j, "ended") \/ At(j, "killed")
               /\ pc[j] \in {"read", "write"} => pos[j] < Len(targets[j])
               /\ At(j, "write") => read[j] # None
               /\ pc[j] \notin {"write", "killed"} => read[j] = None
               /\ At(j, "ended") <=> result[j] # "none"
               /\ written[j] \subseteq Ids(j) /\ tried[j] \subseteq Ids(j)
    <3>1. pos[j] \in 0..Len(targets[j]) \/ At(j, "layer") \/ At(j, "ended") \/ At(j, "killed")
      <4>1. pc[j] \in {"layer", "ended", "killed"} \/ pc[j] = "resolve" \/ pc[j] \in Applying
        BY <2>1 DEF Shape, Applying
      <4>2. CASE pc[j] \in Applying
        BY <4>2, Known DEF Cursor
      <4>3. CASE pc[j] = "resolve"
        BY <4>3, Known DEF Cursor
      <4> QED
        BY <4>1, <4>2, <4>3 DEF At
    <3> QED
      BY <3>1, Known DEF Cursor, Traces, At
  <2> QED
    BY <2>1, <2>2 DEF Shape, TypeOK
<1> QED
  BY <1>1, AlwaysInv, PTL

-----------------------------------------------------------------------------
(* Releases stay.                                                          *)

Ended == {"ended", "killed"}

(* Something is released at a destination, as the probe sees it.           *)
Held(d) == IF d \in Refs THEN tags[d] # None ELSE boot[d][1] # None

(* What a job has written is there; what it is about to write unforced,    *)
(* and what it has written, is of no job that was over at its first try.   *)
Stays(j) ==
    /\ pc[j] \notin {"write", "killed"} => objects[j] = 0
    /\ pc[j] = "write" /\ Target(j).typ = "s3" /\ objects[j] > 0 => boot[Target(j).dst][1] # None
    /\ \A x \in written[j] : x[3] \in Refs \union Dirs /\ Held(x[3])
    /\ \A k \in before[j] :
          /\ pc[k] \in Ended
          /\ ~job[j].force => \A y \in written[k] :
                /\ \A x \in written[j] : x[3] # y[3]
                /\ pc[j] \in {"read", "write"} => Target(j).dst # y[3]

StaysInv == before \in [Jobs -> SUBSET Jobs] /\ \A j \in Jobs : Stays(j)

(* No release vanishes.                                                    *)
WorldKeeps ==
    /\ \A r \in Refs : tags[r] # None => tags'[r] # None
    /\ \A d \in Dirs : boot[d][1] # None => boot'[d][1] # None

Quiet(q) ==
    /\ pc'[q] = pc[q] /\ targets'[q] = targets[q] /\ pos'[q] = pos[q] /\ objects'[q] = objects[q]
    /\ written'[q] = written[q] /\ before'[q] = before[q]

(* What a step does to the job that takes it.                              *)
Leaves(j) == pc'[j] \notin {"read", "write"} /\ written'[j] = written[j]
                 /\ (pc'[j] # "killed" => objects'[j] = 0)
Begins(j) == /\ pc[j] = "target" /\ pc'[j] = "read" /\ UNCHANGED <<targets, pos, objects, written>>
             /\ pos[j] < Len(targets[j])
             /\ job[j].force \/ ~Present(Target(j))
Goes(j)   == /\ pc[j] \in {"read", "write"} /\ pc'[j] = "write" /\ UNCHANGED <<targets, pos, written>>
             /\ \/ objects' = objects /\ pc[j] = "read"
                \/ Target(j).typ = "s3" => boot'[Target(j).dst][1] # None
Writes(j) == /\ pc[j] = "write" /\ pc'[j] = "target" /\ objects'[j] = 0
             /\ written'[j] = written[j] \union {TargetId(j)}
             /\ \A d : d = Target(j).dst => Held(d)'

Bound(j) == \/ before'[j] = before[j]
            \/ tried[j] = {} /\ before'[j] = {k \in Jobs : pc[k] \in Ended}

StepOf(j) ==
    /\ job' = job /\ pc[j] \notin Ended /\ WorldKeeps /\ \A q \in Jobs \ {j} : Quiet(q)
    /\ before' \in [Jobs -> SUBSET Jobs] /\ Bound(j)
    /\ Leaves(j) \/ Begins(j) \/ Goes(j) \/ Writes(j)

LEMMA StaysOthers ==
    ASSUME Inv, StaysInv, NEW j \in Jobs, StepOf(j), NEW q \in Jobs \ {j}
    PROVE  Stays(q)'
<1>1. Quiet(q) /\ WorldKeeps /\ Stays(q) /\ job' = job /\ before[q] \subseteq Jobs
  BY DEF StepOf, StaysInv
<1>2. \A d \in Refs \union Dirs : Held(d) => Held(d)'
  BY <1>1 DEF Held, WorldKeeps
<1>3. Target(q)' = Target(q)
  BY <1>1 DEF Quiet, Target
<1>4. pc[q] = "write" => /\ Target(q).dst \in Refs \union Dirs
                         /\ Target(q).typ = "registry" <=> Target(q).dst \in Refs
  <2> SUFFICES ASSUME pc[q] = "write"
               PROVE  /\ Target(q).dst \in Refs \union Dirs
                      /\ Target(q).typ = "registry" <=> Target(q).dst \in Refs
    OBVIOUS
  <2>1. pc[q] \in Applying /\ pos[q] < Len(targets[q])
    BY Known DEF Cursor, Applying
  <2> QED
    BY <2>1, AtTheTarget DEF Resolvable
<1>5. \A k \in before[q] : k # j /\ pc'[k] = pc[k] /\ written'[k] = written[k]
  BY <1>1 DEF StepOf, Quiet, Stays
<1>6. pc'[q] = "write" /\ Target(q)'.typ = "s3" /\ objects'[q] > 0 => boot'[Target(q)'.dst][1] # None
  BY <1>1, <1>3, <1>4 DEF Quiet, Stays, WorldKeeps
<1>7. \A x \in written'[q] : x[3] \in Refs \union Dirs /\ Held(x[3])'
  BY <1>1, <1>2 DEF Quiet, Stays
<1>8. \A k \in before'[q] :
          /\ pc'[k] \in Ended
          /\ ~job[q].force => \A y \in written'[k] :
                /\ \A x \in written'[q] : x[3] # y[3]
                /\ pc'[q] \in {"read", "write"} => Target(q)'.dst # y[3]
  BY <1>1, <1>3, <1>5 DEF Quiet, Stays
<1> QED
  BY <1>1, <1>6, <1>7, <1>8 DEF Stays, Quiet

LEMMA StaysSelf ==
    ASSUME Inv, StaysInv, NEW j \in Jobs, StepOf(j)
    PROVE  Stays(j)'
<1>1. WorldKeeps /\ Stays(j) /\ job' = job /\ before[j] \subseteq Jobs /\ Bound(j)
  BY DEF StepOf, StaysInv
<1>2. \A d \in Refs \union Dirs : Held(d) => Held(d)'
  BY <1>1 DEF Held, WorldKeeps
<1>3. \A x \in written[j] : x[3] \in Refs \union Dirs /\ Held(x[3])'
  BY <1>1, <1>2 DEF Stays
<1>4. \A k \in before'[j] : /\ k \in Jobs /\ k # j /\ pc[k] \in Ended /\ pc'[k] = pc[k]
                            /\ written'[k] = written[k]
  <2>1. \A k \in before'[j] : k \in Jobs /\ pc[k] \in Ended
    BY <1>1 DEF Bound, Stays
  <2> QED
    BY <2>1 DEF StepOf, Quiet
(* A job that has tried nothing has written nothing.                       *)
<1>5. ~job[j].force => \A k \in before'[j] : \A y \in written[k] : \A x \in written[j] : x[3] # y[3]
  <2>1. CASE before'[j] = before[j]
    BY <1>1, <2>1 DEF Stays
  <2>2. CASE tried[j] = {}
    BY <2>2, Known DEF Traces
  <2> QED
    BY <1>1, <2>1, <2>2 DEF Bound
<1>6. pc[j] \in {"read", "write"} => before'[j] = before[j]
  <2> SUFFICES ASSUME pc[j] \in {"read", "write"} PROVE before'[j] = before[j]
    OBVIOUS
  <2>1. tried[j] # {}
    BY Known DEF Traces
  <2> QED
    BY <1>1, <2>1 DEF Bound
<1>7. CASE Leaves(j)
  BY <1>1, <1>3, <1>4, <1>5, <1>7 DEF Leaves, Stays
<1>8. pc[j] \in {"target", "read", "write"} /\ pos[j] < Len(targets[j]) =>
          /\ Target(j).dst \in Refs \union Dirs /\ TargetId(j)[3] = Target(j).dst
          /\ (Target(j).typ = "registry" <=> Target(j).dst \in Refs)
  BY AtTheTarget DEF Resolvable, Applying
<1>9. CASE Begins(j)
  <2>1. pc'[j] = "read" /\ Target(j)' = Target(j) /\ written' = written /\ objects'[j] = 0
    BY <1>1, <1>9 DEF Begins, Target, Stays
  <2>2. Present(Target(j)) <=> Held(Target(j).dst)
    BY <1>8, <1>9 DEF Begins, Present, Held
  <2>3. \A k \in before'[j] : ~job[j].force => \A y \in written[k] : Target(j).dst # y[3]
    <3> SUFFICES ASSUME NEW k \in before'[j], ~job[j].force, NEW y \in written[k]
                 PROVE  Target(j).dst # y[3]
      OBVIOUS
    <3>1. Held(y[3])
      BY <1>4 DEF StaysInv, Stays
    <3> QED
      BY <1>9, <2>2, <3>1 DEF Begins
  <2> QED
    BY <1>1, <1>3, <1>4, <1>5, <2>1, <2>3 DEF Stays
<1>10. CASE Goes(j)
  <2>1. pc'[j] = "write" /\ Target(j)' = Target(j) /\ written' = written
    BY <1>10 DEF Goes, Target
  <2>2. objects'[j] > 0 /\ Target(j).typ = "s3" => boot'[Target(j).dst][1] # None
    BY <1>1, <1>10 DEF Goes, Stays
  <2>3. \A k \in before'[j] : ~job[j].force => \A y \in written[k] : Target(j).dst # y[3]
    BY <1>1, <1>6, <1>10 DEF Goes, Stays
  <2> QED
    BY <1>1, <1>3, <1>4, <1>5, <2>1, <2>2, <2>3 DEF Stays
<1>11. CASE Writes(j)
  <2>1. pc'[j] = "target" /\ objects'[j] = 0 /\ pos[j] < Len(targets[j])
    BY <1>11, Known DEF Writes, Cursor
  <2>2. Target(j).dst \in Refs \union Dirs /\ TargetId(j)[3] = Target(j).dst
        /\ (\A d : d = Target(j).dst => Held(d)')
    BY <1>8, <1>11, <2>1 DEF Writes
  <2>3. \A k \in before'[j] : ~job[j].force => \A y \in written[k] : Target(j).dst # y[3]
    BY <1>1, <1>6, <1>11 DEF Writes, Stays
  <2>4. written'[j] = written[j] \union {TargetId(j)}
    BY <1>11 DEF Writes
  <2>5. \A x \in written'[j] : x[3] \in Refs \union Dirs /\ Held(x[3])'
    BY <1>3, <2>2, <2>4
  <2>6. \A k \in before'[j] : /\ pc'[k] \in Ended
                              /\ ~job[j].force => \A y \in written'[k] : \A x \in written'[j] : x[3] # y[3]
    BY <1>4, <1>5, <2>2, <2>3, <2>4
  <2> QED
    BY <1>1, <2>1, <2>5, <2>6 DEF Stays
<1> QED
  BY <1>7, <1>9, <1>10, <1>11 DEF StepOf

(* A step of a job that changes neither the world, nor what the job has    *)
(* written, nor before.                                                    *)
LEMMA StepLeaves ==
    ASSUME Inv, StaysInv, NEW j \in Jobs, job' = job, pc[j] \notin Ended,
           UNCHANGED <<tags, boot, written, before>>,
           NEW p \in {"layer", "resolve", "target", "ended", "killed"}, pc' = Set(pc, j, p),
           targets' = targets \/ \E ts : targets' = Set(targets, j, ts),
           pos' = pos \/ \E n : pos' = Set(pos, j, n),
           (objects' = objects /\ (pc[j] # "write" \/ p = "killed")) \/ objects' = Set(objects, j, 0)
    PROVE  StepOf(j)
<1>1. Shape /\ before \in [Jobs -> SUBSET Jobs] /\ Stays(j)
  BY Known DEF StaysInv
<1>2. WorldKeeps
  BY DEF WorldKeeps
<1>3. \A q \in Jobs \ {j} : Quiet(q)
  BY <1>1 DEF Quiet, Set, Shape
<1>4. pc'[j] = p
  BY <1>1 DEF Set, Shape
<1>5. p # "killed" => objects'[j] = 0
  BY <1>1 DEF Set, Shape, Stays, Ended
<1> QED
  BY <1>1, <1>2, <1>3, <1>4, <1>5 DEF StepOf, Leaves, Bound

LEMMA StaysLayers ==
    ASSUME Inv, StaysInv, NEW j \in Jobs, Layers(j) \/ Resolve(j) \/ LayerDone(j) \/ Kill(j)
    PROVE  StepOf(j)
<1>1. /\ job' = job /\ UNCHANGED <<tags, boot, written, before, objects>> /\ pc[j] \notin Ended
      /\ pos' = pos \/ \E n : pos' = Set(pos, j, n)
      /\ targets' = targets \/ \E ts : targets' = Set(targets, j, ts)
  BY DEF Layers, Resolve, StartLayer, ArchExcluded, NoTarget, NextLayer, End, ResolveArch, Resolved,
         ResolveFails, NothingResolved, AllResolved, LayerDone, Kill, At, Ended, cursor, apply, world, trace
<1>2. \/ pc[j] # "write" /\ \E p \in {"layer", "resolve", "target", "ended"} : pc' = Set(pc, j, p)
      \/ pc' = Set(pc, j, "killed")
  <2>1. CASE ResolveArch(j)
    <3>1. pc' = pc /\ pc[j] = "resolve"
      BY <2>1 DEF ResolveArch, Resolved, At
    <3> QED
      BY <3>1, Known, SetToItself
  <2>2. CASE ~ResolveArch(j)
    BY <2>2 DEF Layers, Resolve, StartLayer, ArchExcluded, NoTarget, NextLayer, End, ResolveFails,
                NothingResolved, AllResolved, LayerDone, Kill, At, Goto, Set
  <2> QED
    BY <2>1, <2>2
<1> QED
  BY <1>1, <1>2, StepLeaves

(* The target is over and nothing was marked as written.                   *)
LEMMA StepOver ==
    ASSUME Inv, StaysInv, NEW j \in Jobs, job' = job, pc[j] \in Applying, TargetOver(j), WorldKeeps,
           UNCHANGED <<targets, written>>, before' \in [Jobs -> SUBSET Jobs], Bound(j),
           \A q \in Jobs \ {j} : before'[q] = before[q]
    PROVE  StepOf(j)
<1>1. Shape
  BY Known
<1>2. \A q \in Jobs \ {j} : Quiet(q)
  BY <1>1, Over DEF Quiet, Shape
<1>3. pc'[j] = "target" /\ objects'[j] = 0
  BY <1>1, Over DEF Shape
<1> QED
  BY <1>2, <1>3 DEF StepOf, Leaves, Ended, Applying

LEMMA StaysBegin ==
    ASSUME Inv, StaysInv, NEW j \in Jobs, DryRun(j) \/ BeginTarget(j)
    PROVE  StepOf(j)
<1>1. /\ job' = job /\ Shape /\ pc[j] = "target" /\ pc[j] \in Applying /\ pos[j] < Len(targets[j])
      /\ UNCHANGED <<targets, tags, boot, written>>
      /\ before \in [Jobs -> SUBSET Jobs]
  BY Known DEF DryRun, BeginTarget, AtTarget, At, Applying, cursor, world, trace, StaysInv
<1>2. WorldKeeps
  BY <1>1 DEF WorldKeeps
<1>3. before' = before \/ (tried[j] = {} /\ before' = Set(before, j, {k \in Jobs : pc[k] \in Ended}))
  BY DEF DryRun, BeginTarget, Ended, trace
<1>4. before' \in [Jobs -> SUBSET Jobs] /\ Bound(j) /\ \A q \in Jobs \ {j} : before'[q] = before[q]
  BY <1>1, <1>3 DEF Set, Bound
<1>5. CASE TargetOver(j)
  BY <1>1, <1>2, <1>4, <1>5, StepOver
<1>6. CASE BeginTarget(j) /\ ~TargetOver(j)
  <2>1. /\ job[j].force \/ ~Present(Target(j))
        /\ pc' = [pc EXCEPT ![j] = "read"] /\ UNCHANGED <<pos, objects>>
    BY <1>6 DEF BeginTarget, BadCreds, TargetFails, Goto, apply
  <2>2. \A q \in Jobs \ {j} : Quiet(q)
    BY <1>1, <1>4, <2>1 DEF Quiet, Shape
  <2>3. pc'[j] = "read"
    BY <1>1, <2>1 DEF Shape
  <2> QED
    BY <1>1, <1>2, <1>4, <2>1, <2>2, <2>3 DEF StepOf, Begins, Ended
<1> QED
  BY <1>5, <1>6 DEF DryRun

LEMMA StaysRead ==
    ASSUME Inv, StaysInv, NEW j \in Jobs, ReadTag(j) \/ PullSource(j)
    PROVE  StepOf(j)
<1>1. /\ job' = job /\ Shape /\ pc[j] = "read" /\ pc[j] \in Applying
      /\ UNCHANGED <<targets, tags, boot, written, before>>
      /\ before \in [Jobs -> SUBSET Jobs]
  BY Known DEF ReadTag, PullSource, At, Applying, cursor, world, trace, StaysInv
<1>2. WorldKeeps /\ Bound(j)
  BY <1>1 DEF WorldKeeps, Bound
<1>3. TargetFails(j) \/ \E c : Take(j, c)
  BY DEF ReadTag, PullSource
<1>4. CASE TargetFails(j)
  BY <1>1, <1>2, <1>4, StepOver DEF TargetFails
<1>5. ASSUME NEW c, Take(j, c) PROVE StepOf(j)
  <2>1. pc' = [pc EXCEPT ![j] = "write"] /\ UNCHANGED <<pos, objects>>
    BY <1>5 DEF Take, Goto
  <2>2. \A q \in Jobs \ {j} : Quiet(q)
    BY <1>1, <2>1 DEF Quiet, Shape
  <2>3. pc'[j] = "write"
    BY <1>1, <2>1 DEF Shape
  <2> QED
    BY <1>1, <1>2, <2>1, <2>2, <2>3 DEF StepOf, Goes, Ended
<1> QED
  BY <1>3, <1>4, <1>5

LEMMA StepWrites ==
    ASSUME Inv, StaysInv, NEW j \in Jobs, job' = job, pc[j] = "write", TargetOver(j), WorldKeeps,
           UNCHANGED <<targets, before>>, MarkWritten(j), \A d : d = Target(j).dst => Held(d)'
    PROVE  StepOf(j)
<1>1. Shape /\ before \in [Jobs -> SUBSET Jobs]
  BY Known DEF StaysInv
<1>2. written' = [written EXCEPT ![j] = written[j] \union {TargetId(j)}]
  BY DEF MarkWritten, Set
<1>3. \A q \in Jobs \ {j} : Quiet(q)
  BY <1>1, <1>2, Over DEF Quiet, Shape
<1>4. pc'[j] = "target" /\ objects'[j] = 0 /\ written'[j] = written[j] \union {TargetId(j)}
  BY <1>1, <1>2, Over DEF Shape
<1> QED
  BY <1>1, <1>3, <1>4 DEF StepOf, Writes, Bound, Ended

LEMMA StaysWriteTag ==
    ASSUME Inv, StaysInv, NEW j \in Jobs, WriteTag(j)
    PROVE  StepOf(j)
<1>1. /\ job' = job /\ Shape /\ pc[j] = "write" /\ pc[j] \in Applying /\ pos[j] < Len(targets[j])
      /\ Target(j).typ = "registry" /\ read[j] # None
      /\ UNCHANGED <<targets, boot, before>>
      /\ before \in [Jobs -> SUBSET Jobs]
  BY Known DEF WriteTag, At, Applying, Cursor, cursor, StaysInv
<1>2. Target(j).dst \in Refs
  BY <1>1, AtTheTarget
<1>3. tags' = Set(tags, Target(j).dst, read[j]) \/ tags' = tags
  BY DEF WriteTag
<1>4. WorldKeeps
  BY <1>1, <1>3 DEF WorldKeeps, Set, Shape
<1>5. CASE MarkWritten(j) /\ TargetOver(j) /\ tags' = Set(tags, Target(j).dst, read[j])
  <2>1. \A d : d = Target(j).dst => tags'[d] # None
    BY <1>1, <1>2, <1>5 DEF Set, Shape
  <2> QED
    BY <1>1, <1>2, <1>4, <1>5, <2>1, StepWrites DEF Held
<1>6. CASE UNCHANGED written /\ TargetFails(j)
  BY <1>1, <1>4, <1>6, StepOver DEF TargetFails, Bound
<1> QED
  BY <1>5, <1>6 DEF WriteTag, TargetFails

LEMMA StaysUpload ==
    ASSUME Inv, StaysInv, NEW j \in Jobs, UploadObject(j) \/ Materialized(j)
    PROVE  StepOf(j)
<1>1. /\ job' = job /\ Shape /\ pc[j] = "write" /\ pc[j] \in Applying /\ pos[j] < Len(targets[j])
      /\ Target(j).typ = "s3" /\ read[j] # None /\ objects[j] \in 0..3
      /\ UNCHANGED <<targets, tags, before>>
      /\ before \in [Jobs -> SUBSET Jobs] /\ Stays(j)
  BY Known DEF UploadObject, Materialized, At, Applying, Cursor, Shape, cursor, world, trace, StaysInv
<1>2. Target(j).dst \in Dirs /\ Target(j).dst \notin Refs
  BY <1>1, AtTheTarget DEF Resolvable
<1>3. boot' = [boot EXCEPT ![Target(j).dst][objects[j] + 1] = read[j]] \/ boot' = boot
  BY DEF UploadObject, Materialized, world
<1>4. boot \in [Dirs -> [Object -> Contents \union {None}]]
  BY <1>1 DEF Shape
<1>5. WorldKeeps
  <2>1. ASSUME NEW d \in Dirs, boot[d][1] # None PROVE boot'[d][1] # None
    <3>1. CASE boot' = [boot EXCEPT ![Target(j).dst][objects[j] + 1] = read[j]]
      BY <1>1, <1>2, <1>4, <2>1, <3>1 DEF Object
    <3> QED
      BY <1>3, <2>1, <3>1
  <2> QED
    BY <1>1, <2>1 DEF WorldKeeps
<1>6. CASE UploadObject(j) /\ TargetFails(j)
  BY <1>1, <1>5, <1>6, StepOver DEF UploadObject, TargetFails, Bound, trace
<1>7. CASE UploadObject(j) /\ ~TargetFails(j)
  <2>1. /\ boot' = [boot EXCEPT ![Target(j).dst][objects[j] + 1] = read[j]]
        /\ objects' = [objects EXCEPT ![j] = objects[j] + 1] /\ UNCHANGED <<pc, pos, written>>
    BY <1>7 DEF UploadObject, Set, trace
  <2>2. \A q \in Jobs \ {j} : Quiet(q)
    BY <1>1, <2>1 DEF Quiet, Shape
  <2>3. boot'[Target(j).dst][1] # None
    <3>1. CASE objects[j] = 0
      BY <1>1, <1>2, <1>4, <2>1, <3>1 DEF Object
    <3>2. CASE objects[j] > 0
      BY <1>1, <1>2, <1>5, <3>2 DEF Stays, WorldKeeps
    <3> QED
      BY <1>1, <3>1, <3>2
  <2> QED
    BY <1>1, <1>5, <2>1, <2>2, <2>3 DEF StepOf, Goes, Ended, Bound
<1>8. CASE Materialized(j)
  <2>1. boot[Target(j).dst][1] # None /\ boot' = boot /\ TargetOver(j) /\ MarkWritten(j)
    BY <1>1, <1>8 DEF Materialized, Stays, world
  <2> QED
    BY <1>1, <1>2, <1>5, <2>1, StepWrites DEF Held
<1> QED
  BY <1>6, <1>7, <1>8

LEMMA StaysStep == Inv /\ StaysInv /\ [Next]_vars => StaysInv'
<1> SUFFICES ASSUME Inv, StaysInv, [Next]_vars PROVE StaysInv'
  OBVIOUS
<1>1. ASSUME NEW j \in Jobs, Layers(j) \/ Resolve(j) \/ Apply(j) \/ Kill(j) PROVE StaysInv'
  <2>1. StepOf(j)
    BY <1>1, StaysLayers, StaysBegin, StaysRead, StaysWriteTag, StaysUpload DEF Apply
  <2>2. \A q \in Jobs : Stays(q)'
    BY <2>1, StaysOthers, StaysSelf
  <2> QED
    BY <2>1, <2>2 DEF StaysInv, StepOf
<1>2. ASSUME NEW q \in Jobs, UNCHANGED <<job, pc, targets, pos, objects, boot, written, before>>,
             \A r \in Refs : tags[r] # None => tags'[r] # None
      PROVE  Stays(q)'
  <2>1. \A d \in Refs \union Dirs : Held(d) => Held(d)'
    BY <1>2 DEF Held
  <2>2. Target(q)' = Target(q) /\ Stays(q)
    BY <1>2 DEF Target, StaysInv
  <2> QED
    BY <1>2, <2>1, <2>2 DEF Stays
<1>3. ASSUME NEW r \in Sources, NEW b \in Builds, Push(r, b) PROVE StaysInv'
  <2>1. /\ UNCHANGED <<job, pc, targets, pos, objects, boot, written, before>>
        /\ tags' = [tags EXCEPT ![r] = <<r, b>>] /\ r \in Refs /\ <<r, b>> # None
    BY <1>3, PromoteAssumption DEF Push, Set, Sources, Contents, cursor, apply, trace
  <2>2. \A x \in Refs : tags[x] # None => tags'[x] # None
    BY <2>1 DEF Inv, Shape
  <2> QED
    BY <1>2, <2>1, <2>2 DEF StaysInv
<1>4. CASE UNCHANGED vars
  BY <1>2, <1>4 DEF StaysInv, vars, cursor, apply, world, trace
<1> QED
  BY <1>1, <1>3, <1>4 DEF Next, Finished

LEMMA StaysInit == Init => StaysInv
BY DEF Init, StaysInv, Stays

(* A release that a promote has completed is not written again by an       *)
(* unforced promote that starts its targets later: the probe and the write *)
(* are two requests, but what it probes for never vanishes in between      *)
(* (RetagRegistry, MaterializeToS3).                                       *)
THEOREM ReleasesAreKept == Spec => []ReleasesStay
<1>1. StaysInv => ReleasesStay
  BY DEF StaysInv, Stays, ReleasesStay
<1> QED
  BY <1>1, InvInit, InvStep, StaysInit, StaysStep, PTL DEF Spec
-----------------------------------------------------------------------------
(* Releases have their source: the invariant.                              *)

Of(src, c) == c = None \/ c[1] = src

(* A content tag holds its own content, on the host too.                   *)
Pure == \A r \in Sources : Of(r, tags[r]) /\ Of(r, local[r])

(* What is at a destination is of the one source that may be released      *)
(* there.                                                                  *)
Landed == \A t \in Releases :
    IF t.dst \in Refs THEN Of(t.src, tags[t.dst])
    ELSE \A o \in Object : Of(t.src, boot[t.dst][o])

(* The targets resolved so far are targets of their arches, each with a    *)
(* source.                                                                 *)
Picked(arches, ts, n) ==
    /\ \A k \in 1..Len(ts) : \E i \in 1..Len(arches[ts[k].arch]) :
          ts[k].dst = arches[ts[k].arch][i].dst /\ ts[k].src = arches[ts[k].arch][i].src
    /\ \A a \in 1..n : \A i \in 1..Len(arches[a]) : arches[a][i].src # None

Sourced(j) == pc[j] \in Working => Picked(LayerOf(j), targets[j], arch[j])

(* All of a release is at its destination.                                 *)
Full(d) == IF d \in Refs THEN tags[d] # None ELSE \A o \in Object : boot[d][o] # None

(* What a job holds is of its target's source; what it has uploaded and    *)
(* written is there.                                                       *)
Holds(j) ==
    /\ pc[j] \notin {"write", "killed"} => objects[j] = 0
    /\ pc[j] = "write" => /\ Of(Target(j).src, read[j])
                          /\ Target(j).dst \notin Refs =>
                                \A o \in 1..objects[j] : boot[Target(j).dst][o] # None
    /\ \A id \in written[j] : Releasable(job[j].layers[id[1]]) /\ Full(id[3])

WorldOK == ReleasesApart /\ Pure /\ Landed

SourceOK == WorldOK /\ \A j \in Jobs : Sourced(j) /\ Holds(j)

(* The targets resolved stay targets of their arches.                      *)
LEMMA PickedNext ==
    ASSUME Inv, NEW j \in Jobs, pc[j] = "resolve", arch[j] < Len(LayerOf(j)),
           \A i \in DOMAIN Arch(j) : Arch(j)[i].src # None,
           Picked(LayerOf(j), targets[j], arch[j])
    PROVE  Picked(LayerOf(j), targets[j] \o Arch(j), arch[j] + 1)
<1> DEFINE old == targets[j]
           new == Arch(j)
           all == old \o new
           n   == arch[j] + 1
           mine == LayerOf(j)[n]
<1>1. /\ old \in Seq(Resolvable) /\ new \in Seq(Resolvable) /\ Len(old) \in Nat /\ Len(new) \in Nat
      /\ arch[j] \in Nat /\ n \in Nat
  BY Known, NextArch DEF Shape
<1>2. /\ Len(all) = Len(old) + Len(new)
      /\ \A k \in 1..Len(old) : all[k] = old[k]
      /\ \A k \in 1..Len(new) : all[Len(old) + k] = new[k]
  BY <1>1, Joined
<1>3. /\ Len(new) = Len(mine) /\ DOMAIN new = 1..Len(new)
      /\ \A i \in 1..Len(new) : new[i].arch = n /\ new[i].dst = mine[i].dst
  BY <1>1, NextArch
<1>4. \A i \in 1..Len(new) : new[i].src = mine[i].src /\ new[i].src # None
  <2>1. DOMAIN mine = DOMAIN new
    BY DEF Arch
  <2>2. ASSUME NEW i \in DOMAIN mine PROVE new[i].src = mine[i].src
    BY <2>2 DEF Arch
  <2> QED
    BY <1>3, <2>1, <2>2
<1> HIDE DEF all, old, new, n, mine
<1>5. ASSUME NEW k \in 1..Len(all)
      PROVE  \E i \in 1..Len(LayerOf(j)[all[k].arch]) :
                 /\ all[k].dst = LayerOf(j)[all[k].arch][i].dst
                 /\ all[k].src = LayerOf(j)[all[k].arch][i].src
  <2>1. CASE k <= Len(old)
    <3>1. k \in 1..Len(old) /\ all[k] = old[k]
      BY <1>1, <1>2, <2>1
    <3> QED
      BY <3>1 DEF Picked, old
  <2>2. CASE k > Len(old)
    <3>1. k - Len(old) \in 1..Len(new) /\ Len(old) + (k - Len(old)) = k
      BY <1>1, <1>2, <2>2
    <3>2. all[k] = new[k - Len(old)]
      BY <1>2, <3>1
    <3>3. /\ all[k].arch = n /\ k - Len(old) \in 1..Len(mine)
          /\ all[k].dst = mine[k - Len(old)].dst /\ all[k].src = mine[k - Len(old)].src
      BY <1>3, <1>4, <3>1, <3>2
    <3> QED
      BY <3>3 DEF mine
  <2> QED
    BY <1>1, <1>2, <2>1, <2>2
<1>6. ASSUME NEW a \in 1..n, NEW i \in 1..Len(LayerOf(j)[a]) PROVE LayerOf(j)[a][i].src # None
  <2>1. CASE a = n
    BY <1>3, <1>4, <2>1 DEF mine
  <2>2. CASE a # n
    <3>1. a \in 1..arch[j]
      BY <1>1, <2>2 DEF n
    <3> QED
      BY <3>1 DEF Picked
  <2> QED
    BY <2>1, <2>2
<1> QED
  BY <1>5, <1>6 DEF Picked, all, old, new, n

(* The target of a job is a release: of a layer that resolves, with a      *)
(* content tag for its source.                                             *)
LEMMA TargetReleases ==
    ASSUME Inv, NEW j \in Jobs, Sourced(j), pc[j] \in Applying, pos[j] < Len(targets[j])
    PROVE  /\ Releasable(LayerOf(j)) /\ Target(j).src \in Sources
           /\ \E t \in Releases : t.dst = Target(j).dst /\ t.src = Target(j).src
<1>1. /\ layer[j] \in 1..Len(job[j].layers) /\ arch[j] = Len(LayerOf(j)) /\ job \in [Jobs -> Inputs]
      /\ TargetsOf(LayerOf(j), targets[j], arch[j]) /\ Picked(LayerOf(j), targets[j], arch[j])
  BY Known DEF Cursor, Targets, Working, Shape, Sourced
<1> DEFINE arches == LayerOf(j)
<1>2. /\ DOMAIN arches = 1..Len(arches) /\ layer[j] \in DOMAIN job[j].layers
      /\ \A a \in 1..Len(arches) : /\ DOMAIN arches[a] = 1..Len(arches[a])
                                   /\ \A i \in 1..Len(arches[a]) : arches[a][i] \in TargetType
  <2>1. job[j].layers \in Seq(Seq(Seq(TargetType))) /\ layer[j] \in 1..Len(job[j].layers)
    BY <1>1, Layer
  <2>2. layer[j] \in DOMAIN job[j].layers /\ arches \in Seq(Seq(TargetType))
    BY <2>1 DEF LayerOf
  <2>3. \A a \in 1..Len(arches) : /\ DOMAIN arches[a] = 1..Len(arches[a])
                                  /\ \A i \in 1..Len(arches[a]) : arches[a][i] \in TargetType
    BY <1>1, <2>1, Layer DEF LayerOf
  <2>4. DOMAIN arches = 1..Len(arches)
    BY <2>2
  <2> QED
    BY <2>2, <2>3, <2>4
<1>3. Releasable(arches)
  <2>1. ASSUME NEW a \in 1..Len(arches), NEW b \in 1..Len(arches),
               NEW i \in 1..Len(arches[a]), NEW n \in 1..Len(arches[b]),
               arches[a][i].dst \in Refs, arches[a][i].dst = arches[b][n].dst
        PROVE  a = b
    <3>1. PICK k \in 1..Len(targets[j]) : targets[j][k].arch = a /\ targets[j][k].dst = arches[a][i].dst
      BY <1>1 DEF TargetsOf
    <3>2. PICK m \in 1..Len(targets[j]) : targets[j][m].arch = b /\ targets[j][m].dst = arches[b][n].dst
      BY <1>1 DEF TargetsOf
    <3>3. targets[j][k].dst \in Refs /\ targets[j][k].dst = targets[j][m].dst
      BY <2>1, <3>1, <3>2
    <3>4. k = m
      <4> HIDE DEF arches
      <4> QED
        BY <1>1, <3>3 DEF TargetsOf
    <3> QED
      BY <3>1, <3>2, <3>4
  <2>2. \A a \in 1..Len(arches) : \A i \in 1..Len(arches[a]) : arches[a][i].src # None
    BY <1>1 DEF Picked
  <2>3. /\ DOMAIN arches = 1..Len(arches)
        /\ \A a \in 1..Len(arches) : DOMAIN arches[a] = 1..Len(arches[a])
    BY <1>2
  <2> HIDE DEF arches
  <2>4. \A a \in DOMAIN arches : \A i \in DOMAIN arches[a] : arches[a][i].src # None
    BY <2>2, <2>3
  <2>5. ASSUME NEW a \in DOMAIN arches, NEW b \in DOMAIN arches,
               NEW i \in DOMAIN arches[a], NEW n \in DOMAIN arches[b],
               arches[a][i].dst \in Refs, arches[a][i].dst = arches[b][n].dst
        PROVE  a = b
    BY <2>1, <2>3, <2>5
  <2> QED
    BY <2>4, <2>5 DEF Releasable
<1>4. pos[j] + 1 \in 1..Len(targets[j])
  BY Known DEF Cursor
<1>5. Target(j).arch \in 1..Len(arches)
  BY <1>1, <1>4 DEF TargetsOf, Target
<1>6. PICK i \in 1..Len(arches[Target(j).arch]) :
          Target(j).dst = arches[Target(j).arch][i].dst /\ Target(j).src = arches[Target(j).arch][i].src
  BY <1>1, <1>4 DEF Picked, Target
<1> DEFINE t == arches[Target(j).arch][i]
<1>7. t \in TargetType /\ t.src # None
  BY <1>1, <1>2, <1>5 DEF Picked
<1>8. /\ job[j] \in Inputs /\ layer[j] \in DOMAIN job[j].layers /\ arches = job[j].layers[layer[j]]
      /\ Target(j).arch \in DOMAIN arches /\ i \in DOMAIN arches[Target(j).arch]
  BY <1>1, <1>2, <1>5 DEF LayerOf
<1>9. t \in Releases
  BY <1>3, <1>7, <1>8 DEF Releases
<1>10. t.src \in Sources
  BY <1>7, <1>8, TargetKinds DEF Sources
<1> QED
  BY <1>3, <1>6, <1>9, <1>10

-----------------------------------------------------------------------------
(* What a step does to the world.                                          *)

(* No object and no tag vanishes.                                          *)
Grows ==
    /\ \A r \in Refs : tags[r] # None => tags'[r] # None
    /\ \A d \in Dirs : \A o \in Object : boot[d][o] # None => boot'[d][o] # None

LEMMA ReleaseKinds ==
    ASSUME NEW t \in Releases
    PROVE  t \in TargetType /\ t.dst \in Refs \union Dirs /\ (t.dst \in Dirs => t.dst \notin Refs)
BY TargetKinds, PromoteAssumption DEF Releases

LEMMA WorldStays ==
    ASSUME WorldOK, UNCHANGED <<tags, boot, local>>
    PROVE  WorldOK' /\ Grows
BY DEF WorldOK, Pure, Landed, Grows

(* A release tag is written from the content tag it is of.                 *)
LEMMA TagReleased ==
    ASSUME Shape, WorldOK, NEW t \in Releases, t.dst \in Refs, NEW c, c # None, Of(t.src, c),
           tags' = Set(tags, t.dst, c), UNCHANGED <<boot, local>>
    PROVE  WorldOK' /\ Grows /\ tags'[t.dst] = c
<1>1. /\ tags'[t.dst] = c /\ \A r \in Refs : r # t.dst => tags'[r] = tags[r]
      /\ t.dst \notin Sources /\ \A u \in Releases : u.dst = t.dst => u.src = t.src
  BY DEF Shape, Set, WorldOK, ReleasesApart
<1>2. Pure'
  BY <1>1 DEF WorldOK, Pure, Sources
<1>3. Landed'
  <2>1. ASSUME NEW u \in Releases, u.dst \in Refs PROVE Of(u.src, tags'[u.dst])
    BY <1>1, <2>1 DEF WorldOK, Landed
  <2> QED
    BY <2>1 DEF WorldOK, Landed
<1>4. Grows
  BY <1>1 DEF Grows
<1> QED
  BY <1>1, <1>2, <1>3, <1>4 DEF WorldOK

(* So is an object of an S3 release.                                       *)
LEMMA ObjectReleased ==
    ASSUME Shape, WorldOK, NEW t \in Releases, t.dst \in Dirs, NEW n \in Object, NEW c, c # None,
           Of(t.src, c), boot' = [boot EXCEPT ![t.dst][n] = c], UNCHANGED <<tags, local>>
    PROVE  /\ WorldOK' /\ Grows /\ boot'[t.dst][n] = c
           /\ \A o \in Object : boot[t.dst][o] # None => boot'[t.dst][o] # None
<1>1. boot \in [Dirs -> [Object -> Contents \union {None}]]
  BY DEF Shape
<1>2. /\ boot'[t.dst][n] = c
      /\ \A d \in Dirs : \A o \in Object : d # t.dst \/ o # n => boot'[d][o] = boot[d][o]
  BY <1>1
<1>3. \A u \in Releases : u.dst = t.dst => u.src = t.src
  BY DEF WorldOK, ReleasesApart
<1>4. Landed'
  <2>1. ASSUME NEW u \in Releases, u.dst \notin Refs, NEW o \in Object PROVE Of(u.src, boot'[u.dst][o])
    <3>1. u.dst \in Dirs /\ Of(u.src, boot[u.dst][o])
      BY <2>1, ReleaseKinds DEF WorldOK, Landed
    <3> QED
      BY <1>2, <1>3, <3>1
  <2>2. ASSUME NEW u \in Releases, u.dst \in Refs PROVE Of(u.src, tags'[u.dst])
    BY <2>2 DEF WorldOK, Landed
  <2> QED
    BY <2>1, <2>2 DEF Landed
<1>5. Grows
  BY <1>2 DEF Grows
<1> QED
  BY <1>2, <1>4, <1>5 DEF WorldOK, Pure, Grows

(* A build pushes; an image is pulled.                                     *)
LEMMA WorldPushed ==
    ASSUME Shape, WorldOK, NEW r \in Sources, NEW b \in Builds, tags' = Set(tags, r, <<r, b>>),
           UNCHANGED <<boot, local>>
    PROVE  WorldOK' /\ Grows
<1>1. /\ r \in Refs /\ tags'[r] = <<r, b>> /\ \A x \in Refs : x # r => tags'[x] = tags[x]
      /\ \A u \in Releases : u.dst # r
  BY DEF Shape, Set, WorldOK, ReleasesApart, Sources
<1>2. <<r, b>> # None /\ Of(r, tags'[r])
  BY <1>1, PromoteAssumption DEF Contents, Of
<1>3. Pure'
  BY <1>1, <1>2 DEF WorldOK, Pure, Sources
<1>4. Landed' /\ Grows
  BY <1>1, <1>2 DEF WorldOK, Landed, Grows
<1> QED
  BY <1>3, <1>4 DEF WorldOK

LEMMA WorldPulled ==
    ASSUME Shape, WorldOK, NEW r \in Sources, local' = Set(local, r, tags[r]), UNCHANGED <<tags, boot>>
    PROVE  WorldOK' /\ Grows
<1>1. r \in Refs /\ local'[r] = tags[r] /\ \A x \in Refs : x # r => local'[x] = local[x]
  BY DEF Shape, Set, Sources
<1>2. Pure'
  BY <1>1 DEF WorldOK, Pure, Sources
<1> QED
  BY <1>2 DEF WorldOK, Landed, Grows

-----------------------------------------------------------------------------
(* What a step does to a job.                                              *)

Idle(q) ==
    /\ pc'[q] = pc[q] /\ layer'[q] = layer[q] /\ arch'[q] = arch[q] /\ targets'[q] = targets[q]
    /\ pos'[q] = pos[q] /\ objects'[q] = objects[q] /\ read'[q] = read[q] /\ written'[q] = written[q]

LEMMA FullStays ==
    ASSUME Grows, NEW d \in Refs \union Dirs, Full(d)
    PROVE  Full(d)'
BY DEF Grows, Full

LEMMA Destination ==
    ASSUME Inv, NEW j \in Jobs, NEW id \in written[j]
    PROVE  id[3] \in Refs \union Dirs
<1>1. id \in Ids(j) /\ job \in [Jobs -> Inputs]
  BY Known DEF Traces, Shape
<1>2. PICK l \in 1..Len(job[j].layers) : id \in LayerIds(j, l)
  BY <1>1, InIds
<1>3. PICK a \in 1..Len(job[j].layers[l]) : \E i \in 1..Len(job[j].layers[l][a]) :
          id = <<l, a, job[j].layers[l][a][i].dst>>
  BY <1>1, <1>2, InLayerIds
<1>4. PICK i \in 1..Len(job[j].layers[l][a]) : id = <<l, a, job[j].layers[l][a][i].dst>>
  BY <1>3
<1>5. job[j].layers[l][a][i] \in TargetType
  BY <1>1, Layer
<1> QED
  BY <1>4, <1>5, TargetKinds

(* What is written stays whole.                                            *)
LEMMA WrittenStays ==
    ASSUME Inv, NEW j \in Jobs, job' = job, Grows, Holds(j)
    PROVE  \A id \in written[j] : Releasable(job'[j].layers[id[1]]) /\ Full(id[3])'
<1> SUFFICES ASSUME NEW id \in written[j] PROVE Releasable(job'[j].layers[id[1]]) /\ Full(id[3])'
  OBVIOUS
<1>1. PICK d \in Refs \union Dirs : d = id[3]
  BY Destination
<1>2. Full(d)'
  BY <1>1, FullStays DEF Holds
<1> QED
  BY <1>1, <1>2 DEF Holds

LEMMA SourceOthers ==
    ASSUME Inv, NEW q \in Jobs, job' = job, Idle(q), Grows, Sourced(q), Holds(q)
    PROVE  Sourced(q)' /\ Holds(q)'
<1>1. LayerOf(q)' = LayerOf(q) /\ Target(q)' = Target(q)
  BY DEF Idle, LayerOf, Target
<1>2. Sourced(q)'
  BY <1>1 DEF Idle, Sourced
<1>3. \A id \in written'[q] : Releasable(job'[q].layers[id[1]]) /\ Full(id[3])'
  BY WrittenStays DEF Idle
<1>4. pc[q] = "write" => Target(q).dst \in Refs \union Dirs
  <2>1. pc[q] = "write" => pc[q] \in Applying /\ pos[q] < Len(targets[q])
    BY Known DEF Cursor, Applying
  <2> QED
    BY <2>1, AtTheTarget DEF Resolvable
<1>5. objects[q] \in 0..3
  BY Known DEF Shape
<1>6. pc'[q] = "write" => /\ Of(Target(q)'.src, read'[q])
                          /\ Target(q)'.dst \notin Refs =>
                                \A o \in 1..objects'[q] : boot'[Target(q)'.dst][o] # None
  BY <1>1, <1>4, <1>5 DEF Idle, Holds, Grows, Object
<1>7. pc'[q] \notin {"write", "killed"} => objects'[q] = 0
  BY DEF Idle, Holds
<1> QED
  BY <1>2, <1>3, <1>6, <1>7 DEF Holds

LEMMA SourcedStays ==
    ASSUME NEW j \in Jobs, job' = job, Sourced(j),
           \/ pc'[j] \notin Working
           \/ targets'[j] = <<>> /\ arch'[j] = 0
           \/ pc[j] \in Working /\ layer'[j] = layer[j] /\ arch'[j] = arch[j] /\ targets'[j] = targets[j]
    PROVE  Sourced(j)'
<1>1. CASE pc'[j] \notin Working
  BY <1>1 DEF Sourced
<1>2. CASE targets'[j] = <<>> /\ arch'[j] = 0
  <2>1. \A arches : Picked(arches, <<>>, 0)
    BY DEF Picked
  <2> QED
    BY <1>2, <2>1 DEF Sourced
<1>3. CASE pc[j] \in Working /\ layer'[j] = layer[j] /\ arch'[j] = arch[j] /\ targets'[j] = targets[j]
  <2>1. LayerOf(j)' = LayerOf(j)
    BY <1>3 DEF LayerOf
  <2> QED
    BY <1>3, <2>1 DEF Sourced
<1> QED
  BY <1>1, <1>2, <1>3

-----------------------------------------------------------------------------
(* The actions.                                                            *)

LEMMA SourceCombine ==
    ASSUME Inv, SourceOK, NEW j \in Jobs, job' = job, WorldOK', Grows,
           \A q \in Jobs \ {j} : Idle(q), Sourced(j)', Holds(j)'
    PROVE  SourceOK'
<1>1. ASSUME NEW q \in Jobs \ {j} PROVE Sourced(q)' /\ Holds(q)'
  BY SourceOthers DEF SourceOK
<1> QED
  BY <1>1 DEF SourceOK

(* Between targets.                                                        *)
LEMMA SourceLayers ==
    ASSUME Inv, SourceOK, NEW j \in Jobs, Layers(j) \/ Resolve(j) \/ LayerDone(j) \/ Kill(j)
    PROVE  SourceOK'
<1>1. /\ job' = job /\ UNCHANGED <<tags, boot, local, written, objects, read>>
      /\ Shape /\ Sourced(j) /\ Holds(j) /\ Cursor(j)
  BY Known DEF SourceOK, Layers, Resolve, StartLayer, ArchExcluded, NoTarget, NextLayer, End, ResolveArch,
         ResolveFails, NothingResolved, AllResolved, LayerDone, Kill, cursor, apply, world, trace
<1>2. WorldOK' /\ Grows
  BY <1>1, WorldStays DEF SourceOK
<1>3. /\ pc'[j] # "write" /\ (pc'[j] = "killed" \/ pc[j] \notin {"write", "killed"})
      /\ \A q \in Jobs \ {j} : Idle(q)
  <2>1. CASE ResolveArch(j)
    BY <1>1, <2>1 DEF ResolveArch, Resolved, At, Shape, Set, Idle, apply, trace
  <2>2. CASE Layers(j)
    BY <1>1, <2>2 DEF Layers, StartLayer, ArchExcluded, NoTarget, NextLayer, End, At, Goto, Set, Shape,
                      Idle, cursor, apply, trace
  <2>3. CASE ResolveFails(j) \/ NothingResolved(j) \/ AllResolved(j)
    BY <1>1, <2>3 DEF ResolveFails, NothingResolved, AllResolved, NoTarget, NextLayer, At, Goto, Set,
                      Shape, Idle, cursor, apply, trace
  <2>4. CASE LayerDone(j) \/ Kill(j)
    BY <1>1, <2>4 DEF LayerDone, Kill, NextLayer, At, Goto, Set, Shape, Idle, cursor, apply, trace
  <2> QED
    BY <2>1, <2>2, <2>3, <2>4 DEF Resolve
<1>4. Holds(j)'
  <2>1. \A id \in written'[j] : Releasable(job'[j].layers[id[1]]) /\ Full(id[3])'
    BY <1>1, <1>2, WrittenStays
  <2> QED
    BY <1>1, <1>3, <2>1 DEF Holds
<1>5. Sourced(j)'
  <2>1. CASE ResolveArch(j)
    <3>1. /\ pc'[j] = "resolve" /\ pc[j] = "resolve" /\ layer'[j] = layer[j] /\ arch'[j] = arch[j] + 1
          /\ targets'[j] = targets[j] \o Arch(j)
      BY <1>1, <2>1 DEF ResolveArch, Resolved, At, Shape, Set
    <3>2. Picked(LayerOf(j), targets[j] \o Arch(j), arch[j] + 1)
      BY <1>1, <2>1, <3>1, PickedNext DEF ResolveArch, Sourced, Working
    <3>3. LayerOf(j)' = LayerOf(j)
      BY <1>1, <3>1 DEF LayerOf
    <3> QED
      BY <3>1, <3>2, <3>3 DEF Sourced
  <2>2. CASE StartLayer(j)
    <3>1. targets'[j] = <<>> /\ arch'[j] = 0
      BY <1>1, <2>2 DEF StartLayer, At, Cursor, cursor
    <3> QED
      BY <1>1, <3>1, SourcedStays
  <2>3. CASE AllResolved(j)
    <3>1. pc[j] \in Working /\ layer'[j] = layer[j] /\ arch'[j] = arch[j] /\ targets'[j] = targets[j]
      BY <2>3 DEF AllResolved, At, Working, cursor
    <3> QED
      BY <1>1, <3>1, SourcedStays
  <2>4. CASE \/ ArchExcluded(j) \/ End(j) \/ ResolveFails(j) \/ NothingResolved(j)
             \/ LayerDone(j) \/ Kill(j)
    <3>1. pc'[j] \in {"layer", "ended", "killed"}
      BY <1>1, <2>4 DEF ArchExcluded, End, ResolveFails, NothingResolved, LayerDone, Kill, NoTarget,
                        NextLayer, Goto, Shape
    <3> QED
      BY <1>1, <3>1, SourcedStays DEF Working, Applying
  <2> QED
    BY <2>1, <2>2, <2>3, <2>4 DEF Layers, Resolve
<1> QED
  BY <1>1, <1>2, <1>3, <1>4, <1>5, SourceCombine

(* A target that is over: what the step wrote is whole.                    *)
LEMMA SourceOver ==
    ASSUME Inv, SourceOK, NEW j \in Jobs, job' = job, pc[j] \in Applying, TargetOver(j),
           UNCHANGED <<layer, arch, targets>>, WorldOK', Grows,
           \/ written' = written
           \/ /\ pos[j] < Len(targets[j]) /\ MarkWritten(j)
              /\ \A d : d = Target(j).dst => Full(d)'
    PROVE  SourceOK'
<1>1. Shape /\ Sourced(j) /\ Holds(j)
  BY Known DEF SourceOK
<1>2. \A q \in Jobs \ {j} : Idle(q)
  BY <1>1, Over DEF Shape, Idle, MarkWritten, Set
<1>3. pc'[j] = "target" /\ objects'[j] = 0
  BY <1>1, Over DEF Shape
<1>4. Sourced(j)'
  BY <1>1, <1>3, SourcedStays DEF Working
<1>5. \A id \in written[j] : Releasable(job'[j].layers[id[1]]) /\ Full(id[3])'
  BY <1>1, WrittenStays
<1>6. \A id \in written'[j] : Releasable(job'[j].layers[id[1]]) /\ Full(id[3])'
  <2>1. CASE written' = written
    BY <1>5, <2>1
  <2>2. CASE /\ pos[j] < Len(targets[j]) /\ MarkWritten(j)
             /\ \A d : d = Target(j).dst => Full(d)'
    <3>1. written'[j] = written[j] \union {TargetId(j)}
      BY <1>1, <2>2 DEF MarkWritten, Set, Shape
    <3>2. TargetId(j)[1] = layer[j] /\ TargetId(j)[3] = Target(j).dst
      BY DEF TargetId
    <3>3. Releasable(job[j].layers[layer[j]])
      BY <1>1, <2>2, TargetReleases DEF LayerOf
    <3>4. ASSUME NEW id \in written'[j] PROVE Releasable(job'[j].layers[id[1]]) /\ Full(id[3])'
      <4>1. CASE id \in written[j]
        BY <1>5, <4>1
      <4>2. CASE id = TargetId(j)
        <5>1. PICK d : d = Target(j).dst
          OBVIOUS
        <5>2. Full(d)' /\ id[3] = d /\ id[1] = layer[j]
          BY <2>2, <3>2, <4>2, <5>1
        <5> QED
          BY <3>3, <5>2
      <4> QED
        BY <3>1, <4>1, <4>2
    <3> QED
      BY <3>4
  <2> QED
    BY <2>1, <2>2
<1>7. Holds(j)'
  BY <1>3, <1>6 DEF Holds
<1> QED
  BY <1>2, <1>4, <1>7, SourceCombine

(* A job goes on with its target, and has written nothing more of it than  *)
(* some of its objects.                                                    *)
LEMMA SourceGoesOn ==
    ASSUME Inv, SourceOK, NEW j \in Jobs, job' = job, pc[j] \in Applying,
           UNCHANGED <<layer, arch, targets, pos, written>>, WorldOK', Grows,
           NEW p \in {"read", "write"}, pc' = Set(pc, j, p),
           NEW n \in 0..3, objects' = Set(objects, j, n), NEW c, read' = Set(read, j, c),
           p = "read" => n = 0,
           p = "write" => /\ Of(Target(j).src, c)
                          /\ Target(j).dst \notin Refs => \A o \in 1..n : boot'[Target(j).dst][o] # None
    PROVE  SourceOK'
<1>1. Shape /\ Sourced(j) /\ Holds(j)
  BY Known DEF SourceOK
<1>2. \A q \in Jobs \ {j} : Idle(q)
  BY <1>1 DEF Shape, Idle, Set
<1>3. pc'[j] = p /\ objects'[j] = n /\ read'[j] = c
  BY <1>1 DEF Shape, Set
<1>4. Sourced(j)'
  BY <1>1, SourcedStays DEF Working
<1>5. \A id \in written'[j] : Releasable(job'[j].layers[id[1]]) /\ Full(id[3])'
  BY <1>1, WrittenStays
<1>6. Target(j)' = Target(j)
  BY DEF Target
<1>7. Holds(j)'
  BY <1>3, <1>5, <1>6 DEF Holds
<1> QED
  BY <1>2, <1>4, <1>7, SourceCombine

LEMMA SourceBegin ==
    ASSUME Inv, SourceOK, NEW j \in Jobs, DryRun(j) \/ BeginTarget(j)
    PROVE  SourceOK'
<1>1. /\ job' = job /\ pc[j] = "target" /\ pc[j] \in Applying /\ Shape /\ Holds(j)
      /\ UNCHANGED <<layer, arch, targets, tags, boot, local, written>>
  BY Known DEF SourceOK, DryRun, BeginTarget, AtTarget, At, Applying, cursor, world, trace
<1>2. WorldOK' /\ Grows
  BY <1>1, WorldStays DEF SourceOK
<1>3. CASE TargetOver(j)
  BY <1>1, <1>2, <1>3, SourceOver
<1>4. CASE Goto(j, "read") /\ UNCHANGED <<apply, failed>>
  <2>1. /\ pc' = Set(pc, j, "read") /\ UNCHANGED <<pos, objects, read>>
        /\ objects[j] = 0
    BY <1>1, <1>4 DEF Goto, Set, apply, Holds
  <2>2. objects' = Set(objects, j, 0) /\ read' = Set(read, j, read[j])
    BY <1>1, <2>1, SetToItself
  <2> QED
    BY <1>1, <1>2, <2>1, <2>2, SourceGoesOn
<1> QED
  BY <1>3, <1>4 DEF DryRun, BeginTarget, BadCreds, TargetFails

LEMMA SourceRead ==
    ASSUME Inv, SourceOK, NEW j \in Jobs, ReadTag(j) \/ PullSource(j)
    PROVE  SourceOK'
<1>1. /\ job' = job /\ pc[j] = "read" /\ pc[j] \in Applying /\ pos[j] < Len(targets[j])
      /\ Shape /\ Holds(j) /\ Sourced(j) /\ WorldOK
      /\ UNCHANGED <<layer, arch, targets, tags, boot, written>>
  BY Known DEF SourceOK, ReadTag, PullSource, At, Applying, Cursor, cursor, world, trace
<1>2. Target(j).src \in Sources
  BY <1>1, TargetReleases
<1>3. WorldOK' /\ Grows
  <2>1. CASE local' = local
    BY <1>1, <2>1, WorldStays
  <2>2. CASE local' = Set(local, Source(j), tags[Source(j)])
    <3>1. PICK r \in Sources : r = Source(j)
      BY <1>2 DEF Source
    <3> QED
      BY <1>1, <2>2, <3>1, WorldPulled
  <2> QED
    BY <2>1, <2>2 DEF ReadTag, PullSource, world
<1>4. CASE TargetFails(j)
  BY <1>1, <1>3, <1>4, SourceOver DEF TargetFails
<1>5. ASSUME NEW c, Take(j, c), c \in {tags[Source(j)], local[Source(j)]} PROVE SourceOK'
  <2>1. /\ pc' = Set(pc, j, "write") /\ read' = Set(read, j, c) /\ UNCHANGED <<pos, objects>>
        /\ objects[j] = 0
    BY <1>1, <1>5 DEF Take, Goto, Set, Holds
  <2>2. objects' = Set(objects, j, 0)
    BY <1>1, <2>1, SetToItself
  <2>3. Of(Target(j).src, c)
    BY <1>1, <1>2, <1>5 DEF WorldOK, Pure, Source
  <2> QED
    BY <1>1, <1>3, <2>1, <2>2, <2>3, SourceGoesOn
<1>6. TargetFails(j) \/ \E c \in {tags[Source(j)], local[Source(j)]} : Take(j, c)
  BY DEF ReadTag, PullSource
<1> QED
  BY <1>4, <1>5, <1>6

LEMMA SourceWriteTag ==
    ASSUME Inv, SourceOK, NEW j \in Jobs, WriteTag(j)
    PROVE  SourceOK'
<1>1. /\ job' = job /\ pc[j] = "write" /\ pc[j] \in Applying /\ pos[j] < Len(targets[j])
      /\ Target(j).typ = "registry" /\ read[j] # None
      /\ Shape /\ Holds(j) /\ Sourced(j) /\ WorldOK
      /\ UNCHANGED <<layer, arch, targets, boot, local>>
  BY Known DEF SourceOK, WriteTag, At, Applying, Cursor, cursor
<1>2. Target(j).dst \in Refs /\ Of(Target(j).src, read[j])
  BY <1>1, AtTheTarget DEF Holds
<1>3. PICK t \in Releases : t.dst = Target(j).dst /\ t.src = Target(j).src
  BY <1>1, TargetReleases
<1>5. CASE tags' = Set(tags, Target(j).dst, read[j]) /\ MarkWritten(j) /\ TargetOver(j)
  <2>1. WorldOK' /\ Grows /\ tags'[t.dst] = read[j]
    BY <1>1, <1>2, <1>3, <1>5, TagReleased
  <2>2. \A d : d = Target(j).dst => Full(d)'
    BY <1>1, <1>2, <1>3, <2>1 DEF Full
  <2> QED
    BY <1>1, <1>5, <2>1, <2>2, SourceOver
<1>6. CASE UNCHANGED <<tags, written>> /\ TargetFails(j)
  BY <1>1, <1>6, WorldStays, SourceOver DEF TargetFails
<1> QED
  BY <1>5, <1>6 DEF WriteTag, TargetFails

LEMMA SourceUpload ==
    ASSUME Inv, SourceOK, NEW j \in Jobs, UploadObject(j) \/ Materialized(j)
    PROVE  SourceOK'
<1>1. /\ job' = job /\ pc[j] = "write" /\ pc[j] \in Applying /\ pos[j] < Len(targets[j])
      /\ Target(j).typ = "s3" /\ read[j] # None /\ objects[j] \in 0..3
      /\ Shape /\ Holds(j) /\ Sourced(j) /\ WorldOK
      /\ UNCHANGED <<layer, arch, targets, tags, local>>
  BY Known DEF SourceOK, UploadObject, Materialized, At, Applying, Cursor, Shape, cursor, world, trace
<1>2. Target(j).dst \in Dirs /\ Target(j).dst \notin Refs /\ Of(Target(j).src, read[j])
  BY <1>1, AtTheTarget DEF Resolvable, Holds
<1>3. PICK t \in Releases : t.dst = Target(j).dst /\ t.src = Target(j).src
  BY <1>1, TargetReleases
<1>4. \A o \in 1..objects[j] : boot[Target(j).dst][o] # None
  BY <1>1, <1>2 DEF Holds
<1>5. CASE UNCHANGED <<boot, written>> /\ TargetFails(j)
  BY <1>1, <1>5, WorldStays, SourceOver DEF TargetFails
<1>6. CASE /\ boot' = [boot EXCEPT ![Target(j).dst][objects[j] + 1] = read[j]]
           /\ objects[j] < 3 /\ written' = written
           /\ TargetFails(j) \/ (/\ objects' = Set(objects, j, objects[j] + 1)
                                 /\ UNCHANGED <<pc, pos, read, failed>>)
  <2>1. PICK n \in Object : n = objects[j] + 1
    BY <1>1, <1>6 DEF Object
  <2>2. /\ WorldOK' /\ Grows /\ boot'[t.dst][n] = read[j]
        /\ \A o \in Object : boot[t.dst][o] # None => boot'[t.dst][o] # None
    BY <1>1, <1>2, <1>3, <1>6, <2>1, ObjectReleased
  <2>3. CASE TargetFails(j)
    BY <1>1, <1>6, <2>2, <2>3, SourceOver DEF TargetFails
  <2>4. CASE objects' = Set(objects, j, objects[j] + 1) /\ UNCHANGED <<pc, pos, read, failed>>
    <3>1. /\ pc' = Set(pc, j, "write") /\ read' = Set(read, j, read[j])
          /\ objects' = Set(objects, j, n) /\ n \in 0..3
      BY <1>1, <2>1, <2>4, SetToItself DEF Object
    <3>2. \A o \in 1..n : boot'[Target(j).dst][o] # None
      BY <1>1, <1>3, <1>4, <2>1, <2>2 DEF Object
    <3> QED
      BY <1>1, <1>2, <1>6, <2>2, <2>4, <3>1, <3>2, SourceGoesOn
  <2> QED
    BY <1>6, <2>3, <2>4
<1>7. CASE boot' = boot /\ objects[j] = 3 /\ MarkWritten(j) /\ TargetOver(j)
  <2>1. \A d : d = Target(j).dst => Full(d)'
    BY <1>1, <1>2, <1>4, <1>7 DEF Full, Object
  <2> QED
    BY <1>1, <1>7, <2>1, WorldStays, SourceOver
<1> QED
  BY <1>5, <1>6, <1>7 DEF UploadObject, Materialized, world, trace

LEMMA SourceStep == Inv /\ SourceOK /\ [Next]_vars => SourceOK'
<1> SUFFICES ASSUME Inv, SourceOK, [Next]_vars PROVE SourceOK'
  OBVIOUS
<1>1. ASSUME NEW j \in Jobs, Layers(j) \/ Resolve(j) \/ Apply(j) \/ Kill(j) PROVE SourceOK'
  BY <1>1, SourceLayers, SourceBegin, SourceRead, SourceWriteTag, SourceUpload DEF Apply
<1>2. ASSUME job' = job, WorldOK', Grows, \A q \in Jobs : Idle(q) PROVE SourceOK'
  BY <1>2, SourceOthers DEF SourceOK
<1>3. ASSUME NEW r \in Sources, NEW b \in Builds, Push(r, b) PROVE SourceOK'
  <2>1. /\ UNCHANGED <<job, pc, layer, arch, targets, pos, objects, read, written, boot, local>>
        /\ tags' = Set(tags, r, <<r, b>>) /\ Shape
    BY <1>3 DEF Inv, Push, cursor, apply, trace
  <2>2. WorldOK' /\ Grows
    BY <2>1, WorldPushed DEF SourceOK
  <2> QED
    BY <1>2, <2>1, <2>2 DEF Idle
<1>4. CASE UNCHANGED vars
  <2>1. UNCHANGED <<job, pc, layer, arch, targets, pos, objects, read, written, tags, boot, local>>
    BY <1>4 DEF vars, cursor, apply, world, trace
  <2> QED
    BY <1>2, <2>1, WorldStays DEF Idle, SourceOK
<1> QED
  BY <1>1, <1>3, <1>4 DEF Next, Finished

LEMMA SourceInit == Init /\ ReleasesApart => SourceOK
<1> SUFFICES ASSUME Init, ReleasesApart PROVE SourceOK
  OBVIOUS
<1>1. Pure
  BY DEF Init, Pure, Of, Sources
<1>2. Landed
  <2>1. \A t \in Releases : t.dst \in Refs \/ t.dst \in Dirs
    BY ReleaseKinds
  <2> QED
    BY <2>1 DEF Init, Landed, Of
<1> QED
  BY <1>1, <1>2 DEF Init, SourceOK, WorldOK, Sourced, Holds, Working, Applying

(* Where no release of the manifests is a content tag or the destination   *)
(* of two content tags, what a promote has released is of the content tag  *)
(* of that very layer and arch, whatever is pushed, promoted, killed or    *)
(* refused meanwhile (promoteLayer, RetagRegistry, MaterializeToS3).       *)
THEOREM ReleasedIsFromSource == Spec /\ ReleasesApart => []ReleasedFromSource
<1>1. ASSUME Inv, SourceOK, NEW j \in Jobs, NEW id \in written[j],
             NEW c \in IF id[3] \in Refs THEN {tags[id[3]]} ELSE {boot[id[3]][o] : o \in Object}
      PROVE  c # None /\ c[1] \in SourceOf(j, id)
  <2> DEFINE arches == job[j].layers[id[1]]
  <2>1. id \in Ids(j) /\ job \in [Jobs -> Inputs]
    BY <1>1, Known DEF Traces, Shape
  <2>2. PICK l \in 1..Len(job[j].layers) : id \in LayerIds(j, l)
    BY <2>1, InIds
  <2>3. PICK a \in 1..Len(job[j].layers[l]) : \E i \in 1..Len(job[j].layers[l][a]) :
            id = <<l, a, job[j].layers[l][a][i].dst>>
    BY <2>1, <2>2, InLayerIds
  <2>4. PICK i \in 1..Len(job[j].layers[l][a]) : id = <<l, a, job[j].layers[l][a][i].dst>>
    BY <2>3
  <2>5. /\ arches = job[j].layers[l] /\ id[1] = l /\ id[2] = a /\ id[3] = arches[a][i].dst
    BY <2>4
  <2>6. /\ l \in DOMAIN job[j].layers /\ a \in DOMAIN arches /\ i \in DOMAIN arches[a]
        /\ arches[a][i] \in TargetType /\ job[j] \in Inputs
    <3>1. arches = job[j].layers[l] /\ job[j] \in Inputs /\ job[j].layers \in Seq(Seq(Seq(TargetType)))
      BY <2>1, <2>5, Layer
    <3> HIDE DEF arches
    <3>2. arches \in Seq(Seq(TargetType))
      BY <2>1, <3>1, Layer
    <3>3. DOMAIN arches[a] = 1..Len(arches[a]) /\ arches[a][i] \in TargetType
      BY <2>1, <3>1, Layer
    <3>4. l \in DOMAIN job[j].layers /\ a \in DOMAIN arches
      BY <3>1, <3>2
    <3> QED
      BY <3>1, <3>3, <3>4
  <2> DEFINE t == arches[a][i]
  <2>7. Releasable(arches) /\ Full(id[3])
    BY <1>1 DEF SourceOK, Holds
  <2>8. t \in Releases
    BY <2>5, <2>6, <2>7 DEF Releases
  <2>9. c # None /\ Of(t.src, c)
    <3>1. t.dst = id[3] /\ Landed
      BY <1>1, <2>5 DEF SourceOK, WorldOK
    <3>2. CASE id[3] \in Refs
      BY <1>1, <2>7, <2>8, <3>1, <3>2 DEF Landed, Full
    <3>3. CASE id[3] \notin Refs
      BY <1>1, <2>7, <2>8, <3>1, <3>3 DEF Landed, Full
    <3> QED
      BY <3>2, <3>3
  <2>10. t.src \in SourceOf(j, id)
    BY <2>5, <2>6 DEF SourceOf
  <2> QED
    BY <2>9, <2>10 DEF Of
<1>2. Inv /\ SourceOK => ReleasedFromSource
  BY <1>1 DEF ReleasedFromSource
<1> QED
  BY <1>2, InvInit, InvStep, SourceInit, SourceStep, PTL DEF Spec
================================================================================
