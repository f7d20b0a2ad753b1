------------------------------- MODULE Manifest -------------------------------
(***************************************************************************)
(* Loading a manifest and resolving its layers (src/internal/manifest,     *)
(* concreteLayersFor and runPromote in src/cmd): validation, expansion     *)
(* over the architectures, the cycle check and the lookups the commands    *)
(* make.                                                                   *)
(*                                                                         *)
(* A name is a sequence of its hyphen-separated parts, so that appending   *)
(* "-" and an architecture is \o.  <<>> is the empty string.               *)
(***************************************************************************)
EXTENDS Naturals, Sequences, SequencesExt

CONSTANTS
    Names,       (* names that occur in manifests                         *)
    Manifests    (* parsed manifests                                      *)

NoArch == <<>>
Failed == <<>>

LayerType == [name: Names \union {<<>>}, config: BOOLEAN, deps: Seq(Names), arches: Seq(Names)]

ASSUME ManifestsAssumption ==
    /\ \A name \in Names : name \in Seq(ToSet(name))
    /\ Manifests \subseteq [archs: Seq(Names \union {<<>>}), layers: Seq(LayerType)]

VARIABLES
    manifest,    (* the parsed file                                       *)
    phase,       (* how far Load and NewDAG have come                     *)
    concrete,    (* the layers after expansion, in order                  *)
    dag,         (* layer name to layer                                   *)
    unchecked,   (* layers from which checkCycle is still to start        *)
    path,        (* layers checkCycle is visiting, from where it started  *)
    visited      (* layers it has left                                    *)

walk == <<unchecked, path, visited>>
vars == <<manifest, phase, concrete, dag, walk>>

-----------------------------------------------------------------------------
(* validate.                                                               *)

LayerNames(m) == {m.layers[i].name : i \in DOMAIN m.layers}

Valid(m) ==
    /\ m.layers # <<>>
    /\ \A i \in DOMAIN m.layers :
        /\ m.layers[i].name # <<>> /\ m.layers[i].config
        /\ ToSet(m.layers[i].deps) \subseteq LayerNames(m)
    /\ \A i, n \in DOMAIN m.layers : m.layers[i].name = m.layers[n].name => i = n

-----------------------------------------------------------------------------
(* expand.                                                                 *)

(* Mutant: a layer without arches is not given the declared ones.          *)
OwnArches(m, l) == l.arches

LayerArches(m, l) == IF l.arches = <<>> THEN m.archs ELSE l.arches

Expandable(m) ==
    IF m.archs = <<>> THEN \A i \in DOMAIN m.layers : m.layers[i].arches = <<>>
    ELSE /\ \A i \in DOMAIN m.archs : m.archs[i] # <<>>
         /\ \A i, n \in DOMAIN m.archs : m.archs[i] = m.archs[n] => i = n
         /\ \A i \in DOMAIN m.layers : ToSet(m.layers[i].arches) \subseteq ToSet(m.archs)
         /\ \A i, p \in DOMAIN m.layers :
                m.layers[p].name \in ToSet(m.layers[i].deps) =>
                    ToSet(LayerArches(m, m.layers[i])) \subseteq ToSet(LayerArches(m, m.layers[p]))

Concrete(name, deps, logical, arch) ==
    [name |-> name, deps |-> deps, logical |-> logical, arch |-> arch]

(* Mutant: the parents are wired to the first architecture.                *)
ExpandToFirst(m, l) ==
    LET arches == LayerArches(m, l)
    IN  [a \in DOMAIN arches |->
            Concrete(l.name \o arches[a], [i \in DOMAIN l.deps |-> l.deps[i] \o arches[1]],
                     l.name, arches[a])]

(* The concrete layers of one logical layer.                               *)
ExpandLayer(m, l) ==
    LET arches == LayerArches(m, l)
    IN  [a \in DOMAIN arches |->
            Concrete(l.name \o arches[a], [i \in DOMAIN l.deps |-> l.deps[i] \o arches[a]],
                     l.name, arches[a])]

Expansion(m) ==
    IF m.archs = <<>>
    THEN [i \in DOMAIN m.layers |->
             Concrete(m.layers[i].name, m.layers[i].deps, m.layers[i].name, NoArch)]
    ELSE FlattenSeq([i \in DOMAIN m.layers |-> ExpandLayer(m, m.layers[i])])

-----------------------------------------------------------------------------
(* NewDAG.                                                                 *)

(* Mutant: the nodes are found by their logical name.                      *)
NodesByLogicalName(layers) ==
    [n \in {layers[i].logical : i \in DOMAIN layers} |->
        layers[CHOOSE i \in DOMAIN layers : layers[i].logical = n]]

(* Of two layers with one name the later is kept.                          *)
Nodes(layers) ==
    [n \in {layers[i].name : i \in DOMAIN layers} |->
        layers[CHOOSE i \in DOMAIN layers :
                  layers[i].name = n /\ \A k \in DOMAIN layers : layers[k].name = n => k <= i]]

-----------------------------------------------------------------------------
(* Lookups.                                                                *)

IsMultiArch(d) == \E n \in DOMAIN d : d[n].arch # NoArch

(* Mutant: a logical layer is taken for its concrete names.                *)
ConcreteNames(d) == DOMAIN d

LogicalNames(d) == {d[n].logical : n \in DOMAIN d}

ArchesFor(d, logical) == {d[n].arch : n \in {k \in DOMAIN d : d[k].logical = logical}} \ {NoArch}

(* A concrete name given as a logical one is refused.                      *)
Resolve(d, name, arch) ==
    IF ~IsMultiArch(d)
    THEN IF arch = NoArch /\ name \in DOMAIN d THEN name ELSE Failed
    ELSE IF arch # NoArch /\ name \notin DOMAIN d /\ name \o arch \in DOMAIN d
         THEN name \o arch ELSE Failed

(* What promote walks for one logical layer when no --arch is given.       *)
ConcreteLayersFor(d, logical) ==
    IF IsMultiArch(d) THEN {logical \o a : a \in ArchesFor(d, logical)}
    ELSE {logical} \intersect DOMAIN d

-----------------------------------------------------------------------------
Init ==
    /\ manifest \in Manifests
    /\ phase = "parsed"
    /\ concrete = <<>>
    /\ dag = <<>>
    /\ unchecked = {} /\ path = <<>> /\ visited = {}

Validate ==
    /\ phase = "parsed"
    /\ phase' = IF Valid(manifest) THEN "valid" ELSE "invalid"
    /\ UNCHANGED <<manifest, concrete, dag, walk>>

Expand ==
    /\ phase = "valid"
    /\ IF Expandable(manifest)
       THEN phase' = "expanded" /\ concrete' = Expansion(manifest)
       ELSE phase' = "invalid" /\ UNCHANGED concrete
    /\ UNCHANGED <<manifest, dag, walk>>

NewDAG ==
    /\ phase = "expanded" /\ phase' = "checking"
    /\ LET d == Nodes(concrete)
       IN  dag' = d /\ unchecked' = DOMAIN d
    /\ UNCHANGED <<manifest, concrete, path, visited>>

-----------------------------------------------------------------------------
(* checkCycle: a depth-first walk from every layer, in any order, each     *)
(* with maps of its own.                                                   *)

StartAt(n) ==
    /\ phase = "checking" /\ path = <<>>
    /\ path' = <<n>> /\ unchecked' = unchecked \ {n} /\ visited' = {}
    /\ UNCHANGED <<manifest, phase, concrete, dag>>

(* Mutant: a layer counts as visited from when it is entered.              *)
EnteredOrVisited(n) == n \in visited \union ToSet(path)

Visited(n) == n \in visited

(* The dependencies of the layer being visited that are left to visit.     *)
Unvisited == {i \in DOMAIN dag[Last(path)].deps : ~Visited(dag[Last(path)].deps[i])}

(* The first of them is a layer on the path, or unknown, or visited next.  *)
VisitDep ==
    /\ phase = "checking" /\ path # <<>>
    /\ \E i \in Unvisited :
          LET dep == dag[Last(path)].deps[i]
          IN  /\ \A k \in Unvisited : i <= k
              /\ IF dep \in ToSet(path) \/ dep \notin DOMAIN dag
                 THEN phase' = "cyclic" /\ dag' = <<>> /\ UNCHANGED path
                 ELSE path' = Append(path, dep) /\ UNCHANGED <<phase, dag>>
    /\ UNCHANGED <<manifest, concrete, unchecked, visited>>

Leave ==
    /\ phase = "checking" /\ path # <<>> /\ Unvisited = {}
    /\ path' = Front(path) /\ visited' = visited \union {Last(path)}
    /\ UNCHANGED <<manifest, phase, concrete, dag, unchecked>>

AllChecked ==
    /\ phase = "checking" /\ path = <<>> /\ unchecked = {}
    /\ phase' = "ready"
    /\ UNCHANGED <<manifest, concrete, dag, walk>>

CheckCycle == (\E n \in unchecked : StartAt(n)) \/ VisitDep \/ Leave \/ AllChecked

-----------------------------------------------------------------------------
Loaded == phase \in {"ready", "invalid", "cyclic"} /\ UNCHANGED vars

Next == Validate \/ Expand \/ NewDAG \/ CheckCycle \/ Loaded

Spec == Init /\ [][Next]_vars

-----------------------------------------------------------------------------
(* Properties.                                                             *)

(* Every variable has its type; a DAG finds each layer under its own name; *)
(* the walk of checkCycle never holds a layer twice.                       *)
TypeOK ==
    /\ manifest \in Manifests
    /\ phase \in {"parsed", "valid", "expanded", "checking", "ready", "invalid", "cyclic"}
    /\ phase \notin {"checking", "ready"} => dag = <<>>
    /\ \A n \in DOMAIN dag : dag[n].name = n
    /\ phase = "checking" => unchecked \union visited \union ToSet(path) \subseteq DOMAIN dag
    /\ \A i, k \in DOMAIN path : path[i] = path[k] => i = k

(* Logical layers depend on each other in a circle: there are some of      *)
(* which each has a parent among them.                                     *)
Circular(m) ==
    \E S \in SUBSET LayerNames(m) :
        /\ S # {}
        /\ \A n \in S : \E i \in DOMAIN m.layers :
              m.layers[i].name = n /\ ToSet(m.layers[i].deps) \intersect S # {}

(* A manifest that is structurally valid is refused for a cycle exactly    *)
(* when it has one, however the walks of the check share parents, whatever *)
(* order they start in, and whatever the architectures (NewDAG,            *)
(* checkCycle).                                                            *)
AcceptsExactlyDags ==
    /\ phase = "ready"  => ~Circular(manifest)
    /\ phase = "cyclic" => Circular(manifest)

(* What the expansion relies on and does not check: no two layers and      *)
(* architectures have one concrete name, and no layer has the concrete     *)
(* name of another; "a-b" for "c" and "a" for "b-c" have one, "a" for "x"  *)
(* has that of a layer "a-x".                                              *)
ExpansionsApart(m) ==
    \A i, n \in DOMAIN m.layers :
        \A a \in ToSet(LayerArches(m, m.layers[i])), b \in ToSet(LayerArches(m, m.layers[n])) :
            m.layers[i].name \o a = m.layers[n].name \o b => i = n /\ a = b

NamesApart(m) ==
    \A i, n \in DOMAIN m.layers : \A b \in ToSet(LayerArches(m, m.layers[n])) :
        m.layers[i].name # m.layers[n].name \o b

(* A child is built on the expansion of its own parents for its own arch,  *)
(* all of them there, so that its chain of tags and its base image never   *)
(* leave the architecture (expand).                                        *)
ParentsAreSameArch ==
    phase = "ready" => \A n \in DOMAIN dag : \E i \in DOMAIN manifest.layers :
        /\ manifest.layers[i].name = dag[n].logical
        /\ Len(dag[n].deps) = Len(manifest.layers[i].deps)
        /\ \A k \in DOMAIN dag[n].deps :
            /\ dag[n].deps[k] \in DOMAIN dag
            /\ dag[dag[n].deps[k]].arch = dag[n].arch
            /\ dag[dag[n].deps[k]].logical = manifest.layers[i].deps[k]

Wanted(l) == IF manifest.archs = <<>> THEN {NoArch}
             ELSE {a \in ToSet(manifest.archs) : l.arches = <<>> \/ a \in ToSet(l.arches)}

(* A promote of the whole manifest walks every concrete layer exactly      *)
(* under its own logical layer (LogicalNames, concreteLayersFor).          *)
BulkCoversAll ==
    phase = "ready" =>
        /\ UNION {ConcreteLayersFor(dag, l) : l \in LogicalNames(dag)} = DOMAIN dag
        /\ \A l \in LogicalNames(dag) : \A n \in ConcreteLayersFor(dag, l) : dag[n].logical = l

(* configuration.md: a specific expansion is built by naming the logical   *)
(* layer and the arch: every layer of the manifest, with every arch it     *)
(* builds for, resolves, and to itself (Resolve).                          *)
EveryExpansionResolves ==
    phase = "ready" => \A i \in DOMAIN manifest.layers : \A a \in Wanted(manifest.layers[i]) :
        LET n == Resolve(dag, manifest.layers[i].name, a)
        IN  n # Failed /\ dag[n].logical = manifest.layers[i].name /\ dag[n].arch = a
=============================================================================
