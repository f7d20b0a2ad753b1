------------------------------ MODULE LayerHash ------------------------------
(***************************************************************************)
(* What a layer's own part of its tag covers: hashLayer in src/internal/   *)
(* tag, against what the build takes from the host (WriteFile and          *)
(* CopyDirectory in src/internal/buildah, writeDirectories and             *)
(* runAnsibleCommand in src/internal/builder).  A host tree is edited and  *)
(* built again; a build skips to the image its tag already has.            *)
(*                                                                         *)
(* The rendered config is fixed, so only what the YAML cannot see is       *)
(* hashed here: the hashed text is the sequence of numbers that is fed to  *)
(* SHA-256, which is taken to have no collisions.  Names, bytes, lengths,  *)
(* modes and owners are numbers that can be taken for each other.  A       *)
(* length starts with a byte 0, so a type letter is no length: letters are *)
(* negative.  Globs other than "**/" are not modelled.                     *)
(***************************************************************************)
EXTENDS Integers, FiniteSets, Sequences, SequencesExt

CONSTANTS
    Sources,     (* host directories that configs reference               *)
    RootOf,      (* what the path of each is: "dir", "link" or "missing"  *)
    BaseName,    (* last part of its path                                 *)
    Git,         (* the name .git                                         *)
    Layers,      (* sequences of items: what each config references       *)
    Trees,       (* initial contents of the host directories              *)
    Writes,      (* what an edit may put where                            *)
    MaxEdits,    (* bound: edits                                          *)
    None         (* no image                                              *)

Path == Seq(Nat) \ {<<>>}

PatternType == [negated: BOOLEAN, floating: BOOLEAN, path: Path]

(* A file goes through a temporary one, without its mode and owner; a tree *)
(* of roles is mounted whole.                                              *)
ItemType ==
    {item \in [kind: {"file", "copy", "roles"}, src: Sources, path: Seq(Nat),
               excludes: Seq(PatternType), contentsOnly: BOOLEAN,
               keepMode: BOOLEAN, keepOwner: BOOLEAN, inTag: BOOLEAN] :
        /\ item.kind = "file" => ~item.keepMode /\ ~item.keepOwner
        /\ item.kind = "roles" => item.excludes = <<>> /\ item.inTag}

(* A link holds the name it leads to; behind it is what a reader finds     *)
(* there, if that is a file.                                               *)
NodeType ==
    {node \in [type: {"file", "dir", "link"}, data: Seq(Nat), behind: Seq(Nat) \union {None},
               mode: Nat, setid: BOOLEAN, owner: Nat] :
        node.type = "dir" => node.data = <<>>}

(* A directory that is missing holds nothing.                              *)
IsHost(d) ==
    /\ d = [s \in Sources |-> d[s]]
    /\ \A s \in Sources :
          /\ IsFiniteSet(DOMAIN d[s]) /\ d[s] = [p \in DOMAIN d[s] |-> d[s][p]]
          /\ \A p \in DOMAIN d[s] : p \in Path /\ d[s][p] \in NodeType
          /\ RootOf[s] = "missing" => DOMAIN d[s] = {}

ASSUME LayerHashAssumption ==
    /\ RootOf \in [Sources -> {"dir", "link", "missing"}]
    /\ BaseName \in [Sources -> Nat] /\ Git \in Nat /\ MaxEdits \in Nat
    /\ \A l \in Layers : l \in Seq(ItemType)
    /\ \A d \in Trees : IsHost(d)
    /\ \A w \in Writes : /\ w.src \in Sources /\ RootOf[w.src] # "missing"
                         /\ w.path \in Path /\ w.node \in NodeType

VARIABLES
    layer,       (* the config                                            *)
    disk,        (* path to node, for each host directory                 *)
    edits,       (* edits so far                                          *)
    registry,    (* image under each tag that has one                     *)
    got,         (* image the last build left under its tag               *)
    state        (* "edited", "built" or "failed"                         *)

vars == <<layer, disk, edits, registry, got, state>>

-----------------------------------------------------------------------------
(* Excludes.                                                               *)

(* Mutant: .git is excluded at the root of the tree only.                  *)
GitAtRoot(item) ==
    <<[negated |-> FALSE, floating |-> FALSE, path |-> <<Git>>]>> \o item.excludes

EffectiveExcludes(item) ==
    <<[negated |-> FALSE, floating |-> TRUE, path |-> <<Git>>]>> \o item.excludes

(* A pattern also matches all that lies under what it names.               *)
Matches(pattern, p) ==
    IF pattern.floating
    THEN \E i \in 1..Len(p) : IsPrefix(pattern.path, SubSeq(p, i, Len(p)))
    ELSE IsPrefix(pattern.path, p)

(* The last pattern that matches decides.                                  *)
Excluded(patterns, p) ==
    \E i \in DOMAIN patterns :
        /\ Matches(patterns[i], p) /\ ~patterns[i].negated
        /\ \A k \in DOMAIN patterns : k > i => ~Matches(patterns[k], p)

-----------------------------------------------------------------------------
(* The tag.                                                                *)

(* A file source is opened, and a link to a file followed; a tree is not.  *)
Opened(item, node) ==
    IF item.kind = "file" /\ node.type = "link" /\ node.behind # None
    THEN [node EXCEPT !.type = "file", !.data = node.behind] ELSE node

(* Mutant: lengths are not written.                                        *)
Unprefixed(text) == text

WriteLengthPrefixed(text) == <<Len(text)>> \o text

Letter == [file |-> -1, dir |-> -2, link |-> -3]

HashNode(item, node) ==
    <<Letter[node.type]>>
    \o (IF node.type = "dir" THEN <<>> ELSE WriteLengthPrefixed(node.data))
    \o (IF item.keepMode THEN <<node.mode>> ELSE <<>>)
    \o (IF item.keepOwner THEN <<node.owner>> ELSE <<>>)

(* WalkDir reaches a path through directories that are not excluded, and   *)
(* does not follow a root that is a link.                                  *)
HashedPaths(item, tree) ==
    IF RootOf[item.src] # "dir" THEN {}
    ELSE {p \in DOMAIN tree :
             \A k \in 1..Len(p) : ~Excluded(EffectiveExcludes(item), SubSeq(p, 1, k))}

Before(p, q) ==
    \/ IsStrictPrefix(p, q)
    \/ \E i \in DOMAIN p \intersect DOMAIN q :
          p[i] < q[i] /\ SubSeq(p, 1, i - 1) = SubSeq(q, 1, i - 1)

Sorted(paths) ==
    LET Place(p) == Cardinality({q \in paths : Before(q, p)})
    IN  [k \in 1..Cardinality(paths) |-> CHOOSE p \in paths : Place(p) = k - 1]

HashDirectory(item, tree) ==
    LET paths == Sorted(HashedPaths(item, tree))
    IN  IF ~item.inTag THEN <<>>
        ELSE FlattenSeq([i \in DOMAIN paths |->
                 WriteLengthPrefixed(paths[i]) \o HashNode(item, tree[paths[i]])])

HashItem(item, tree) ==
    IF item.kind = "file" THEN WriteLengthPrefixed(Opened(item, tree[item.path]).data)
    ELSE HashDirectory(item, tree)

HashLayer(d) == FlattenSeq([i \in DOMAIN layer |-> HashItem(layer[i], d[layer[i].src])])

(* A file that is not there, or no file, and a tree that cannot be walked. *)
CanHash(d) ==
    \A i \in DOMAIN layer :
        /\ layer[i].kind = "file" => /\ layer[i].path \in DOMAIN d[layer[i].src]
                                     /\ Opened(layer[i], d[layer[i].src][layer[i].path]).type = "file"
        /\ layer[i].kind = "copy" => RootOf[layer[i].src] # "missing" \/ ~layer[i].inTag

-----------------------------------------------------------------------------
(* The image.                                                              *)

(* Buildah looks under an excluded directory for what is re-included; its  *)
(* paths start at the parent of a source that is copied whole.             *)
CopiedPaths(item, tree) ==
    {p \in DOMAIN tree :
        ~Excluded(EffectiveExcludes(item), IF item.contentsOnly THEN p
                                           ELSE <<BaseName[item.src]>> \o p)}

(* Ansible sees the whole roles tree, and is taken not to read .git.       *)
MountedPaths(tree) == {p \in DOMAIN tree : Git \notin ToSet(p)}

Taken(item, tree) ==
    IF RootOf[item.src] = "missing" THEN {}
    ELSE CASE item.kind = "file"  -> {item.path}
           [] item.kind = "copy"  -> CopiedPaths(item, tree)
           [] item.kind = "roles" -> MountedPaths(tree)

(* The options that replace the host's mode or owner are in the config.    *)
NodeInImage(item, p, node) ==
    [path |-> p, type |-> node.type, data |-> node.data,
     mode |-> IF item.keepMode THEN node.mode ELSE 0,
     setid |-> item.keepMode /\ node.setid,
     owner |-> IF item.keepOwner THEN node.owner ELSE 0]

Image(d) ==
    [i \in DOMAIN layer |->
        LET tree == d[layer[i].src]
            paths == Sorted(Taken(layer[i], tree))
        IN  [k \in DOMAIN paths |-> NodeInImage(layer[i], paths[k], Opened(layer[i], tree[paths[k]]))]]

CanCopy(d) == \A i \in DOMAIN layer : layer[i].kind = "copy" => RootOf[layer[i].src] # "missing"

-----------------------------------------------------------------------------
Init ==
    /\ layer \in Layers
    /\ disk \in Trees
    /\ edits = 0
    /\ registry = [t \in {} |-> None]
    /\ got = None
    /\ state = "edited"

Parent(p) == SubSeq(p, 1, Len(p) - 1)

Edited ==
    /\ edits < MaxEdits /\ edits' = edits + 1
    /\ state' = "edited"
    /\ UNCHANGED <<layer, registry, got>>

(* A file, directory or link appears or is replaced.                       *)
Write(s, p, node) ==
    /\ Len(p) > 1 => Parent(p) \in DOMAIN disk[s] /\ disk[s][Parent(p)].type = "dir"
    /\ node.type # "dir" => \A q \in DOMAIN disk[s] : ~IsStrictPrefix(p, q)
    /\ disk' = [disk EXCEPT ![s] = [q \in DOMAIN @ \union {p} |-> IF q = p THEN node ELSE @[q]]]
    /\ disk' # disk
    /\ Edited

(* A path goes, with all that lies under it.                               *)
Delete(s, p) ==
    /\ p \in DOMAIN disk[s]
    /\ disk' = [disk EXCEPT ![s] = [q \in {r \in DOMAIN @ : ~IsPrefix(p, r)} |-> @[q]]]
    /\ Edited

(* Compute; then the build, unless the tag already has an image.           *)
Build ==
    /\ state = "edited" /\ CanHash(disk)
    /\ LET tag == HashLayer(disk)
       IN  \/ /\ tag \in DOMAIN registry
              /\ got' = registry[tag] /\ state' = "built"
              /\ UNCHANGED registry
           \/ /\ tag \notin DOMAIN registry /\ CanCopy(disk)
              /\ got' = Image(disk) /\ state' = "built"
              /\ registry' = [t \in DOMAIN registry \union {tag} |->
                                 IF t = tag THEN Image(disk) ELSE registry[t]]
           \/ /\ tag \notin DOMAIN registry /\ ~CanCopy(disk)
              /\ state' = "failed"
              /\ UNCHANGED <<registry, got>>
    /\ UNCHANGED <<layer, disk, edits>>

ComputeFails ==
    /\ state = "edited" /\ ~CanHash(disk)
    /\ state' = "failed"
    /\ UNCHANGED <<layer, disk, edits, registry, got>>

Finished == state # "edited" /\ edits = MaxEdits /\ UNCHANGED vars

Next == \/ \E w \in Writes : Write(w.src, w.path, w.node)
        \/ \E s \in Sources : \E p \in DOMAIN disk[s] : Delete(s, p)
        \/ Build \/ ComputeFails \/ Finished

Spec == Init /\ [][Next]_vars

-----------------------------------------------------------------------------
(* Properties.                                                             *)

(* configuration.md: editing a file under src invalidates the cache, and   *)
(* dag.go: any change anywhere gives a new tag.  A build never skips to an *)
(* image that differs from the one it would have made.                     *)
NeverStale == state = "built" => got = Image(disk)

(* What the tag is known not to cover: a tree left out of it on purpose,   *)
(* what a negated pattern re-includes under an excluded directory, an      *)
(* anchored pattern of a source copied whole, a root that is a link.       *)
Covered(item) ==
    \/ item.kind = "file"
    \/ /\ item.inTag
       /\ RootOf[item.src] # "link"
       /\ \A i \in DOMAIN item.excludes : ~item.excludes[i].negated
       /\ item.contentsOnly \/ \A i \in DOMAIN item.excludes : item.excludes[i].floating

(* Nothing marks where one tree's entries end and the next one's begin.    *)
OneTree == Cardinality({i \in DOMAIN layer : layer[i].kind # "file"}) <= 1

WithoutSetid(entries) == [k \in DOMAIN entries |-> [entries[k] EXCEPT !.setid = FALSE]]

(* A directory copied whole that a pattern names is hashed and not copied: *)
(* what it has in the text, another tree may have.                         *)
CopiesAllHashed(item) ==
    \/ item.kind # "copy" \/ item.contentsOnly
    \/ /\ BaseName[item.src] # Git
       /\ \A i \in DOMAIN item.excludes : item.excludes[i].path[1] # BaseName[item.src]

(* Editing, moving, adding, removing, retyping or re-moding any file that  *)
(* a build takes from the host, a skipped build hands out a stale image    *)
(* for none of the reasons that are not known: the set-id bits, which the  *)
(* hash drops; the kinds of item above; and, between two trees, an entry   *)
(* that has moved from one to the other and kept its place in the text.    *)
(* (hashLayer, hashDirectory, EffectiveExcludes, CopyDirectory)            *)
StaleOnlyByKnownGap ==
    state = "built" /\ (\A i \in DOMAIN layer : Covered(layer[i])) =>
        LET now == Image(disk)
            same(i) == WithoutSetid(got[i]) = WithoutSetid(now[i])
        IN  /\ \A i \in DOMAIN layer : layer[i].kind = "file" \/ OneTree => same(i)
            /\ (\A i \in DOMAIN layer : CopiesAllHashed(layer[i])) =>
                  WithoutSetid(FlattenSeq(got)) = WithoutSetid(FlattenSeq(now))

(* The disk without anything of git's own.                                 *)
WithoutGit ==
    [s \in Sources |-> [p \in {q \in DOMAIN disk[s] : Git \notin ToSet(q)} |-> disk[s][p]]]

(* However .git looks, at whatever depth, as a directory, a pointer file   *)
(* or not at all, neither the tag nor the image moves: a clone, a release  *)
(* tarball and a submodule of one tree agree, unless a file of git's own   *)
(* is asked for by its path (gitExcludes).                                 *)
GitBookkeepingInvisible ==
    (\A i \in DOMAIN layer : Covered(layer[i]) /\ Git \notin ToSet(layer[i].path)) /\ CanHash(disk) =>
        /\ HashLayer(disk) = HashLayer(WithoutGit)
        /\ Image(disk) = Image(WithoutGit)
=============================================================================
