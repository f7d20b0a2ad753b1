------------------------------ MODULE MCCommands ------------------------------
(* The manifests of MCManifest, some of which are used by commands: a      *)
(* layer with a parent and a grandparent among its parents, for one        *)
(* architecture or two, and two parents whose names look alike.            *)
EXTENDS MCManifest, Commands

CONSTANTS u, os, cli, file

MCAllNames    == MCNames \union {<<u>>, <<a, b>>}
MCHostArch    == <<x>>
MCUnderscored == [p \in {a, b, c, x, y, u} |-> IF p = u THEN <<a, b>> ELSE <<p>>]

Diamond(archs) ==
    [archs |-> archs, layers |-> Three(<<>>, <<<<a>>>>, <<<<b>>, <<a>>>>, <<>>, <<>>, <<>>)]
Alike ==
    [archs |-> <<>>,
     layers |-> <<Layer(<<u>>, <<>>, <<>>), Layer(<<a, b>>, <<>>, <<>>), Layer(<<b>>, <<>>, <<>>),
                  Layer(<<c>>, <<<<u>>, <<a, b>>, <<b>>>>, <<>>)>>]
Broken == [archs |-> <<>>, layers |-> <<>>]

CalledManifests == {Diamond(<<>>), Diamond(<<<<x>>, <<y>>>>), Diamond(<<<<y>>>>), Alike, Broken}
MCAllManifests  == MCManifests \union CalledManifests

(* In these manifests no two layers or expansions share a concrete name.   *)
ASSUME MCApart ==
    \A m \in MCAllManifests : Valid(m) /\ Expandable(m) => ExpansionsApart(m) /\ NamesApart(m)

-----------------------------------------------------------------------------
(* Configs: a good one, and one for each rule it may break.                *)
NoEnv == [pass |-> <<>>, set |-> {}]
Dnf   == [name |-> "dnf", options |-> [k \in {"best", "macro."} |-> "true"]]
Run   == [is |-> {"run"}, ansible |-> <<>>, env |-> NoEnv]
Play  == [is |-> {"ansible"}, ansible |-> [playbook |-> TRUE, groups |-> 1, verbose |-> 4], env |-> NoEnv]
Local == [type |-> "local", path |-> FALSE, url |-> FALSE, bucket |-> FALSE, promoteOnly |-> FALSE]
S3    == [Local EXCEPT !.type = "s3", !.url = TRUE, !.bucket = TRUE]
File  == [path |-> TRUE, from |-> {"src"}]
Dir   == [path |-> TRUE, src |-> TRUE, owner |-> FALSE, preserveOwnership |-> TRUE]

Good == [parses |-> TRUE, name |-> TRUE, tags |-> 1, manager |-> Dnf, env |-> NoEnv,
         files |-> {File}, repos |-> {}, directories |-> {Dir},
         modules |-> {[name |-> TRUE, action |-> "reset"]},
         commands |-> {Run, Play}, publish |-> {Local}]

Manager(name, options) == [Good EXCEPT !.manager = [name |-> name, options |-> options]]

Configs ==
    { Good,
      [Good EXCEPT !.parses = FALSE], [Good EXCEPT !.name = FALSE], [Good EXCEPT !.tags = 0],
      [Good EXCEPT !.env.pass = <<"k", "k">>], [Good EXCEPT !.env.set = {""}],
      [Good EXCEPT !.files = {[File EXCEPT !.from = {"src", "url"}]}],
      [Good EXCEPT !.repos = {[File EXCEPT !.from = {}]}],
      [Good EXCEPT !.directories = {[Dir EXCEPT !.owner = TRUE]}],
      [Good EXCEPT !.modules = {[name |-> TRUE, action |-> ""]}],
      [Good EXCEPT !.commands = {[Run EXCEPT !.is = {}]}],
      [Good EXCEPT !.commands = {[Play EXCEPT !.ansible.verbose = 5]}],
      [Good EXCEPT !.commands = {[Run EXCEPT !.env = [pass |-> <<"k">>, set |-> {"k"}]]}],
      Manager("yum", <<>>), Manager("apt", "best" :> "true"), Manager("apt", "clean" :> "yes"),
      Manager("dnf", "best" :> "true" @@ "nobest" :> "true"),
      Manager("mmdebstrap", "suite" :> "s"), Manager("mmdebstrap", "suite" :> "s" @@ "mirror" :> "m"),
      Manager("zypper", "macro." :> ""),
      [Good EXCEPT !.publish = {}],
      [Good EXCEPT !.publish = {[Local EXCEPT !.type = "ftp"]}],
      [Good EXCEPT !.publish = {[Local EXCEPT !.type = "squashfs"]}],
      [Good EXCEPT !.publish = {[Local EXCEPT !.type = "registry"]}],
      [Good EXCEPT !.publish = {[S3 EXCEPT !.bucket = FALSE]}],
      [Good EXCEPT !.publish = {[S3 EXCEPT !.url = FALSE, !.promoteOnly = TRUE]}],
      [Good EXCEPT !.publish = {Local, S3}],
      [Good EXCEPT !.publish = {[S3 EXCEPT !.promoteOnly = TRUE]}] }

-----------------------------------------------------------------------------
Tag  == <<"tag">>
Arch == <<"arch">>

File0(refs) == [readable |-> TRUE, varsLoad |-> TRUE, filesExist |-> TRUE, refs |-> refs, config |-> Good]

(* The template of c refers to the tags of its parents and to its own.     *)
Files ==
    <<>> :> File0({<<os>>}) @@ <<a>> :> File0({Tag, <<os>>}) @@ <<b>> :> File0({Tag})
    @@ <<u>> :> File0({Tag}) @@ <<a, b>> :> File0({<<os>>})
    @@ <<c>> :> File0({Tag, <<a, "tag">>, <<b, "tag">>})

(* Variants of one file, and of a checkout: in c's own or an ancestor's.   *)
Variants(f) ==
    {[f EXCEPT !.config = g] : g \in Configs}
    \union {[f EXCEPT !.readable = FALSE], [f EXCEPT !.varsLoad = FALSE], [f EXCEPT !.filesExist = FALSE],
            [f EXCEPT !.refs = @ \union {Arch}], [f EXCEPT !.refs = @ \union {<<"parent", "tag">>}],
            [f EXCEPT !.refs = @ \union {<<a, b, "tag">>}]}

Checkouts(files) == {files} \union UNION {{[files EXCEPT ![n] = v] : v \in Variants(files[n])} :
                                         n \in {<<a>>, <<c>>}}

FilesAlike == [Files EXCEPT ![<<c>>] = File0({Tag, <<a, b, "tag">>, <<b, "tag">>})]

(* The architecture's files set os, the layer's own the tag of a parent.   *)
MCVarsOf(logical, arch) == <<os>> :> arch @@ <<a, "tag">> :> file

NoFlags == [config |-> FALSE, manifest |-> FALSE, layer |-> <<>>, arch |-> NoArch, varsLoad |-> TRUE,
            vars |-> <<>>, credentials |-> TRUE, templates |-> <<>>]

Named(layer, arch) == [NoFlags EXCEPT !.manifest = TRUE, !.layer = layer, !.arch = arch,
                                      !.templates = Files]
Single == [NoFlags EXCEPT !.config = TRUE, !.templates = Files,
                          !.vars = <<os>> :> cli @@ <<b, "tag">> :> cli]

CalledWith(m) ==
    {NoFlags, [Single EXCEPT !.layer = <<c>>], [Single EXCEPT !.arch = <<x>>],
     [Single EXCEPT !.manifest = TRUE], Named(<<>>, <<>>), Named(<<a>>, <<x>>),
     [Named(<<b>>, <<x>>) EXCEPT !.varsLoad = FALSE], Named(<<c, x>>, <<x>>)}
    \union {[Named(<<c>>, arch) EXCEPT !.templates = t, !.vars = Single.vars, !.credentials = FALSE] :
              arch \in {NoArch, <<y>>},
              t \in IF m = Alike THEN Checkouts(FilesAlike) ELSE Checkouts(Files)}
    \union {[Single EXCEPT !.templates = [Files EXCEPT ![<<>>] = v], !.credentials = cr] :
              v \in Variants(Files[<<>>]), cr \in BOOLEAN}

MCCallsFor(m) == IF m \in CalledManifests THEN CalledWith(m) ELSE {NoFlags}
=============================================================================
