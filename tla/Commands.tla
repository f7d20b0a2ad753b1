------------------------------- MODULE Commands -------------------------------
(***************************************************************************)
(* validate, render and build (src/cmd/image-thrillhouse/main.go) with the *)
(* same flags over one checkout, one after the other: the flags, the       *)
(* manifest, the layer, the tags of the layer and its ancestors, the       *)
(* rendering, and what each command does with the result.  How a build     *)
(* goes on is BuildPipeline's; an edit between two commands is TagChain's. *)
(*                                                                         *)
(* The manifest does not change, so it is loaded once.  A variable's name  *)
(* is the sequence of its parts between underscores; a rendering is the    *)
(* template with the values of the variables it refers to, a tag the       *)
(* structure that is hashed.                                               *)
(***************************************************************************)
EXTENDS Manifest, Config

CONSTANTS
    CallsFor(_),   (* command lines run with a manifest                   *)
    HostArch,      (* canonicalHostArch                                   *)
    VarsOf(_, _),  (* variable files of a logical layer and an arch       *)
    Underscored,   (* the parts a part of a name has between underscores  *)
    SelfTagSentinel

Order == <<"validate", "render", "build">>

VARIABLES
    call,        (* flags, environment, and the config file of each       *)
                 (* logical layer; that of --config is under <<>>         *)
    at,          (* index of the command that runs                        *)
    stage,       (* where it is                                           *)
    target,      (* the concrete layer, Failed without a manifest         *)
    stack,       (* the layers ComputeTags is visiting                    *)
    tags,        (* tags it has computed, by layer                        *)
    bound,       (* the variables for the rendering                       *)
    rendering,   (* the config as it is rendered                          *)
    ended,       (* stage in which each command ended                     *)
    output       (* what each command rendered in the end                 *)

hashing  == <<stack, tags>>
session  == <<call, at, stage, target, hashing, bound, rendering, ended, output>>
allVars  == <<vars, session>>

Cmd == Order[at]

-----------------------------------------------------------------------------
(* validateManifestFlags and resolveManifestLayer.                         *)

ValidFlags(c) ==
    /\ ~(c.manifest /\ c.config)
    /\ c.manifest => c.layer # <<>>
    /\ c.layer # <<>> => c.manifest
    /\ c.arch # NoArch => c.manifest
    /\ c.manifest \/ c.config

ResolveManifestLayer(d, c) ==
    Resolve(d, c.layer, IF c.arch = NoArch /\ IsMultiArch(d) THEN HostArch ELSE c.arch)

-----------------------------------------------------------------------------
(* Rendering and tags.                                                     *)

(* Of two maps the second wins.                                            *)
MergeVars(base, override) ==
    [v \in DOMAIN base \union DOMAIN override |->
        IF v \in DOMAIN override THEN override[v] ELSE base[v]]

Bound(v, value) == [k \in {v} |-> value]

TagVar(name) == FlattenSeq([i \in DOMAIN name |-> Underscored[name[i]]]) \o <<"tag">>

ParentVarName(d, dep) == TagVar(d[dep].logical)

(* Of two parents with one variable name the later is kept.                *)
Computed(d, n, parentTags, selfTag) ==
    LET deps == d[n].deps
        Latest(v) == CHOOSE i \in DOMAIN deps :
                        /\ ParentVarName(d, deps[i]) = v
                        /\ \A k \in DOMAIN deps : ParentVarName(d, deps[k]) = v => k <= i
        parents == [v \in {ParentVarName(d, deps[i]) : i \in DOMAIN deps} |-> parentTags[Latest(v)]]
        own     == IF d[n].arch = NoArch THEN Bound(<<"tag">>, selfTag)
                   ELSE MergeVars(Bound(<<"tag">>, selfTag), Bound(<<"arch">>, d[n].arch))
        direct  == MergeVars(own, parents)
    IN  IF Len(deps) = 1 THEN MergeVars(direct, Bound(<<"parent", "tag">>, parentTags[1])) ELSE direct

(* Mutant: what the user sets wins over what is computed.                  *)
RenderVarsUserFirst(d, n, cli, parentTags, selfTag) ==
    MergeVars(Computed(d, n, parentTags, selfTag), MergeVars(VarsOf(d[n].logical, d[n].arch), cli))

RenderVars(d, n, cli, parentTags, selfTag) ==
    MergeVars(MergeVars(VarsOf(d[n].logical, d[n].arch), cli), Computed(d, n, parentTags, selfTag))

(* missingkey=error.                                                       *)
Renders(template, values) == template.readable /\ template.refs \subseteq DOMAIN values

RenderConfig(template, values) ==
    [config |-> template.config, values |-> [v \in template.refs |-> values[v]]]

(* What YAML cannot parse is no config.                                    *)
ParseAndValidate(rendered) == rendered.config.parses /\ ValidConfig(rendered.config)

Compute(rendered, parentTags) == [parents |-> parentTags, rendered |-> rendered]

(* The rendering that is hashed: the layer's own tag is not known yet.     *)
HashedVars(d, n, c, parentTags) == RenderVars(d, n, c.vars, parentTags, SelfTagSentinel)

Hashable(d, n, c, parentTags) ==
    LET template == c.templates[d[n].logical]
        values   == HashedVars(d, n, c, parentTags)
    IN  /\ template.varsLoad /\ Renders(template, values)
        /\ ParseAndValidate(RenderConfig(template, values)) /\ template.filesExist

TagOf(d, n, c, parentTags) ==
    Compute(RenderConfig(c.templates[d[n].logical], HashedVars(d, n, c, parentTags)), parentTags)

ParentTags(d, n, known) == [i \in DOMAIN d[n].deps |-> known[d[n].deps[i]]]

-----------------------------------------------------------------------------
SessionInit ==
    /\ call = <<>> /\ at = 0 /\ stage = "flags"
    /\ target = Failed /\ stack = <<>> /\ tags = <<>> /\ bound = <<>> /\ rendering = <<>>
    /\ ended = [c \in ToSet(Order) |-> "not run"]
    /\ output = [c \in ToSet(Order) |-> <<>>]

CommandsInit == Init /\ SessionInit

(* The command ends, with an error of its stage or done with what it has   *)
(* rendered; the next one starts.                                          *)
End(how) ==
    /\ ended' = [ended EXCEPT ![Cmd] = how]
    /\ at' = at + 1 /\ stage' = "flags"
    /\ target' = Failed /\ stack' = <<>> /\ tags' = <<>> /\ bound' = <<>> /\ rendering' = <<>>
    /\ UNCHANGED <<call, vars>>

EndsWith(how, text) == End(how) /\ output' = [output EXCEPT ![Cmd] = text]

Fails == End(stage) /\ UNCHANGED output

Goto(next) == stage' = next /\ UNCHANGED <<vars, call, at, ended, output>>

(* The command line, with which all the commands are run.                  *)
Invoke ==
    /\ phase \in {"ready", "invalid", "cyclic"} /\ at = 0 /\ at' = 1
    /\ call' \in CallsFor(manifest)
    /\ UNCHANGED <<vars, stage, target, hashing, bound, rendering, ended, output>>

Running(s) == at \in DOMAIN Order /\ stage = s

CheckFlags ==
    /\ Running("flags")
    /\ \/ ~ValidFlags(call) /\ Fails
       \/ ValidFlags(call) /\ Goto("vars") /\ UNCHANGED <<target, hashing, bound, rendering>>

(* LoadVars; without a manifest these are all there is.                    *)
LoadVars ==
    /\ Running("vars")
    /\ \/ ~call.varsLoad /\ Fails
       \/ call.varsLoad /\ call.manifest
             /\ Goto("manifest") /\ UNCHANGED <<target, hashing, bound, rendering>>
       \/ call.varsLoad /\ ~call.manifest
             /\ bound' = call.vars
             /\ Goto("render") /\ UNCHANGED <<target, hashing, rendering>>

LoadDAG ==
    /\ Running("manifest")
    /\ LET n == ResolveManifestLayer(dag, call)
       IN  \/ (phase # "ready" \/ n = Failed) /\ Fails
           \/ /\ phase = "ready" /\ n # Failed
              /\ target' = n /\ stack' = <<n>>
              /\ Goto("tags") /\ UNCHANGED <<tags, bound, rendering>>

(* ComputeTags: parents first, each layer once; it stops at its first      *)
(* error.  NewDAG has found every parent there.                            *)
Untagged == {i \in DOMAIN dag[Last(stack)].deps : dag[Last(stack)].deps[i] \notin DOMAIN tags}

VisitParent ==
    /\ Running("tags") /\ stack # <<>>
    /\ \E i \in Untagged :
          /\ \A k \in Untagged : i <= k
          /\ stack' = Append(stack, dag[Last(stack)].deps[i])
    /\ UNCHANGED <<vars, call, at, stage, target, tags, bound, rendering, ended, output>>

ComputeTag ==
    /\ Running("tags") /\ stack # <<>> /\ Untagged = {}
    /\ LET n       == Last(stack)
           parents == ParentTags(dag, n, tags)
       IN  \/ ~Hashable(dag, n, call, parents) /\ Fails
           \/ /\ Hashable(dag, n, call, parents)
              /\ tags' = MergeVars(tags, Bound(n, TagOf(dag, n, call, parents)))
              /\ stack' = Front(stack)
              /\ Goto("tags") /\ UNCHANGED <<target, bound, rendering>>

(* prepareLayerRender ends with the variables for the layer itself.        *)
PrepareLayerRender ==
    /\ Running("tags") /\ stack = <<>>
    /\ bound' = RenderVars(dag, target, call.vars, ParentTags(dag, target, tags), tags[target])
    /\ Goto("render") /\ UNCHANGED <<target, hashing, rendering>>

Template == call.templates[IF call.manifest THEN dag[target].logical ELSE <<>>]

(* render stops here; it may fail to write its output.                     *)
Render ==
    /\ Running("render")
    /\ \/ ~Renders(Template, bound) /\ Fails
       \/ /\ Renders(Template, bound) /\ Cmd = "render"
          /\ EndsWith("done", RenderConfig(Template, bound)) \/ Fails
       \/ /\ Renders(Template, bound) /\ Cmd # "render"
          /\ rendering' = RenderConfig(Template, bound)
          /\ Goto("parse") /\ UNCHANGED <<target, hashing, bound>>

Parse ==
    /\ Running("parse")
    /\ \/ ~ParseAndValidate(rendering) /\ Fails
       \/ ParseAndValidate(rendering) /\ Goto("backend") /\ UNCHANGED <<target, hashing, bound, rendering>>

(* validate stops here.                                                    *)
Backend ==
    /\ Running("backend")
    /\ LET ok == NewBackend(rendering.config.manager)
       IN  \/ ~ok /\ Fails
           \/ ok /\ Cmd = "validate" /\ EndsWith("done", rendering)
           \/ ok /\ Cmd = "build" /\ Goto("publishers") /\ UNCHANGED <<target, hashing, bound, rendering>>

(* Builder.Build begins.                                                   *)
Publishers ==
    /\ Running("publishers")
    /\ \/ ~NewPublishers(rendering.config, call.credentials) /\ Fails
       \/ NewPublishers(rendering.config, call.credentials) /\ EndsWith("done", rendering)

AllEnded == at > Len(Order) /\ UNCHANGED allVars

Loading == (Validate \/ Expand \/ NewDAG \/ CheckCycle) /\ UNCHANGED session

CommandsNext == \/ Loading \/ Invoke \/ CheckFlags \/ LoadVars \/ LoadDAG
                \/ VisitParent \/ ComputeTag \/ PrepareLayerRender
                \/ Render \/ Parse \/ Backend \/ Publishers \/ AllEnded

CommandsSpec == CommandsInit /\ [][CommandsNext]_allVars

-----------------------------------------------------------------------------
(* Properties.                                                             *)

Stages == {"flags", "vars", "manifest", "tags", "render", "parse", "backend", "publishers"}

(* Every variable has its type, the manifest's too; a command past the     *)
(* manifest works on a layer of the DAG, and its walk over the ancestors   *)
(* never holds one twice.                                                  *)
CommandsTypeOK ==
    /\ TypeOK
    /\ at \in 0..(Len(Order) + 1) /\ stage \in Stages
    /\ ended \in [ToSet(Order) -> Stages \union {"not run", "done"}]
    /\ stage = "tags" => target \in DOMAIN dag
    /\ ToSet(stack) \union DOMAIN tags \subseteq DOMAIN dag
    /\ \A i, k \in DOMAIN stack : stack[i] = stack[k] => i = k
    /\ stage \in {"parse", "backend", "publishers"} => rendering # <<>>
    /\ \A c \in ToSet(Order) : output[c] # <<>> <=> ended[c] = "done"

Credentials == \E p \in output["validate"].config.publish : p.type = "s3" /\ ~p.promoteOnly

(* main.go: validate gives the answer build would, and render exactly what *)
(* a build would consume.  Over one checkout validate accepts what build   *)
(* starts to build, but for credentials of S3, which only a build needs;   *)
(* both refuse at the same stage; and what render printed is the text that *)
(* the build builds from (runValidate, runRender, runBuild, newPublishers, *)
(* validate.go).                                                           *)
CommandsAgree ==
    at > Len(Order) =>
        /\ ended["validate"] = ended["build"]
           \/ /\ ended["validate"] = "done" /\ ended["build"] = "publishers"
              /\ Credentials /\ ~call.credentials
        /\ ended["validate"] = "done" => output["render"] \in {<<>>, output["validate"]}
        /\ ended["build"] = "done" => output["build"] = output["validate"]

(* The tags a checkout stands for: each layer's from its own rendering and *)
(* its parents', in one piece.                                             *)
TagsOf(d, c) ==
    LET tag[n \in DOMAIN d] == TagOf(d, n, c, [i \in DOMAIN d[n].deps |-> tag[d[n].deps[i]]])
    IN  tag

(* The tag a child's config is rendered with for a parent, from: of the    *)
(* child most of all, is the one that a build of that parent with the same *)
(* flags publishes under, whatever the user's own variables are called and *)
(* however many paths lead to the parent - unless two parents' names       *)
(* differ in nothing but hyphens and underscores (RenderVars, renderVars,  *)
(* ComputeTags, parentVarName).                                            *)
PinsParentTag ==
    ended["build"] = "done" /\ call.manifest =>
        LET n == ResolveManifestLayer(dag, call)
            OwnVar(p) == \A k \in DOMAIN dag[n].deps :
                             dag[n].deps[k] # p => ParentVarName(dag, dag[n].deps[k]) # ParentVarName(dag, p)
            values == output["build"].values
        IN  \A p \in ToSet(dag[n].deps) :
                OwnVar(p) /\ ParentVarName(dag, p) \in DOMAIN values =>
                    values[ParentVarName(dag, p)] = TagsOf(dag, call)[p]
=============================================================================
