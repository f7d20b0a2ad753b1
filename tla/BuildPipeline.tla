---------------------------- MODULE BuildPipeline ----------------------------
(***************************************************************************)
(* One run of Builder.Build (src/internal/builder/builder.go) with the     *)
(* container operations it calls (src/internal/buildah/container.go) and   *)
(* the two-signal shutdown of buildContext (src/cmd).                      *)
(*                                                                         *)
(* The pipeline is a sequence of stages, each a loop over the items the    *)
(* config gives it; the order depends on whether the backend insists on an *)
(* empty root.  A command is launched and returns in two steps, so that a  *)
(* signal can arrive while it runs.  Deferred calls are a stack, popped    *)
(* when Build returns.  What a command really did to the root filesystem   *)
(* is recorded in root, independently of how its result is classified.     *)
(***************************************************************************)
EXTENDS Backends, FiniteSets

CONSTANTS
    Configs,     (* the rendered configs a run may be given               *)
    ExitCodes    (* non-zero exit codes of commands; -1: undeterminable   *)

ConfigType ==
    [backend: Backends, scratch: BOOLEAN, skip: BOOLEAN, prune: BOOLEAN,
     manager: BOOLEAN, repos: Nat, keys: Nat, files: Nat, dirs: Nat,
     install: InstallType, commands: Seq({"run", "script", "ansible"}),
     remove: BOOLEAN, pubs: Nat \ {0},
     oscap: [install: BOOLEAN, bench: BOOLEAN, oval: BOOLEAN, complete: BOOLEAN]]

ASSUME ConfigsAssumption == Configs \subseteq ConfigType
ASSUME ExitCodesAssumption == ExitCodes \subseteq Int \ {0}

VARIABLES
    cfg,         (* the config of this run                                *)
    phase,       (* part of Build that is executing                       *)
    pos,         (* position in Order(cfg)                                *)
    idx,         (* items of the stage (publishers) already done          *)
    step,        (* position inside the current item                      *)
    status,      (* what Build returns: "none" while it runs              *)
    running,     (* call in flight: "none" | "host" | "container" | "publish" *)
    ctx,         (* "live" | "cancelled"                                  *)
    container,   (* "none" | "created" | "deleted" | "stuck"              *)
    image,       (* base image this run pulled: "none" | "kept" (not ours *)
                 (* to prune) | "owned" | "pruned"                        *)
    defers,      (* deferred calls, last registered last                  *)
    root,        (* effects that really are in the root filesystem        *)
    litter,      (* temporary files left inside the root filesystem       *)
    rmFailed,    (* of those, the ones a cleanup command failed to remove *)
    hostTmp,     (* temporary files of the host that exist                *)
    labels,      (* image labels are set                                  *)
    existed,     (* publishers whose Exists reported the image present    *)
    published,   (* publishers whose Publish returned nil                 *)
    pruneErr     (* the image removal failed for a reason of the store    *)

ctl      == <<phase, pos, idx, step, status>>
fs       == <<root, litter, rmFailed, hostTmp>>
outside  == <<cfg, ctx, container, image, defers, labels, existed, published, pruneErr>>
vars     == <<ctl, running, fs, outside>>

-----------------------------------------------------------------------------
(* The plan of a build.                                                    *)

Stages == {"bootstrap", "install", "manager", "repos", "gpg", "files",
           "dirs", "commands", "remove", "oscap"}

InstallFirst(c) == c.scratch /\ RequiresEmptyRoot(c.backend)

(* Mutant: the install is never moved in front of the writes.              *)
OrderWithoutInversion(c) ==
    <<"manager", "bootstrap", "repos", "gpg", "files", "dirs", "install",
      "commands", "remove", "oscap">>

Order(c) ==
    IF InstallFirst(c)
    THEN <<"bootstrap", "install", "manager", "repos", "gpg", "files", "dirs",
           "commands", "remove", "oscap">>
    ELSE <<"manager", "bootstrap", "repos", "gpg", "files", "dirs", "install",
           "commands", "remove", "oscap">>

(* The commands and downloads of Scanner.Run; "reject" stands for a        *)
(* missing setting or an unsupported package manager.                      *)
ScanSteps(c) ==
    LET o == c.oscap
        install == IF c.backend = "mmdebstrap" THEN <<"reject">>
                   ELSE Opt(c.backend = "apt", "update") \o <<"install">>
        bench   == IF o.complete THEN <<"eval", "fix">> ELSE <<"reject">>
        oval    == IF o.complete THEN <<"fetch", "oval">> ELSE <<"reject">>
    IN  IF o.install \/ o.bench \/ o.oval
        THEN (IF o.install THEN install ELSE <<>>) \o <<"check">>
                \o (IF o.bench THEN bench ELSE <<>>)
                \o (IF o.oval THEN oval ELSE <<>>)
        ELSE <<>>

(* Scan commands whose failure is only logged.                             *)
ScanBestEffort == {"update", "eval", "fix", "oval"}

CommandsOf(c) == InstallCommands(c.backend, c.scratch, c.install)

Count(c, s) ==
    CASE s = "bootstrap" -> IF c.scratch THEN 1 ELSE 0
      [] s = "manager"   -> IF c.manager THEN 1 ELSE 0
      [] s = "repos"     -> c.repos
      [] s = "gpg"       -> c.keys
      [] s = "files"     -> c.files
      [] s = "dirs"      -> c.dirs
      [] s = "install"   -> Len(CommandsOf(c))
      [] s = "commands"  -> Len(c.commands)
      [] s = "remove"    -> IF c.remove THEN 1 ELSE 0
      [] s = "oscap"     -> Len(ScanSteps(c))

(* A stage its backend cannot serve fails before its first item.           *)
Rejected(c, s) ==
    \/ s = "install" /\ c.scratch /\ ~SupportsInstallRoot(c.backend)
    \/ s = "install" /\ ~c.scratch /\ ~SupportsParentInstall(c.backend)
    \/ s = "manager" /\ c.manager /\ ~HasConfigFile(c.backend)

(* What a published image must contain: everything but the best-effort     *)
(* steps.                                                                  *)
Mandatory(c, s, i) ==
    /\ s \notin {"bootstrap", "gpg"}
    /\ s = "oscap" => ScanSteps(c)[i] \notin ScanBestEffort

-----------------------------------------------------------------------------
(* Running a command.                                                      *)

stage == Order(cfg)[pos]

InStage(s) == /\ phase = "stages"
              /\ stage = s
              /\ idx < Count(cfg, s)
              /\ ~Rejected(cfg, s)

ScanStep    == ScanSteps(cfg)[idx + 1]
CommandKind == cfg.commands[idx + 1]

(* The current item needs a command at this point.                         *)
AtCommand ==
    \/ InStage("bootstrap") /\ step = "skeleton"
    \/ InStage("install") \/ InStage("remove")
    \/ InStage("gpg") /\ step \in {"placed"} \union (IF cfg.scratch THEN {} ELSE {"imported"})
    \/ InStage("oscap") /\ ScanStep \notin {"fetch", "reject"}
    \/ InStage("commands") /\ CommandKind = "run"
    \/ InStage("commands") /\ CommandKind = "script" /\ step # "start"
    \/ InStage("commands") /\ CommandKind = "ansible" /\ step # "verified"

(* RunModeHost is used by the scratch paths of these stages only.          *)
Mode == IF cfg.scratch /\ stage \in {"bootstrap", "install", "gpg", "remove"}
        THEN "host" ELSE "container"

(* Container.Run past its ctx check: the command is started.               *)
Launch ==
    /\ AtCommand /\ running = "none" /\ ctx = "live"
    /\ running' = Mode
    /\ UNCHANGED <<ctl, fs, outside>>

Ok      == [code |-> 0, crash |-> FALSE]
Results == {Ok} \union [code: ExitCodes, crash: BOOLEAN]

(* Container.Run returns: the command ended, with or without a crash dump  *)
(* in its output, or the cancelled context refused to start it.            *)
Returned(r) ==
    /\ AtCommand
    /\ running' = "none"
    /\ \/ running # "none" /\ r \in Results
       \/ running = "none" /\ ctx = "cancelled" /\ r = [code |-> -1, crash |-> FALSE]

(* Ground truth, not known to the builder: the command did its work.  A    *)
(* build helper that crashed may have run nothing, whatever its exit code. *)
DidItsWork(r) ==
    \/ r.code = 0
    \/ ~r.crash /\ cfg.backend = "zypper" /\ r.code \in {102, 103, 107}

Succeeded(r) == r.code = 0

(* Mutant: the exit code is looked at before the crash markers.            *)
InstallAcceptedByCode(r) ==
    \/ Succeeded(r)
    \/ r.code > 0 /\ IsAcceptableExitCode(cfg.backend, r.code)

(* runInstallCommands: a crash marker overrides a tolerated exit code.     *)
InstallAccepted(r) ==
    \/ Succeeded(r)
    \/ ~r.crash /\ r.code > 0 /\ IsAcceptableExitCode(cfg.backend, r.code)

-----------------------------------------------------------------------------
(* Moving through the pipeline.                                            *)

ItemDone   == /\ idx' = idx + 1 /\ step' = "start"
              /\ UNCHANGED <<phase, pos, status>>
Goto(s)    == step' = s /\ UNCHANGED <<phase, pos, idx, status>>
Return(s)  == /\ phase' = "unwind" /\ status' = s
              /\ UNCHANGED <<pos, idx, step>>

Effect == <<stage, idx + 1>>

-----------------------------------------------------------------------------
(* Before the first stage.                                                 *)

Init ==
    /\ cfg \in Configs
    /\ phase = IF cfg.skip THEN "exists" ELSE "create"
    /\ pos = 1 /\ idx = 0 /\ step = "start" /\ status = "none"
    /\ running = "none" /\ ctx = "live"
    /\ container = "none" /\ image = "none" /\ defers = <<>>
    /\ root = {} /\ litter = {} /\ rmFailed = {} /\ hostTmp = {}
    /\ labels = FALSE /\ existed = {} /\ published = {} /\ pruneErr = FALSE

(* Mutant: one publisher that has the image is enough to skip.             *)
AnyExists ==
    /\ phase = "exists" /\ idx < cfg.pubs
    /\ \/ existed' = existed \union {idx + 1} /\ Return("skipped")
       \/ phase' = "create" /\ idx' = 0 /\ UNCHANGED <<pos, step, status, existed>>
    /\ UNCHANGED <<running, fs, cfg, ctx, container, image, defers, labels,
                   published, pruneErr>>

(* allExist asks one publisher: present, absent or an error.               *)
AskExists ==
    /\ phase = "exists" /\ idx < cfg.pubs
    /\ \/ existed' = existed \union {idx + 1} /\ ItemDone
       \/ phase' = "create" /\ idx' = 0 /\ UNCHANGED <<pos, step, status, existed>>
       \/ Return("error") /\ UNCHANGED existed
    /\ UNCHANGED <<running, fs, cfg, ctx, container, image, defers, labels,
                   published, pruneErr>>

SkipBuild ==
    /\ phase = "exists" /\ idx = cfg.pubs
    /\ Return("skipped")
    /\ UNCHANGED <<running, fs, outside>>

(* Mutant: the deferred calls are registered in reading order.             *)
DeferDeleteFirst == <<"delete", "prune">>

DeferStack == <<"prune", "delete">>

(* NewContainer: it may fail with nothing done, or fail to mount after the *)
(* base image was pulled (nobody prunes it then), or succeed.  A pulled    *)
(* image is owned unless the snapshot of the store had failed.             *)
NewContainer ==
    /\ phase = "create"
    /\ \/ /\ image' \in (IF cfg.scratch THEN {"none"} ELSE {"none", "kept"})
          /\ Return("error") /\ UNCHANGED <<container, defers>>
       \/ /\ image' \in (IF cfg.scratch THEN {"none"} ELSE {"none", "kept", "owned"})
          /\ container' = "created" /\ defers' = DeferStack
          /\ phase' = "stages" /\ UNCHANGED <<pos, idx, step, status>>
    /\ UNCHANGED <<running, fs, cfg, ctx, labels, existed, published, pruneErr>>

-----------------------------------------------------------------------------
(* The stages.                                                             *)

StageRejected ==
    /\ phase = "stages" /\ Rejected(cfg, stage)
    /\ Return("error")
    /\ UNCHANGED <<running, fs, outside>>

(* Mutant: the item counter survives the stage.                            *)
NextStageKeepsIndex ==
    /\ phase = "stages" /\ ~Rejected(cfg, stage) /\ idx >= Count(cfg, stage)
    /\ IF pos < Len(Order(cfg))
       THEN pos' = pos + 1 /\ UNCHANGED phase
       ELSE phase' = "labels" /\ UNCHANGED pos
    /\ UNCHANGED <<idx, step, status, running, fs, outside>>

NextStage ==
    /\ phase = "stages" /\ ~Rejected(cfg, stage) /\ idx = Count(cfg, stage)
    /\ IF pos < Len(Order(cfg))
       THEN pos' = pos + 1 /\ UNCHANGED phase
       ELSE phase' = "labels" /\ UNCHANGED pos
    /\ idx' = 0 /\ UNCHANGED <<step, status, running, fs, outside>>

(* WriteFile or CopyDirectory for one entry of the config.                 *)
Write(s) ==
    /\ InStage(s)
    /\ \/ ItemDone /\ root' = root \union {Effect}
       \/ Return("error") /\ UNCHANGED root
    /\ UNCHANGED <<running, litter, rmFailed, hostTmp, outside>>

ApplyManagerConfig == Write("manager")
WriteRepo          == Write("repos")
WriteCustomFile    == Write("files")
WriteDirectory     == Write("dirs")

(* Backend.Bootstrap up to its command: directories and macros for the rpm *)
(* backends, nothing for the others.  Every failure is only logged.        *)
Bootstrap ==
    /\ InStage("bootstrap") /\ step = "start"
    /\ IF cfg.backend \in {"dnf", "zypper"}
       THEN root' = root \union {Effect} ELSE UNCHANGED root
    /\ IF cfg.backend = "dnf" THEN Goto("skeleton") ELSE ItemDone
    /\ UNCHANGED <<running, litter, rmFailed, hostTmp, outside>>

(* rpm --initdb, of the dnf backend only.                                  *)
InitRpmDatabase ==
    /\ \E r \in Results : InStage("bootstrap") /\ Returned(r)
    /\ ItemDone
    /\ UNCHANGED <<fs, outside>>

(* Mutant: a failed command is tried again until it succeeds.              *)
MandateRetries(r, accepted) ==
    /\ root' = IF DidItsWork(r) THEN root \union {Effect} ELSE root
    /\ IF accepted THEN ItemDone ELSE UNCHANGED ctl

(* A mandatory command of the stage: its effect, or the end of the build.  *)
Mandate(r, accepted) ==
    /\ root' = IF DidItsWork(r) THEN root \union {Effect} ELSE root
    /\ IF accepted THEN ItemDone ELSE Return("error")

(* A command the builder runs on a best-effort basis.                      *)
Attempt(r) ==
    /\ root' = IF DidItsWork(r) THEN root \union {Effect} ELSE root
    /\ ItemDone

InstallCommand ==
    /\ InStage("install")
    /\ \E r \in Results : Returned(r) /\ Mandate(r, InstallAccepted(r))
    /\ UNCHANGED <<litter, rmFailed, hostTmp, outside>>

RemovePackages ==
    /\ InStage("remove")
    /\ \E r \in Results : Returned(r) /\ Mandate(r, Succeeded(r))
    /\ UNCHANGED <<litter, rmFailed, hostTmp, outside>>

-----------------------------------------------------------------------------
(* importGPGKeys: fetch and place a key, import it, remove the copy.       *)

KeyFile == <<"key", idx + 1>>

PlaceKey ==
    /\ InStage("gpg") /\ step = "start"
    /\ \/ ItemDone /\ UNCHANGED fs
       \/ /\ ctx = "live"
          /\ Goto("placed")
          /\ IF cfg.scratch
             THEN hostTmp' = hostTmp \union {"key"} /\ UNCHANGED litter
             ELSE litter' = litter \union {KeyFile} /\ UNCHANGED hostTmp
          /\ UNCHANGED <<root, rmFailed>>
    /\ UNCHANGED <<running, outside>>

(* Mutant: a failed import goes on to the next repo at once.               *)
ImportKeyThenContinue ==
    /\ InStage("gpg") /\ step = "placed"
    /\ \E r \in Results :
        /\ Returned(r)
        /\ IF Succeeded(r) THEN Goto("imported") ELSE ItemDone
        /\ root' = IF DidItsWork(r) THEN root \union {Effect} ELSE root
    /\ UNCHANGED <<litter, rmFailed, hostTmp, outside>>

ImportKey ==
    /\ InStage("gpg") /\ step = "placed"
    /\ \E r \in Results :
        /\ Returned(r)
        /\ root' = IF DidItsWork(r) THEN root \union {Effect} ELSE root
    /\ Goto("imported")
    /\ UNCHANGED <<litter, rmFailed, hostTmp, outside>>

(* rm inside the container: the file is gone, or its removal failed.       *)
Remove(r, file) ==
    IF Succeeded(r)
    THEN litter' = litter \ {file} /\ UNCHANGED rmFailed
    ELSE rmFailed' = rmFailed \union {file} /\ UNCHANGED litter

CleanupKey ==
    /\ InStage("gpg") /\ step = "imported"
    /\ IF cfg.scratch
       THEN hostTmp' = hostTmp \ {"key"} /\ UNCHANGED <<running, litter, rmFailed>>
       ELSE (\E r \in Results : Returned(r) /\ Remove(r, KeyFile)) /\ UNCHANGED hostTmp
    /\ ItemDone
    /\ UNCHANGED <<root, outside>>

-----------------------------------------------------------------------------
(* runCommands: run, script and ansible commands.                          *)

AtItem(kind, s) == InStage("commands") /\ CommandKind = kind /\ step = s

ResolveEnvFails ==
    /\ InStage("commands") /\ step = "start" /\ running = "none"
    /\ Return("error")
    /\ UNCHANGED <<running, fs, outside>>

RunCommand ==
    /\ AtItem("run", "start")
    /\ \E r \in Results : Returned(r) /\ Mandate(r, Succeeded(r))
    /\ UNCHANGED <<litter, rmFailed, hostTmp, outside>>

Script == <<"script", idx + 1>>

(* RunScript: write the script, chmod it, run it, remove it.               *)
WriteScript ==
    /\ AtItem("script", "start")
    /\ \/ Goto("written") /\ litter' = litter \union {Script}
       \/ Return("error") /\ UNCHANGED litter
    /\ UNCHANGED <<running, root, rmFailed, hostTmp, outside>>

ChmodScript ==
    /\ AtItem("script", "written")
    /\ \E r \in Results :
        Returned(r) /\ IF Succeeded(r) THEN Goto("ready") ELSE Return("error")
    /\ UNCHANGED <<fs, outside>>

ExecScript ==
    /\ AtItem("script", "ready")
    /\ \E r \in Results :
        /\ Returned(r)
        /\ Goto(IF Succeeded(r) THEN "ran" ELSE "failed")
        /\ root' = IF DidItsWork(r) THEN root \union {Effect} ELSE root
    /\ UNCHANGED <<litter, rmFailed, hostTmp, outside>>

RemoveScript ==
    /\ AtItem("script", "ran") \/ AtItem("script", "failed")
    /\ \E r \in Results : Returned(r) /\ Remove(r, Script)
    /\ IF step = "ran" THEN ItemDone ELSE Return("error")
    /\ UNCHANGED <<root, hostTmp, outside>>

VerifyAnsible ==
    /\ AtItem("ansible", "start")
    /\ \E r \in Results :
        Returned(r) /\ IF Succeeded(r) THEN Goto("verified") ELSE Return("error")
    /\ UNCHANGED <<fs, outside>>

(* stageAnsiblePayload removes its directory itself when it fails.         *)
StagePayload ==
    /\ AtItem("ansible", "verified")
    /\ \/ Goto("staged") /\ hostTmp' = hostTmp \union {"stage"}
       \/ Return("error") /\ UNCHANGED hostTmp
    /\ UNCHANGED <<running, root, litter, rmFailed, outside>>

(* Mutant: the stage directory is removed at the end of the happy path.    *)
ResolvePathsFailLeaky ==
    /\ AtItem("ansible", "staged") /\ running = "none"
    /\ Return("error")
    /\ UNCHANGED <<running, fs, outside>>

(* A roles or inventory path that cannot be resolved.                      *)
ResolvePathsFail ==
    /\ AtItem("ansible", "staged") /\ running = "none"
    /\ Return("error")
    /\ hostTmp' = hostTmp \ {"stage"}
    /\ UNCHANGED <<running, root, litter, rmFailed, outside>>

RunPlaybook ==
    /\ AtItem("ansible", "staged")
    /\ \E r \in Results : Returned(r) /\ Mandate(r, Succeeded(r))
    /\ hostTmp' = hostTmp \ {"stage"}
    /\ UNCHANGED <<litter, rmFailed, outside>>

-----------------------------------------------------------------------------
(* runOpenSCAP.                                                            *)

ScanCommand ==
    /\ InStage("oscap")
    /\ \E r \in Results :
        /\ Returned(r)
        /\ IF ScanStep \in ScanBestEffort THEN Attempt(r) ELSE Mandate(r, Succeeded(r))
    /\ UNCHANGED <<litter, rmFailed, hostTmp, outside>>

(* Download the OVAL definitions and write them into the root.             *)
ScanFetch ==
    /\ InStage("oscap") /\ ScanStep = "fetch"
    /\ \/ ctx = "live" /\ ItemDone /\ root' = root \union {Effect}
       \/ Return("error") /\ UNCHANGED root
    /\ UNCHANGED <<running, litter, rmFailed, hostTmp, outside>>

ScanReject ==
    /\ InStage("oscap") /\ ScanStep = "reject"
    /\ Return("error")
    /\ UNCHANGED <<running, fs, outside>>

-----------------------------------------------------------------------------
(* Publishing and unwinding.                                               *)

SetLabels ==
    /\ phase = "labels"
    /\ labels' = TRUE
    /\ phase' = "publish" /\ UNCHANGED <<pos, idx, step, status>>
    /\ UNCHANGED <<running, fs, cfg, ctx, container, image, defers, existed,
                   published, pruneErr>>

PublishStart ==
    /\ phase = "publish" /\ idx < cfg.pubs /\ running = "none"
    /\ running' = "publish"
    /\ UNCHANGED <<ctl, fs, outside>>

(* Mutant: the loop collects errors and goes on.                           *)
PublishGoesOn ==
    /\ phase = "publish" /\ running = "publish"
    /\ running' = "none"
    /\ ItemDone
    /\ \/ published' = published \union {idx + 1}
       \/ UNCHANGED published
    /\ UNCHANGED <<fs, cfg, ctx, container, image, defers, labels, existed, pruneErr>>

PublishReturn ==
    /\ phase = "publish" /\ running = "publish"
    /\ running' = "none"
    /\ \/ published' = published \union {idx + 1} /\ ItemDone
       \/ Return("error") /\ UNCHANGED published
    /\ UNCHANGED <<fs, cfg, ctx, container, image, defers, labels, existed, pruneErr>>

BuildComplete ==
    /\ phase = "publish" /\ idx = cfg.pubs
    /\ Return("ok")
    /\ UNCHANGED <<running, fs, outside>>

TopDefer(d) == phase = "unwind" /\ defers # <<>> /\ defers[Len(defers)] = d
PopDefer    == defers' = SubSeq(defers, 1, Len(defers) - 1)

(* Container.Delete is best-effort: the container may survive it.          *)
DeleteContainer ==
    /\ TopDefer("delete") /\ PopDefer
    /\ container' \in {"deleted", "stuck"}
    /\ UNCHANGED <<ctl, running, fs, cfg, ctx, image, labels, existed, published,
                   pruneErr>>

(* The store refuses to delete an image a container is built on; any other *)
(* failure of the store is logged and forgotten.                           *)
PruneImage ==
    \/ container # "deleted" /\ UNCHANGED <<image, pruneErr>>
    \/ container = "deleted" /\ image' = "pruned" /\ UNCHANGED pruneErr
    \/ container = "deleted" /\ pruneErr' = TRUE /\ UNCHANGED image

PrunePulledParent ==
    /\ TopDefer("prune") /\ PopDefer
    /\ IF cfg.prune /\ image = "owned" THEN PruneImage
       ELSE UNCHANGED <<image, pruneErr>>
    /\ UNCHANGED <<ctl, running, fs, cfg, ctx, container, labels, existed, published>>

Exit ==
    /\ phase = "unwind" /\ defers = <<>>
    /\ phase' = "exit"
    /\ UNCHANGED <<pos, idx, step, status, running, fs, outside>>

-----------------------------------------------------------------------------
(* Signals: the first cancels the context, the second ends the process     *)
(* without running the deferred calls.                                     *)

Over == phase \in {"exit", "killed"}

FirstSignal ==
    /\ ~Over /\ ctx = "live"
    /\ ctx' = "cancelled"
    /\ UNCHANGED <<ctl, running, fs, cfg, container, image, defers, labels,
                   existed, published, pruneErr>>

SecondSignal ==
    /\ ~Over /\ ctx = "cancelled"
    /\ phase' = "killed"
    /\ UNCHANGED <<pos, idx, step, status, running, fs, outside>>

Terminated == Over /\ UNCHANGED vars

CheckSkip == AskExists \/ SkipBuild
Writes    == ApplyManagerConfig \/ WriteRepo \/ WriteCustomFile \/ WriteDirectory
Prepare   == Bootstrap \/ InitRpmDatabase \/ InstallCommand \/ RemovePackages
Gpg       == PlaceKey \/ ImportKey \/ CleanupKey
Commands  == \/ ResolveEnvFails \/ RunCommand
             \/ WriteScript \/ ChmodScript \/ ExecScript \/ RemoveScript
             \/ VerifyAnsible \/ StagePayload \/ ResolvePathsFail \/ RunPlaybook
Scan      == ScanCommand \/ ScanFetch \/ ScanReject
Deliver   == SetLabels \/ PublishStart \/ PublishReturn \/ BuildComplete
Unwind    == DeleteContainer \/ PrunePulledParent \/ Exit

BuildStep == \/ CheckSkip \/ NewContainer \/ StageRejected \/ NextStage \/ Launch
             \/ Writes \/ Prepare \/ Gpg \/ Commands \/ Scan \/ Deliver \/ Unwind

Next == BuildStep \/ FirstSignal \/ SecondSignal \/ Terminated

(* What the program does by itself: everything but the end of a command it *)
(* cannot interrupt.  A host command dies with its context, a command      *)
(* inside the container does not.                                          *)
Prompt == /\ running # "container"
          /\ running = "host" => ctx = "cancelled"
          /\ BuildStep

Spec     == Init /\ [][Next]_vars
FairSpec == Spec /\ WF_vars(Prompt)

-----------------------------------------------------------------------------
(* Properties.                                                             *)

ControlType ==
    /\ cfg \in Configs
    /\ phase \in {"exists", "create", "stages", "labels", "publish", "unwind",
                  "exit", "killed"}
    /\ pos \in 1..10 /\ idx \in Nat
    /\ phase = "stages" => idx <= Count(cfg, stage)
    /\ phase \in {"exists", "publish"} => idx <= cfg.pubs
    /\ step \in {"start", "skeleton", "placed", "imported", "written", "ready",
                 "ran", "failed", "verified", "staged"}
    /\ status \in {"none", "ok", "skipped", "error"}

ResourceType ==
    /\ running \in {"none", "host", "container", "publish"}
    /\ ctx \in {"live", "cancelled"}
    /\ container \in {"none", "created", "deleted", "stuck"}
    /\ image \in {"none", "kept", "owned", "pruned"}
    /\ labels \in BOOLEAN /\ pruneErr \in BOOLEAN
    /\ existed \subseteq Nat /\ published \subseteq Nat

FilesType ==
    /\ root \subseteq Stages \X Nat
    /\ litter \subseteq {"key", "script"} \X Nat
    /\ rmFailed \subseteq {"key", "script"} \X Nat
    /\ hostTmp \subseteq {"key", "stage"}

DefersType == defers \in {<<>>, <<"prune">>, <<"prune", "delete">>}

(* Every variable has its type; the item counter never passes the end of   *)
(* the loop it counts (Builder.Build).                                     *)
TypeOK == ControlType /\ ResourceType /\ DefersType /\ FilesType

Complete ==
    \A s \in Stages : \A i \in 1..Count(cfg, s) :
        Mandatory(cfg, s, i) => <<s, i>> \in root

(* No destination is touched before every mandatory step of the config has *)
(* really had its effect on the root filesystem and the labels are set:    *)
(* tolerated exit codes, crash dumps, best-effort steps, a cancelled       *)
(* context and the inverted order never let an incomplete image out        *)
(* (Builder.Build, runInstallCommands).                                    *)
PublishedIsComplete ==
    running = "publish" \/ published # {} => labels /\ Complete

(* A backend that refuses a non-empty root finds an empty one: nothing the *)
(* build does before its install command writes there                      *)
(* (Backend.RequiresEmptyRoot, Builder.Build).                             *)
EmptyRootBootstrap ==
    /\ phase = "stages" /\ stage = "install" /\ running # "none"
    /\ cfg.scratch /\ RequiresEmptyRoot(cfg.backend)
    => root = {} /\ litter = {}

(* Build returns nil only when every publisher has the image: each one     *)
(* published it in this run, or each one reported it present and nothing   *)
(* was built (Builder.Build, allExist).                                    *)
NilMeansEverywhere ==
    /\ status = "ok" => published = 1..cfg.pubs
    /\ status = "skipped" => existed = 1..cfg.pubs /\ container = "none"

(* A key or script staged inside the image is in a published image only    *)
(* when the command that should have removed it failed: no path of         *)
(* importGPGKeys or RunScript that reaches the publishers skips the        *)
(* removal.                                                                *)
LitterOnlyIfRmFailed == phase = "publish" => litter \subseteq rmFailed

(* When the process exits by itself no temporary key file and no ansible   *)
(* stage directory is left on the host, whichever step failed              *)
(* (placeGPGKey, stageAnsiblePayload, runAnsibleCommand).                  *)
HostTmpRemoved == phase = "exit" => hostTmp = {}

(* With prune set, a base image this run pulled and can tell is its own is *)
(* gone when Build returns, on success and on every failure, unless the    *)
(* container could not be deleted or the store failed: the prune must run  *)
(* after the delete (the two defers of Build).                             *)
PruneCompletes ==
    phase = "exit" /\ cfg.prune /\ image = "owned"
        => container = "stuck" \/ pruneErr

(* Once a signal has cancelled the context, the process ends - cleaned up, *)
(* or killed by a second signal - unless a command inside the container    *)
(* hangs for ever: buildah.Run cannot be interrupted, host commands and    *)
(* everything else can (Container.Run, buildContext).                      *)
CancelEnds == \/ <>[](running = "container")
              \/ ctx = "cancelled" ~> Over

(* The pipeline implements the contract of a build.                        *)
Contract == INSTANCE BuildContract WITH
    goal      <- cfg.pubs,
    state     <- CASE phase \in {"exists", "create"} -> "idle"
                   [] phase \in {"stages", "labels"} -> "building"
                   [] phase = "publish"              -> "delivering"
                   [] phase = "killed"               -> "killed"
                   [] OTHER -> CASE status = "ok"      -> "succeeded"
                                 [] status = "skipped" -> "skipped"
                                 [] OTHER              -> "failed",
    held      <- container = "created",
    delivered <- published

ImplementsContract == Contract!Spec
=============================================================================
