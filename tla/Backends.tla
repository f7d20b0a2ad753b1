------------------------------ MODULE Backends ------------------------------
(***************************************************************************)
(* What the builder needs to know of a package-manager backend             *)
(* (src/internal/backend): its capabilities, the exit codes it tolerates   *)
(* and the install commands it generates.  A command is abstracted to its  *)
(* kind; the argv it is rendered to is not modelled.                       *)
(***************************************************************************)
EXTENDS Integers, Sequences

Backends == {"dnf", "zypper", "apt", "mmdebstrap"}

(* layer.actions.install and the "clean"/"refresh" options of the backend. *)
InstallType ==
    [modules: BOOLEAN, packages: BOOLEAN, groups: BOOLEAN,
     clean: BOOLEAN, refresh: BOOLEAN]

SupportsInstallRoot(b)   == b # "apt"
SupportsParentInstall(b) == b # "mmdebstrap"
RequiresEmptyRoot(b)     == b = "mmdebstrap"

(* ConfigFilePath() # "" *)
HasConfigFile(b) == b # "mmdebstrap"

(* Only zypper treats some non-zero exits as success: REBOOT_NEEDED,       *)
(* RESTART_NEEDED and RPM_SCRIPT_FAILED.                                   *)
IsAcceptableExitCode(b, code) == b = "zypper" /\ code \in {102, 103, 107}

-----------------------------------------------------------------------------
Opt(p, command) == IF p THEN <<command>> ELSE <<>>

DnfCommands(i) ==
    LET body == Opt(i.modules, "module") \o Opt(i.packages, "install")
                    \o Opt(i.groups, "groupinstall")
    IN  body \o Opt(i.clean /\ body # <<>>, "clean")

ZypperParent(i) ==
    LET body == Opt(i.packages, "install") \o Opt(i.groups, "pattern")
        some == body # <<>>
    IN  Opt(i.refresh /\ some, "refresh") \o body \o Opt(i.clean /\ some, "clean")

(* A scratch root has no metadata yet, so the refresh is unconditional.    *)
ZypperRoot(i) ==
    <<"refresh">> \o Opt(i.packages, "install") \o Opt(i.groups, "pattern")
                  \o Opt(i.clean, "clean")

AptParent(i) ==
    <<"update">> \o Opt(i.packages, "install")
                 \o (IF i.clean THEN <<"clean", "rm-lists">> ELSE <<>>)

(* InstallRootCommands for a scratch build, InstallCommands otherwise.     *)
InstallCommands(b, scratch, i) ==
    CASE b = "dnf"                   -> DnfCommands(i)
      [] b = "zypper" /\ scratch     -> ZypperRoot(i)
      [] b = "zypper" /\ ~scratch    -> ZypperParent(i)
      [] b = "apt" /\ ~scratch       -> AptParent(i)
      [] b = "mmdebstrap" /\ scratch -> <<"mmdebstrap">>
      [] OTHER                       -> <<>>
=============================================================================
