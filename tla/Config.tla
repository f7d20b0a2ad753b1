-------------------------------- MODULE Config --------------------------------
(***************************************************************************)
(* Which rendered configs are accepted (src/internal/config/validate.go,   *)
(* newBackend and newPublishers in src/cmd, ValidateOptions of the         *)
(* backends).  Texts of which only presence matters are BOOLEAN.           *)
(***************************************************************************)
EXTENDS Naturals, FiniteSets, Sequences, SequencesExt, Functions

-----------------------------------------------------------------------------
(* validate.go.                                                            *)

(* The empty key is "".                                                    *)
ValidEnv(env) ==
    /\ "" \notin ToSet(env.pass) \union env.set
    /\ IsInjective(env.pass)
    /\ ToSet(env.pass) \intersect env.set = {}

(* A file or a repository; from: which of content, src and url are given.  *)
ValidSource(s) == s.path /\ Cardinality(s.from) = 1

ValidDirectory(d) == d.path /\ d.src /\ ~(d.owner /\ d.preserveOwnership)

ValidModule(m) == m.name /\ m.action \in {"enable", "disable", "install", "reset"}

ValidAnsible(a) == a.playbook /\ a.groups > 0 /\ a.verbose \in 0..4

(* is: which of run, script and ansible are given.                         *)
ValidCommand(c) ==
    /\ Cardinality(c.is) = 1
    /\ "ansible" \in c.is => ValidAnsible(c.ansible)
    /\ ValidEnv(c.env)

(* Mutant: the bucket is not asked for.                                    *)
ValidPublishNoBucket(p) ==
    /\ p.type \in {"local", "squashfs", "registry", "s3"}
    /\ p.type = "squashfs" => p.path
    /\ p.type \in {"registry", "s3"} => p.url

ValidPublish(p) ==
    /\ p.type \in {"local", "squashfs", "registry", "s3"}
    /\ p.type = "squashfs" => p.path
    /\ p.type \in {"registry", "s3"} => p.url
    /\ p.type = "s3" => p.bucket

ValidManager(m) == m.name \in {"dnf", "mmdebstrap", "apt", "zypper"}

ValidConfig(c) ==
    /\ c.name /\ c.tags > 0
    /\ ValidManager(c.manager)
    /\ ValidEnv(c.env)
    /\ \A s \in c.files \union c.repos : ValidSource(s)
    /\ \A d \in c.directories : ValidDirectory(d)
    /\ \A m \in c.modules : ValidModule(m)
    /\ \A x \in c.commands : ValidCommand(x)
    /\ \A p \in c.publish : ValidPublish(p)

-----------------------------------------------------------------------------
(* newBackend.                                                             *)

Toggles == [
    dnf |-> {"install-weak-deps", "best", "skip-broken", "allowerasing", "nobest", "refresh", "clean"},
    apt |-> {"clean", "install-recommends", "install-suggests", "allow-unauthenticated"},
    zypper |-> {"refresh", "clean", "no-recommends", "no-gpg-checks", "force-resolution",
                "auto-agree-with-licenses", "allow-vendor-change"},
    mmdebstrap |-> {} ]

FreeOptions == [dnf |-> {"releasever", "macro."}, apt |-> {}, zypper |-> {"macro."},
                mmdebstrap |-> {"suite", "mirror", "variant", "mode"}]

Given(options, key) == key \in DOMAIN options /\ options[key] # ""

(* options maps an option to its value.                                    *)
ValidOptions(m) ==
    /\ \A key \in DOMAIN m.options :
          \/ key \in Toggles[m.name] /\ m.options[key] \in {"", "true", "false"}
          \/ key \in FreeOptions[m.name]
    /\ m.name = "mmdebstrap" => Given(m.options, "suite") /\ Given(m.options, "mirror")
    /\ m.name = "dnf" => ~\A key \in {"best", "nobest"} :
                              key \in DOMAIN m.options /\ m.options[key] = "true"

NewBackend(m) == ValidManager(m) /\ ValidOptions(m)

-----------------------------------------------------------------------------
(* newPublishers.                                                          *)

BuildTargets(c) == {p \in c.publish : ~p.promoteOnly}

(* With no target left the image is kept locally.                          *)
NewPublishers(c, credentials) ==
    \A p \in BuildTargets(c) :
        /\ p.type \in {"local", "squashfs", "registry", "s3"}
        /\ p.type = "squashfs" => p.path
        /\ p.type = "registry" => p.url
        /\ p.type = "s3" => p.url /\ p.bucket /\ credentials
=============================================================================
