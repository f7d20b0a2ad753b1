--------------------------- MODULE MCBuildPipeline ---------------------------
(* Small configs for BuildPipeline: each backend in each mode it supports  *)
(* and the unsupported combinations, with at most two items per stage.     *)
EXTENDS BuildPipeline

MCExitCodes == {-1, 1, 107}

NoInstall == [modules |-> FALSE, packages |-> FALSE, groups |-> FALSE,
              clean |-> FALSE, refresh |-> FALSE]
NoScan == [install |-> FALSE, bench |-> FALSE, oval |-> FALSE, complete |-> TRUE]

Minimal == [backend |-> "dnf", scratch |-> FALSE, skip |-> FALSE, prune |-> FALSE,
            manager |-> FALSE, repos |-> 0, keys |-> 0, files |-> 0, dirs |-> 0,
            install |-> NoInstall, commands |-> <<>>, remove |-> FALSE,
            pubs |-> 1, oscap |-> NoScan]

Packages == [NoInstall EXCEPT !.packages = TRUE]

MCConfigs ==
    { \* parent build, everything but ansible
      [Minimal EXCEPT !.skip = TRUE, !.prune = TRUE, !.repos = 2, !.keys = 2,
                      !.files = 1, !.install = [Packages EXCEPT !.groups = TRUE, !.clean = TRUE],
                      !.commands = <<"script", "run">>, !.remove = TRUE, !.pubs = 2],
      \* scratch build of an rpm distribution
      [Minimal EXCEPT !.scratch = TRUE, !.manager = TRUE, !.repos = 1, !.keys = 1,
                      !.dirs = 1, !.install = Packages, !.remove = TRUE],
      [Minimal EXCEPT !.backend = "zypper", !.scratch = TRUE, !.repos = 1, !.keys = 1,
                      !.install = [Packages EXCEPT !.refresh = TRUE], !.pubs = 2],
      \* parent build with tolerated exit codes
      [Minimal EXCEPT !.backend = "zypper", !.prune = TRUE, !.commands = <<"ansible">>,
                      !.install = [Packages EXCEPT !.refresh = TRUE, !.groups = TRUE]],
      \* the inverted order
      [Minimal EXCEPT !.backend = "mmdebstrap", !.scratch = TRUE, !.repos = 1, !.keys = 1,
                      !.files = 1, !.install = Packages, !.commands = <<"script">>],
      [Minimal EXCEPT !.backend = "mmdebstrap", !.scratch = TRUE, !.manager = TRUE],
      \* deb parent build with a full scan
      [Minimal EXCEPT !.backend = "apt", !.prune = TRUE, !.keys = 1, !.repos = 1,
                      !.install = Packages,
                      !.oscap = [install |-> TRUE, bench |-> TRUE, oval |-> TRUE, complete |-> TRUE]],
      [Minimal EXCEPT !.skip = TRUE, !.pubs = 2,
                      !.oscap = [NoScan EXCEPT !.bench = TRUE, !.complete = FALSE]],
      \* a backend that cannot serve the mode
      [Minimal EXCEPT !.backend = "apt", !.scratch = TRUE, !.install = Packages],
      [Minimal EXCEPT !.backend = "mmdebstrap", !.prune = TRUE] }
=============================================================================
