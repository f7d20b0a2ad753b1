----------------------------- MODULE MCImageStore -----------------------------
(* Two builds, one of them pruning its base image, and the podman users.   *)
EXTENDS ImageStore, TLC

CONSTANTS b1, b2, i1, i2

MCBuilds  == {b1, b2}
MCPruning == {b1}
MCImages  == {i1, i2}
MCRef     == (b1 :> {i1, i2}) @@ (b2 :> {i1})

(* The commands of the pruning build leave a mount behind.                 *)
MCMaxMounts == (b1 :> 2) @@ (b2 :> 1)
=============================================================================
