------------------------------ MODULE MCTagChain ------------------------------
(* Two checkouts of a manifest whose top layer has a parent and a          *)
(* grandparent among its direct parents.                                   *)
EXTENDS TagChain, TLC

CONSTANTS os, compute, node, j1, j2

MCLayers    == {os, compute, node}
MCDependsOn == os :> <<>> @@ compute :> <<os>> @@ node :> <<compute, os>>
=============================================================================
