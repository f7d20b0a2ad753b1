------------------------------- MODULE MCPublish -------------------------------
(* Three runs of one image name: two retries of one build, whose second    *)
(* tag another build moves, too.                                           *)
EXTENDS Publish, TLC

CONSTANTS r1, r2, r3, v1, v2, latest

MCRuns   == {r1, r2, r3}
MCTags   == {v1, v2, latest}
MCTagsOf == r1 :> <<v1, latest>> @@ r2 :> <<v1, latest>> @@ r3 :> <<v2, latest>>
=============================================================================
