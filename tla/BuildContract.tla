---------------------------- MODULE BuildContract ----------------------------
(***************************************************************************)
(* What one run of Builder.Build promises its caller, whatever the config: *)
(*   - it either refuses to start, skips, or acquires a working container; *)
(*   - destinations are delivered to in order, and only once the image is  *)
(*     complete;                                                           *)
(*   - it reports success only when every destination was delivered to or  *)
(*     the whole build was skipped;                                        *)
(*   - a delivery is never taken back, and the container is given up only  *)
(*     after the outcome is decided.                                       *)
(* A second signal ends the process at any point (Kill).                   *)
(***************************************************************************)
EXTENDS Naturals

VARIABLES
    goal,        (* number of destinations the config names               *)
    state,       (* where the run is                                      *)
    held,        (* the run holds a working container                     *)
    delivered    (* destinations that have the image                      *)

vars == <<goal, state, held, delivered>>

Init == /\ goal \in Nat \ {0}
        /\ state = "idle"
        /\ held = FALSE
        /\ delivered = {}

Move(from, to) == state = from /\ state' = to /\ UNCHANGED goal

Skip     == Move("idle", "skipped") /\ UNCHANGED <<held, delivered>>
Refuse   == Move("idle", "failed") /\ UNCHANGED <<held, delivered>>
Acquire  == Move("idle", "building") /\ held' = TRUE /\ UNCHANGED delivered
Complete == Move("building", "delivering") /\ UNCHANGED <<held, delivered>>

Deliver  == \E n \in 1..goal :
                /\ delivered = 1..(n - 1)
                /\ Move("delivering", "delivering")
                /\ delivered' = 1..n
                /\ UNCHANGED held

Succeed  == /\ delivered = 1..goal
            /\ Move("delivering", "succeeded")
            /\ UNCHANGED <<held, delivered>>

GiveUp   == /\ Move("building", "failed") \/ Move("delivering", "failed")
            /\ UNCHANGED <<held, delivered>>

Release  == /\ state \in {"succeeded", "failed"}
            /\ held /\ held' = FALSE
            /\ UNCHANGED <<goal, state, delivered>>

Kill     == state' = "killed" /\ UNCHANGED <<goal, held, delivered>>

Next == \/ Skip \/ Refuse \/ Acquire \/ Complete \/ Deliver
        \/ Succeed \/ GiveUp \/ Release \/ Kill

Spec == Init /\ [][Next]_vars
=============================================================================
