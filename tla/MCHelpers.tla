------------------------------- MODULE MCHelpers -------------------------------
(* The helpers of a build that share no state, one of them at a time:      *)
(* downloads under a cap, the naming of keys, the output of a command.     *)
EXTENDS FetchOval, KeyNames, OutputStream, FiniteSets

CONSTANT Char

VARIABLE which

-----------------------------------------------------------------------------
(* Bodies at, below and above both caps.                                   *)
MCBodies ==
    {b \in [via: {"oval", "get"}, magic: BOOLEAN, size: 0..6, decoded: 0..8, broken: BOOLEAN] :
        (b.via = "oval" /\ b.magic /\ b.size > 2) \/ (b.decoded = 0 /\ ~b.broken)}

(* Parts of names: indices up to 9, "repo", and words; a character that    *)
(* has to be replaced, in "a b", and a part that is trimmed at the ends.   *)
Word   == 11
Other  == 12
Spaced == 13
Dots   == 14
MCClean == [p \in 0..14 |-> IF p = Spaced THEN <<Word, Other>> ELSE <<p>>]

MCTrimmed == {Dots}

BaseNames == {<<>>, <<Word>>, <<Other>>, <<Word, Other>>, <<Word, Dots>>, <<Dots, Other>>}

(* Base names that are shared or missing, and some that are cleaned.       *)
MCRepoLists == UNION {[1..n -> BaseNames] : n \in 1..3}

(* What a playbook writes: up to five bytes.                               *)
MCOutputs == UNION {[1..n -> {LF, CR, Blank, Quiet, Char}] : n \in 0..5}

-----------------------------------------------------------------------------
FetchIdle == body = [via |-> "get", magic |-> FALSE, size |-> 0, decoded |-> 0, broken |-> FALSE]
             /\ wire = 0 /\ out = 0 /\ lost = FALSE /\ result = "reading"

KeysIdle == repos = <<>> /\ backend = "rpm" /\ next = 0 /\ usedNames = {} /\ fileOf = <<>> /\ keys = <<>>

StreamIdle == /\ output = <<>> /\ format = "json" /\ written = 0 /\ pending = <<>> /\ shown = <<>>
              /\ box = [opened |-> 0, closed |-> 0] /\ flushed = FALSE

HelpersInit == \/ which = "fetch"  /\ Init        /\ KeysIdle /\ StreamIdle
               \/ which = "keys"   /\ FetchIdle /\ KeysInit /\ StreamIdle
               \/ which = "stream" /\ FetchIdle /\ KeysIdle /\ StreamInit

HelpersNext ==
    /\ UNCHANGED which
    /\ \/ which = "fetch"  /\ Next        /\ UNCHANGED <<keyVars, streamVars>>
       \/ which = "keys"   /\ KeysNext    /\ UNCHANGED <<vars, streamVars>>
       \/ which = "stream" /\ StreamNext  /\ UNCHANGED <<vars, keyVars>>

HelpersSpec == HelpersInit /\ [][HelpersNext]_<<which, vars, keyVars, streamVars>>
================================================================================
