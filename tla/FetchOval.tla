------------------------------- MODULE FetchOval -------------------------------
(***************************************************************************)
(* Downloads held in memory under a size cap (fetchOVAL in                 *)
(* src/internal/oscap and Get in src/internal/fetch): the body is read in  *)
(* pieces through a limit of one byte more than the cap, a bzip2 body      *)
(* through a decoder that reads ahead and has a cap of its own.            *)
(***************************************************************************)
EXTENDS Naturals

CONSTANTS
    MaxCompressed,   (* maxOVALCompressed                                 *)
    MaxDecompressed, (* maxOVALDecompressed                               *)
    MaxBodyBytes,    (* the cap of Get                                    *)
    Bodies           (* what servers send                                 *)

(* A body has size bytes, which decode to decoded bytes if it is bzip2 and *)
(* no byte of it is broken; Get and a plain body take it as it is.         *)
BodyType ==
    [via: {"oval", "get"}, magic: BOOLEAN, size: Nat, decoded: Nat, broken: BOOLEAN]

(* The defaults are 256 MiB, 2 GiB and 256 MiB.                            *)
ASSUME FetchAssumption ==
    /\ MaxCompressed \in Nat /\ MaxDecompressed \in Nat /\ MaxBodyBytes \in Nat
    /\ MaxCompressed <= MaxDecompressed
    /\ Bodies \subseteq BodyType

VARIABLES
    body,        (* what the server sends                                 *)
    wire,        (* bytes taken from the limited body: countingReader's n *)
    out,         (* bytes of the result                                   *)
    lost,        (* the connection failed before the end                  *)
    result       (* "reading", "ok" or the error                          *)

vars == <<body, wire, out, lost, result>>

IsBzip2 == body.via = "oval" /\ body.magic /\ body.size >= 3

Content == IF IsBzip2 THEN body.decoded ELSE body.size

(* Mutant: the limits are the caps.                                        *)
ExactLimit(cap) == cap

(* One byte more, to tell "exactly the cap" from "too big".                *)
Limit(cap) == cap + 1

WireLimit == IF body.via = "get" THEN Limit(MaxBodyBytes) ELSE Limit(MaxCompressed)

(* Mutant: the body is read without a limit.                               *)
Unlimited == body.size

Available == IF body.size < WireLimit THEN body.size ELSE WireLimit

Truncated == Available < body.size

Init ==
    /\ body \in Bodies
    /\ wire = 0 /\ out = 0 /\ lost = FALSE
    /\ result = "reading"

(* A plain body is copied as it comes, up to the cap on the result.        *)
ReadPlain ==
    /\ result = "reading" /\ ~IsBzip2
    /\ \E n \in 1..Available :
          /\ wire + n <= Available
          /\ body.via = "oval" => out + n <= Limit(MaxDecompressed)
          /\ wire' = wire + n /\ out' = out + n
    /\ UNCHANGED <<body, lost, result>>

(* The decoder reads ahead of what it has decoded.                         *)
ReadAhead ==
    /\ result = "reading" /\ IsBzip2
    /\ \E n \in 1..Available : wire + n <= Available /\ wire' = wire + n
    /\ UNCHANGED <<body, out, lost, result>>

Decode ==
    /\ result = "reading" /\ IsBzip2 /\ wire > 0
    /\ \E n \in 1..body.decoded :
          /\ out + n <= body.decoded /\ out + n <= Limit(MaxDecompressed)
          /\ out' = out + n
    /\ UNCHANGED <<body, wire, lost, result>>

(* Mutant: the decoder's error is looked at before the compressed size.    *)
VerdictErrorFirst(failed) ==
    IF failed THEN "decode error"
    ELSE IF body.via = "get" /\ out > MaxBodyBytes THEN "body too big"
    ELSE IF body.via = "oval" /\ wire > MaxCompressed THEN "compressed too big"
    ELSE IF IsBzip2 /\ out > MaxDecompressed THEN "decompressed too big"
    ELSE "ok"

(* The checks after ReadAll, which has returned an error or not.           *)
Verdict(failed) ==
    IF body.via = "oval" /\ wire > MaxCompressed THEN "compressed too big"
    ELSE IF failed THEN "decode error"
    ELSE IF body.via = "get" /\ out > MaxBodyBytes THEN "body too big"
    ELSE IF IsBzip2 /\ out > MaxDecompressed THEN "decompressed too big"
    ELSE "ok"

(* The reader is at the end of the body, or of the limit before it.  A     *)
(* body cut there may still end between two bzip2 streams.                 *)
EndOfBody ==
    /\ result = "reading" /\ wire = Available
    /\ \/ /\ IsBzip2 => ~body.broken /\ (Truncated \/ out = body.decoded)
          /\ result' = Verdict(FALSE)
       \/ /\ IsBzip2 /\ (body.broken \/ Truncated)
          /\ result' = Verdict(TRUE)
    /\ UNCHANGED <<body, wire, out, lost>>

(* The decoder meets a broken block before the end.                        *)
BrokenBlock ==
    /\ result = "reading" /\ IsBzip2 /\ body.broken /\ wire > 0
    /\ result' = Verdict(TRUE)
    /\ UNCHANGED <<body, wire, out, lost>>

(* The cap on the result ends the reading.                                 *)
EndOfLimit ==
    /\ result = "reading" /\ body.via = "oval" /\ out = Limit(MaxDecompressed)
    /\ result' = Verdict(FALSE)
    /\ UNCHANGED <<body, wire, out, lost>>

(* The connection fails, times out or is cancelled.  Get says so, and      *)
(* fetchOVAL while it reads the header, of which nothing is counted; later *)
(* ReadAll returns the error like one of the decoder's.                    *)
NetworkFails ==
    /\ result = "reading" /\ wire < WireLimit
    /\ lost' = TRUE
    /\ result' = IF body.via = "get" \/ wire = 0 THEN "read error" ELSE Verdict(TRUE)
    /\ UNCHANGED <<body, wire, out>>

Returned == result # "reading" /\ UNCHANGED vars

Next == \/ ReadPlain \/ ReadAhead \/ Decode
        \/ EndOfBody \/ BrokenBlock \/ EndOfLimit \/ NetworkFails \/ Returned

Spec == Init /\ [][Next]_vars

-----------------------------------------------------------------------------
(* Properties.                                                             *)

Results == {"reading", "ok", "decode error", "read error", "body too big",
            "compressed too big", "decompressed too big"}

(* Every variable has its type; no more is read or kept than the caps and  *)
(* a byte.                                                                 *)
TypeOK ==
    /\ body \in Bodies /\ result \in Results /\ lost \in BOOLEAN
    /\ wire \in 0..WireLimit /\ out \in Nat
    /\ out <= Content
    /\ body.via = "oval" => out <= Limit(MaxDecompressed)

(* Hitting either cap is an error, never a truncated payload: a download   *)
(* that succeeds hands over every byte the server sent, or every byte it   *)
(* decodes to, however reads, read-ahead and failures fall (fetchOVAL,     *)
(* Get).                                                                   *)
WholeOrError == result = "ok" => out = Content /\ ~(IsBzip2 /\ body.broken)

(* A body over the cap on the compressed size is never reported as one     *)
(* that cannot be decoded, when it can and all of it arrives: a decoder's  *)
(* error at the cut is a symptom of the truncation (fetchOVAL,             *)
(* countingReader).                                                        *)
TruncationIsNotBlamed == result = "decode error" => body.broken \/ lost
===============================================================================
