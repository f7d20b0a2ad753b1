----------------------------- MODULE OutputStream -----------------------------
(***************************************************************************)
(* The output of a command on its way to the log: ansibleStreamWriter in   *)
(* src/internal/builder, which shows each line when it is complete, and    *)
(* BufLogWriter with normalizeStreamLines in src/internal/container, which *)
(* shows them all when the command has ended.                              *)
(*                                                                         *)
(* A byte is what the writers tell apart: line feed, carriage return,      *)
(* Blank (white space, or an escape sequence, which is removed), Quiet     *)
(* (the start of a line the classifier logs below the threshold) and text. *)
(***************************************************************************)
EXTENDS Naturals, Sequences, SequencesExt

CONSTANTS
    Outputs,     (* what a command writes                                 *)
    Formats,     (* --log-format: "textblock" or another                  *)
    LF, CR, Blank, Quiet

(* An output is a sequence of bytes.                                       *)
ASSUME OutputAssumption == \A text \in Outputs : text \in Seq(ToSet(text))

VARIABLES
    output,      (* the whole output                                      *)
    format,
    written,     (* bytes of it written so far                            *)
    pending,     (* bytes of a line that is not complete                  *)
    shown,       (* lines shown, in order                                 *)
    box,         (* how often a box was opened and closed                 *)
    flushed      (* the command has ended                                 *)

streamVars == <<output, format, written, pending, shown, box, flushed>>

-----------------------------------------------------------------------------
(* Lines.                                                                  *)

(* The text cut at each LF; the last line is what follows the last one.    *)
CutAtLF(text) ==
    LET cut[n \in 0..Len(text)] ==
            IF n = 0 THEN << <<>> >>
            ELSE LET lines == cut[n - 1]
                 IN  IF text[n] = LF THEN Append(lines, <<>>)
                     ELSE Append(Front(lines), Append(Last(lines), text[n]))
    IN  cut[Len(text)]

(* Of a progress line that is redrawn only what follows the last CR.       *)
Fold(line) == SubSeq(line, 1 + SelectLastInSeq(line, LAMBDA byte : byte = CR), Len(line))

IsBlank(line) == ToSet(line) \subseteq {Blank}

(* The scanner takes a CR off the end of a line, and gives no last line    *)
(* when the text ends in LF; blank lines at the end are left out.          *)
NormalizeStreamLines(text) ==
    LET cut    == CutAtLF(text)
        lines  == IF Last(cut) = <<>> THEN Front(cut) ELSE cut
        DropCR(line) == IF line # <<>> /\ Last(line) = CR THEN Front(line) ELSE line
        folded == [i \in DOMAIN lines |-> Fold(DropCR(lines[i]))]
    IN  SubSeq(folded, 1, SelectLastInSeq(folded, LAMBDA line : ~IsBlank(line)))

(* emit drops blank lines and those below the threshold.                   *)
Kept(line) == ~IsBlank(line) /\ Head(line) # Quiet

KeptOf(lines) ==
    LET kept[n \in 0..Len(lines)] ==
            IF n = 0 THEN <<>>
            ELSE IF Kept(lines[n]) THEN Append(kept[n - 1], lines[n]) ELSE kept[n - 1]
    IN  kept[Len(lines)]

Emit(lines) == KeptOf([i \in DOMAIN lines |-> Fold(lines[i])])

-----------------------------------------------------------------------------
StreamInit ==
    /\ output \in Outputs /\ format \in Formats
    /\ written = 0 /\ pending = <<>> /\ shown = <<>>
    /\ box = [opened |-> 0, closed |-> 0]
    /\ flushed = FALSE

(* The lines are shown, in a box that the first of them opens.             *)
Show(lines) ==
    /\ shown' = shown \o Emit(lines)
    /\ box' = IF format = "textblock" /\ Emit(lines) # <<>> /\ box.opened = box.closed
              THEN [box EXCEPT !.opened = @ + 1] ELSE box

(* Mutant: each write is cut into lines of its own.                        *)
WriteByChunk(n) ==
    /\ ~flushed /\ written + n <= Len(output)
    /\ written' = written + n
    /\ Show(CutAtLF(SubSeq(output, written + 1, written + n)))
    /\ UNCHANGED <<output, format, pending, flushed>>

(* A write ends anywhere.                                                  *)
Write(n) ==
    /\ ~flushed /\ written + n <= Len(output)
    /\ written' = written + n
    /\ LET lines == CutAtLF(pending \o SubSeq(output, written + 1, written + n))
       IN  /\ Show(Front(lines))
           /\ pending' = Last(lines)
    /\ UNCHANGED <<output, format, flushed>>

(* The command has ended: the unfinished line is shown, the box closed.    *)
Flush ==
    /\ ~flushed /\ written = Len(output)
    /\ flushed' = TRUE
    /\ pending' = <<>>
    /\ LET last    == Emit(<<pending>>)
           opened  == IF format = "textblock" /\ last # <<>> /\ box.opened = box.closed
                      THEN box.opened + 1 ELSE box.opened
       IN  /\ shown' = shown \o last
           /\ box' = [opened |-> opened, closed |-> IF opened > box.closed THEN box.closed + 1
                                                    ELSE box.closed]
    /\ UNCHANGED <<output, format, written>>

Ended == flushed /\ UNCHANGED streamVars

StreamNext == (\E n \in 1..Len(output) : Write(n)) \/ Flush \/ Ended

StreamSpec == StreamInit /\ [][StreamNext]_streamVars

-----------------------------------------------------------------------------
(* Properties.                                                             *)

(* A line that ends in CR LF: emit takes it for one redrawn to nothing.    *)
EndsInCR == \E i \in DOMAIN CutAtLF(output) :
                LET line == CutAtLF(output)[i] IN line # <<>> /\ Last(line) = CR

(* However the output is cut into writes, the lines that are streamed are  *)
(* those that the other writer would show of the whole output, but for     *)
(* blank and quiet ones, and lie in one box that is closed at the end; on  *)
(* the way they are a beginning of those (Write, Flush, emit).             *)
StreamMatchesBlock ==
    LET whole == KeptOf(NormalizeStreamLines(output))
    IN  /\ ~EndsInCR => IF flushed THEN shown = whole ELSE IsPrefix(shown, whole)
        /\ box.opened = IF format = "textblock" /\ shown # <<>> THEN 1 ELSE 0
        /\ box.closed = IF flushed THEN box.opened ELSE 0
===============================================================================
