------------------------------ MODULE D3jsUtil ------------------------------
(***************************************************************************)
(* d3js_util.js: wrapTextLabels, which breaks an axis label of the bar     *)
(* plots into tspans no wider than the band width. A label is the sequence *)
(* of its words as split by the delimiter-keeping splitStr, a word given   *)
(* by its length in characters (its leading delimiter included); every     *)
(* character is CharWidth pixels wide, so getComputedTextLength of a text  *)
(* of n characters is n * CharWidth. When the delimiter is whitespace      *)
(* (/(?=\s)/), trim() removes the delimiter at the start of a line; with   *)
(* /(?=\/)/ it removes nothing.                                            *)
(* A tspan is [words |-> <the word indices on it>, chars |-> its length].  *)
(***************************************************************************)
EXTENDS Integers, Sequences, SequencesExt

CONSTANT CharWidth

TextLength(chars) == chars * CharWidth

Max0(n) == IF n < 0 THEN 0 ELSE n

(* line.join(''): the characters of the words of a line. *)
JoinedLength(ws, line) == FoldLeft(LAMBDA acc, w : acc + ws[w], 0, line)

(* line.join('').trim(): a leading whitespace delimiter goes; the first    *)
(* word of the label has none.                                             *)
TrimmedLength(ws, line, wsDelim) ==
    IF wsDelim /\ line # << >> /\ line[1] > 1
    THEN JoinedLength(ws, line) - 1 ELSE JoinedLength(ws, line)

(* _truncateAndSetLabelTxt, lines 52-60: slice three characters off until  *)
(* the text fits (at least once), then two more, and append "..".          *)
TruncatedLength(chars, width) ==
    LET RECURSIVE Loop(_)
        Loop(n) == IF TextLength(Max0(n - 3)) > width THEN Loop(Max0(n - 3))
                   ELSE Max0(n - 3)
    IN  Max0(Loop(chars) - 2) + 2

EmptyTspan == [words |-> << >>, chars |-> 0]

(* The tspan being filled is the last one of out. *)
SetLast(out, t) == [out EXCEPT ![Len(out)] = t]

(* The line with word i fits (lines 25-30): keep it, ++i. *)
FitStep(ws, st, line) ==
    [st EXCEPT !.i = @ + 1, !.line = line,
               !.out = SetLast(@, [words |-> line, chars |-> JoinedLength(ws, line)])]

(* A lone word too long (lines 32-35): truncate it, ++i, new tspan. *)
TruncateStep(ws, width, wsDelim, st, line) ==
    [i   |-> st.i + 1, line |-> << >>,
     out |-> Append(SetLast(st.out, [words |-> line,
                 chars |-> TruncatedLength(TrimmedLength(ws, line, wsDelim), width)]),
                 EmptyTspan)]

(* Mutant form: the word that does not fit is skipped, not carried over. *)
CarryStepDropping(ws, wsDelim, st) ==
    [i   |-> st.i + 1, line |-> << >>,
     out |-> Append(SetLast(st.out, [words |-> st.line,
                 chars |-> TrimmedLength(ws, st.line, wsDelim)]), EmptyTspan)]

(* Word i does not fit any more (lines 36-43): render the line without it, *)
(* trimmed, and start a new tspan; no ++i, word i goes to the next line.   *)
CarryStep(ws, wsDelim, st) ==
    [i   |-> st.i, line |-> << >>,
     out |-> Append(SetLast(st.out, [words |-> st.line,
                 chars |-> TrimmedLength(ws, st.line, wsDelim)]), EmptyTspan)]

(* One pass of the for loop, lines 25-46: push word i and measure. *)
WrapStep(ws, width, wsDelim, st) ==
    LET line == Append(st.line, st.i)
    IN  CASE TextLength(JoinedLength(ws, line)) <= width -> FitStep(ws, st, line)
          [] Len(line) = 1 -> TruncateStep(ws, width, wsDelim, st, line)
          [] OTHER         -> CarryStep(ws, wsDelim, st)

(* wrapTextLabels for one label, lines 14-47: the tspans it leaves, in     *)
(* order; word indices count from 1.                                       *)
WrapTextLabel(ws, width, wsDelim) ==
    LET RECURSIVE Loop(_)
        Loop(st) == IF st.i <= Len(ws) THEN Loop(WrapStep(ws, width, wsDelim, st))
                    ELSE st.out
    IN  Loop([i |-> 1, line |-> << >>, out |-> << EmptyTspan >>])

=============================================================================
