------------------------- MODULE CommandManipulation -------------------------
(***************************************************************************)
(* command_manipulation.js: _fillCommandSessionColors, the session colour  *)
(* cycle that prepareCommands (line 13) runs once on the command array.    *)
(* A command is represented by its sessionUuid; the loop is a left fold of *)
(* one forEach iteration over the array, in array order.                   *)
(***************************************************************************)
EXTENDS Integers, Sequences, SequencesExt, TLC

CONSTANTS DISTINCT_COLORS,  \* the colour array of lines 44-48, as a sequence
          Black,            \* '#000000', the colour of a command without session
          Undefined,        \* the value of a JS array read outside its bounds
          Null              \* a sessionUuid that is null

ASSUME Len(DISTINCT_COLORS) > 0

(* A JS array read ar[idx], idx counted from 0. *)
ArrayAt(ar, idx) == IF idx \in 0..Len(ar) - 1 THEN ar[idx + 1] ELSE Undefined

(* Mutant form: the wrap-around test is > instead of >=. *)
NextColorIdxLate(idx) ==
    IF idx + 1 > Len(DISTINCT_COLORS) THEN 0 ELSE idx + 1

(* lastColorIdx++ and the wrap to 0, lines 59-62 *)
NextColorIdx(idx) ==
    IF idx + 1 >= Len(DISTINCT_COLORS) THEN 0 ELSE idx + 1

(* The loop state: lastColorIdx, sessionColorMap (a function from the      *)
(* uuids seen so far) and the sessionColor assigned to each command.      *)
InitialColorState ==
    [lastColorIdx |-> 0, map |-> [u \in {} |-> Black], colors |-> << >>]

(* One forEach iteration, lines 52-65: null sessions are black; a known    *)
(* session keeps its colour; a new one takes the next colour of the cycle. *)
ColorStep(st, uuid) ==
    IF uuid = Null
    THEN [st EXCEPT !.colors = Append(@, Black)]
    ELSE IF uuid \in DOMAIN st.map
         THEN [st EXCEPT !.colors = Append(@, st.map[uuid])]
         ELSE LET color == ArrayAt(DISTINCT_COLORS, st.lastColorIdx)
              IN  [lastColorIdx |-> NextColorIdx(st.lastColorIdx),
                   map          |-> st.map @@ (uuid :> color),
                   colors       |-> Append(st.colors, color)]

(* _fillCommandSessionColors(commands), lines 43-67: the sessionColor of   *)
(* every command, in array order.                                          *)
FillCommandSessionColors(uuids) ==
    FoldLeft(ColorStep, InitialColorState, uuids).colors

=============================================================================
