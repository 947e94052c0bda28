---------------------------- MODULE MCSessionDraw ----------------------------
(***************************************************************************)
(* SessionDraw on a report of 22 sessions of one command each that need    *)
(* twelve rows: a session spanning 0..30, eleven short sessions after one  *)
(* another beside it (row 1, idx 0..10), then ten sessions all running at  *)
(* 21..22 (rows 2..11).  The session at idx 10 of row 1 and the one at      *)
(* idx 0 of row 11 both get the class name 'sessionTimeSeries110'.  The    *)
(* constructor draws the rows; the user may then zoom.                     *)
(***************************************************************************)
EXTENDS SessionDraw

Spans ==
    << [start |-> 0, end |-> 30] >>
    \o [k \in 1..11 |-> [start |-> 2 * (k - 1), end |-> 2 * (k - 1) + 1]]
    \o [k \in 1..10 |-> [start |-> 21, end |-> 22]]

Sessions == [k \in DOMAIN Spans |-> [start |-> Spans[k].start, end |-> Spans[k].end, cmds |-> << k >>]]

Grouped == GroupSessions(Sessions)

VARIABLE svg

Init == svg = DrawSessions(Grouped)

(* A zoom or pan (_handleZoom). *)
Zoom == svg' = HandleZoom(svg)

Spec == Init /\ [][Zoom]_svg

(* Every command is shown by exactly one rect, in its session's row, after *)
(* the constructor's draw loop (lines 136-140) and after any zoom.         *)
EveryCommandShownOnceInItsRow == ShownOnceInItsRow(Grouped, svg)

=============================================================================
