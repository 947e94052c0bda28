------------------------- MODULE MCSessionTimeline -------------------------
(* Model-checking instance of SessionTimeline: every input of up to four   *)
(* commands of two sessions over four time stamps.  Four commands give     *)
(* runs of two and three lanes and a lane reused inside a run; two         *)
(* sessions give shared and separate rows.                                 *)
EXTENDS SessionTimeline, TLC

CONSTANTS s1, s2

MCSessions == {s1, s2}
MCTimes == 0..3
MCMaxCmds == 4
\* CharHeight of 18 px in units of 1/60 px: 100 px is 6000 units.
MCCharHeight == 1080
MCSvgMinHeight == 6000

Symmetry == Permutations(MCSessions)
=============================================================================
