------------------------- MODULE MCTimelineGroupFind -------------------------
(* Model-checking instance of TimelineGroupFind over the real heap: five   *)
(* calls over four time stamps reach every case of the loop (none, one or  *)
(* several entries end at once, a group freed and reused, several free     *)
(* groups at once, pushed in reverse array order).                         *)
EXTENDS TimelineGroupFindHeap

MCTimes == 0..3
MCMaxCalls == 7
=============================================================================
