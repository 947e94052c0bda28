----------------------- MODULE MCTimelineAnnotations -----------------------
(* Model-checking instance of TimelineAnnotations: the inputs of            *)
(* MCSessionTimeline, rendered under every viewport over its time stamps.  *)
(* An svgWidth of 24 px puts every anchor center on a whole pixel; with    *)
(* 4 px characters the budget of a label runs from 1 to 6 characters, so  *)
(* texts of 4 characters are drawn whole, clipped and dropped.             *)
EXTENDS TimelineAnnotations, TLC

CONSTANTS s1, s2

MCSessions == {s1, s2}
MCTimes == 0..3
MCMaxCmds == 4
MCCharHeight == 1080
MCSvgMinHeight == 6000

MCScales == {sc \in [d0 : MCTimes, d1 : MCTimes] : sc.d0 < sc.d1}

Symmetry == Permutations(MCSessions)
=============================================================================
