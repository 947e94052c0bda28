----------------------- MODULE MCAnnotationLineRender -----------------------
(***************************************************************************)
(* Model of three update() calls (the constructor's and two zooms) over   *)
(* three annotation lines: one of four annotations, one of a single       *)
(* annotation (no loop iteration) and an empty one (the "continue" of     *)
(* line 84).  Sleeping every 2nd index instead of every 30th gives each    *)
(* scale a different mix: [0,4] sleeps at index 2 and tests the stamp     *)
(* again at index 3; [1,3] sleeps at its last index 2; [0,2] never sleeps. *)
(***************************************************************************)
EXTENDS AnnotationLineRender

A(s, e) == [startX |-> s, endX |-> e, len |-> 3]

MCAnnotationGroups ==
  << << A(0, 1), A(1, 2), A(2, 3), A(3, 4) >>, << A(0, 4) >>, << >> >>

MCScales == {[d0 |-> 0, d1 |-> 4], [d0 |-> 1, d1 |-> 3], [d0 |-> 0, d1 |-> 2]}

=============================================================================
