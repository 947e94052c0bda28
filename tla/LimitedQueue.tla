---------------------------- MODULE LimitedQueue ----------------------------
(***************************************************************************)
(* limited_queue.js: a TinyQueue whose push drops the smallest item once   *)
(* the queue is longer than _maxLength, and popAll that empties it.        *)
(***************************************************************************)
EXTENDS Integers, Sequences, TinyQueue

(* Mutant form: the overflow test is >= instead of >. *)
PushLimitedEager(d, item, maxLength) ==
    LET p == Push(d, item)
    IN  IF maxLength # Undefined /\ Len(p) >= maxLength THEN Pop(p).data ELSE p

(* push(item), lines 18-23: super.push, then a pop when the queue has      *)
(* grown past a set maxLength.                                             *)
PushLimited(d, item, maxLength) ==
    LET p == Push(d, item)
    IN  IF maxLength # Undefined /\ Len(p) > maxLength THEN Pop(p).data ELSE p

(* popAll(), lines 25-31: the popped items, in pop order. *)
RECURSIVE PopAll(_)
PopAll(d) == IF Len(d) > 0 THEN << Pop(d).top >> \o PopAll(Pop(d).data) ELSE << >>

=============================================================================
