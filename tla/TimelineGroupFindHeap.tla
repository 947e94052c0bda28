------------------------ MODULE TimelineGroupFindHeap ------------------------
(***************************************************************************)
(* TimelineGroupFind (timeline_group_find.js) as the code runs it: the     *)
(* free groups are the data array of a real TinyQueue (module TinyQueue),  *)
(* the loop of lines 25-30 walks _lastEndDates from the last entry down,   *)
(* splicing out and pushing each ended entry in that order, and the group  *)
(* comes from TinyQueue.pop. TimelineGroupFind, where the heap is a bag    *)
(* that yields its least element, is the abstract specification this one  *)
(* implements, with the heap's contents as the bag.                        *)
(***************************************************************************)
EXTENDS Integers, Sequences, SequencesExt

CONSTANTS Times, MaxCalls, Undefined

VARIABLES
  lastEndDates,  \* this._lastEndDates
  heap,          \* this._freeGroups.data
  assigned       \* history: every call's <<start, end>> and returned group

vars == <<lastEndDates, heap, assigned>>

TQ == INSTANCE TinyQueue

GF == INSTANCE TimelineGroupFind WITH freeGroups <- ToBag(heap)

(* One pass of the loop at JS index i, lines 26-29: an ended entry's group *)
(* is pushed and the entry spliced out; then i--.                          *)
RECURSIVE ExpireFrom(_, _, _, _)
ExpireFrom(led, h, i, startDate) ==
  IF i < 0 THEN [lastEndDates |-> led, heap |-> h]
  ELSE IF GF!Ended(led[i + 1], startDate)
       THEN ExpireFrom(RemoveAt(led, i + 1), TQ!Push(h, led[i + 1].group), i - 1, startDate)
       ELSE ExpireFrom(led, h, i - 1, startDate)

(* Mutant form: the loop starts at length - 2 and never looks at the last  *)
(* entry.                                                                  *)
ExpireSkippingLast(led, h, startDate) == ExpireFrom(led, h, Len(led) - 2, startDate)

(* The loop of lines 25-30, from i = length - 1 down to 0. *)
Expire(led, h, startDate) == ExpireFrom(led, h, Len(led) - 1, startDate)

(* Mutant form: a new group is numbered one before the running entries. *)
TakeGroupBeforeRunning(h, running) ==
  IF Len(h) > 0 THEN [group |-> TQ!Pop(h).top, heap |-> TQ!Pop(h).data]
  ELSE [group |-> Len(running) - 1, heap |-> h]

(* Mutant form: the lowest free group is peeked at, not popped. *)
PeekGroup(h, running) ==
  IF Len(h) > 0 THEN [group |-> TQ!Peek(h), heap |-> h]
  ELSE [group |-> Len(running), heap |-> h]

(* Lines 33-34: pop the lowest free group, else number a new one after the *)
(* entries still running.                                                  *)
TakeGroup(h, running) ==
  IF Len(h) > 0 THEN [group |-> TQ!Pop(h).top, heap |-> TQ!Pop(h).data]
  ELSE [group |-> Len(running), heap |-> h]

(* Find(startDate, endDate): findNextFreeGroup, lines 24-37, under the     *)
(* caller's contract (start <= end, ascending starts).                     *)
Find(startDate, endDate) ==
  /\ Len(assigned) < MaxCalls
  /\ startDate <= endDate
  /\ assigned # << >> => Last(assigned).start <= startDate
  /\ LET e == Expire(lastEndDates, heap, startDate)
         t == TakeGroup(e.heap, e.lastEndDates)
     IN  /\ lastEndDates' = Append(e.lastEndDates, [group |-> t.group, endTime |-> endDate])
         /\ heap' = t.heap
         /\ assigned' = Append(assigned, [start |-> startDate, end |-> endDate,
                                          group |-> t.group])

(* constructor, lines 14-17 *)
Init == lastEndDates = << >> /\ heap = << >> /\ assigned = << >>

Next == \E s, e \in Times : Find(s, e)

Spec == Init /\ [][Next]_vars

-----------------------------------------------------------------------------
TypeOK ==
  /\ lastEndDates \in Seq([group : Nat, endTime : Times])
  /\ heap \in Seq(Nat)
  /\ assigned \in Seq(GF!Event)

(* The properties of the abstract specification, on the code's states. *)
OverlappingEventsGetDistinctGroups == GF!OverlappingEventsGetDistinctGroups
GroupIsLowestFree == GF!GroupIsLowestFree

(* findNextFreeGroup over the real TinyQueue implements TimelineGroupFind:  *)
(* whatever order the backwards loop pushes the ended groups in and       *)
(* however the heap arranges them, every call leaves _lastEndDates, the   *)
(* heap's contents and the returned group as the bag-based specification  *)
(* does.                                                                   *)
GroupFindRefinesBag == GF!Spec

=============================================================================
