-------------------------- MODULE TimelineGroupFind --------------------------
(***************************************************************************)
(* TimelineGroupFind (src/html-export/src/timeline_group_find.js) assigns  *)
(* each event of a timeline, fed in ascending start order, the lowest      *)
(* "group" (lane) not held by an event that is still running.  It keeps    *)
(* the array _lastEndDates of {group, endTime} entries of running events   *)
(* and the min-heap _freeGroups (a TinyQueue) of group numbers released    *)
(* by events that have ended.                                              *)
(*                                                                         *)
(* The heap is modelled by what its push/pop do: a multiset of groups      *)
(* from which pop removes one copy of the least element.  The array is a   *)
(* sequence, so that a duplicated entry stays visible.                     *)
(*                                                                         *)
(* The step operator FindNextFreeGroup is pure: SessionTimeline uses it    *)
(* for both of the code's instances (lanes inside a session, rows across   *)
(* sessions).  The state machine below feeds one instance every input the  *)
(* code's precondition allows.                                             *)
(***************************************************************************)
EXTENDS Integers, Sequences, SequencesExt, Bags, BagsExt

CONSTANTS
  Times,     \* the time stamps an event may start or end at
  MaxCalls   \* bound on the number of findNextFreeGroup calls

ASSUME Times \subseteq Int /\ Times # {} /\ MaxCalls \in Nat

-----------------------------------------------------------------------------
(* An entry of _lastEndDates whose event ended strictly before startDate  *)
(* is finished (startDate > this._lastEndDates[i].endTime, line 26).      *)
Ended(entry, startDate) == startDate > entry.endTime

(* The loop of lines 25-30 visits every entry: all ended entries leave     *)
(* the array (splice), the others keep their order.                        *)
Expired(led, startDate) == SelectSeq(led, LAMBDA x : Ended(x, startDate))
Running(led, startDate) == SelectSeq(led, LAMBDA x : ~Ended(x, startDate))

(* ... and each ended entry's group is pushed onto _freeGroups (line 27).  *)
FreedGroups(fg, expired) ==
  fg (+) ToBag([i \in DOMAIN expired |-> expired[i].group])

(* TinyQueue.pop returns the least element (defaultCompare, a < b).        *)
LowestFree(fg) == Min(BagToSet(fg))

(* Mutant form: a new group is numbered one before the running entries.  *)
NewGroupBeforeRunning(running, fg) ==
  IF BagCardinality(fg) > 0 THEN LowestFree(fg) ELSE Len(running) - 1

(* Mutant form: a new group is numbered one past the running entries.     *)
NewGroupOffByOne(running, fg) ==
  IF BagCardinality(fg) > 0 THEN LowestFree(fg) ELSE Len(running) + 1

(* Lines 33-34: the lowest free group, else a new one numbered after the   *)
(* entries still running.                                                  *)
NextGroup(running, fg) ==
  IF BagCardinality(fg) > 0 THEN LowestFree(fg) ELSE Len(running)

(* findNextFreeGroup(startDate, endDate), lines 24-37: the new state of    *)
(* the instance and the returned group.                                    *)
FindNextFreeGroup(led, fg, startDate, endDate) ==
  LET running == Running(led, startDate)
      free    == FreedGroups(fg, Expired(led, startDate))
      group   == NextGroup(running, free)
  IN  [ lastEndDates |-> Append(running, [group |-> group, endTime |-> endDate]),
        freeGroups   |-> IF BagCardinality(free) > 0
                           THEN BagRemove(free, group) ELSE free,
        group        |-> group ]

-----------------------------------------------------------------------------
VARIABLES
  lastEndDates,  \* this._lastEndDates
  freeGroups,    \* this._freeGroups, as a bag
  assigned       \* history: every call's <<start, end>> and returned group

vars == <<lastEndDates, freeGroups, assigned>>

Event == [start : Times, end : Times, group : Nat]

(* constructor, lines 14-17 *)
Init ==
  /\ lastEndDates = << >>
  /\ freeGroups = EmptyBag
  /\ assigned = << >>

(* One call findNextFreeGroup(startDate, endDate).  The caller's contract  *)
(* (class comment): startDate <= endDate and calls come in ascending       *)
(* startDate order.                                                        *)
Find(startDate, endDate) ==
  /\ Len(assigned) < MaxCalls
  /\ startDate <= endDate
  /\ assigned # << >> => Last(assigned).start <= startDate
  /\ LET r == FindNextFreeGroup(lastEndDates, freeGroups, startDate, endDate)
     IN  /\ lastEndDates' = r.lastEndDates
         /\ freeGroups' = r.freeGroups
         /\ assigned' = Append(assigned, [start |-> startDate, end |-> endDate,
                                          group |-> r.group])

Next == \E s, e \in Times : Find(s, e)

Spec == Init /\ [][Next]_vars

-----------------------------------------------------------------------------
TypeOK ==
  /\ lastEndDates \in Seq([group : Nat, endTime : Times])
  /\ IsABag(freeGroups) /\ BagToSet(freeGroups) \subseteq Nat
  /\ assigned \in Seq(Event)

(* Two events overlap in the code's sense when the later one starts no     *)
(* later than the earlier one ends (an event ending at t still holds its   *)
(* group for an event starting at t).                                      *)
Overlap(a, b) == a.start <= b.end /\ b.start <= a.end

(* Safety: no two overlapping events ever get the same group, whatever the *)
(* order in which earlier events released their groups to the heap.  This  *)
(* is what lets parallel commands, and sessions sharing a row, be drawn    *)
(* without sharing a lane (findNextFreeGroup together with TinyQueue).     *)
OverlappingEventsGetDistinctGroups ==
  \A i, j \in DOMAIN assigned :
    i < j /\ Overlap(assigned[i], assigned[j])
      => assigned[i].group # assigned[j].group

(* Safety: each call returns the least group number not held by an earlier *)
(* event that overlaps the new one (spec section 8).  This relies on the   *)
(* heap popping its minimum and on "group = _lastEndDates.length" being    *)
(* free whenever the heap is empty.                                        *)
GroupIsLowestFree ==
  \A j \in DOMAIN assigned :
    LET held == {assigned[i].group : i \in {i \in 1..(j - 1) :
                                          Overlap(assigned[i], assigned[j])}}
    IN  assigned[j].group = Min({g \in 0..Len(assigned) : g \notin held})

=============================================================================
