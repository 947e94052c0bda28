------------------------- MODULE AnnotationLineRender -------------------------
(***************************************************************************)
(* AnnotationLineRender (src/html-export/src/annotation_line_render.js)    *)
(* draws one line of command labels per row of the session timeline.  On  *)
(* every zoom or pan, update(xScale) re-runs _preRenderAnnotations: per    *)
(* line, two binary searches (util.binarySearch) bound the annotations of  *)
(* the view, and a walk over them decides which labels fit before the next *)
(* anchor and how far each label is clipped.                               *)
(*                                                                         *)
(* update() is async.  It stamps a fresh _lastUpdateDummy, then awaits the *)
(* Mutex (AsyncMutex); inside the lock it removes the drawn labels, awaits *)
(* _preRenderAnnotations, which sleeps every YieldEvery-th annotation and  *)
(* returns null once a newer update() has replaced the stamp, appends the  *)
(* result, and releases the lock in a finally.                             *)
(*                                                                         *)
(* Annotations are [startX, endX, len]: the command's start and end times  *)
(* and the length of its text (the text itself is left out: labels are    *)
(* prefixes of it).  A scale is the time domain [d0, d1] shown on the      *)
(* pixel range [0, SvgWidth]; pixels are in the units of CharWidth.        *)
(***************************************************************************)
EXTENDS Integers, Sequences, FiniteSets, SequencesExt

CONSTANTS
  AnnotationGroups, \* the lines added by addAnnotationGroup, in order
  Scales,           \* the xScale domains update() is called with
  SvgWidth,         \* the width of the pixel range of every xScale
  PlotWidth,        \* this._plot.node().getBBox().width
  CharWidth,        \* _annotationCharWidth
  YieldEvery,       \* the 30 of "idx % 30 === 0" (line 106)
  MaxUpdates        \* bound on update() calls (the constructor's first)

\* pixel positions, and the centers of _calcAnnotationCenter, are integers
ASSUME \A sc \in Scales : sc.d0 < sc.d1 /\ SvgWidth % (2 * (sc.d1 - sc.d0)) = 0

AnnotationMinWidth == CharWidth * 2   \* line 19
AnnotationMaxNumChars == 15           \* line 21
NoLabel == -1                         \* _generateAnnotationTxt returns null

-----------------------------------------------------------------------------
(* _compareStartX and _compareEndX, lines 65-71: both compare a field of  *)
(* two annotations, named here by key.                                    *)
Compare(prev, current, key) == prev[key] - current[key]

(* Mutant form: a miss returns -(insertion point) instead of -(it) - 1. *)
BinarySearchNoOffset(ar, el, key, clipIdx) ==
  LET RECURSIVE Loop(_, _)
      Loop(m, n) ==
        IF m > n THEN -m
        ELSE LET k == (n + m) \div 2
                 cmp == Compare(el, ar[k + 1], key)
             IN  IF cmp > 0 THEN Loop(k + 1, n)
                 ELSE IF cmp < 0 THEN Loop(m, k - 1) ELSE k
  IN  Loop(0, Len(ar) - 1)

(* util.binarySearch, util.js lines 86-114, with JS indices (0-based):    *)
(* the index of an equal element, else -(insertion point) - 1; with       *)
(* clipIdx the result is clipped into 0..Len(ar)-1.                        *)
BinarySearch(ar, el, key, clipIdx) ==
  LET RECURSIVE Loop(_, _)
      Loop(m, n) ==
        IF m > n THEN -m - 1
        ELSE LET k == (n + m) \div 2
                 cmp == Compare(el, ar[k + 1], key)
             IN  IF cmp > 0 THEN Loop(k + 1, n)
                 ELSE IF cmp < 0 THEN Loop(m, k - 1) ELSE k
      ClipIdxIfOn(idx) ==
        IF ~clipIdx THEN idx
        ELSE LET i == IF idx < 0 THEN -(idx + 1) ELSE idx
             IN  IF i >= Len(ar) THEN Len(ar) - 1 ELSE i
  IN  ClipIdxIfOn(Loop(0, Len(ar) - 1))

(* The view bounds of a line, lines 77-80 and 91-94 (JS indices). *)
Dummy(sc) == [startX |-> sc.d0, endX |-> sc.d1]
StartIdx(line, sc) == BinarySearch(line, Dummy(sc), "startX", TRUE)
EndIdx(line, sc) == BinarySearch(line, Dummy(sc), "endX", TRUE)

(* xScale(t) of a linear time scale *)
XScale(sc, t) == ((t - sc.d0) * SvgWidth) \div (sc.d1 - sc.d0)

(* _calcAnnotationCenter, lines 138-140 *)
CalcAnnotationCenter(a, sc) == (XScale(sc, a.startX) + XScale(sc, a.endX)) \div 2

(* _generateAnnotationTxt, lines 147-161, by the length of the label:     *)
(* the full text if it fits into ceil(textspace / charWidth) characters,   *)
(* at most 15, else that many characters ending in '.'.                   *)
GenerateAnnotationTxt(textspace, len) ==
  IF textspace < AnnotationMinWidth THEN NoLabel
  ELSE LET maxCountOfRenderChars ==
             Min({(textspace + CharWidth - 1) \div CharWidth, AnnotationMaxNumChars})
       IN  IF len <= maxCountOfRenderChars THEN len ELSE maxCountOfRenderChars

(* Mutant form: no room is kept between a label and the next anchor. *)
TextSpaceNoGap(next, display) == next - display

(* Lines 114-115: the room before the next anchor, less two characters. *)
TextSpace(next, display) == next - display - CharWidth * 2

(* The labels of one line, lines 91-133: a walk from startIdx to endIdx    *)
(* that skips every annotation too close to the one currently displayed;   *)
(* the last displayed one gets the room up to the plot's right edge.       *)
(* Each drawn annotation is [idx (JS index), x, label (its length)].       *)
PreRenderLine(line, sc) ==
  LET s == StartIdx(line, sc)
      e == EndIdx(line, sc)
      X(i) == CalcAnnotationCenter(line[i + 1], sc)
      RECURSIVE Walk(_, _, _)
      Walk(idx, display, acc) ==
        IF idx > e
        THEN LET label == GenerateAnnotationTxt(PlotWidth - X(display),
                                                line[display + 1].len)
             IN  IF label = NoLabel THEN acc
                 ELSE Append(acc, [idx |-> display, x |-> X(display), label |-> label])
        ELSE LET label == GenerateAnnotationTxt(TextSpace(X(idx), X(display)),
                                                line[display + 1].len)
             IN  IF label = NoLabel THEN Walk(idx + 1, display, acc)
                 ELSE Walk(idx + 1, idx,
                           Append(acc, [idx |-> display, x |-> X(display),
                                        label |-> label]))
  IN  IF Len(line) = 0 THEN << >> ELSE Walk(s + 1, s, << >>)

-----------------------------------------------------------------------------
(* The update(xScale) protocol.  An update call is named by its number;   *)
(* _lastUpdateDummy, a fresh {} per call, is the number of the last call. *)
Updates == 1..MaxUpdates
Null == 0

VARIABLES
  lastUpdateDummy, \* this._lastUpdateDummy
  mutex,           \* this._updateMutex
  pc,              \* per call: unused, waiting, granted, sleeping, done
  scale,           \* per call: its xScale
  pos,             \* per call: [line, idx] of the await sleep(5) it is in
  shown            \* the calls whose annotations are appended to the plot

vars == <<lastUpdateDummy, mutex, pc, scale, pos, shown>>

AM == INSTANCE AsyncMutex WITH Clients <- Updates, Rounds <- 1,
        mutex <- mutex, pc <- [u \in Updates |-> "idle"],
        rounds <- [u \in Updates |-> 0], acquires <- << >>, grants <- << >>

Lines == AnnotationGroups

(* The loop index of the first iteration over line l (line 99). *)
FirstIdx(l, sc) ==
  IF l > Len(Lines) THEN 0
  ELSE IF Len(Lines[l]) = 0 THEN 0 ELSE StartIdx(Lines[l], sc) + 1

(* Mutant form: the generation stamp test compares the wrong way round. *)
SupersededInverted(u) == lastUpdateDummy = u

(* Line 102: a newer update() has replaced the stamp of call u. *)
Superseded(u) == lastUpdateDummy # u

(* _preRenderAnnotations from the head of iteration idx of line l up to    *)
(* its next await or its return (lines 83-135); stale is the outcome of   *)
(* the test of line 102, fixed while the code runs without awaiting.      *)
RECURSIVE RunFrom(_, _, _, _)
RunFrom(sc, stale, l, idx) ==
  IF l > Len(Lines) THEN [status |-> "finished", line |-> l, idx |-> idx]
  ELSE IF Len(Lines[l]) = 0 \/ idx > EndIdx(Lines[l], sc)
  THEN RunFrom(sc, stale, l + 1, FirstIdx(l + 1, sc))
  ELSE IF stale THEN [status |-> "aborted", line |-> l, idx |-> idx]
  ELSE IF idx % YieldEvery = 0 THEN [status |-> "sleeping", line |-> l, idx |-> idx]
  ELSE RunFrom(sc, stale, l, idx + 1)

(* Mutant form: the labels are not removed before the new ones are drawn. *)
RemoveAnnotationsNoop(s) == s

(* Lines 46-48: the plot's annotations and their lines are removed. *)
RemoveAnnotations(s) == {}

(* _appendAnnotations, lines 168-217: the labels, their vertical and      *)
(* horizontal lines are created for the enter() selection of a data join   *)
(* on the existing ".annotation" elements.  Elements already there keep    *)
(* what they show, so the labels of call u join whatever is drawn.        *)
AppendAnnotations(s, u) == s \cup {u}

(* Mutant form: release() only on the path that appends (no finally). *)
ReleaseOnlyIfAppended(status, m) ==
  IF status = "finished" THEN AM!DispatchNext(m)
  ELSE [queue |-> m.queue, pending |-> m.pending, resolved |-> {}]

(* Line 55: the finally releases the lock on every path. *)
ReleaseAfter(status, m) == AM!DispatchNext(m)

(* The end of the running code of call u with outcome r: it sleeps, or    *)
(* appends a non-null result (lines 51-53) and releases (line 55).        *)
Step(u, r, s) ==
  IF r.status = "sleeping"
  THEN /\ pc' = [pc EXCEPT ![u] = "sleeping"]
       /\ pos' = [pos EXCEPT ![u] = [line |-> r.line, idx |-> r.idx]]
       /\ shown' = s
       /\ UNCHANGED mutex
  ELSE LET rel == ReleaseAfter(r.status, mutex)
       IN  /\ shown' = IF r.status = "finished" THEN AppendAnnotations(s, u) ELSE s
           /\ mutex' = AM!MutexOf(rel)
           /\ pc' = [v \in Updates |-> IF v \in rel.resolved THEN "granted"
                                       ELSE IF v = u THEN "done" ELSE pc[v]]
           /\ UNCHANGED pos

Calls == {u \in Updates : pc[u] # "unused"}

(* JS runs the await continuations (microtasks) of a resolved acquire()   *)
(* before the next event or timer callback.                                *)
MicrotasksDrained == \A u \in Updates : pc[u] # "granted"

Init ==
  /\ lastUpdateDummy = Null
  /\ mutex = AM!InitialMutex
  /\ pc = [u \in Updates |-> "unused"]
  /\ scale \in [Updates -> Scales]
  /\ pos = [u \in Updates |-> [line |-> 0, idx |-> 0]]
  /\ shown = {}

(* update(xScale), lines 39-43: the constructor's first call or a zoom.   *)
(* The scale of call u is fixed in Init, which is the same as choosing it *)
(* here.                                                                   *)
Update(u) ==
  /\ MicrotasksDrained
  /\ pc[u] = "unused"
  /\ \A v \in Updates : v < u => pc[v] # "unused"
  /\ lastUpdateDummy' = u
  /\ LET r == AM!Acquire(mutex, u)
     IN  /\ mutex' = AM!MutexOf(r)
         /\ pc' = [pc EXCEPT ![u] = IF u \in r.resolved THEN "granted" ELSE "waiting"]
  /\ UNCHANGED <<scale, pos, shown>>

(* The continuation of the resolved acquire(), lines 44-50, up to the     *)
(* first sleep of _preRenderAnnotations or its return.                    *)
Resume(u) ==
  /\ pc[u] = "granted"
  /\ Step(u, RunFrom(scale[u], Superseded(u), 1, FirstIdx(1, scale[u])),
          RemoveAnnotations(shown))
  /\ UNCHANGED <<lastUpdateDummy, scale>>

(* The timer of sleep(5) fires: the iteration goes on (lines 111-124) and *)
(* the loop with it.                                                       *)
Wake(u) ==
  /\ MicrotasksDrained
  /\ pc[u] = "sleeping"
  /\ Step(u, RunFrom(scale[u], Superseded(u), pos[u].line, pos[u].idx + 1), shown)
  /\ UNCHANGED <<lastUpdateDummy, scale>>

Next == \E u \in Updates : Update(u) \/ Resume(u) \/ Wake(u)

(* The event loop runs every continuation and every timer; zoom events    *)
(* are up to the user.                                                     *)
Fairness == \A u \in Updates : WF_vars(Resume(u)) /\ WF_vars(Wake(u))

Spec == Init /\ [][Next]_vars /\ Fairness

-----------------------------------------------------------------------------
TypeOK ==
  /\ lastUpdateDummy \in Updates \cup {Null}
  /\ mutex \in [queue : Seq(Updates), pending : BOOLEAN]
  /\ pc \in [Updates -> {"unused", "waiting", "granted", "sleeping", "done"}]
  /\ scale \in [Updates -> Scales]
  /\ pos \in [Updates -> [line : Nat, idx : Nat]]
  /\ shown \subseteq Updates

(* Safety: the plot never shows the labels of two update() calls at once: *)
(* every call that appends has removed what was drawn before, and no     *)
(* other call appends between its removal and its append.                *)
AtMostOneLayoutShown == Cardinality(shown) <= 1

(* Safety: once every call has returned, the plot shows the labels of the *)
(* last call, whatever sleeps and aborts happened in between (spec        *)
(* section 8: "only scaleB's layout being rendered").                     *)
QuiescentShowsLatest ==
  (Calls # {} /\ \A u \in Calls : pc[u] = "done") => shown = {lastUpdateDummy}

(* Liveness: the labels of the last update() call are eventually drawn,   *)
(* unless a newer call supersedes it; needs the finally's release on the  *)
(* abort path and FIFO hand-over of the lock.                             *)
LatestEventuallyShown ==
  \A u \in Updates :
    (lastUpdateDummy = u) ~> (shown = {u} \/ lastUpdateDummy # u)

(* The refinement mapping to LatestLayoutWins: a request is an update()  *)
(* call; its serving starts when its continuation first runs (Resume, the *)
(* removal of line 46) and goes on while it sleeps.                        *)
LLW == INSTANCE LatestLayoutWins WITH
         Requests <- Updates, None <- Null,
         requested <- Calls, latest <- lastUpdateDummy,
         started <- {u \in Updates : pc[u] \in {"sleeping", "done"}},
         serving <- IF \E u \in Updates : pc[u] = "sleeping"
                    THEN CHOOSE u \in Updates : pc[u] = "sleeping" ELSE Null,
         drawn <- shown

(* update() implements LatestLayoutWins: the calls clear and draw one at  *)
(* a time, in call order (the Mutex's FIFO hand-over); a call gives up    *)
(* only once a newer call has replaced its stamp; and, under the event    *)
(* loop's fairness, every call is eventually served.                      *)
RenderRefinesLatestWins == LLW!LSpec

(* Safety (spec section 5): a call appends its labels only while it is    *)
(* still the last update() call, i.e. "stale results are never rendered   *)
(* after a more recent scale is in effect".                               *)
NoStaleAppend ==
  [][\A u \in Updates : u \in shown' \ shown => lastUpdateDummy' = u]_vars

=============================================================================
