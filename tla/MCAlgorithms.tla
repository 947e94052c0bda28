----------------------- MODULE MCAlgorithms ------------------------------
(***************************************************************************)
(* The pure algorithms against reference definitions.  Each initial state *)
(* is one input of one of them, the other inputs left at a neutral value: *)
(*  - a sorted array of at most four values of 0..3 and a value from -1   *)
(*    to 4 for util.binarySearch (util.js lines 86-114);                  *)
(*  - a room of 0..PlotWidth pixels and a text length of 1..16 for        *)
(*    _generateAnnotationTxt (annotation_line_render.js lines 147-161);   *)
(*  - a command array of up to MaxCmds commands over three sessions and   *)
(*    null for _fillCommandSessionColors (command_manipulation.js), with  *)
(*    a palette of two colours so that it wraps;                           *)
(*  - an unsorted array of up to four values of 0..2 for the TinyQueue     *)
(*    constructor, then up to four pushes of 0..2 or pops (-1);            *)
(*  - up to five pushes of 0..2 into a LimitedQueue of maxLength 1..3;    *)
(*  - a label of up to four words of 1..5 characters, split at whitespace  *)
(*    or at '/', and a band width of 1 to 5 characters for wrapTextLabels  *)
(*    (d3js_util.js);                                                      *)
(*  - three commands and the exporter's statistics arrays over them, each  *)
(*    sorted by its count, descending, for the plots of stats.js;          *)
(*  - up to three commands on up to three lines, with 0, 3, 10 or 20 file  *)
(*    writes, for the CommandTimeline constructor (command_timeline.js);   *)
(*  - up to three sessions with spans in 0..2 and one or two commands each, *)
(*    grouped into rows and drawn as SessionTimeline does it.              *)
(***************************************************************************)
EXTENDS Integers, Sequences, FiniteSets, SequencesExt, BagsExt

CONSTANTS PlotWidth, CharWidth, c1, c2, black, undef, null, s1, s2, s3

ALR == INSTANCE AnnotationLineRender
         WITH AnnotationGroups <- << >>, Scales <- {}, SvgWidth <- PlotWidth,
              YieldEvery <- 1, MaxUpdates <- 0, lastUpdateDummy <- 0,
              mutex <- [queue |-> << >>, pending |-> FALSE],
              pc <- << >>, scale <- << >>, pos <- << >>, shown <- {}

MCColors == << c1, c2 >>
Uuids == {s1, s2, s3}
MaxCmds == 4

CM == INSTANCE CommandManipulation
        WITH DISTINCT_COLORS <- MCColors, Black <- black,
             Undefined <- undef, Null <- null

TQ == INSTANCE LimitedQueue WITH Undefined <- undef

D3 == INSTANCE D3jsUtil
MaxWords == 4
WordLens == 1..5
BandWidths == {CharWidth, CharWidth + 2, 2 * CharWidth, 3 * CharWidth, 5 * CharWidth}

SP == INSTANCE StatsPlots
StatCmds == [1..3 -> [start : 0..1, writes : 0..2]]
Descending(seq, Count(_)) == \A k \in 1..Len(seq) - 1 : Count(seq[k]) >= Count(seq[k + 1])
NoStats == [commands |-> << >>, mostFileMods |-> << >>, sessionsMostCmds |-> << >>,
            cwdCmdCounts |-> << >>, dirIoCounts |-> << >>]

TimelineCharHeight == 6
CT == INSTANCE CommandTimeline WITH CharHeight <- TimelineCharHeight
NoTimeline == [commands |-> << >>, count |-> 0]
TimelineCmds == [start : {0}, end : {0}, group : 0..2, writes : {0, 3, 10, 20}]

SD == INSTANCE SessionDraw
MaxSessions == 3
SessionSpans == {sp \in [start : 0..2, end : 0..2] : sp.start <= sp.end}

HeapVals == 0..2
PopOp == -1
MaxOps == 4

Vals == 0..3
MaxLen == 4

SortedArrays ==
  {a \in UNION {[1..n -> Vals] : n \in 0..MaxLen} :
     \A i \in 1..(Len(a) - 1) : a[i] <= a[i + 1]}

SeqsOf(S, n) == UNION {[1..k -> S] : k \in 0..n}

VARIABLES ar, el, textspace, len, uuids, items, ops, maxLength,
          words, bandwidth, wsDelim, stats, timeline, spans

vars == <<ar, el, textspace, len, uuids, items, ops, maxLength,
          words, bandwidth, wsDelim, stats, timeline, spans>>

NoQueueInput == items = << >> /\ ops = << >> /\ maxLength = undef
                /\ words = << >> /\ bandwidth = 0 /\ wsDelim = FALSE /\ stats = NoStats /\ timeline = NoTimeline /\ spans = << >>

SearchInput ==
  /\ ar \in SortedArrays
  /\ el \in (Min(Vals) - 1)..(Max(Vals) + 1)
  /\ textspace = 0 /\ len = 1 /\ uuids = << >> /\ NoQueueInput

TruncationInput ==
  /\ ar = << >> /\ el = 0
  /\ textspace \in 0..PlotWidth
  /\ len \in 1..(ALR!AnnotationMaxNumChars + 1)
  /\ uuids = << >> /\ NoQueueInput

ColorInput ==
  /\ ar = << >> /\ el = 0 /\ textspace = 0 /\ len = 1
  /\ uuids \in UNION {[1..n -> Uuids \cup {null}] : n \in 0..MaxCmds}
  /\ NoQueueInput

HeapInput ==
  /\ ar = << >> /\ el = 0 /\ textspace = 0 /\ len = 1 /\ uuids = << >>
  /\ items \in SeqsOf(HeapVals, MaxLen)
  /\ ops \in SeqsOf(HeapVals \cup {PopOp}, MaxOps) /\ maxLength = undef
  /\ words = << >> /\ bandwidth = 0 /\ wsDelim = FALSE /\ stats = NoStats /\ timeline = NoTimeline /\ spans = << >>

LimitedInput ==
  /\ ar = << >> /\ el = 0 /\ textspace = 0 /\ len = 1 /\ uuids = << >>
  /\ items = << >> /\ ops \in SeqsOf(HeapVals, MaxOps + 1) /\ maxLength \in 1..3
  /\ words = << >> /\ bandwidth = 0 /\ wsDelim = FALSE /\ stats = NoStats /\ timeline = NoTimeline /\ spans = << >>

WrapInput ==
  /\ ar = << >> /\ el = 0 /\ textspace = 0 /\ len = 1 /\ uuids = << >>
  /\ items = << >> /\ ops = << >> /\ maxLength = undef
  /\ words \in SeqsOf(WordLens, MaxWords) \ {<< >>}
  /\ bandwidth \in BandWidths /\ wsDelim \in BOOLEAN /\ stats = NoStats /\ timeline = NoTimeline /\ spans = << >>

StatsInput ==
  /\ ar = << >> /\ el = 0 /\ textspace = 0 /\ len = 1 /\ uuids = << >>
  /\ items = << >> /\ ops = << >> /\ maxLength = undef
  /\ words = << >> /\ bandwidth = 0 /\ wsDelim = FALSE /\ timeline = NoTimeline /\ spans = << >>
  /\ \/ \E cmds \in StatCmds, mfm \in SeqsOf(1..3, 3) \ {<< >>} :
          /\ IsInjective(mfm) /\ Descending(mfm, LAMBDA i : cmds[i].writes)
          /\ stats = [NoStats EXCEPT !.commands = cmds,
                                     !.mostFileMods = [k \in DOMAIN mfm |-> [idx |-> mfm[k]]]]
     \/ \E cmds \in StatCmds, smc \in SeqsOf((1..3) \X (1..2), 2) \ {<< >>} :
          /\ Descending(smc, LAMBDA e : e[2])
          /\ stats = [NoStats EXCEPT !.commands = cmds,
                         !.sessionsMostCmds = [k \in DOMAIN smc |->
                             [idxFirstCmd |-> smc[k][1], countOfCommands |-> smc[k][2]]]]
     \/ \E cwd \in SeqsOf(1..2, 2), io \in SeqsOf((0..1) \X (0..1), 2) :
          /\ Descending(cwd, LAMBDA c : c) /\ Descending(io, LAMBDA e : e[1] + e[2])
          /\ stats = [NoStats EXCEPT
                         !.cwdCmdCounts = [k \in DOMAIN cwd |-> [countOfCommands |-> cwd[k]]],
                         !.dirIoCounts = [k \in DOMAIN io |->
                                            [readCount |-> io[k][1], writeCount |-> io[k][2]]]]

(* The lines a command names exist: vertOffsetGroup < countOfCmdGroups. *)
TimelineInput ==
  /\ ar = << >> /\ el = 0 /\ textspace = 0 /\ len = 1 /\ uuids = << >>
  /\ items = << >> /\ ops = << >> /\ maxLength = undef
  /\ words = << >> /\ bandwidth = 0 /\ wsDelim = FALSE /\ stats = NoStats
  /\ \E n \in 0..3, cmds \in SeqsOf(TimelineCmds, 3) :
       /\ \A k \in DOMAIN cmds : cmds[k].group < n
       /\ timeline = [commands |-> cmds, count |-> n]
  /\ spans = << >>

(* Sessions as _generateCommandsPerSession hands them on: in order of     *)
(* their first command's start, each with one or two commands.           *)
DrawInput ==
  /\ ar = << >> /\ el = 0 /\ textspace = 0 /\ len = 1 /\ uuids = << >>
  /\ items = << >> /\ ops = << >> /\ maxLength = undef
  /\ words = << >> /\ bandwidth = 0 /\ wsDelim = FALSE /\ stats = NoStats
  /\ timeline = NoTimeline
  /\ \E n \in 0..MaxSessions, ss \in [1..MaxSessions -> SessionSpans],
        nc \in [1..MaxSessions -> 1..2] :
       /\ \A k \in 1..(n - 1) : ss[k].start <= ss[k + 1].start
       /\ spans = [k \in 1..n |-> [start |-> ss[k].start, end |-> ss[k].end,
                                   cmds |-> [j \in 1..nc[k] |-> 2 * k - 2 + j]]]

Init == SearchInput \/ TruncationInput \/ ColorInput \/ HeapInput \/ LimitedInput
        \/ WrapInput \/ StatsInput \/ TimelineInput \/ DrawInput

\* the inputs are fixed; each behaviour evaluates the operators once
Hold == UNCHANGED vars

Spec == Init /\ [][Hold]_vars

-----------------------------------------------------------------------------
InsertionPoint(a, v) == Cardinality({i \in DOMAIN a : a[i] < v})

Boxed(a) == [i \in DOMAIN a |-> [v |-> a[i]]]

(* util.binarySearch meets its contract (util.js lines 76-85) on every     *)
(* sorted array: a hit is the index of an equal element, a miss is         *)
(* -(insertion point) - 1, and with clipIdx a miss is the insertion point  *)
(* clipped to the last index.  Its loop bounds, the (n + m) >> 1 midpoint  *)
(* and both exits must be right.                                           *)
BinarySearchMatchesReference ==
  LET r == ALR!BinarySearch(Boxed(ar), [v |-> el], "v", FALSE)
      c == ALR!BinarySearch(Boxed(ar), [v |-> el], "v", TRUE)
  IN  IF el \in Range(ar)
      THEN r = c /\ ar[r + 1] = el
      ELSE /\ r = -InsertionPoint(ar, el) - 1
           /\ Len(ar) > 0 => c = Min({InsertionPoint(ar, el), Len(ar) - 1})

(* Spec section 4.4, step 4: a text is cut to budget = floor(room /        *)
(* charWidth) characters, at most 15, the last of them the ellipsis;      *)
(* nothing is drawn in less than two characters' room.                     *)
SpecLabel(room, n) ==
  IF room < ALR!AnnotationMinWidth THEN ALR!NoLabel
  ELSE LET budget == Min({room \div CharWidth, ALR!AnnotationMaxNumChars})
       IN  IF n <= budget THEN n ELSE budget

(* _generateAnnotationTxt keeps to the spec's truncation rule: the label   *)
(* it returns for a room never needs more pixels than the room.            *)
TruncationFollowsSpec ==
  ALR!GenerateAnnotationTxt(textspace, len) = SpecLabel(textspace, len)

(* The sessions in the order of their first command. *)
FirstSeen(us) ==
    LET firsts == {i \in DOMAIN us : us[i] # null /\ \A j \in 1..i - 1 : us[j] # us[i]}
    IN  SetToSortSeq(firsts, <) 

(* The reference: a command without session is black; otherwise the k-th  *)
(* session to appear (k from 1) has colour k-1 modulo the colour count.    *)
SpecColor(us, i) ==
    IF us[i] = null THEN black
    ELSE LET k == SelectInSeq(FirstSeen(us), LAMBDA j : us[j] = us[i])
         IN  MCColors[((k - 1) % Len(MCColors)) + 1]

(* Every command of the array gets the colour of the reference: all        *)
(* commands of a session share one colour, n consecutive new sessions get  *)
(* n distinct colours, and the cycle wraps without reading past the end    *)
(* of DISTINCT_COLORS (lines 57-62).                                       *)
ColorsFollowCycle ==
    CM!FillCommandSessionColors(uuids) = [i \in DOMAIN uuids |-> SpecColor(uuids, i)]

(* The reference of a priority queue: a bag, whose least element pops. *)
Lowest(B) == IF DOMAIN B = {} THEN undef ELSE Min(DOMAIN B)

HeapStep(st, op) ==
    IF op = PopOp
    THEN LET r == TQ!Pop(st.heap)
         IN  [heap |-> r.data, bag |-> BagRemove(st.bag, Lowest(st.bag)),
              ok   |-> st.ok /\ r.top = Lowest(st.bag)]
    ELSE [st EXCEPT !.heap = TQ!Push(@, op), !.bag = BagAdd(@, op)]

(* A TinyQueue built from any array, then pushed to and popped from in any *)
(* order and finally popped until past empty, pops the least item it holds *)
(* each time, and undefined when it is empty: the constructor's heapify,   *)
(* the sift-up of push and the sift-down of pop (dist/main.js lines        *)
(* 667-740) keep the heap order between them.                              *)
HeapPopsSmallest ==
    LET init  == [heap |-> TQ!Heapify(items),
                  bag  |-> FoldLeft(BagAdd, [v \in {} |-> 0], items),
                  ok   |-> TRUE]
        drain == [k \in 1..(Len(items) + Len(ops) + 1) |-> PopOp]
    IN  FoldLeft(HeapStep, init, ops \o drain).ok

(* A LimitedQueue of maxLength m keeps the m largest items pushed into it  *)
(* (limited_queue.js lines 18-23 pop the least one on overflow), and       *)
(* popAll (lines 25-31) returns them in ascending order.                   *)
LimitedKeepsLargest ==
    maxLength # undef =>
      LET kept   == FoldLeft(LAMBDA d, v : TQ!PushLimited(d, v, maxLength), << >>, ops)
          sorted == SortSeq(ops, <)
          k      == IF Len(ops) < maxLength THEN Len(ops) ELSE maxLength
      IN  TQ!PopAll(kept) = SubSeq(sorted, Len(sorted) - k + 1, Len(sorted))

(* The characters of a run of words, and without a leading whitespace      *)
(* delimiter (every word but the first of the label has one).              *)
RefChars(ws, idx) == FoldLeft(LAMBDA acc, w : acc + ws[w], 0, idx)
RefTrimmed(ws, idx) ==
    RefChars(ws, idx) - (IF wsDelim /\ idx # << >> /\ idx[1] > 1 THEN 1 ELSE 0)

(* wrapTextLabels (d3js_util.js lines 12-49) is a greedy word wrap: its    *)
(* tspans hold every word once, in order; a tspan of several words shows  *)
(* all their characters, only a lone word is cut; and no tspan could have *)
(* taken the first word of the next one.                                  *)
WrapIsGreedy ==
    words # << >> =>
      LET out  == D3!WrapTextLabel(words, bandwidth, wsDelim)
          full == SelectSeq(out, LAMBDA t : t.words # << >>)
      IN  /\ FlattenSeq([k \in DOMAIN out |-> out[k].words]) = [w \in 1..Len(words) |-> w]
          /\ \A k \in DOMAIN out :
               Len(out[k].words) > 1 => out[k].chars >= RefTrimmed(words, out[k].words)
          /\ \A k \in 1..Len(full) - 1 :
               RefChars(words, full[k].words \o << full[k + 1].words[1] >>) * CharWidth
                 > bandwidth

(* No line of a wrapped label is wider than the band: wrapTextLabels'     *)
(* doc comment calls width "The max. width in pixels for each label"      *)
(* (d3js_util.js line 8).  A word that does not fit is cut by              *)
(* _truncateAndSetLabelTxt (lines 52-60), which appends ".." after         *)
(* slicing, whatever the band.                                             *)
LabelsWithinWidth ==
    \A t \in ToSet(D3!WrapTextLabel(words, bandwidth, wsDelim)) :
       t.chars * CharWidth <= bandwidth

(* Every bar of every plot stays inside its plot: given the exporter's     *)
(* arrays sorted by count, descending, the y maximum each plot takes from  *)
(* element [0] is the largest bar, even where the plot re-sorts its bars   *)
(* by start date (plot_most_written_files.js line 18 and                   *)
(* plot_cmdcount_per_session.js line 19 read it before the sort).          *)
BarsWithinYDomain ==
    \A p \in ToSet(SP!MiscStatsPlots(stats.mostFileMods, stats.sessionsMostCmds,
                                     stats.cwdCmdCounts, stats.dirIoCounts, stats.commands)) :
       \A k \in DOMAIN p.bars : p.bars[k].y <= p.yMax

(* The lines of the old CommandTimeline do not collide: a rect of a       *)
(* higher line (greater vertOffsetGroup) ends, at the bottom, at least    *)
(* ANNOTATION_DISTANCE plus a label's height above the rects of a lower   *)
(* line, where that line's labels go; no rect reaches below the SVG, and  *)
(* the labels of the top line stay inside it (command_timeline.js lines   *)
(* 36-47, 96-103, 165-167 and 203-212).                                    *)
CommandLinesDoNotCollide ==
    LET ct   == CT!Construct(timeline.commands, timeline.count)
        Rs   == ToSet(ct.rects)
        Room == CT!ANNOTATION_DISTANCE + TimelineCharHeight
    IN  /\ \A r1, r2 \in Rs : r1.group < r2.group => r2.y + r2.height + Room <= r1.y
        /\ \A r \in Rs : r.y - Room >= 0 /\ r.y + r.height <= ct.svgHeight

(* Every command gets a rect of its own in its session's row, and keeps   *)
(* it through a zoom: the class names of _drawSession (session_timeline.js *)
(* lines 97-98) must differ between sessions, or the data join of line 99 *)
(* binds a later session's commands to an earlier session's rects, which  *)
(* _handleZoom (lines 373-385) then moves to the later commands' times.   *)
CommandsShownOnceInTheirRows ==
    LET g   == SD!GroupSessions(spans)
        svg == SD!DrawSessions(g)
    IN  SD!ShownOnceInItsRow(g, svg) /\ SD!ShownOnceInItsRow(g, SD!HandleZoom(svg))

=============================================================================
