------------------------- MODULE TimelineAnnotations -------------------------
(***************************************************************************)
(* SessionTimeline and AnnotationLineRender together: the annotation       *)
(* groups the layout hands over (one line per display row, the commands   *)
(* of the topmost lanes) are rendered by _preRenderAnnotations under every *)
(* viewport a zoom or pan can show (session_timeline.js lines 148 and     *)
(* 386, annotation_line_render.js lines 73-136).  Whether a render is cut  *)
(* short by a newer one is AnnotationLineRender's question; here every    *)
(* render runs to its end, which is what the last update() call does.     *)
(***************************************************************************)
EXTENDS SessionTimeline

CONSTANTS
  Scales,      \* viewports: time domains [d0, d1] of the zoomed xScale
  SvgWidth,    \* this.svgWidth, the range of xScale
  PlotWidth,   \* the plot's bounding box width
  CharWidth,   \* annotationCharWidth
  TextLen      \* the length of a command's text (fulltext)

VARIABLES
  view,        \* the xScale of the last render, or NoView
  rects,       \* per command: the x and width of its rect under view
  labels       \* per annotation line: the labels drawn under view

tvars == <<vars, view, rects, labels>>

NoView == [d0 |-> 0, d1 |-> 0]

ALR == INSTANCE AnnotationLineRender
         WITH AnnotationGroups <- << >>, YieldEvery <- 1, MaxUpdates <- 0,
              lastUpdateDummy <- 0, mutex <- [queue |-> << >>, pending |-> FALSE],
              pc <- << >>, scale <- << >>, pos <- << >>, shown <- {}

(* _createAnnotation, session_timeline.js lines 324-338: startX, endX and *)
(* fulltext of the annotation of command c.                                *)
CreateAnnotation(c) ==
  [startX |-> commands[c].start, endX |-> commands[c].end, len |-> TextLen]

AnnotationLine(l) == [k \in DOMAIN annotationGroups[l] |->
                        CreateAnnotation(annotationGroups[l][k])]

(* this.CMD_MIN_WIDTH, line 42, in pixels *)
CMD_MIN_WIDTH == 4

(* Mutant form: a short command's rect is not centred. *)
CalcRectXPositionUncentred(c, sc) == ALR!XScale(sc, commands[c].start)

(* _calcRectXPosition, lines 342-352: a rect narrower than CMD_MIN_WIDTH   *)
(* is widened around its center.                                           *)
CalcRectXPosition(c, sc) ==
  LET startX == ALR!XScale(sc, commands[c].start)
      w      == ALR!XScale(sc, commands[c].end) - startX
  IN  IF w < CMD_MIN_WIDTH THEN (startX + w \div 2) - CMD_MIN_WIDTH \div 2
                           ELSE startX

(* _calcRectWidth, lines 355-361 *)
CalcRectWidth(c, sc) ==
  LET w == ALR!XScale(sc, commands[c].end) - ALR!XScale(sc, commands[c].start)
  IN  IF w < CMD_MIN_WIDTH THEN CMD_MIN_WIDTH ELSE w

(* The commands of the sessions of groupedSessions, each drawn as a rect. *)
DrawnCmds == UNION {{session[s].cmdsWithMeta[k].cmd : k \in DOMAIN session[s].cmdsWithMeta} :
                       s \in ToSet(sessionOrder)}

(* x and width of every rect under sc *)
RectsUnder(sc) == [c \in DrawnCmds |-> [x     |-> CalcRectXPosition(c, sc),
                                         width |-> CalcRectWidth(c, sc)]]

(* The labels of every annotation line under sc, update(xScale) run to its *)
(* end.                                                                    *)
LabelsUnder(sc) == [l \in DOMAIN annotationGroups |->
                      ALR!PreRenderLine(AnnotationLine(l), sc)]

TInit == Init /\ view = NoView /\ rects = << >> /\ labels = << >>

(* A step of the layout; nothing is drawn before it is done. *)
Layout == Next /\ UNCHANGED <<view, rects, labels>>

(* The rest of the constructor, lines 80-147: xScale's domain is the span  *)
(* from the first start to the final end date, widened by nice(); the      *)
(* sessions' rects are drawn (_drawSession, lines 95-140) and the labels   *)
(* rendered (line 147).                                                    *)
Draw(sc) ==
  /\ phase = "done" /\ view = NoView
  /\ sc.d0 <= commands[1].start
  /\ \A c \in DOMAIN commands : commands[c].end <= sc.d1
  /\ view' = sc
  /\ rects' = RectsUnder(sc)
  /\ labels' = LabelsUnder(sc)
  /\ UNCHANGED vars

(* _handleZoom, lines 364-387: every rect gets its x and width under the   *)
(* rescaled xScale, then the labels are rendered under it.                 *)
HandleZoom(sc) ==
  /\ view # NoView
  /\ view' = sc
  /\ rects' = RectsUnder(sc)
  /\ labels' = LabelsUnder(sc)
  /\ UNCHANGED vars

TNext == Layout \/ \E sc \in Scales : Draw(sc) \/ HandleZoom(sc)

TSpec == TInit /\ [][TNext]_tvars

-----------------------------------------------------------------------------
Label == [idx : Int, x : Int, label : Nat]

TTypeOK ==
  /\ TypeOK
  /\ view \in Scales \cup {NoView}
  /\ rects \in [DOMAIN rects -> [x : Int, width : Nat]]
  /\ labels \in Seq(Seq(Label))

(* Safety: on every line, a drawn label ends before the anchor of the     *)
(* next drawn label, whatever the order of the anchors' centers.  Lanes    *)
(* make the centers of a row unsorted; the walk of lines 99-125 and the   *)
(* two-character gap of lines 114-115 must still keep labels apart.       *)
LabelsClearNextAnchor ==
  \A l \in DOMAIN labels :
    \A i \in 1..(Len(labels[l]) - 1) :
      labels[l][i].x + labels[l][i].label * CharWidth < labels[l][i + 1].x

(* Safety (spec section 4.4, step 2): the walk of a line covers every     *)
(* annotation that lies wholly inside the viewport.  The two binary       *)
(* searches of lines 91-94 find its first and last index.                 *)
VisibleAnnotationsConsidered ==
  view # NoView =>
    \A l \in DOMAIN labels :
      LET line == AnnotationLine(l)
      IN  \A i \in DOMAIN line :
            view.d0 <= line[i].startX /\ line[i].endX <= view.d1
              => /\ ALR!StartIdx(line, view) <= i - 1
                 /\ i - 1 <= ALR!EndIdx(line, view)

(* Safety: every drawn label is centred on its command's rect, at every    *)
(* zoom.  The label's anchor is _calcAnnotationCenter (the midpoint of the *)
(* scaled start and end); the rect of a command narrower than              *)
(* CMD_MIN_WIDTH is widened by _calcRectXPosition around the same point.   *)
LabelsCentredOnRects ==
  \A l \in DOMAIN labels : \A k \in DOMAIN labels[l] :
    LET r == rects[annotationGroups[l][labels[l][k].idx + 1]]
    IN  2 * labels[l][k].x = 2 * r.x + r.width

=============================================================================
