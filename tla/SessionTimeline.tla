--------------------------- MODULE SessionTimeline ---------------------------
(***************************************************************************)
(* The layout pass of SessionTimeline (src/html-export/src/                *)
(* session_timeline.js), from main() in index.js to the annotation groups  *)
(* handed to AnnotationLineRender:                                         *)
(*   Check              index.js: assert commands non-empty and sorted     *)
(*   AddCmd             _generateCommandsPerSession, bucket one command    *)
(*                      into its _Session; _Session.addCmd picks its lane  *)
(*   AssignParallelCmdCounts  count of parallel groups per run of lanes    *)
(*   AssignSessionGroup one session gets a display row ("session group")   *)
(*   GroupSessions      the array of rows                                  *)
(*   PrerenderSessions  pixel height and y of every command and session    *)
(*   PreRenderAnnotations  one annotation group per row                    *)
(* Each action is one synchronous step of the constructor, in the code's   *)
(* order; the commands are the only input.                                 *)
(*                                                                         *)
(* Pixel sizes are all multiples of the measured character height          *)
(* (annotationCharHeight), so they are kept in units of CharHeight / 1080: *)
(* every ratio the code uses (1/1.5, 1/5, 1/3, 1.5) is then an integer.    *)
(***************************************************************************)
EXTENDS Integers, Sequences, SequencesExt, Bags

CONSTANTS
  Sessions,      \* session uuids (commands of one uuid form a session)
  Times,         \* time stamps of command start and end
  MaxCmds,       \* bound on the number of commands
  CharHeight,    \* annotationCharHeight, in layout units
  SvgMinHeight   \* the 100 px floor of svgHeight (line 53), in layout units

TGF == INSTANCE TimelineGroupFind
         WITH lastEndDates <- << >>, freeGroups <- EmptyBag,
              assigned <- << >>, MaxCalls <- 0

(* constructor, lines 26-36, and ANNOTATION_AND_PADDING, lines 259-260 *)
SessionBaseHeight == (CharHeight * 2) \div 3
SessionPadding == CharHeight \div 5
SessionMinHeight == (SessionBaseHeight * 2) \div 3
AnnotationDistance == CharHeight \div 3
AnnotationAndPadding == AnnotationDistance + (CharHeight * 3) \div 2

ASSUME /\ CharHeight % 90 = 0
       /\ \A m, w \in 1..MaxCmds :
            ((SessionMinHeight + SessionPadding) * m) % w = 0

DateMin == Min(Times) - 1   \* util.DATE_MIN
NoDate == Min(Times) - 1    \* null start date of a fresh _Session

Command == {c \in [session : Sessions, start : Times, end : Times] : c.start <= c.end}

-----------------------------------------------------------------------------
VARIABLES
  phase,            \* where the constructor is
  commands,         \* the input array
  nextCmd,          \* index of the next command to bucket (forEach, 216)
  sessionOrder,     \* keys of commandsPerSession, in insertion order
  session,          \* the _Session object of every uuid
  sessionGrpFind,   \* the shared TimelineGroupFind of line 228
  nextSession,      \* index of the next session to get a row (230-236)
  groupedSessions,  \* rows of sessions (lines 242-248)
  svgHeight,        \* this.svgHeight (line 53)
  annotationGroups  \* what _preRenderAnnotations hands to the renderer

vars == <<phase, commands, nextCmd, sessionOrder, session, sessionGrpFind,
          nextSession, groupedSessions, svgHeight, annotationGroups>>

(* new _Session(), lines 445-453; null counts are 0 as Math.max sees them *)
NewSession ==
  [ cmdsWithMeta |-> << >>, finalCmdEndDate |-> DateMin,
    lastEndDates |-> << >>, freeGroups |-> EmptyBag,
    firstCmdStartDate |-> NoDate, sessionGroup |-> -1,
    maxCountOfParallelCmds |-> 0, height |-> 0, y |-> 0 ]

(* new _CommandWithMeta(cmd, group), lines 397-404 *)
NewCmdWithMeta(i, group) ==
  [cmd |-> i, group |-> group, countOfParallelGroups |-> -1,
   height |-> 1000, y |-> 0]

Inputs == UNION {[1..n -> Command] : n \in 0..MaxCmds}

Init ==
  /\ commands \in Inputs
  /\ phase = "check"
  /\ nextCmd = 1
  /\ sessionOrder = << >>
  /\ session = [s \in Sessions |-> NewSession]
  /\ sessionGrpFind = [lastEndDates |-> << >>, freeGroups |-> EmptyBag]
  /\ nextSession = 1
  /\ groupedSessions = << >>
  /\ svgHeight = 0
  /\ annotationGroups = << >>

-----------------------------------------------------------------------------
(* index.js lines 26 and 45-51: an empty or unsorted input fails an       *)
(* assert; the top-level catch shows the error banner.                     *)
SortedByStart(cs) == \A i \in 1..(Len(cs) - 1) : cs[i].start <= cs[i + 1].start

Check ==
  /\ phase = "check"
  /\ phase' = IF Len(commands) > 0 /\ SortedByStart(commands)
              THEN "bucket" ELSE "assertFailed"
  /\ UNCHANGED <<commands, nextCmd, sessionOrder, session, sessionGrpFind,
                 nextSession, groupedSessions, svgHeight, annotationGroups>>

(* Mutant forms of util.date_max: the later command's end is taken as the *)
(* session end (ends assumed monotonic), or the comparison is reversed.    *)
DateMaxLast(d1, d2) == d1
DateMaxReversed(d1, d2) == IF d1 < d2 THEN d1 ELSE d2

(* util.date_max, util.js lines 15-17 *)
DateMax(d1, d2) == IF d1 > d2 THEN d1 ELSE d2

(* _Session.addCmd(cmd), lines 460-472 *)
AddCmdToSession(ses, i) ==
  LET cmd == commands[i]
      r   == TGF!FindNextFreeGroup(ses.lastEndDates, ses.freeGroups,
                                   cmd.start, cmd.end)
  IN  [ses EXCEPT
         !.firstCmdStartDate = IF @ = NoDate THEN cmd.start ELSE @,
         !.finalCmdEndDate = DateMax(cmd.end, @),
         !.lastEndDates = r.lastEndDates,
         !.freeGroups = r.freeGroups,
         !.cmdsWithMeta = Append(@, NewCmdWithMeta(i, r.group))]

(* MapExtended.getDefault (map_extended.js lines 13-23) on the session map *)
(* keyed by sessionUuid: a key seen for the first time is inserted, at the *)
(* end of the map's insertion order.                                       *)
GetDefault(order, key) == IF Contains(order, key) THEN order ELSE Append(order, key)

(* One iteration of the forEach of lines 216-223: getDefault creates the   *)
(* session on first sight (map_extended.js), then addCmd.                  *)
AddCmd ==
  /\ phase = "bucket"
  /\ nextCmd <= Len(commands)
  /\ LET s == commands[nextCmd].session
     IN  /\ sessionOrder' = GetDefault(sessionOrder, s)
         /\ session' = [session EXCEPT ![s] = AddCmdToSession(@, nextCmd)]
  /\ nextCmd' = nextCmd + 1
  /\ UNCHANGED <<phase, commands, sessionGrpFind, nextSession,
                 groupedSessions, svgHeight, annotationGroups>>

(* assignParallelCmdCounts, lines 175-211.  The commands between two       *)
(* group-0 commands form a run (index 1 always starts one); every command  *)
(* of a run gets 1 + the highest group seen after the run's first command. *)
RunStart(g, k) == Max({1} \cup {j \in 2..k : g[j] = 0})
RunEnd(g, k) == Min({Len(g) + 1} \cup {j \in (k + 1)..Len(g) : g[j] = 0})
CountOfParallelCmds(g, k) ==
  1 + Max({0} \cup {g[m] : m \in (RunStart(g, k) + 1)..(RunEnd(g, k) - 1)})

WithParallelCounts(ses) ==
  LET g      == [k \in DOMAIN ses.cmdsWithMeta |-> ses.cmdsWithMeta[k].group]
      counts == [k \in DOMAIN g |-> CountOfParallelCmds(g, k)]
  IN  [ses EXCEPT
         !.cmdsWithMeta = [k \in DOMAIN @ |->
                             [@[k] EXCEPT !.countOfParallelGroups = counts[k]]],
         !.maxCountOfParallelCmds = Max({@} \cup Range(counts))]

(* The forEach of lines 216-223 is done: line 225 runs. *)
AssignParallelCmdCounts ==
  /\ phase = "bucket"
  /\ nextCmd > Len(commands)
  /\ session' = [s \in Sessions |->
                   IF Contains(sessionOrder, s)
                   THEN WithParallelCounts(session[s]) ELSE session[s]]
  /\ phase' = "rows"
  /\ UNCHANGED <<commands, nextCmd, sessionOrder, sessionGrpFind,
                 nextSession, groupedSessions, svgHeight, annotationGroups>>

(* One iteration of lines 230-236: the session's span goes to the shared   *)
(* TimelineGroupFind, in first-appearance order.                           *)
AssignSessionGroup ==
  /\ phase = "rows"
  /\ nextSession <= Len(sessionOrder)
  /\ LET s == sessionOrder[nextSession]
         r == TGF!FindNextFreeGroup(sessionGrpFind.lastEndDates,
                                    sessionGrpFind.freeGroups,
                                    session[s].firstCmdStartDate,
                                    session[s].finalCmdEndDate)
     IN  /\ sessionGrpFind' = [lastEndDates |-> r.lastEndDates,
                               freeGroups |-> r.freeGroups]
         /\ session' = [session EXCEPT ![s].sessionGroup = r.group]
  /\ nextSession' = nextSession + 1
  /\ UNCHANGED <<phase, commands, nextCmd, sessionOrder, groupedSessions,
                 svgHeight, annotationGroups>>

(* Lines 238-250: maxGroup + 1 rows, each the sessions of that group in    *)
(* first-appearance order.                                                 *)
GroupSessions ==
  /\ phase = "rows"
  /\ nextSession > Len(sessionOrder)
  /\ LET maxGroup == Max({0} \cup {session[s].sessionGroup : s \in ToSet(sessionOrder)})
     IN  groupedSessions' =
           [r \in 1..(maxGroup + 1) |->
              SelectSeq(sessionOrder, LAMBDA s : session[s].sessionGroup = r - 1)]
  /\ phase' = "prerender"
  /\ UNCHANGED <<commands, nextCmd, sessionOrder, session, sessionGrpFind,
                 nextSession, svgHeight, annotationGroups>>

(* Mutant form: the padding between lanes is not subtracted. *)
LaneHeightNoPad(share) ==
  IF share < SessionMinHeight THEN SessionMinHeight ELSE share

(* Lines 272-277: a lane's share of the row, clamped to the minimum        *)
(* height, else less the padding to the next lane.                         *)
LaneHeight(share) ==
  IF share < SessionMinHeight THEN SessionMinHeight ELSE share - SessionPadding

(* _prerenderSessions, lines 262-281: a command alone in its run is       *)
(* centred in the row; parallel ones share the row height in lanes.        *)
PrerenderCmd(c, currentOffset, sessionHeight) ==
  IF c.countOfParallelGroups = 1
  THEN [c EXCEPT !.height = SessionBaseHeight,
                 !.y = currentOffset + sessionHeight \div 2
                         - SessionBaseHeight \div 2]
  ELSE LET cmdHeight == LaneHeight(sessionHeight \div c.countOfParallelGroups)
       IN  [c EXCEPT !.height = cmdHeight,
                     !.y = currentOffset + (cmdHeight + SessionPadding) * c.group]

(* Lines 286-292: the height of a row from its widest session.  The reduce *)
(* without an initial value throws on an empty row.                        *)
RowMaxParallel(row) ==
  Max({session[s].maxCountOfParallelCmds : s \in ToSet(row)})
SessionHeight(row) ==
  IF RowMaxParallel(row) = 1 THEN SessionBaseHeight
  ELSE (SessionMinHeight + SessionPadding) * RowMaxParallel(row)

(* currentOffset before row r (line 301) *)
RECURSIVE RowOffset(_)
RowOffset(r) ==
  IF r = 1 THEN 0
  ELSE RowOffset(r - 1) + SessionHeight(groupedSessions[r - 1]) + AnnotationAndPadding

RowOf(s) == CHOOSE r \in DOMAIN groupedSessions : Contains(groupedSessions[r], s)

PrerenderedSession(ses, s) ==
  LET r   == RowOf(s)
      off == RowOffset(r)
      sh  == SessionHeight(groupedSessions[r])
  IN  [ses EXCEPT
         !.cmdsWithMeta = [k \in DOMAIN @ |-> PrerenderCmd(@[k], off, sh)],
         !.height = sh, !.y = off]

(* _prerenderSessions (lines 258-304) and svgHeight = max(100, ...),       *)
(* line 53.  An empty row makes the reduce throw: the top-level catch of   *)
(* index.js shows the banner.                                              *)
PrerenderSessions ==
  /\ phase = "prerender"
  /\ IF \E r \in DOMAIN groupedSessions : groupedSessions[r] = << >>
     THEN /\ phase' = "crashed"
          /\ UNCHANGED <<session, svgHeight>>
     ELSE LET n == Len(groupedSessions)
          IN  /\ session' = [s \in Sessions |->
                               IF Contains(sessionOrder, s)
                               THEN PrerenderedSession(session[s], s)
                               ELSE session[s]]
              /\ svgHeight' = Max({SvgMinHeight, RowOffset(n)
                                    + SessionHeight(groupedSessions[n])
                                    + AnnotationAndPadding})
              /\ phase' = "annotations"
  /\ UNCHANGED <<commands, nextCmd, sessionOrder, sessionGrpFind,
                 nextSession, groupedSessions, annotationGroups>>

(* _preRenderAnnotations, lines 306-321: per row, the commands of its      *)
(* sessions in order, only those in the topmost lane of their run.  An     *)
(* annotation is kept as the index of its command (startX, endX are the   *)
(* command's start and end, line 335-336).                                 *)
Annotated(ses) ==
  LET top == SelectSeq(ses.cmdsWithMeta,
                       LAMBDA c : c.countOfParallelGroups = c.group + 1)
  IN  [k \in DOMAIN top |-> top[k].cmd]

PreRenderAnnotations ==
  /\ phase = "annotations"
  /\ annotationGroups' =
       [r \in DOMAIN groupedSessions |->
          FlattenSeq([k \in DOMAIN groupedSessions[r] |->
                        Annotated(session[groupedSessions[r][k]])])]
  /\ phase' = "done"
  /\ UNCHANGED <<commands, nextCmd, sessionOrder, session, sessionGrpFind,
                 nextSession, groupedSessions, svgHeight>>

(* The constructor has returned or main() has given up: nothing changes.   *)
Finished ==
  /\ phase \in {"done", "assertFailed", "crashed"}
  /\ UNCHANGED vars

Next ==
  \/ Check
  \/ AddCmd
  \/ AssignParallelCmdCounts
  \/ AssignSessionGroup
  \/ GroupSessions
  \/ PrerenderSessions
  \/ PreRenderAnnotations
  \/ Finished

Spec == Init /\ [][Next]_vars

-----------------------------------------------------------------------------
CmdWithMeta == [cmd : Nat, group : Nat, countOfParallelGroups : Int,
                height : Int, y : Int]

TypeOK ==
  /\ phase \in {"check", "bucket", "rows", "prerender", "annotations",
                "done", "assertFailed", "crashed"}
  /\ commands \in Inputs
  /\ nextCmd \in 1..(Len(commands) + 1)
  /\ sessionOrder \in Seq(Sessions)
  /\ \A s \in Sessions :
       /\ session[s].cmdsWithMeta \in Seq(CmdWithMeta)
       /\ session[s].sessionGroup \in Int
  /\ svgHeight \in Nat
  /\ annotationGroups \in Seq(Seq(1..Len(commands)))

Laid == phase = "done"

(* The y extent of a prerendered command or session. *)
Top(x) == x.y
Bottom(x) == x.y + x.height

(* Safety: the layout pass never throws on a sorted, non-empty input; in   *)
(* particular every row of groupedSessions has a session, so the reduce of *)
(* line 286 (no initial value) is never applied to an empty row.  This     *)
(* holds only because the row finder hands out dense group numbers.        *)
NoLayoutCrash == phase # "crashed"

(* The time a session really spans: from its first command's start to    *)
(* the greatest end of its commands.                                       *)
SpanOf(s) ==
  LET idx == {i \in DOMAIN commands : commands[i].session = s}
  IN  [start |-> Min({commands[i].start : i \in idx}),
       end   |-> Max({commands[i].end : i \in idx})]

(* Safety: two sessions drawn in the same row never overlap in time.  The  *)
(* row is found from the span addCmd accumulates, which must keep the      *)
(* greatest end even when a later command ends earlier (line 467).         *)
SessionsInRowDoNotOverlap ==
  Laid =>
    \A s1, s2 \in ToSet(sessionOrder) :
      s1 # s2 /\ session[s1].sessionGroup = session[s2].sessionGroup
        => ~TGF!Overlap(SpanOf(s1), SpanOf(s2))

(* Safety: every command rectangle lies inside the band of its row,       *)
(* whatever its lane and its run's count of parallel commands: lane <      *)
(* count <= the row's widest session, and the padding subtracted from each *)
(* lane (line 276) pays for the gaps between lanes.                        *)
CommandsStayInRow ==
  Laid =>
    \A s \in ToSet(sessionOrder) :
      \A c \in ToSet(session[s].cmdsWithMeta) :
        Top(session[s]) <= Top(c) /\ Bottom(c) <= Bottom(session[s])

(* Safety: every annotation group is sorted by startX, the precondition of *)
(* the binary search in AnnotationLineRender._preRenderAnnotations (spec   *)
(* section 3).  It needs the sessions of a row to be disjoint in time and  *)
(* to be appended in first-appearance order.                               *)
AnnotationGroupsSortedByStart ==
  Laid =>
    \A r \in DOMAIN annotationGroups :
      \A k \in 1..(Len(annotationGroups[r]) - 1) :
        commands[annotationGroups[r][k]].start
          <= commands[annotationGroups[r][k + 1]].start

(* Spec section 1: per-command heights and offsets are computed "so        *)
(* overlapping activity renders without visual collision": two commands   *)
(* of a row that run at the same time get disjoint vertical extents.  The  *)
(* count of parallel commands is per run of lanes (lines 182-211), so a    *)
(* lane-0 command that starts while a lane-1 command still runs is centred *)
(* as if it were alone.                                                    *)
NoOverlappingRects ==
  Laid =>
    \A s \in ToSet(sessionOrder) :
      \A k1, k2 \in DOMAIN session[s].cmdsWithMeta :
        LET c1 == session[s].cmdsWithMeta[k1]
            c2 == session[s].cmdsWithMeta[k2]
        IN  k1 < k2 /\ commands[c2.cmd].start < commands[c1.cmd].end
              => Bottom(c1) <= Top(c2) \/ Bottom(c2) <= Top(c1)

=============================================================================
