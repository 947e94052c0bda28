--------------------------- MODULE CommandTimeline ---------------------------
(***************************************************************************)
(* CommandTimeline (command_timeline.js), the older timeline that no       *)
(* module imports: every command gets a rect on the line of its            *)
(* vertOffsetGroup, the lines stacked upwards from the x axis, each with   *)
(* room above its rects for a line of labels.  The constructor runs        *)
(* through in one go; it is modelled by what it leaves behind: the SVG     *)
(* height, the rects with their vertical span, the annotation groups       *)
(* handed to AnnotationLineRender, and where it throws.  Pixel y grows     *)
(* downwards and a rect extends from its y down by its height.  A command  *)
(* is [start, end, group, writes] (writes = fileWriteEvents.length).       *)
(***************************************************************************)
EXTENDS Integers, Sequences, SequencesExt

CONSTANTS
  CharHeight  \* annotationCharHeight, the height of a label

(* _CmdRectHeights, lines 263-268 *)
NO_MOD == 7
FEW_MOD == 14
MANY_MOD == 20
VERY_MANY_MOD == 24

ANNOTATION_DISTANCE == 15   \* line 30

(* TOTAL_CMD_GROUP_HEIGHT, lines 36-37 *)
TotalCmdGroupHeight == VERY_MANY_MOD + ANNOTATION_DISTANCE + CharHeight * 2

(* The rect height per count of file writes, lines 98-103. *)
RectHeight(writes) ==
    CASE writes = 0  -> NO_MOD
      [] writes < 5  -> FEW_MOD
      [] writes < 15 -> MANY_MOD
      [] OTHER       -> VERY_MANY_MOD

(* _generateCommandsPerGroup, lines 190-200: one array per group, the      *)
(* commands pushed in their order.                                         *)
GenerateCommandsPerGroup(commands, countOfCmdGroups) ==
    [g \in 0..countOfCmdGroups - 1 |-> SelectSeq(commands, LAMBDA c : c.group = g)]

(* Mutant form: the first line starts on the x axis. *)
GenerateCommandGroupOffsetsFromAxis(countOfCmdGroups) ==
    [i \in 0..countOfCmdGroups - 1 |-> i * TotalCmdGroupHeight]

(* _generateCommandGroupOffsets, lines 203-212: line i lies i group       *)
(* heights above the first, which starts VERY_MANY_MOD above the axis.    *)
GenerateCommandGroupOffsets(countOfCmdGroups) ==
    [i \in 0..countOfCmdGroups - 1 |-> VERY_MANY_MOD + i * TotalCmdGroupHeight]

(* Lines 43-47: at least 100, else the top line's offset plus a group     *)
(* height.  Without groups offsets[-1] is undefined, the sum NaN and the  *)
(* comparison false.                                                       *)
SvgHeight(offsets) ==
    IF DOMAIN offsets = {} THEN 100
    ELSE LET top == offsets[Max(DOMAIN offsets)] + TotalCmdGroupHeight
         IN  IF 100 < top THEN top ELSE 100

(* _setupAnnotations, lines 154-187: an annotation group per line, its    *)
(* labels ANNOTATION_DISTANCE above the line's rects, handed to           *)
(* addAnnotationGroup; then line 176 calls setOnNoteOver, which            *)
(* AnnotationLineRender does not have, and throws: update() is never       *)
(* called.                                                                 *)
SetupAnnotations(perGrp, offsets, svgH) ==
    [annotationGroups |-> [g \in DOMAIN perGrp |->
        [k \in DOMAIN perGrp[g] |->
           [y |-> svgH - offsets[g], dy |-> - ANNOTATION_DISTANCE,
            startX |-> perGrp[g][k].start, endX |-> perGrp[g][k].end]]],
     threwAt |-> 176]

(* The constructor, lines 6-144: commands[0].startTime (line 75) throws   *)
(* on no commands, before any rect.  Otherwise selectAll('rect') at line  *)
(* 91 also finds the listener rect appended at lines 63-70, so the join   *)
(* binds commands[0] to it and enter() draws rects for the other          *)
(* commands only; then _setupAnnotations runs (and throws).               *)
Construct(commands, countOfCmdGroups) ==
    LET offsets == GenerateCommandGroupOffsets(countOfCmdGroups)
        svgH    == SvgHeight(offsets)
        setup   == SetupAnnotations(GenerateCommandsPerGroup(commands, countOfCmdGroups),
                                    offsets, svgH)
    IN  IF commands = << >>
        THEN [svgHeight |-> svgH, rects |-> << >>, annotationGroups |-> << >>,
              threwAt |-> 75]
        ELSE [svgHeight |-> svgH,
              rects |-> [k \in 1..(Len(commands) - 1) |->
                           LET c == commands[k + 1]
                           IN  [group  |-> c.group,
                                y      |-> svgH - offsets[c.group],
                                height |-> RectHeight(c.writes)]],
              annotationGroups |-> setup.annotationGroups,
              threwAt |-> setup.threwAt]

=============================================================================
