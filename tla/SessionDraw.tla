----------------------------- MODULE SessionDraw -----------------------------
(***************************************************************************)
(* How SessionTimeline's constructor puts the command rects into the SVG   *)
(* (session_timeline.js, _drawSession, lines 95-140) and how _handleZoom   *)
(* moves them (lines 373-385).  Each session's rects are made by a d3 data *)
(* join on a class name: svg.selectAll('.' + className).data(cmds) binds   *)
(* the commands by index to the elements that already carry the class,     *)
(* and only the commands past those (enter()) get a new rect, whose x,     *)
(* width and y are computed from its command.  The class name is the       *)
(* string 'sessionTimeSeries' + sessionGroup + idx, so two sessions can    *)
(* get the same name (group 1, idx 10 and group 11, idx 0).                *)
(*                                                                         *)
(* A rect is [class, datum, x, row]: the class name (its digits after the  *)
(* common prefix), the command bound to it (__data__), the command whose   *)
(* times its x and width were computed from, and the row its y lies in.   *)
(* Commands are natural numbers; a session is [sessionGroup, cmds].        *)
(***************************************************************************)
EXTENDS Integers, Sequences, SequencesExt, Bags

TGF == INSTANCE TimelineGroupFind WITH Times <- {0}, MaxCalls <- 0,
         lastEndDates <- << >>, freeGroups <- EmptyBag, assigned <- << >>

(* Lines 228-236: the sessions' spans, in first-appearance order, go to    *)
(* one TimelineGroupFind; a span is [start, end, cmds].                    *)
AssignSessionGroups(spans) ==
    LET RECURSIVE Go(_, _, _)
        Go(i, led, fg) ==
            IF i > Len(spans) THEN << >>
            ELSE LET r == TGF!FindNextFreeGroup(led, fg, spans[i].start, spans[i].end)
                 IN  << r.group >> \o Go(i + 1, r.lastEndDates, r.freeGroups)
    IN  Go(1, << >>, EmptyBag)

(* Lines 238-250: maxGroup + 1 rows, each the sessions of that group in    *)
(* first-appearance order.                                                 *)
GroupSessions(spans) ==
    LET groups   == AssignSessionGroups(spans)
        maxGroup == Max({0} \cup Range(groups))
    IN  [r \in 1..(maxGroup + 1) |->
           LET ks == SelectSeq([i \in DOMAIN spans |-> i], LAMBDA i : groups[i] = r - 1)
           IN  [j \in DOMAIN ks |-> [sessionGroup |-> r - 1, cmds |-> spans[ks[j]].cmds]]]

(* A number as JavaScript's string concatenation writes it: its decimal   *)
(* digits.                                                                 *)
RECURSIVE Decimal(_)
Decimal(n) == IF n < 10 THEN << n >> ELSE Decimal(n \div 10) \o << n % 10 >>

(* Mutant form: the class name is the group alone. *)
ClassNameOfGroup(group, idx) == Decimal(group)

(* Lines 97-98: 'sessionTimeSeries' + session.getSessionGroup() + idx.    *)
ClassName(group, idx) == Decimal(group) \o Decimal(idx)

(* _drawSession(session, idx, lineIdx), lines 95-134: the elements that    *)
(* carry the class, in document order, get the first commands as their     *)
(* data; the remaining commands get new rects, positioned by their own     *)
(* command in row lineIdx; the new rects are pushed onto commandRects.     *)
DrawSession(svg, session, idx, lineIdx) ==
    LET cls  == ClassName(session.sessionGroup, idx)
        data == session.cmds
        ex   == SelectSeq([i \in DOMAIN svg.nodes |-> i],
                          LAMBDA i : svg.nodes[i].class = cls)
        Bound(i) == \E j \in DOMAIN ex : ex[j] = i /\ j <= Len(data)
        Slot(i)  == CHOOSE j \in DOMAIN ex : ex[j] = i
        updated  == [i \in DOMAIN svg.nodes |->
                       IF Bound(i) THEN [svg.nodes[i] EXCEPT !.datum = data[Slot(i)]]
                       ELSE svg.nodes[i]]
        entered  == [j \in 1..(Len(data) - Len(ex)) |->
                       [class |-> cls, datum |-> data[Len(ex) + j],
                        x |-> data[Len(ex) + j], row |-> lineIdx]]
    IN  [nodes |-> updated \o entered,
         commandRects |-> Append(svg.commandRects,
                                 [j \in DOMAIN entered |-> Len(svg.nodes) + j])]

(* Lines 136-140: every session of every row, rows in order, each row's   *)
(* sessions in order (idx and lineIdx count from 0).                       *)
DrawSessions(groupedSessions) ==
    LET slots == FlattenSeq([r \in DOMAIN groupedSessions |->
                   [k \in DOMAIN groupedSessions[r] |-> << r, k >>]])
    IN  FoldLeft(LAMBDA svg, s : DrawSession(svg, groupedSessions[s[1]][s[2]], s[2] - 1, s[1] - 1),
                 [nodes |-> << >>, commandRects |-> << >>], slots)

(* _handleZoom, lines 373-385: every rect of every pushed selection gets   *)
(* x and width from the command now bound to it; y is left alone.          *)
HandleZoom(svg) ==
    LET selected == UNION {Range(sel) : sel \in Range(svg.commandRects)}
    IN  [svg EXCEPT !.nodes = [i \in DOMAIN svg.nodes |->
            IF i \in selected THEN [svg.nodes[i] EXCEPT !.x = svg.nodes[i].datum]
            ELSE svg.nodes[i]]]

(* Every command of the rows is shown by exactly one rect, in its own row. *)
ShownOnceInItsRow(groupedSessions, svg) ==
    \A r \in DOMAIN groupedSessions : \A k \in DOMAIN groupedSessions[r] :
      \A c \in Range(groupedSessions[r][k].cmds) :
        LET showing == {i \in DOMAIN svg.nodes : svg.nodes[i].x = c}
        IN  /\ Cardinality(showing) = 1
            /\ \A i \in showing : svg.nodes[i].row = r - 1

=============================================================================
