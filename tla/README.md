# TLA+ models of the shournal html-export

This directory holds TLA+ models of the JavaScript that renders a shournal
HTML report (`src/html-export/src`, bundled into `src/html-export/dist/main.js`).
They cover the session/command timeline layout, the rects and labels drawn
under every zoom, the asynchronous annotation renderer and its lock, the
session colours, the bundled TinyQueue heap, the statistics plots' data and
axis-label wrapping, and what happens while the page loads: the hydration of
the command data and the clicks on the command list. TLC checks every module through the MC modules and `.cfg` files
listed below. `PROJECT.json` lists the components, runs, mutants, the map from
definitions to source lines, the findings and the hazards.

## 1. The system

`index.js: main()` asserts that the embedded command array is non-empty and
sorted by start time. It then builds a `SessionTimeline` and a `CommandList`.
Any exception is caught at top level and shown as a banner.

`SessionTimeline` (session_timeline.js) runs one synchronous layout pass in its
constructor:

1. It buckets the commands per session uuid (`MapExtended.getDefault`).
   `_Session.addCmd` tracks the session span and assigns each command a lane.
   The lane comes from the session's own `TimelineGroupFind`.
2. `assignParallelCmdCounts` splits each session into runs that begin at a
   lane-0 command. Every command of a run gets the run's lane count.
3. A second, shared `TimelineGroupFind` assigns every session a display row.
4. `_prerenderSessions` computes pixel heights and y offsets per row and the
   SVG height.
5. `_preRenderAnnotations` builds one annotation line per row. It holds the
   commands of the topmost lane of their run, in order.
6. The draw loop gives each session's commands rects through a d3 data join
   on the class name `'sessionTimeSeries' + group + idx`. `_handleZoom` later
   recomputes every rect's x and width from the command bound to it.

`TimelineGroupFind` (timeline_group_find.js) is a greedy interval colouring.
It keeps the array of running events and a `TinyQueue` min-heap of released
groups (bundled in dist/main.js). Each call walks the array from its end,
splices out the ended events and pushes their groups, then pops the lowest
free group or numbers a new one.

`AnnotationLineRender` (annotation_line_render.js) draws the labels. The
constructor calls `update(xScale)` once, and `_handleZoom` calls it on every
zoom or pan event. `update` works as follows:

- It stamps `_lastUpdateDummy` and awaits the bundled `async-mutex` Mutex.
- It removes the drawn labels and awaits `_preRenderAnnotations`. For each line,
  that function:
  - bounds the visible range with two `util.binarySearch` calls;
  - walks the range, dropping labels that do not fit before the next anchor
    and truncating the others;
  - sleeps every 30 indices;
  - returns null if it sees a newer stamp at the head of an iteration.
- It appends the result and releases the lock in a `finally`.

`_handleZoom` first sets every command rect's x and width under the new
scale. A rect narrower than `CMD_MIN_WIDTH` (4 px) is widened around its
center. `_handleZoom` then calls `update`.

`prepareCommands` (command_manipulation.js) gives each session the next
colour of a 20-colour palette, wrapping around, and gives null sessions black.

`main()` registers `stats.generateMiscStats` as a jQuery ready handler. When
the report keeps the command data out of line, that handler first copies it
into the command objects with `util.timedForEach`. The loop sleeps 5 ms
whenever more than 200 ms have passed since `lastStart`. It then draws the
bar charts (stats.js lines 37-55). Each chart takes its bars from an array the
exporter sorted by count, descending, and its y maximum from element [0]; two
of them re-sort their bars by start date after reading it. The x-axis labels
are wrapped to the band width by `d3js_util.wrapTextLabels`. A click on a `CommandList` entry is ignored until
`document.readyState` is `"complete"`. After that, `_handleClickOnCmd` toggles
a div with the command's details.

The rest is DOM glue: the bar charts' d3 drawing, `scrollToCmd`, zoom buttons
and tooltips.
`command_timeline.js` and `limited_queue.js` are never imported. The latter,
a TinyQueue that keeps only its largest items, is modelled as an algorithm.
`CommandTimeline` is an older timeline with one line of rects per
`vertOffsetGroup`. Its constructor cannot complete: line 176 calls
`setOnNoteOver`, which `AnnotationLineRender` does not have. Its rects are
drawn before that throw, and it is modelled up to the throw. The rects are
joined with `selectAll('rect')` (line 91), which also finds the invisible
listener rect appended at lines 63-70. The first command is bound to that
rect and gets no rect of its own.

## 2. State, operations and hard behaviours (inventory)

| Part | State | Operations | Hard behaviour |
|---|---|---|---|
| TimelineGroupFind | `_lastEndDates`, `_freeGroups` heap | constructor, `findNextFreeGroup` | strict end test, heap minimum, new group = running count |
| SessionTimeline | sessions, lanes, counts, rows, heights, y, annotation lines | the steps 1-5 above | run splitting, lane reuse inside a run, reduce on a row, non-monotonic session ends |
| Mutex | `_queue`, `_pending` | `acquire`, `_dispatchNext` (= release) | FIFO hand-over, dispatch only when free |
| AnnotationLineRender | `_lastUpdateDummy`, mutex, DOM labels, per-call loop position | `update`, the sleep/timer resumption, `_appendAnnotations` | stamp read before an await, release on every path, binary search bounds, label budget, enter-only data join |
| Rects under zoom | x and width per command rect | constructor drawing, `_handleZoom` | minimum width centred on the label anchor |
| Session colours | `lastColorIdx`, `sessionColorMap` | `_fillCommandSessionColors` | palette wrap-around |
| TinyQueue | data array | constructor (heapify), `push`, `pop`, `peek` | sift-up/sift-down bounds, missing right child, pop of the last element |
| Label wrapping | words, line, tspans | `wrapTextLabels`, `_truncateAndSetLabelTxt` | carry a word vs. advance, truncation by 3 then 2 characters |
| Statistics plots | the four exported arrays | `generatePlot` of each plot | y maximum read before the re-sort |
| Command timeline (unused) | offsets per line, SVG height, rects | constructor, `_setupAnnotations` | NaN comparison with no lines, rect height classes, throw after drawing |
| Page load | readyState, hydration loop index and clock, content divs | DOMContentLoaded, load, `generateMiscStats`, `timedForEach` iterations and sleeps, list clicks | click between two chunks, await of the whole loop, time asleep counted as work |

## 3. Modules

| Module | Models | State and actions |
|---|---|---|
| `TimelineGroupFind` | timeline_group_find.js, with the heap as a bag | `lastEndDates` (sequence), `freeGroups` (bag), history `assigned`. The action `Find(s,e)` is one call. The pure operator `FindNextFreeGroup` is reused by SessionTimeline. It is the abstract specification of the next module. |
| `TimelineGroupFindHeap` | composition of timeline_group_find.js and TinyQueue | `lastEndDates`, `heap` (the TinyQueue data array), `assigned`. `Find(s,e)` runs the backwards splice loop (`ExpireFrom`, RECURSIVE), pushing onto the heap, and `TakeGroup` pops. `GF == INSTANCE TimelineGroupFind WITH freeGroups <- ToBag(heap)` is the refinement mapping. |
| `TinyQueue` | TinyQueue, dist/main.js lines 667-745 | Pure operators on the data array: `Up`/`Down` with their loops as RECURSIVE operators carrying `pos`, `Heapify`, `Push`, `Pop`, `Peek`. |
| `LimitedQueue` | limited_queue.js | `PushLimited` (push, then pop on overflow) and `PopAll` over TinyQueue. |
| `D3jsUtil` | d3js_util.js | A label is the sequence of its word lengths; every character is `CharWidth` pixels. `WrapStep` is one pass of the for loop (`FitStep`, `TruncateStep`, `CarryStep`); `WrapTextLabel` loops it and returns the tspans. |
| `StatsPlots` | plot_most_written_files.js, plot_cmdcount_per_session.js, plot_cmdcount_per_cwd.js, plot_io_per_dir.js, stats.js | One operator per plot giving its bars in drawing order and its y maximum; `MiscStatsPlots` is the list of plots generateMiscStats draws. |
| `SessionTimeline` | session_timeline.js layout, index.js asserts, util.date_max, MapExtended.getDefault | `phase` follows the constructor's order. There is one action per step: `Check`, `AddCmd` (one forEach iteration), `AssignParallelCmdCounts`, `AssignSessionGroup` (one iteration), `GroupSessions`, `PrerenderSessions`, `PreRenderAnnotations`, `Finished`. `Init` enumerates every input. Both TimelineGroupFind instances use `TGF!FindNextFreeGroup`. |
| `SessionDraw` | session_timeline.js `_drawSession`, the draw loop, `_handleZoom`'s rect updates, the row grouping | A rect is `[class, datum, x, row]`: its class name as decimal digits, the command bound to it, the command its x and width came from, and its row. `DrawSession` is d3's join by index on the elements that already carry the class, then `enter()` for the rest. `DrawSessions` folds it over the rows (`FoldLeft`). `HandleZoom` recomputes x from each rect's bound command. `GroupSessions` feeds session spans through `TGF!FindNextFreeGroup`, as the code does. |
| `AsyncMutex` | Mutex of dist/main.js lines 105-152 | `mutex = [queue, pending]`, per-client `pc`. The actions are `CallAcquire`, `Resume` (the awaiting continuation runs) and `Release` (`_dispatchNext`). `Acquire` and `DispatchNext` are pure operators, shared with AnnotationLineRender. |
| `AnnotationLineRender` | annotation_line_render.js, util.binarySearch | There are pure operators for the binary search, centers, truncation and the label walk (`PreRenderLine`). For the `update` protocol, the state is `lastUpdateDummy`, `mutex`, and per call `pc`, `scale` and `pos`, plus `shown` (the calls whose labels are in the DOM). The actions are `Update(u)` (lines 39-43), `Resume(u)` (remove, then run up to the first sleep or the return) and `Wake(u)` (the sleep's timer fires). `RunFrom` runs the loop up to its next await; `Step` performs the sleep, or the append and the release. |
| `TimelineAnnotations` | composition; session_timeline.js drawing and `_handleZoom` | It extends SessionTimeline. After the layout, `Draw(sc)` is the rest of the constructor. `sc` is a scale that contains the span of all commands, as `nice()` gives. `HandleZoom(sc)` is a zoom to any viewport. Both set `rects` (`CalcRectXPosition`, `CalcRectWidth`) and `labels` (`PreRenderLine` on every annotation line). |
| `LatestLayoutWins` | the renderer of spec sections 5 and 8 | `requested`, `latest`, `started`, `serving`, `drawn`. `Request(r)` records a zoom. `Start(r)` serves the oldest request and clears the plot. `Finish(r)` ends it. A request may give up only when it is no longer the latest. `Start` and `Finish` are weakly fair. This is the abstract specification that AnnotationLineRender implements (mapping `LLW`). |
| `CommandTimeline` | command_timeline.js (not imported) | Pure operators: `GenerateCommandsPerGroup`, `GenerateCommandGroupOffsets`, `SvgHeight`, `RectHeight`, `SetupAnnotations`. `Construct` gives what the constructor leaves behind: the vertical spans of the rects of every command but the first, the annotation groups and the line where it throws. |
| `MCEventLoop` | composition of AsyncMutex and PageLoad on the event loop | It takes both by `INSTANCE`. `MutexStep` requires PageLoad's `NoTaskRunning`. `TaskStep` (a load event, the ready handler, a timer, a click) requires that no resolved ticket waits (`MicrotasksDrained`). `PageStep` is the hydration loop and the code after its await. |
| `FifoLock` | the lock of spec section 5 | `owner`, `waiting`, `requests`; `Request(c)`, `Release`, with weak fairness on `Release`. This is the abstract specification that AsyncMutex implements. |
| `CommandManipulation` | command_manipulation.js | `ColorStep` is one forEach iteration. `FillCommandSessionColors` folds it over the uuids (`FoldLeft`). `ArrayAt` is a JS array read that gives `Undefined` out of bounds. |
| `PageLoad` | index.js line 61, stats.js, util.timedForEach, command_list.js click handling | The variables are `readyState`, `statsPc`, the loop index `i`, `elapsed` (= now - lastStart), `plotsRead`, `content` per command, The actions are `DomContentLoaded`, `Load`, `GenerateMiscStats`, `HydrateItem` (one loop iteration), `Wake` (the sleep's timer), `FinishStats` (the code after the await) and `HandleClickOnCmd(c)`. No other task runs while the loop is running (`NoTaskRunning`). |

Pixel sizes in SessionTimeline are in units of CharHeight/1080, so the code's
ratios (1/1.5, 1/5, 1/3, 1.5) are integers. A scale is a time domain `[d0,d1]`
mapped linearly to `[0, SvgWidth]`. `SvgWidth` is a multiple of `2*(d1-d0)`,
so anchor centers are whole pixels. Command texts are represented by their
length. Labels are prefixes, so only the length matters.

Event-loop semantics: each action runs from one await to the next. A resolved
acquire continuation is a microtask, so `Update` (a zoom event) and `Wake` (a
timer) wait until no call is in state `granted` (`MicrotasksDrained`).

## 4. Runs

| Run | Expect | What it shows |
|---|---|---|
| `timeline_group_find` | pass | Over the real heap, overlapping events get distinct groups and each gets the lowest free group; `TimelineGroupFindHeap` implements `TimelineGroupFind` (`GroupFindRefinesBag`, the abstract `Spec` as a PROPERTY). Up to 7 calls over times 0..3, all start orders. |
| `session_collision` | violation | Two commands that overlap in time get overlapping rectangles. |
| `session_class_collision` | violation | In a report of 22 sessions that needs twelve rows, row 1 idx 10 and row 11 idx 0 both get the class `sessionTimeSeries110`. The later session's command gets no rect. After a zoom, the earlier session's rect shows it in row 1. |
| `event_loop` | pass | The Mutex with 3 clients × 2 rounds and the page loading 3 commands (data inline or not, statistics or not, every order of the load events, the ready handler, chunks, timers of 5 ms or throttled, and clicks on the first command), interleaved as the event loop allows. Mutual exclusion, FIFO grants and every acquire eventually granted. The Mutex implements `FifoLock`: `FifoLockSpec` is checked as a property under the mapping owner = the client whose ticket resolved, waiting = `_queue`. The plots read only hydrated commands, and every command is eventually hydrated. |
| `annotation_update` | pass | 3 update() calls over 3 lines and 3 scales (sleep every 2nd index). At most one label set is drawn at a time; once all calls return, the last call's labels are shown; the last call's labels are eventually drawn. `RenderRefinesLatestWins` holds: update() implements `LatestLayoutWins` under the mapping requested = the calls made, started = the calls that have resumed, serving = the sleeping call, drawn = `shown`. |
| `annotation_stale_append` | violation | A superseded call appends its labels. |
| `timeline_annotations` | pass | For every input of ≤ 4 commands in 2 sessions over times 0..3, the layout never throws, sessions sharing a row are disjoint in time, commands stay in their row, and annotation lines are sorted by start. Then, at the first draw and after any zoom to one of the 6 viewports: no label reaches the next drawn anchor, and every label is centred on its command's rect. |
| `annotation_visible_range` | violation | An annotation wholly inside the view is skipped. |
| `algorithms` | pass | binarySearch matches the reference insertion point on every sorted array of ≤ 4 values of 0..3. The session colours follow the rule in the function's comment, on every array of ≤ 4 commands over 3 sessions and null, with a palette of 2 colours so that it wraps. A TinyQueue built from any array of ≤ 4 values of 0..2, then pushed to and popped from ≤ 4 times and drained, always pops its least item (`HeapPopsSmallest`, against a bag). A LimitedQueue of maxLength 1..3 keeps the largest items pushed (`LimitedKeepsLargest`). `wrapTextLabels` wraps greedily: every word once and in order, only a lone word cut, no line that could have taken the next line's first word, (`WrapIsGreedy`). Every bar of the four plots is within its y domain, given the exporter's descending order (`BarsWithinYDomain`). In the old CommandTimeline, with ≤ 3 commands on ≤ 3 lines and every rect height class, the rects of different lines keep a label's room between them, and everything stays inside the SVG (`CommandLinesDoNotCollide`). For ≤ 3 sessions with spans in 0..2 and one or two commands each, grouped into rows as the code does it, every command is drawn as one rect of its own in its session's row, before and after a zoom (`CommandsShownOnceInTheirRows`). |
| `annotation_truncation` | violation | The label budget is ceil, not the floor that the spec states. |
| `label_width` | violation | `wrapTextLabels` draws a line wider than its width, which its doc comment calls the maximum: a word cut in a band of one character becomes "..", two characters wide. |
| `click_before_hydration` | violation | A click that gets past the readyState guard reaches a command that is not hydrated yet. |

### Bounds

- Four commands are the fewest that give every one of these: a run of two and
  of three lanes, a lane reused inside a run, and two sessions that share a row
  or not. The collision needs three commands.
- Sleeping every 2nd index instead of every 30th lets one line of four
  annotations sleep mid-walk (scale [0,4]), at its last index (scale [1,3]) or
  never (scale [0,2]).
- Three update() calls are enough for one call to be superseded while another
  waits on the lock.
- PageLoad uses 3 commands, a chunk budget of 2, item costs of 1 and 2, and
  sleeps of 1 or 3. With these values the loop runs chunks of one and of two
  items. It sleeps after the last item or before it, and a late timer forces a
  sleep after the next item.
- In `event_loop` only the first command is clicked. No property of that run
  reads what a click leaves behind, and `click_before_hydration` clicks every
  command. With clicks on all three, the composition takes minutes.
- A palette of 2 colours and 3 sessions makes the colour cycle wrap.
- Seven calls to findNextFreeGroup over times 0..3 free up to three groups at
  once, so the heap holds groups pushed in reverse array order.
- Heap inputs of up to four items plus four operations reach heaps of up to
  eight items, so sift-down meets a node with only a left child.
- Three commands on up to three lines, with file-write counts from each of the
  four height classes, put a tallest rect under a line of labels and a line
  at the top of the SVG.
- The class-name collision needs a group of two digits and an index of two
  digits. That takes twelve rows and eleven sessions in one row; 22 sessions is
  the fewest that do it. The run is a single computed state plus zooms. The
  pass run uses three sessions, which already covers two sessions in one row
  and two rows.
- Labels of up to four words of 1..5 characters, in bands of 1 to 5
  characters, reach every branch of the wrap loop and truncation to nothing.

### Fairness

`Resume`, `Wake` and `Release` are weakly fair:

- the event loop runs every queued microtask and every expired timer;
- `update` releases in a `finally`.

Zoom events (`Update`, `CallAcquire`) are user input and get no fairness.
`LatestLayoutWins` assumes weak fairness of `Start` and `Finish`, and not of
`Request`. The renderer's fairness implies it: a granted call always resumes,
and a sleeping call always wakes.

In PageLoad, the browser's `DOMContentLoaded` and `load`, the ready handler,
each loop iteration, the sleep's timer and the code after the await are weakly
fair, for the same reasons. Clicks are user input and are not fair.

`MCEventLoop` keeps each component's fairness on its steps in the
composition. A Mutex step cannot run while the hydration loop runs, and a new
task cannot start while a resolved ticket's continuation waits. Neither of
these constraints can keep a fair step from running for good: the loop ends
after its chunk, and a waiting continuation runs.

## 5. Findings

1. **Colliding rectangles** (session_timeline.js:279). A lane freed inside a run
   of parallel commands is reused. The command in it is centred using the run's
   count and overlaps a lane-1 rectangle of a command it overlaps in time.
   Example: commands [0,0], [0,2] and [1,1].
2. **Stale append** (annotation_line_render.js:102). The stamp is tested before
   the sleep, not after it. A call that sleeps at its last index appends after
   a newer call has started. The newer call removes those labels later.
3. **endX search** (annotation_line_render.js:93). `binarySearch` returns the
   first index it probes whose endX equals the view's end, not the last one.
   For the line [0,1],[1,1] (endX [1,1], sorted with a tie) and the view [0,1],
   it returns 0, so [1,1], wholly inside the view, is never considered.
   Lanes can also leave endX unsorted, which the search assumes it is not.
4. **ceil budget** (annotation_line_render.js:154). The spec says floor.
5. **Click before hydration** (command_list.js:47). The guard waits for
   readyState `"complete"`, but the command data comes later, from a ready
   handler that yields at every sleep of `timedForEach`. A click on a command
   without its data throws at line 137: `data(undefined)` returns an array,
   which has no `enter()`. The div appended at line 90 stays at the end of the
   page until the next click on that command.
6. **Class-name collision** (session_timeline.js:98). A session's rects get
   the class `'sessionTimeSeries' + group + idx`, with no separator. Group 1
   idx 10 and group 11 idx 0 are the same name. The d3 join of the later
   session binds its command to the earlier session's rect and creates no
   rect, so that command is never drawn. A zoom then moves the earlier rect
   to the later command's times, still in row 1, and a click on it scrolls to
   the later command.
7. **Label wider than its band** (d3js_util.js:58). `_truncateAndSetLabelTxt`
   always appends "..", so a word cut in a band narrower than two characters
   is wider than the band. The doc comment (line 8) says the width is the
   maximum. PlotSimpleBar, the only caller, passes bands of about 80 px, so
   today's reports do not show it.

## 6. Not modelled

- The DOM drawing: axes, tooltips, the y pixel flip and the markup of
  `_appendAnnotations`. Its data join is modelled.
- The SVG drawing of the bar charts (`plot_simple_bar.js`): band scale, axes,
  bar positions and tooltips. Their data and label wrapping are modelled.
- The horizontal part of `command_timeline.js` (rect x and width, and
  `_handleZoom`). That code is never reached after the throw at line 176, and
  it is the same code as SessionTimeline's, which is modelled.
- Labels are measured with a fixed character width; font metrics are not
  modelled.
- `ZoomButtons` (zoom_buttons.js) and tooltips. They only forward to d3.zoom
  and Bootstrap. d3.zoom clamps the scale to the extent that session_timeline.js
  lines 150-160 compute. A report spanning less than 20 s starts outside that
  extent, so its first zoom-in zooms out. This is listed as a hazard; the
  clamping is d3's.
- The list entry's date text. The same-day test at command_list.js:38 compares
  `getDay()`, the weekday. This is listed as a hazard.
- `CommandList.scrollToCmd` (a scroll offset and a colour transition), the
  list's height and the read-file dialog.
- Date parsing with `d3.timeParse`, a conversion outside the repository. Every
  module takes parsed times as input.
- The zoom's scale extent (20 s to 20 years). Viewports are small integer
  domains.
- d3's scale and zoom transforms. Scales are a finite set of integer domains.
- `runExclusive` of the Mutex, which is unused.

## 7. Plan for later work

1. Composing SessionDraw with the SessionTimeline layout, so that the draw
   runs on the layouts the state machine reaches rather than on spans given
   directly.
2. The zoom's scale extent, if d3.zoom's clamping is to be modelled from its
   documentation.
