------------------------------ MODULE PageLoad ------------------------------
(***************************************************************************)
(* What runs after main() (index.js lines 17-62) has built the timeline    *)
(* and the command list:                                                   *)
(*  - the browser moves document.readyState from "loading" through         *)
(*    "interactive" (DOMContentLoaded) to "complete" (load);               *)
(*  - $(document).ready(stats.generateMiscStats) (index.js line 61) runs   *)
(*    the statistics once the DOM is ready. When the command data is not  *)
(*    inline, it first hydrates every command with util.timedForEach,      *)
(*    which sleeps whenever a chunk used more than maxTimePerChunk;        *)
(*  - a click on a command-list entry (command_list.js lines 46-53) is     *)
(*    ignored until readyState is "complete", then _handleClickOnCmd       *)
(*    toggles the command's content div.                                   *)
(* Every action is one JS task (or one loop iteration of the task that     *)
(* hydrates); no other task runs while the hydration loop is running.      *)
(* Time is kept as elapsed = now - lastStart, in abstract units.           *)
(***************************************************************************)
EXTENDS Integers, FiniteSets

CONSTANTS NumCmds,          \* commands.length
          MaxTimePerChunk,  \* maxTimePerChunk (200 ms)
          ItemCosts,        \* the time one func(array[i]) call can take
          SleepTimes        \* how long sleep(5) can take, timer throttling included

ASSUME /\ NumCmds \in Nat \ {0}
       /\ MaxTimePerChunk \in Nat
       /\ ItemCosts \subseteq Nat /\ SleepTimes \subseteq Nat \ {0}

VARIABLES readyState,   \* document.readyState
          dataInline,   \* commands[0].fileWriteEvents is defined from the start
          hasStats,     \* one of mostFileMods, sessionsMostCmds, ... is non-empty
          statsPc,      \* where generateMiscStats is
          i,            \* the loop index of timedForEach
          elapsed,      \* now - lastStart in timedForEach
          plotsRead,    \* the commands whose data the plots have read
          content       \* per command: no content div, one shown after the entry, or an orphan

vars == <<readyState, dataInline, hasStats, statsPc, i, elapsed, plotsRead, content>>

Cmds == 0..NumCmds - 1

(* The commands whose command data (fileWriteEvents, ...) is assigned. *)
Hydrated == IF dataInline THEN Cmds ELSE 0..i - 1

Init ==
    /\ readyState = "loading"
    /\ dataInline \in BOOLEAN
    /\ hasStats \in BOOLEAN
    /\ statsPc = "registered"
    /\ i = 0 /\ elapsed = 0
    /\ plotsRead = {}
    /\ content = [c \in Cmds |-> "none"]

(* No other task can run while the hydration loop runs synchronously. *)
NoTaskRunning == statsPc # "hydrating"

(* The browser fires DOMContentLoaded, then load. *)
DomContentLoaded ==
    /\ NoTaskRunning /\ readyState = "loading"
    /\ readyState' = "interactive"
    /\ UNCHANGED <<dataInline, hasStats, statsPc, i, elapsed, plotsRead, content>>

Load ==
    /\ NoTaskRunning /\ readyState = "interactive"
    /\ readyState' = "complete"
    /\ UNCHANGED <<dataInline, hasStats, statsPc, i, elapsed, plotsRead, content>>

(* The lines after the awaited hydration, stats.js lines 23-59: the plots  *)
(* read the command data of the commands they show, or return early when   *)
(* there are no statistics.                                                *)
DrawPlots ==
    /\ plotsRead' = IF hasStats THEN Cmds ELSE {}
    /\ statsPc' = "done"

(* The ready handler starts generateMiscStats, stats.js lines 9-21: with   *)
(* the data inline it goes on to the plots, otherwise it starts the        *)
(* timedForEach loop (util.js lines 51-57).                                *)
GenerateMiscStats ==
    /\ NoTaskRunning /\ readyState # "loading" /\ statsPc = "registered"
    /\ IF dataInline
       THEN DrawPlots /\ UNCHANGED <<i, elapsed>>
       ELSE statsPc' = "hydrating" /\ i' = 0 /\ elapsed' = 0 /\ UNCHANGED plotsRead
    /\ UNCHANGED <<readyState, dataInline, hasStats, content>>

(* Mutant form: the loop stops one command early. *)
LoopRunsOffByOne(idx) == idx < NumCmds - 1

(* for (let i=0; i < array.length; i++), util.js line 58 *)
LoopRuns(idx) == idx < NumCmds

(* Mutant form: generateMiscStats does not await the hydration, so the     *)
(* plots are drawn as soon as timedForEach first sleeps.                   *)
HydrationAwaitedNot(pc, idx) == \/ pc = "sleeping"
                                \/ pc = "hydrating" /\ ~LoopRuns(idx)

(* timedForEach has returned to the awaiting generateMiscStats. *)
HydrationAwaited(pc, idx) == pc = "hydrating" /\ ~LoopRuns(idx)

(* lastStart = now, util.js line 64: the now read before the sleep becomes *)
(* the new lastStart, so now - lastStart is 0 when the sleep starts.       *)
LastStartReset(now) == 0

(* One iteration, util.js lines 59-65: func hydrates command i            *)
(* (stats.js lines 16-19); when more than maxTimePerChunk has elapsed     *)
(* since lastStart, the loop sleeps and lastStart is set to the now read  *)
(* before the sleep.                                                       *)
HydrateItem ==
    /\ statsPc = "hydrating" /\ LoopRuns(i)
    /\ \E cost \in ItemCosts :
         LET now == elapsed + cost
         IN  /\ i' = i + 1
             /\ IF now > MaxTimePerChunk
                THEN statsPc' = "sleeping" /\ elapsed' = LastStartReset(now)
                ELSE UNCHANGED statsPc /\ elapsed' = now
    /\ UNCHANGED <<readyState, dataInline, hasStats, plotsRead, content>>

(* The sleep's timer fires after d; since lastStart was set before the    *)
(* sleep, the time asleep counts against the next chunk.                   *)
Wake ==
    /\ NoTaskRunning /\ statsPc = "sleeping"
    /\ \E d \in SleepTimes : elapsed' = elapsed + d
    /\ statsPc' = "hydrating"
    /\ UNCHANGED <<readyState, dataInline, hasStats, i, plotsRead, content>>

(* The await in stats.js line 15 returns: the rest of generateMiscStats.  *)
FinishStats ==
    /\ HydrationAwaited(statsPc, i)
    /\ DrawPlots
    /\ UNCHANGED <<readyState, dataInline, hasStats, i, elapsed, content>>

(* The click handler of command_list.js lines 46-53 goes on only when     *)
(* document.readyState is "complete".                                     *)
Loaded == readyState = "complete"

(* A click on the list entry of command c, command_list.js lines 46-53:   *)
(* ignored until readyState is "complete", then _handleClickOnCmd (lines   *)
(* 83-178). An existing content div is removed (lines 84-88). Otherwise a  *)
(* div is appended to the body (lines 90-97); for a command that is not    *)
(* hydrated, fileWriteEvents_length is undefined so lines 101-135 are      *)
(* skipped, and selectAll(...).data(undefined) at line 137 returns an      *)
(* array without enter(): the handler throws before the div is moved       *)
(* after the entry (line 171), leaving it at the end of the body.          *)
HandleClickOnCmd(c) ==
    /\ NoTaskRunning /\ Loaded
    /\ content' = [content EXCEPT ![c] = CASE @ # "none"      -> "none"
                                          [] c \in Hydrated -> "shown"
                                          [] OTHER          -> "orphan"]
    /\ UNCHANGED <<readyState, dataInline, hasStats, statsPc, i, elapsed, plotsRead>>

Next ==
    \/ DomContentLoaded \/ Load
    \/ GenerateMiscStats \/ HydrateItem \/ Wake \/ FinishStats
    \/ \E c \in Cmds : HandleClickOnCmd(c)

(* The browser fires its load events, and runs every ready handler and   *)
(* every expired timer; the hydration loop always gets to run. Clicks are *)
(* user input and get no fairness.                                         *)
Fairness ==
    /\ WF_vars(DomContentLoaded) /\ WF_vars(Load)
    /\ WF_vars(GenerateMiscStats) /\ WF_vars(HydrateItem)
    /\ WF_vars(Wake) /\ WF_vars(FinishStats)

Spec == Init /\ [][Next]_vars /\ Fairness

-----------------------------------------------------------------------------

TypeOK ==
    /\ readyState \in {"loading", "interactive", "complete"}
    /\ dataInline \in BOOLEAN /\ hasStats \in BOOLEAN
    /\ statsPc \in {"registered", "hydrating", "sleeping", "done"}
    /\ i \in 0..NumCmds
    /\ elapsed \in Nat
    /\ plotsRead \subseteq Cmds
    /\ content \in [Cmds -> {"none", "shown", "orphan"}]

(* The plots of stats.js read fileWriteEvents_length and the other command *)
(* data only of hydrated commands: generateMiscStats awaits the whole of   *)
(* timedForEach, across all its sleeps, before it draws (stats.js l. 15).  *)
PlotsReadHydratedData == plotsRead \subseteq Hydrated

(* Every command is eventually hydrated: timedForEach runs to the end of   *)
(* the array, whatever the chunks and sleeps in between.                   *)
HydrationCompletes == <>(Hydrated = Cmds)

(* The comment of command_list.js line 48: clicks are ignored "until       *)
(* everything loaded", so a click that is handled sees the command's       *)
(* data and never leaves a content div outside the list.                   *)
ClickSeesHydratedData == \A c \in Cmds : content[c] # "orphan"
====
