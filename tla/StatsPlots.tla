----------------------------- MODULE StatsPlots -----------------------------
(***************************************************************************)
(* The data side of the four bar plots of stats.js: which bars each plot   *)
(* draws, in which order, and the domain [0, yMax] of its y scale          *)
(* (_yScaleBandDomain). The exported arrays (mostFileMods,                 *)
(* sessionsMostCmds, cwdCmdCounts, dirIoCounts) come from the exporter; a  *)
(* command is [start |-> ..., writes |-> fileWriteEvents_length]. A plot   *)
(* is [bars |-> <<[y |-> _yValue(d), ...]>>, yMax |-> ...]; bar heights    *)
(* are (height - top) * y / yMax, so a bar stays in the plot iff y <= yMax. *)
(***************************************************************************)
EXTENDS Integers, Sequences, SequencesExt

(* compareStartDates, command_manipulation.js lines 22-24 *)
CompareStartDates(c1, c2) == c1.start - c2.start

(* filteredCmds.sort(compareStartDates), plot_most_written_files.js l. 21 *)
SortedByStart(seq) == SortSeq(seq, LAMBDA a, b : CompareStartDates(a, b) < 0)

(* Mutant form: the y maximum read from the array after it was sorted by   *)
(* start date.                                                             *)
MostWrittenFilesPlotSortedFirst(mostFileMods, commands) ==
    LET filtered == [k \in DOMAIN mostFileMods |-> commands[mostFileMods[k].idx]]
        sorted   == SortedByStart(filtered)
    IN  [bars |-> [k \in DOMAIN sorted |-> [y |-> sorted[k].writes, start |-> sorted[k].start]],
         yMax |-> sorted[1].writes]

(* PlotMostWrittenFiles.generatePlot, plot_most_written_files.js lines     *)
(* 13-24, with _yScaleBandDomain (line 34) and _yValue: the commands of    *)
(* mostFileMods; yMax is read from the first one before they are sorted by *)
(* start date.                                                             *)
MostWrittenFilesPlot(mostFileMods, commands) ==
    LET filtered == [k \in DOMAIN mostFileMods |-> commands[mostFileMods[k].idx]]
        yMax     == filtered[1].writes
        sorted   == SortedByStart(filtered)
    IN  [bars |-> [k \in DOMAIN sorted |-> [y |-> sorted[k].writes, start |-> sorted[k].start]],
         yMax |-> yMax]

(* The sessions' first commands compared by startTime, line 23. *)
CompareFirstCmds(s1, s2) == s1.start - s2.start

(* this._sessionMostCmds.sort(...), lines 22-24 *)
SortedByFirstCmd(seq) == SortSeq(seq, LAMBDA a, b : CompareFirstCmds(a, b) < 0)

(* PlotCmdCountPerSession.generatePlot, plot_cmdcount_per_session.js lines *)
(* 12-28, with _yScaleBandDomain (line 38): a _SessionMostCmdsEntry per    *)
(* element (the first command and the count); yMax from the first entry,   *)
(* then sorted by the first command's start.                               *)
CmdCountPerSessionPlot(sessionsMostCmds, commands) ==
    LET entries == [k \in DOMAIN sessionsMostCmds |->
                      [start |-> commands[sessionsMostCmds[k].idxFirstCmd].start,
                       y     |-> sessionsMostCmds[k].countOfCommands]]
        yMax    == entries[1].y
    IN  [bars |-> SortedByFirstCmd(entries), yMax |-> yMax]

(* PlotCmdCountPerCwd, plot_cmdcount_per_cwd.js lines 10-37: the array as  *)
(* it is, yMax from its first element.                                     *)
CmdCountPerCwdPlot(cwdCmdCounts) ==
    [bars |-> [k \in DOMAIN cwdCmdCounts |-> [y |-> cwdCmdCounts[k].countOfCommands]],
     yMax |-> cwdCmdCounts[1].countOfCommands]

(* PlotIoPerDir, plot_io_per_dir.js lines 11-38: a bar is reads plus       *)
(* writes, yMax those of the first element.                                *)
IoPerDirPlot(dirIoCounts) ==
    [bars |-> [k \in DOMAIN dirIoCounts |->
                 [y |-> dirIoCounts[k].readCount + dirIoCounts[k].writeCount]],
     yMax |-> dirIoCounts[1].readCount + dirIoCounts[1].writeCount]

(* generateMiscStats, stats.js lines 37-55: a plot for every non-empty     *)
(* array, in this order.                                                   *)
MiscStatsPlots(mostFileMods, sessionsMostCmds, cwdCmdCounts, dirIoCounts, commands) ==
    (IF mostFileMods # << >> THEN << MostWrittenFilesPlot(mostFileMods, commands) >> ELSE << >>)
    \o (IF sessionsMostCmds # << >> THEN << CmdCountPerSessionPlot(sessionsMostCmds, commands) >> ELSE << >>)
    \o (IF cwdCmdCounts # << >> THEN << CmdCountPerCwdPlot(cwdCmdCounts) >> ELSE << >>)
    \o (IF dirIoCounts # << >> THEN << IoPerDirPlot(dirIoCounts) >> ELSE << >>)

=============================================================================
