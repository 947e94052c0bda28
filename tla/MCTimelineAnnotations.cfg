\* Layout of every input of up to four commands, then renders under every viewport.
CONSTANTS
  s1 = s1
  s2 = s2
  Sessions <- MCSessions
  Times <- MCTimes
  MaxCmds <- MCMaxCmds
  CharHeight <- MCCharHeight
  SvgMinHeight <- MCSvgMinHeight
  Scales <- MCScales
  SvgWidth = 24
  PlotWidth = 24
  CharWidth = 4
  TextLen = 4
SYMMETRY Symmetry
SPECIFICATION TSpec
INVARIANT TTypeOK
INVARIANT LabelsClearNextAnchor
INVARIANT LabelsCentredOnRects
INVARIANT NoLayoutCrash
INVARIANT SessionsInRowDoNotOverlap
INVARIANT CommandsStayInRow
INVARIANT AnnotationGroupsSortedByStart
