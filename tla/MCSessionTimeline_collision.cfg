CONSTANTS
  s1 = s1
  s2 = s2
  Sessions <- MCSessions
  Times <- MCTimes
  MaxCmds <- MCMaxCmds
  CharHeight <- MCCharHeight
  SvgMinHeight <- MCSvgMinHeight
SYMMETRY Symmetry
SPECIFICATION Spec
INVARIANT NoOverlappingRects
