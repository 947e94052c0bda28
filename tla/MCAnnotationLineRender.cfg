\* update() calls, their stamps, the lock and the drawn labels.
CONSTANTS
  AnnotationGroups <- MCAnnotationGroups
  Scales <- MCScales
  SvgWidth = 48
  PlotWidth = 48
  CharWidth = 4
  YieldEvery = 2
  MaxUpdates = 3

SPECIFICATION Spec

INVARIANT TypeOK
INVARIANT AtMostOneLayoutShown
INVARIANT QuiescentShowsLatest

PROPERTY LatestEventuallyShown
PROPERTY RenderRefinesLatestWins

\* Once the calls are used up the page idles until the next zoom event.
CHECK_DEADLOCK FALSE
