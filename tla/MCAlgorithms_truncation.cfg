CONSTANTS
  PlotWidth = 24
  CharWidth = 4
  c1 = c1
  c2 = c2
  black = black
  undef = undef
  null = null
  s1 = s1
  s2 = s2
  s3 = s3
SPECIFICATION Spec
INVARIANT TruncationFollowsSpec
