SPECIFICATION Spec
CONSTANTS
  Threads = {t1, t2}
  Generators = {g1}
  MaxSpans = 4
  MaxDepth = 3
  MaxTime = 2
  Pace = 67
  Windows = {60, 300}
CONSTRAINT Bounded
SYMMETRY ThreadSymmetry
INVARIANTS
  SpanTree
  BreakdownAddsUp
  ReportsAgree
CHECK_DEADLOCK FALSE
