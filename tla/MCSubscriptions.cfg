SPECIFICATION Spec
CONSTANTS
  Requests = {r1, r2}
  Mover = Mover
  Patterns = {all}
  All = all
  MaxOverlaps = 1
  MaxConnects = 2
  MaxRuns = 4
CHECK_DEADLOCK FALSE
VIEW Seen
SYMMETRY Perms
INVARIANTS OneLiveConnection FeedFollowsThePatterns ClosedIsClosed
