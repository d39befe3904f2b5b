SPECIFICATION Spec
CONSTANTS
  Subjects = {"a", "ab", "ac"}
  Published = {"ab", "ac"}
  Above <- MCAbove
  ShardOf <- MCShardOf
  Tabs = {"t"}
  Views <- MCViews
  Requests = {"r"}
  Fading = {"ab"}
  Selections = {{"ab", "ac"}}
  Contents = {TRUE}
  MaxCount = 1
  MaxInFlight = 2
CHECK_DEADLOCK FALSE
VIEW Seen
INVARIANTS TreeAddsUp StatsReachTheTree SentIsVisible TabShowsTheTree
