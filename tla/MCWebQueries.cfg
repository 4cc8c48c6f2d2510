SPECIFICATION Spec
CONSTANTS
  Names <- TwoNames
  Watched <- WatchedQueries
  Calls = {c1, c2}
  NoCall = NoCall
  MaxVersion = 2
INVARIANT SettledShowsOwn
PROPERTIES NeverBack PollsCatchUp
CHECK_DEADLOCK FALSE
