CONSTANTS
  BufferSize = 4
  Contender = {1,2,3}
  MaxCycles = 2
  Taker = {1,2,3}
  Asker = {1,2}
  Calls = 4
  NumBuffers = 2
  Rounds = 2
  Requester = {1,2,3}
  NumDesc = 2
  Fill = 3
  Updates = 3
  NumPoints = 4
  Iterations = 3
  ArenaSize = 2
  MaxSeed = 7
SPECIFICATION RelaxSpec
PROPERTIES RelaxTestsPass
CHECK_DEADLOCK FALSE
