CONSTANTS
  Tasks = {c1}
  Sizes = {}
  FirstSize = s0
  Settled = settled
  MaxChunks = 4
  MaxInput = 0
  Asks = {"attach"}
  Backlog = 2
  Marked = {}
  Titled = {}
SPECIFICATION KSpec
INVARIANT FinalScreen
CHECK_DEADLOCK FALSE
