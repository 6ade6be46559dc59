CONSTANTS
  Tasks = {c1, c2}
  Sizes = {s1}
  FirstSize = s0
  Settled = settled
  MaxChunks = 1
  MaxInput = 0
  Asks = {"attach", "watch", "describe", "kill"}
  Backlog = 2
  Marked = {}
  Titled = {1}
SPECIFICATION KSpec
INVARIANT NoReaderCutOff
INVARIANT EndIsTrue
INVARIANT KilledOnlyByAsking
INVARIANT NobodyIsLetGoUntold
SYMMETRY Symmetry
CHECK_DEADLOCK FALSE
