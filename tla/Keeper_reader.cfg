CONSTANTS
  Tasks = {c1}
  Sizes = {}
  FirstSize = s0
  Settled = settled
  MaxChunks = 3
  MaxInput = 1
  Asks = {"attach", "watch"}
  Backlog = 1
  Marked = {2}
  Titled = {1, 3}
SPECIFICATION KFairSpec
INVARIANT KTypeOK
INVARIANT NoGap
INVARIANT LastWords
PROPERTY EndIsTold
PROPERTY OutputArrives
PROPERTY KeeperGoes
CHECK_DEADLOCK FALSE
