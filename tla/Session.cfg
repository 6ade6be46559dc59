CONSTANTS
  Tasks = {t1, t2}
  Sizes = {s1}
  FirstSize = s0
  Settled = settled
  MaxChunks = 2
  MaxInput = 2
SPECIFICATION FairSpec
INVARIANT TypeOK
INVARIANT MirrorLeads
INVARIANT GoneIsLast
INVARIANT InputInOrder
INVARIANT IdleFinalOutputMirrored
PROPERTY InputArrives
PROPERTY KillEnds
