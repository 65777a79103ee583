CONSTANTS
    Nobody = Nobody
    Write = {w1, w2, w3}
    Controller = {main, other}
    QueueSize = 1
    MaxStarts = 2
SPECIFICATION FairSpec
INVARIANTS OneWriter
PROPERTIES EveryWriteAnswered StopReturns AppliedAndTold
