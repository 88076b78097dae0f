SPECIFICATION FairSpec
CONSTANTS
    ProbeAfter = 3
INVARIANT OneStream
PROPERTY StreamReturns
PROPERTY GateReturns
CHECK_DEADLOCK FALSE
