SPECIFICATION FairSpec
CONSTANTS
    Read = {r1}
    Ttl = 1
    MinTtl = 2
    MaxTtl = 3
    Deadline = 3
    Retention = 4
    LastStart = 1
    LastServe = 4
    MaxTime = 11
CHECK_DEADLOCK FALSE
INVARIANT PinAccounting
INVARIANT CommittedReadIntact
PROPERTY PinsComeBack
