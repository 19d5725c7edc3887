SPECIFICATION FairSpec
CONSTANTS
    Jobs = {j1}
INVARIANTS
    TypeOK
    ExitIsFinal
    TimedOutIsDeadline
    FrozenIsPaused
PROPERTIES
    VerdictStable
    JobEnds
    StatsStreamEnds
