\* A task that calls twice, a server that talks, one that is off and one that never answers.
CONSTANTS
    Tasks       = {"t1"}
    Callers     <- BootAndTasks
    Servers     = {"s1", "s2"}
    PipeCap     = 2
    ChannelCap  = 2
    OwnIds      = {0}
    MaxAsks     <- AsksOf
    MaxSaid     <- SaidBy
    Config      <- ConfigSeq
    Announced   <- AnnouncedBy
    Requests    <- RequestSet
    Rules       <- RuleSeq
    Root        <- RootPath
SPECIFICATION FairSpec
INVARIANTS PendingHasCaller
PROPERTIES AnswersAreOnes BootComesToAnEnd CallsReturn
CHECK_DEADLOCK FALSE
