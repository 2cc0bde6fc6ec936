\* A server that sends requests of its own, with an id of the client's.
CONSTANTS
    Tasks       = {"t1"}
    Callers     <- BootAndTasks
    Servers     = {"s1", "s2"}
    PipeCap     = 2
    ChannelCap  = 2
    OwnIds      = {1}
    MaxAsks     <- AsksOf
    MaxSaid     <- SaidBy
    Config      <- ConfigSeq
    Announced   <- AnnouncedBy
    Requests    <- RequestSet
    Rules       <- RuleSeq
    Root        <- RootPath
SPECIFICATION FairSpec
PROPERTY AnswersAreOnes
CHECK_DEADLOCK FALSE
