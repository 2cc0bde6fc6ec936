\* One mission, planned twice at most, with a worker's call beside its own.
CONSTANTS
    Config      <- ConfigSeq
    Keys        = {"GEMINI_KEY"}
    Missions    = {"m1"}
    Callers     <- ServiceAndWorker
    MissionOf   <- OwnerOf
    Replies     <- ReplySet
    MaxRequests = 4
    Score       <- ScoreOf
    Shares      <- SharesOf
    Dims        = {0, 3}
    RecallLimit = 1
    MaxMemory   = 1
    Tools       <- ToolSet
    ReplanCap   = 1
    GoalCap     = 4
    GoalTasks   = 2
    MaxReboots  = 1
SPECIFICATION FairSpec
INVARIANTS CostsAddUp OpenMeansFailing ConversationsSurvive RecallDegrades InputsReachTheirTasks
PROPERTY CallsComeBack
CHECK_DEADLOCK FALSE
