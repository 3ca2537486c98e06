SPECIFICATION FairSpec
CONSTANTS
    MaxEvents = 3
    MaxTick = 1
    Limit <- TwoAndOne
CHECK_DEADLOCK FALSE
INVARIANTS AnswerIsWhole AccessIsPaidFor ClosedIsSettled
PROPERTY ClientIsAnswered
