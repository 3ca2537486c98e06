SPECIFICATION PipelineSpec
CONSTANTS
    Facts <- SomeFacts
    Offers <- SomeOffers
    Estimates <- SomeEstimates
    Chunks <- SomeChunks
    Questions <- SomeQuestions
    Proposals <- SomeProposals
    Statements <- SomeStatements
    Invented = Invented
    Today = 2
    Collation <- Order
    MaxLimit = 3
    DefaultLimit = 2
    BudgetFloor = 100
    TopFloor = 22
    BoardLimit = 2
    Places = 1
    Images <- SomeImages
    FloorScore <- FloorScores
    TopK = 2
    Pool = 3
    SameWindow = 3
    CrossWindow = 1
CHECK_DEADLOCK FALSE
INVARIANTS AnswerRestsOnItsProject HighIsEarned
PROPERTY EveryRunEnds
