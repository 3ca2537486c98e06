SPECIFICATION ConvSpec
CONSTANTS
    w1 = w1 w2 = w2 d1 = d1 d2 = d2 s1 = s1 camellia = camellia soleil = soleil
    NoSession = NoSession NoDevice = NoDevice
    Workers <- TwoWorkers
    Callers <- TwoCallers
    Projects <- TwoProjects
    Seeds <- TwoProjects
    Questions <- SomeQuestions
    SessionsMax = 1
    AskMax = 2
    MaxTurns = 4
SYMMETRY WorkersAreAlike
INVARIANT AskedSparingly
PROPERTY PhoneIsKept
