SPECIFICATION Spec
CONSTANTS
    a1 = a1
    a2 = a2
    a3 = a3
    a4 = a4
    b1 = b1
    sA = sA
    sB = sB
    None = None
    Questions <- MCQuestions
    Sessions <- MCSessions
    SessionOf <- MCSessionOf
    ClassifierReplies <- MCReplies
    MaxClarificationRounds = 2
    MergerFaithful = TRUE
    Window = 1
SYMMETRY Interchangeable
INVARIANTS
    TypeOK
    NoLostTurn
    RoundsBounded
    IntentIsDialogue
    RecentContext
    SurvivingTurns
    ContinuesOneResponse
PROPERTY
    ImplementsConversation
CHECK_DEADLOCK FALSE
