SPECIFICATION Spec
CONSTANTS
    a1 = a1
    a2 = a2
    a3 = a3
    a4 = a4
    b1 = b1
    sA = sA
    sB = sB
    None = None
    Questions <- ShortQuestions
    Sessions <- MCSessions
    SessionOf <- ShortSessionOf
    ClassifierReplies <- MCReplies
    MaxClarificationRounds = 2
    MergerFaithful = TRUE
    Window = 1
INVARIANT
    AnswersMerged
CHECK_DEADLOCK FALSE
