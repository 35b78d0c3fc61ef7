SPECIFICATION FairSpec
CONSTANTS
    q1 = q1
    q2 = q2
    good = good
    better = better
    bad = bad
    None = None
    Questions <- MCQuestions
    ClassifierReplies <- MCReplies
    MaxClarificationRounds = 2
    MergerFaithful = FALSE
    Sql <- MCSql
    SafeSql <- MCSafeSql
    RowCounts <- MCRowCounts
    RowLimits <- MCRowLimits
    MaxSqlRetries = 2
    RecursionLimits <- MCRecursionLimits
INVARIANTS
    TypeOK
    OnlyValidatedSqlRuns
    AttemptBudget
    RetryContext
    LimitOnlyIfTooSmall
    EmptyMeansEmpty
PROPERTIES
    ImplementsContract
    AnswersUnlessFaulty
CHECK_DEADLOCK FALSE
