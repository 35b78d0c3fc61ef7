SPECIFICATION Spec
CONSTANTS
    q1 = q1
    q2 = q2
    good = good
    better = better
    bad = bad
    None = None
    Questions <- MCQuestions
    ClassifierReplies <- MCReplies
    MaxClarificationRounds = 2
    MergerFaithful = FALSE
    Sql <- MCSql
    SafeSql <- MCSafeSql
    RowCounts <- MCRowCounts
    RowLimits <- MCRowLimits
    MaxSqlRetries = 2
    RecursionLimits <- MCRecursionLimits
INVARIANT
    FormatErrorsEndTheRun
CHECK_DEADLOCK FALSE
