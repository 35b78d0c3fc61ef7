SPECIFICATION TraceSpec
CONSTANTS
    q1 = q1
    good = good
    better = better
    bad = bad
    None = None
    Questions <- MCQuestions
    ClassifierReplies <- MCReplies
    MaxClarificationRounds = 2
    MergerFaithful = FALSE
    Sql <- MCSql
    SafeSql <- MCSafeSql
    RowCounts = {0, 3}
    RowLimits = {2}
    MaxSqlRetries = 3
    RecursionLimits = {6, 11, 25}
INVARIANTS
    RaiseLocated
    StatementsLogged
    StatusLogged
    RetriesNumbered
CHECK_DEADLOCK FALSE
