-------------------------- MODULE AgentGraphProofs --------------------------
(***************************************************************************)
(* What TLC checks of a graph run on a small instance, proved for all      *)
(* values of the constants: any statements, any number of retries and      *)
(* clarification rounds, any replies, any LangGraph limit.                 *)
(***************************************************************************)
EXTENDS AgentGraph, AgentStateProofs

-----------------------------------------------------------------------------
(* The data                                                                *)

\* What the analyzer's five outcomes have in common.
LEMMA ClassifiedTypes ==
    ASSUME FieldTypes, NEW classification, NEW reply, NEW intent,
           Classified(classification, reply, intent)
    PROVE  /\ reply \in ClassifierReplies
           /\ accumulated_intent' \in Intents
           /\ accumulated_intent' = intent /\ intent \in ResolvedIntents(start)
           /\ Get(reply.clarification_question) \in Values
           /\ Get(reply.reason) \in Values
BY StartTypes, ResolvedTypes, GetValues DEF Classified, Classifying, FieldTypes

-----------------------------------------------------------------------------
(* Types                                                                   *)

LEMMA InitType == Init => FieldTypes
<1> SUFFICES ASSUME Init PROVE FieldTypes
  OBVIOUS
<1>1. /\ accumulated_intent \in Intents \cup {None}
      /\ last_clarification \in Values
      /\ ambiguity_count \in 0 .. MaxClarificationRounds
  BY StartTypes DEF Init
<1>2. prompt \in [intent : Intents, retry_sql : Sql \cup {None}, retry_error : Sql \cup {None}]
  BY DEF Init, Intents
<1> QED
  BY <1>1, <1>2 DEF Init, FieldTypes, Nodes, LlmNodes, Statuses, Values

\* The conjuncts of FieldTypes that a step of the analyzer leaves alone.
LEMMA AnalyzerType == FieldTypes /\ QuestionAnalyzer => FieldTypes'
<1> SUFFICES ASSUME FieldTypes, QuestionAnalyzer PROVE FieldTypes'
  OBVIOUS
<1> USE DEF FieldTypes, Route, runVars, sqlVars, dbVars, Nodes, LlmNodes, LlmFaults,
            Statuses, OwnTexts, AfterAnalyzer
<1>1. CASE QuestionResolved
  <2>1. PICK reply \in ClassifierReplies, intent \in Intents :
            Classified("answerable", reply, intent)
    BY <1>1 DEF QuestionResolved
  <2>2. accumulated_intent' \in Intents
    BY <2>1, ClassifiedTypes
  <2>3. ambiguity_count' \in 0 .. MaxClarificationRounds /\ last_clarification' \in Values
    BY <1>1, RoundsAssumption DEF QuestionResolved, Values
  <2> QED
    BY <1>1, <2>2, <2>3 DEF QuestionResolved, Classified
<1>2. CASE AskClarification
  <2>1. PICK reply \in ClassifierReplies, intent \in Intents :
            /\ Classified("ambiguous", reply, intent)
            /\ last_clarification' = Get(reply.clarification_question)
    BY <1>2 DEF AskClarification
  <2>2. accumulated_intent' \in Intents /\ last_clarification' \in Values
    BY <2>1, ClassifiedTypes
  <2>3. ambiguity_count' \in 0 .. MaxClarificationRounds
    BY <1>2, RoundsAssumption DEF AskClarification, RoundsLeft
  <2>4. answer' \in OwnTexts \cup Values
    BY <1>2, <2>2 DEF AskClarification
  <2> QED
    BY <1>2, <2>2, <2>3, <2>4 DEF AskClarification, Classified
<1>3. CASE TooManyRounds
  <2>1. accumulated_intent' \in Intents
    BY <1>3, ClassifiedTypes DEF TooManyRounds
  <2> QED
    BY <1>3, <2>1 DEF TooManyRounds, Classified
<1>4. CASE OutOfScope
  <2>1. accumulated_intent' \in Intents
    BY <1>4, ClassifiedTypes DEF OutOfScope
  <2>2. answer' \in OwnTexts \cup Values
    BY <1>4, ClassifiedTypes DEF OutOfScope
  <2> QED
    BY <1>4, <2>1, <2>2 DEF OutOfScope, Classified
<1>5. CASE NotJson
  BY <1>5 DEF NotJson
<1> QED
  BY <1>1, <1>2, <1>3, <1>4, <1>5 DEF QuestionAnalyzer

LEMMA PipelineType ==
    FieldTypes /\ (SqlGenerator \/ SqlValidator \/ SqlExecutor \/ AnswerFormatter) => FieldTypes'
<1> SUFFICES ASSUME FieldTypes,
                    SqlGenerator \/ SqlValidator \/ SqlExecutor \/ AnswerFormatter
             PROVE  FieldTypes'
  OBVIOUS
<1> USE DEF FieldTypes, Route, runVars, dialogueVars, sqlVars, dbVars, Nodes, LlmNodes,
            Statuses, OwnTexts
<1>1. CASE SqlGenerator
  <2>1. start.question \in Questions
    BY StartTypes
  <2>2. OrQuestion(accumulated_intent, start.question) \in Intents
    BY <2>1 DEF OrQuestion, Truthy, Intents
  <2>3. PromptNow \in [intent : Intents, retry_sql : Sql \cup {None}, retry_error : Sql \cup {None}]
    BY <2>2 DEF PromptNow
  <2> QED
    BY <1>1, <2>3 DEF SqlGenerator, AfterGenerator
<1>2. CASE SqlValidator
  BY <1>2 DEF SqlValidator, AcceptSql, RejectSql, AfterValidator
<1>3. CASE SqlExecutor
  <2>1. CallDatabase
    BY <1>3 DEF SqlExecutor, QuerySucceeds, QueryFailsRetry, QueryFailsForGood
  <2>2. db_calls' \in Seq(Sql \cup {None})
    BY <2>1 DEF CallDatabase
  <2> QED
    BY <1>3, <2>1, <2>2 DEF SqlExecutor, QuerySucceeds, QueryFailsRetry, QueryFailsForGood,
                            CallDatabase, AfterExecutor
<1>4. CASE AnswerFormatter
  <2>1. rows_shown' \in Nat
    BY <1>4, RowsAssumption, LimitAssumption DEF AnswerFormatter, Truncated
  <2> QED
    BY <1>4, <2>1 DEF AnswerFormatter, AfterFormatter
<1> QED
  BY <1>1, <1>2, <1>3, <1>4

LEMMA RaiseType == FieldTypes /\ Raises => FieldTypes'
BY DEF FieldTypes, Raises, LlmCallRaises, ReplyNotAnObject, RecursionLimitHit, Raise,
       runVars, dialogueVars, sqlVars, dbVars, LlmFaults

LEMMA StutterType == FieldTypes /\ UNCHANGED vars => FieldTypes'
BY DEF FieldTypes, vars, runVars, dialogueVars, sqlVars, dbVars

-----------------------------------------------------------------------------
(* The inductive invariant                                                 *)

\* In the pipeline no clarification is left, and every text is the code's own.
LEMMA OwnTextsKept ==
    ASSUME last_clarification' = None, answer' \in OwnTexts \cup {None}
    PROVE  TextTypes'
BY NoneAssumption DEF TextTypes, OwnTexts

LEMMA SameTexts ==
    ASSUME TextTypes, UNCHANGED <<start, status, last_clarification, answer, db_calls>>
    PROVE  TextTypes'
BY DEF TextTypes

\* The analyzer copies at most one field of the reply it was sent.
LEMMA AnalyzerTexts ==
    ASSUME TypeOK, DialogueData, Progress, QuestionAnalyzer
    PROVE  TextTypes'
<1>1. /\ Fresh /\ answer = None /\ db_calls = <<>> /\ start' = start /\ db_calls' = db_calls
      /\ last_clarification = start.last_clarification
      /\ last_clarification = "other" => "other" \in Clarifications
  BY DEF DialogueData, Progress, Fresh, TypeOK, FieldTypes, TextTypes, Nodes, LlmNodes, QuestionAnalyzer,
         QuestionResolved, AskClarification, TooManyRounds, OutOfScope, NotJson, Classified, At,
         Route, dbVars, runVars
<1>2. CASE QuestionResolved
  BY <1>1, <1>2, OwnTextsKept DEF QuestionResolved
<1>3. CASE AskClarification
  <2>1. last_clarification' \in Clarifications
    BY <1>3 DEF AskClarification, Classified, Clarifications
  <2>2. answer' = last_clarification' /\ status' = "asking_clarification"
    BY <1>3 DEF AskClarification, Route
  <2> QED
    BY <2>1, <2>2 DEF TextTypes
<1>4. CASE TooManyRounds \/ NotJson
  <2>1. last_clarification' = last_clarification /\ status' = "error" /\ answer' # "other"
    BY <1>4 DEF TooManyRounds, NotJson, Route
  <2> QED
    BY <1>1, <2>1 DEF TextTypes
<1>5. CASE OutOfScope
  <2>1. answer' \in Reasons
    BY <1>5 DEF OutOfScope, Classified, Reasons
  <2>2. last_clarification' = last_clarification /\ status' = "error"
    BY <1>5 DEF OutOfScope, Route
  <2> QED
    BY <1>1, <2>1, <2>2 DEF TextTypes
<1> QED
  BY <1>2, <1>3, <1>4, <1>5 DEF QuestionAnalyzer

LEMMA InitGraph == Init => GraphInv
<1> SUFFICES ASSUME Init PROVE GraphInv
  OBVIOUS
<1>1. FieldTypes
  BY InitType
<1>2. TextTypes
  BY AnswerAssumption, NoneAssumption, StartTexts DEF Init, TextTypes
<1>3. Progress /\ LoopData /\ DialogueData
  BY LimitAssumption DEF Init, Progress, LoopData, DialogueData, Fresh, Looping
<1>4. /\ OnlyValidatedSqlRuns /\ AttemptBudget /\ RetryContext
      /\ LimitOnlyIfTooSmall /\ EmptyMeansEmpty
  BY LimitAssumption, AnswerAssumption
  DEF OwnTexts, Init, OnlyValidatedSqlRuns, AttemptBudget, RetryContext, LimitOnlyIfTooSmall,
      EmptyMeansEmpty
<1> QED
  BY <1>1, <1>2, <1>3, <1>4 DEF GraphInv, TypeOK

\* The analyzer either ends the run, before any statement, or opens the
\* pipeline with both clarification fields reset.
LEMMA AnalyzerGraph ==
    ASSUME GraphInv, QuestionAnalyzer
    PROVE  GraphInv'
<1>1. TypeOK'
  BY AnalyzerType, AnalyzerTexts DEF GraphInv, TypeOK
<1>2. /\ Fresh /\ retry_count = 0 /\ steps = 0 /\ db_calls = <<>> /\ fault = "none"
      /\ UNCHANGED <<retry_count, db_calls, db_results, prompt, rows_shown, fault>>
      /\ UNCHANGED <<start, recursion_limit, row_limit>>
      /\ steps' = 1
  BY DEF GraphInv, Progress, DialogueData, Fresh, Nodes, LlmNodes, QuestionAnalyzer,
         QuestionResolved, AskClarification, TooManyRounds, OutOfScope, NotJson,
         Classified, At, Route, sqlVars, dbVars, runVars
<1>3. \/ /\ pc' = "sql_generator" /\ status' = "generating"
         /\ last_clarification' = None /\ ambiguity_count' = 0 /\ answer' = None
         /\ accumulated_intent' \in ResolvedIntents(start)
      \/ /\ pc' = "END" /\ status' \in {"asking_clarification", "error"}
         /\ answer' # "query_failed"
  <2>1. CASE QuestionResolved
    BY <2>1 DEF QuestionResolved, Classified, Route, AfterAnalyzer, GraphInv, DialogueData,
                Fresh, At, Nodes, LlmNodes
  <2>2. CASE AskClarification
    BY <2>2, AnswerAssumption DEF AskClarification, Route, AfterAnalyzer, Get, OwnTexts
  <2>3. CASE TooManyRounds \/ NotJson
    BY <2>3 DEF TooManyRounds, NotJson, Route, AfterAnalyzer
  <2>4. CASE OutOfScope
    BY <2>4, AnswerAssumption DEF OutOfScope, Route, AfterAnalyzer, Get, OwnTexts
  <2> QED
    BY <2>1, <2>2, <2>3, <2>4 DEF QuestionAnalyzer
<1>4. Progress' /\ LoopData' /\ DialogueData'
  BY <1>2, <1>3, LimitAssumption
  DEF Progress, LoopData, DialogueData, Fresh, Looping, Nodes, LlmNodes
<1>5. /\ OnlyValidatedSqlRuns' /\ AttemptBudget' /\ RetryContext'
      /\ LimitOnlyIfTooSmall' /\ EmptyMeansEmpty'
  BY <1>2, <1>3, LimitAssumption, AnswerAssumption
  DEF OnlyValidatedSqlRuns, AttemptBudget, RetryContext, LimitOnlyIfTooSmall,
      EmptyMeansEmpty, OwnTexts
<1> QED
  BY <1>1, <1>4, <1>5 DEF GraphInv

\* The retry block is built from the statement that failed last, before the
\* generator overwrites it.
LEMMA GeneratorGraph ==
    ASSUME GraphInv, SqlGenerator
    PROVE  GraphInv'
<1> USE DEF GraphInv
<1>1. FieldTypes'
  BY PipelineType DEF TypeOK
<1>2. /\ pc = "sql_generator" /\ pc' = "sql_validator" /\ status' = "validating"
      /\ Len(db_calls) = retry_count /\ retry_count \in Nat
      /\ retry_count > 0 => sql = db_calls[retry_count] /\ sql_error = db_calls[retry_count]
      /\ steps = 3 * retry_count + 1 /\ steps' = steps + 1
      /\ UNCHANGED <<retry_count, db_calls, db_results, rows_shown, fault, answer>>
      /\ UNCHANGED <<start, recursion_limit, row_limit, accumulated_intent, last_clarification,
                     ambiguity_count>>
  BY DEF SqlGenerator, At, Route, AfterGenerator, runVars, dbVars, dialogueVars,
         Progress, LoopData, Looping, TypeOK, FieldTypes
<1>3. Progress' /\ LoopData' /\ DialogueData'
  BY <1>2 DEF Progress, LoopData, DialogueData, Fresh, Looping, Nodes, LlmNodes, TypeOK, FieldTypes
<1>4. RetryContext'
  <2>1. /\ prompt'.retry_sql = IF retry_count > 0 THEN sql ELSE None
        /\ prompt'.retry_error = IF retry_count > 0 THEN sql_error ELSE None
    BY DEF SqlGenerator, PromptNow
  <2> QED
    BY <1>2, <2>1 DEF RetryContext
<1>5. /\ OnlyValidatedSqlRuns' /\ AttemptBudget'
      /\ LimitOnlyIfTooSmall' /\ EmptyMeansEmpty'
  BY <1>2 DEF OnlyValidatedSqlRuns, AttemptBudget, LimitOnlyIfTooSmall, EmptyMeansEmpty
<1>6. TextTypes'
  <2>1. last_clarification' = None /\ answer' \in OwnTexts \cup {None}
    BY <1>2 DEF DialogueData, Looping, Nodes, LlmNodes, OwnTexts
  <2> QED
    BY <2>1, OwnTextsKept
<1> QED
  BY <1>1, <1>3, <1>4, <1>5, <1>6 DEF TypeOK

LEMMA ValidatorGraph ==
    ASSUME GraphInv, SqlValidator
    PROVE  GraphInv'
<1> USE DEF GraphInv
<1>1. FieldTypes'
  BY PipelineType DEF TypeOK
<1>2. /\ pc = "sql_validator" /\ steps' = steps + 1
      /\ UNCHANGED <<sql, sql_error, retry_count, prompt, db_calls, db_results, rows_shown>>
      /\ UNCHANGED <<start, recursion_limit, row_limit, accumulated_intent, last_clarification,
                     ambiguity_count, fault>>
      /\ \/ pc' = "sql_executor" /\ sql \in SafeSql /\ status' = "executing" /\ answer' = answer
         \/ pc' = "END" /\ status' = "error" /\ answer' = "unsafe_sql"
  BY DEF SqlValidator, AcceptSql, RejectSql, At, Route, AfterValidator, runVars, sqlVars,
         dbVars, dialogueVars
<1>3. Progress' /\ LoopData' /\ DialogueData'
  BY <1>2 DEF Progress, LoopData, DialogueData, Fresh, Looping, Nodes, LlmNodes, TypeOK, FieldTypes
<1>4. /\ OnlyValidatedSqlRuns' /\ AttemptBudget' /\ RetryContext'
      /\ LimitOnlyIfTooSmall' /\ EmptyMeansEmpty'
  BY <1>2
  DEF OnlyValidatedSqlRuns, AttemptBudget, RetryContext, LimitOnlyIfTooSmall, EmptyMeansEmpty
<1>5. TextTypes'
  <2>1. last_clarification' = None /\ answer' \in OwnTexts \cup {None}
    BY <1>2 DEF DialogueData, Looping, Nodes, LlmNodes, OwnTexts
  <2> QED
    BY <2>1, OwnTextsKept
<1> QED
  BY <1>1, <1>3, <1>4, <1>5 DEF TypeOK

\* One statement is sent, a validated one, and it is the last of the list.
LEMMA ExecutorGraph ==
    ASSUME GraphInv, SqlExecutor
    PROVE  GraphInv'
<1> USE DEF GraphInv
<1>1. FieldTypes'
  BY PipelineType DEF TypeOK
<1>2. /\ pc = "sql_executor" /\ steps = 3 * retry_count + 3 /\ steps' = steps + 1
      /\ Len(db_calls) = retry_count /\ retry_count \in Nat /\ retry_count <= MaxSqlRetries
      /\ sql \in SafeSql /\ answer = None /\ fault = "none"
      /\ db_calls' = Append(db_calls, sql)
      /\ UNCHANGED <<sql, prompt, rows_shown, fault, start, recursion_limit>>
      /\ UNCHANGED <<accumulated_intent, last_clarification, ambiguity_count>>
  BY DEF SqlExecutor, QuerySucceeds, QueryFailsRetry, QueryFailsForGood, CallDatabase, At,
         Route, runVars, dialogueVars, Progress, LoopData, DialogueData, Looping, Nodes, TypeOK, FieldTypes
<1>3. /\ Len(db_calls') = retry_count + 1
      /\ db_calls'[retry_count + 1] = sql
      /\ \A i \in 1 .. retry_count : db_calls'[i] = db_calls[i]
  BY <1>2 DEF TypeOK, FieldTypes
<1>4. OnlyValidatedSqlRuns'
  <2> SUFFICES ASSUME NEW i \in DOMAIN db_calls' PROVE db_calls'[i] \in SafeSql
    BY DEF OnlyValidatedSqlRuns
  <2>1. i \in 1 .. retry_count + 1
    BY <1>1, <1>3 DEF TypeOK, FieldTypes
  <2>2. DOMAIN db_calls = 1 .. retry_count
    BY <1>2 DEF TypeOK, FieldTypes
  <2> QED
    BY <1>2, <1>3, <2>1, <2>2 DEF OnlyValidatedSqlRuns
<1>5. \/ /\ pc' = "answer_formatter" /\ status' = "formatting"
         /\ db_results' # None /\ sql_error' = None /\ UNCHANGED <<answer, retry_count>>
      \/ /\ pc' = "sql_generator" /\ status' = "generating" /\ sql_error' = sql
         /\ retry_count' = retry_count + 1 /\ retry_count' <= MaxSqlRetries
         /\ UNCHANGED <<answer, db_results>>
      \/ /\ pc' = "END" /\ status' = "error" /\ answer' = "query_failed"
         /\ retry_count = MaxSqlRetries /\ UNCHANGED <<retry_count, db_results>>
  BY <1>2, RowsAssumption, LimitAssumption
  DEF SqlExecutor, QuerySucceeds, QueryFailsRetry, QueryFailsForGood, RetriesLeft, Route,
      AfterExecutor
<1>6. Progress' /\ LoopData' /\ DialogueData'
  BY <1>2, <1>3, <1>5, LimitAssumption
  DEF Progress, LoopData, DialogueData, Fresh, Looping, Nodes, LlmNodes
<1>7. AttemptBudget' /\ RetryContext' /\ LimitOnlyIfTooSmall' /\ EmptyMeansEmpty'
  BY <1>2, <1>3, <1>5, LimitAssumption
  DEF AttemptBudget, RetryContext, LimitOnlyIfTooSmall, EmptyMeansEmpty
<1>8. TextTypes'
  <2>1. last_clarification' = None /\ answer' \in OwnTexts \cup {None}
    BY <1>2, <1>5 DEF DialogueData, Looping, Nodes, LlmNodes, OwnTexts
  <2> QED
    BY <2>1, OwnTextsKept
<1> QED
  BY <1>1, <1>4, <1>6, <1>7, <1>8 DEF TypeOK

LEMMA FormatterGraph ==
    ASSUME GraphInv, AnswerFormatter
    PROVE  GraphInv'
<1> USE DEF GraphInv
<1>1. FieldTypes'
  BY PipelineType DEF TypeOK
<1>2. /\ pc = "answer_formatter" /\ pc' = "END" /\ status' = "done" /\ answer' = "formatted"
      /\ Len(db_calls) = retry_count + 1 /\ retry_count \in Nat
      /\ db_calls[Len(db_calls)] = sql /\ sql_error = None
      /\ db_results \in RowCounts /\ db_results # None
      /\ rows_shown' = Truncated(db_results)
      /\ UNCHANGED <<sql, sql_error, retry_count, prompt, db_calls, db_results>>
      /\ UNCHANGED <<start, recursion_limit, row_limit, fault>>
  BY DEF AnswerFormatter, At, Route, AfterFormatter, runVars, sqlVars,
         dbVars, Progress, LoopData, TypeOK, FieldTypes
<1>3. Progress' /\ LoopData' /\ DialogueData'
  BY <1>2 DEF Progress, LoopData, DialogueData, Fresh, Looping, Nodes, LlmNodes
<1>4. EmptyMeansEmpty'
  <2>1. db_calls # <<>>
    BY <1>2
  <2>2. db_results \in Nat /\ row_limit \in Int
    BY <1>2, LimitAssumption, RowsAssumption DEF TypeOK, FieldTypes
  <2>3. /\ row_limit > 0 =>
            /\ Truncated(db_results) = 0 <=> db_results = 0
            /\ Truncated(db_results) # db_results => Truncated(db_results) = row_limit
        /\ row_limit <= 0 /\ db_results # 0 => Truncated(db_results) < db_results
    BY <2>2 DEF Truncated
  <2> QED
    BY <1>2, <2>1, <2>3 DEF EmptyMeansEmpty
<1>5. OnlyValidatedSqlRuns' /\ AttemptBudget' /\ RetryContext' /\ LimitOnlyIfTooSmall'
  BY <1>2 DEF OnlyValidatedSqlRuns, AttemptBudget, RetryContext, LimitOnlyIfTooSmall
<1>6. TextTypes'
  <2>1. last_clarification' = None /\ answer' \in OwnTexts \cup {None}
    BY <1>2 DEF dialogueVars, AnswerFormatter, DialogueData, Looping, Nodes, LlmNodes, OwnTexts
  <2> QED
    BY <2>1, OwnTextsKept
<1> QED
  BY <1>1, <1>3, <1>4, <1>5, <1>6 DEF TypeOK

\* With retry_count <= MaxSqlRetries, a node that finds no step left is no
\* further than the formatter of the last attempt.
LEMMA RaiseGraph ==
    ASSUME GraphInv, Raises
    PROVE  GraphInv'
<1> USE DEF GraphInv
<1>1. FieldTypes'
  BY RaiseType DEF TypeOK
<1>2. /\ pc \in Nodes /\ pc' = "RAISED"
      /\ fault' = "recursion_limit" => steps >= recursion_limit
      /\ UNCHANGED <<start, recursion_limit, steps, status, answer, retry_count>>
      /\ UNCHANGED <<db_calls, db_results, rows_shown>>
  BY DEF Raises, LlmCallRaises, ReplyNotAnObject, RecursionLimitHit, Raise, At, Nodes, LlmNodes,
         runVars, sqlVars, dbVars
<1>3. steps <= 3 * MaxSqlRetries + 4
  BY <1>2, LimitAssumption DEF Progress, Fresh, TypeOK, FieldTypes, Nodes, LlmNodes
<1>4. LimitOnlyIfTooSmall'
  BY <1>1, <1>2, <1>3, LimitAssumption DEF LimitOnlyIfTooSmall, TypeOK, FieldTypes
<1>5. Progress' /\ LoopData' /\ DialogueData'
  BY <1>2 DEF Progress, LoopData, DialogueData, Fresh, Looping, Nodes, LlmNodes
<1>6. OnlyValidatedSqlRuns' /\ AttemptBudget' /\ RetryContext' /\ EmptyMeansEmpty'
  BY <1>2 DEF OnlyValidatedSqlRuns, AttemptBudget, RetryContext, EmptyMeansEmpty, DialogueData
<1>7. TextTypes'
  BY SameTexts DEF TypeOK, Raises, LlmCallRaises, ReplyNotAnObject, RecursionLimitHit, Raise,
                   runVars, dialogueVars, dbVars
<1> QED
  BY <1>1, <1>4, <1>5, <1>6, <1>7 DEF TypeOK

LEMMA StutterGraph ==
    ASSUME GraphInv, UNCHANGED vars
    PROVE  GraphInv'
<1>1. TypeOK'
  BY StutterType, SameTexts DEF GraphInv, TypeOK, vars, runVars, dialogueVars, dbVars
<1>2. Progress' /\ LoopData' /\ DialogueData'
  BY DEF GraphInv, vars, runVars, dialogueVars, sqlVars, dbVars, Progress, LoopData,
         DialogueData, Fresh, Looping
<1>3. /\ OnlyValidatedSqlRuns' /\ AttemptBudget' /\ RetryContext'
      /\ LimitOnlyIfTooSmall' /\ EmptyMeansEmpty'
  BY DEF GraphInv, vars, runVars, dialogueVars, sqlVars, dbVars, OnlyValidatedSqlRuns,
         AttemptBudget, RetryContext, LimitOnlyIfTooSmall, EmptyMeansEmpty
<1> QED
  BY <1>1, <1>2, <1>3 DEF GraphInv

LEMMA GraphInvariant == Spec => []GraphInv
<1>1. GraphInv /\ [Next]_vars => GraphInv'
  BY AnalyzerGraph, GeneratorGraph, ValidatorGraph, ExecutorGraph, FormatterGraph, RaiseGraph,
     StutterGraph
  DEF Next
<1> QED
  BY InitGraph, <1>1, PTL DEF Spec

\* No statement reaches the database without having been accepted by
\* validate_sql, whatever the model writes and however often it retries.
THEOREM ValidatedSql == Spec => []OnlyValidatedSqlRuns
BY GraphInvariant, PTL DEF GraphInv

\* Every AgentState field keeps its declared type through a run, but for the texts
\* a classifier spoils by sending something that is not a string, at the ends that
\* TextTypes names; the clarification counter never passes its limit.
THEOREM TypeCorrect == Spec => []TypeOK
BY GraphInvariant, PTL DEF GraphInv

\* So with a classifier that sends strings, or leaves the keys out, the two texts
\* are what state.py declares, `str | None`, in every state.
THEOREM DeclaredTexts ==
    ASSUME \A reply \in ClassifierReplies :
                reply.clarification_question # "other" /\ reply.reason # "other"
    PROVE  Spec => [](last_clarification # "other" /\ answer # "other")
<1>1. "other" \notin Clarifications /\ "other" \notin Reasons
  BY NoneAssumption DEF Clarifications, Reasons, Classifying, Get
<1>2. TypeOK => last_clarification # "other" /\ answer # "other"
  BY <1>1 DEF TypeOK, TextTypes
<1> QED
  BY <1>2, TypeCorrect, PTL

\* The retry loop sends at most 1 + MAX_SQL_RETRIES statements, and gives up
\* only when it has sent them all.
THEOREM Budget == Spec => []AttemptBudget
BY GraphInvariant, PTL DEF GraphInv

\* Each retry prompt pairs the last refused statement with its own error.
THEOREM RetryPrompt == Spec => []RetryContext
BY GraphInvariant, PTL DEF GraphInv

\* A LangGraph limit of 3 * MAX_SQL_RETRIES + 5 node executions always suffices.
THEOREM LimitSuffices == Spec => []LimitOnlyIfTooSmall
BY GraphInvariant, PTL DEF GraphInv

\* For every row limit, zero and negative ones included: an answer is about the
\* last statement sent, the formatter's list is empty for a positive limit only if
\* the result is, and any other limit takes rows from every result that has some.
THEOREM EmptyResult == Spec => []EmptyMeansEmpty
BY GraphInvariant, PTL DEF GraphInv

-----------------------------------------------------------------------------
(* The run implements its contract                                         *)

LEMMA SameData ==
    /\ Contract!StartStates = StartStates
    /\ Contract!Clarifications = Clarifications
    /\ Contract!Reasons = Reasons
    /\ Contract!ResolvedIntents(start) = ResolvedIntents(start)
<1>1. \A c : Contract!Classifying(c) = Classifying(c)
  BY DEF Contract!Classifying, Classifying
<1>2. \A f : Contract!Get(f) = Get(f)
  BY DEF Contract!Get, Get
<1>3. Contract!Clarifications = Clarifications /\ Contract!Reasons = Reasons
  BY <1>1, <1>2 DEF Contract!Clarifications, Clarifications, Contract!Reasons, Reasons
<1>4. Contract!StartStates = StartStates
  BY <1>3 DEF Contract!StartStates, StartStates, Contract!FreshStarts, FreshStarts,
              Contract!ContinuationStarts, ContinuationStarts, Contract!Intents, Intents
<1>5. Contract!ResolvedIntents(start) = ResolvedIntents(start)
  BY DEF ResolvedIntents, Contract!ResolvedIntents, Merged, Contract!Merged, OrQuestion,
         Contract!OrQuestion, Truthy, Contract!Truthy
<1> QED
  BY <1>3, <1>4, <1>5

\* The three kinds of outcome, as the fields of the final state.
LEMMA EndIsOutcome ==
    ASSUME pc' = "END",
           accumulated_intent' \in ResolvedIntents(start),
           \/ /\ status' = "asking_clarification"
              /\ start.ambiguity_count < MaxClarificationRounds
              /\ ambiguity_count' = start.ambiguity_count + 1
              /\ last_clarification' \in Clarifications
              /\ answer' = last_clarification'
           \/ /\ status' \in {"done", "error"}
              /\ last_clarification' = None /\ ambiguity_count' = 0
              /\ answer' \in OwnTexts
           \/ /\ status' = "error"
              /\ last_clarification' = start.last_clarification
              /\ ambiguity_count' = start.ambiguity_count
              /\ answer' \in OwnTexts \cup Reasons
    PROVE  Result' \in Contract!Outcomes(start)
<1> DEFINE text == IF answer' \in {None, "other"} THEN answer' ELSE "string"
<1>1. Result' = Contract!Outcome(status', accumulated_intent', last_clarification',
                                 ambiguity_count', text)
  BY DEF Result, Contract!Outcome
<1>2. answer' \in Values => text = answer'
  BY DEF Values
<1>3. answer' \in OwnTexts => text = "string"
  BY AnswerAssumption DEF OwnTexts
<1>4. CASE status' = "asking_clarification"
  <2>1. text = last_clarification'
    BY <1>2, <1>4, ClarificationValues
  <2>2. Result' \in Contract!AskedOutcomes(start)
    BY <1>1, <1>4, <2>1, SameData DEF Contract!AskedOutcomes
  <2> QED
    BY <2>2 DEF Contract!Outcomes
<1>5. CASE last_clarification' = None /\ ambiguity_count' = 0 /\ answer' \in OwnTexts
           /\ status' \in {"done", "error"}
  <2>1. Result' \in Contract!ResolvedOutcomes(start)
    BY <1>1, <1>3, <1>5, SameData DEF Contract!ResolvedOutcomes
  <2> QED
    BY <2>1 DEF Contract!Outcomes
<1>6. CASE /\ status' = "error"
           /\ last_clarification' = start.last_clarification
           /\ ambiguity_count' = start.ambiguity_count
           /\ answer' \in OwnTexts \cup Reasons
  <2>1. text \in Reasons \cup {"string"}
    BY <1>2, <1>3, <1>6, ClarificationValues
  <2>2. Result' \in Contract!RefusedOutcomes(start)
    BY <1>1, <1>6, <2>1, SameData DEF Contract!RefusedOutcomes
  <2> QED
    BY <2>2 DEF Contract!Outcomes
<1> QED
  BY <1>4, <1>5, <1>6

\* Every step into END, from the analyzer or from the pipeline, is Return.
LEMMA EndsReturn ==
    ASSUME GraphInv, Next, pc' = "END"
    PROVE  Contract!Return
<1> USE DEF GraphInv
<1>1. pc \in Nodes /\ start' = start
  BY DEF Next, QuestionAnalyzer, QuestionResolved, AskClarification, TooManyRounds, OutOfScope,
         NotJson, Classified, SqlGenerator, SqlValidator, AcceptSql, RejectSql, SqlExecutor,
         QuerySucceeds, QueryFailsRetry, QueryFailsForGood, CallDatabase, AnswerFormatter,
         Raises, LlmCallRaises, ReplyNotAnObject, RecursionLimitHit, Raise, At, Route, runVars,
         Nodes, LlmNodes
<1>2. Result' \in Contract!Outcomes(start)
  <2>1. CASE QuestionAnalyzer
    <3>1. /\ ambiguity_count = start.ambiguity_count
          /\ last_clarification = start.last_clarification
      BY <2>1 DEF DialogueData, Fresh, QuestionAnalyzer, QuestionResolved, AskClarification,
         TooManyRounds, OutOfScope, NotJson, Classified, At
    <3>2. accumulated_intent' \in ResolvedIntents(start)
      BY <2>1 DEF QuestionAnalyzer, QuestionResolved, AskClarification,
         TooManyRounds, OutOfScope, NotJson, Classified
    <3>3. CASE QuestionResolved
      BY <3>3 DEF QuestionResolved, Route, AfterAnalyzer
    <3>4. CASE AskClarification
      <4>1. last_clarification' \in Clarifications
        BY <3>4 DEF AskClarification, Classified, Clarifications
      <4> QED
        BY <3>1, <3>2, <3>4, <4>1, EndIsOutcome DEF AskClarification, RoundsLeft, Route
    <3>5. CASE TooManyRounds \/ NotJson
      BY <3>1, <3>2, <3>5, EndIsOutcome DEF TooManyRounds, NotJson, Route, OwnTexts
    <3>6. CASE OutOfScope
      <4>1. answer' \in Reasons
        BY <3>6 DEF OutOfScope, Classified, Reasons
      <4> QED
        BY <3>1, <3>2, <3>6, <4>1, EndIsOutcome DEF OutOfScope, Route
    <3> QED
      BY <2>1, <3>3, <3>4, <3>5, <3>6 DEF QuestionAnalyzer
  <2>2. CASE SqlGenerator \/ SqlValidator \/ SqlExecutor \/ AnswerFormatter
    <3>1. /\ accumulated_intent' \in ResolvedIntents(start)
          /\ last_clarification' = None /\ ambiguity_count' = 0
      BY <2>2 DEF DialogueData, Looping, SqlGenerator, SqlValidator, AcceptSql, RejectSql,
         SqlExecutor, QuerySucceeds, QueryFailsRetry, QueryFailsForGood, CallDatabase,
         AnswerFormatter, At, dialogueVars
    <3>2. status' \in {"done", "error"} /\ answer' \in OwnTexts
      BY <2>2 DEF SqlGenerator, SqlValidator, AcceptSql, RejectSql, SqlExecutor, QuerySucceeds,
         QueryFailsRetry, QueryFailsForGood, AnswerFormatter, Route, AfterGenerator,
         AfterValidator, AfterExecutor, AfterFormatter, OwnTexts
    <3> QED
      BY <3>1, <3>2, EndIsOutcome
  <2>3. ~Raises
    BY DEF Raises, LlmCallRaises, ReplyNotAnObject, RecursionLimitHit, Raise
  <2> QED
    BY <2>1, <2>2, <2>3 DEF Next
<1> QED
  BY <1>1, <1>2 DEF Contract!Return, Phase, Nodes, LlmNodes

\* Every other step between nodes is invisible to the caller, and a raise is
\* the contract's Raise.
LEMMA OtherSteps ==
    ASSUME GraphInv, [Next]_vars, pc' # "END"
    PROVE  Contract!Raise \/ UNCHANGED Contract!contractVars
<1> USE DEF Contract!contractVars, Phase, Result
<1>1. CASE UNCHANGED vars
  BY <1>1 DEF vars, runVars
<1>2. CASE Raises
  BY <1>2 DEF Raises, LlmCallRaises, ReplyNotAnObject, RecursionLimitHit, Raise, At, runVars,
     Contract!Raise, Nodes, LlmNodes
<1>3. CASE QuestionAnalyzer \/ SqlGenerator \/ SqlValidator \/ SqlExecutor \/ AnswerFormatter
  <2>1. pc \in Nodes /\ start' = start
    BY <1>3 DEF QuestionAnalyzer, QuestionResolved, AskClarification, TooManyRounds, OutOfScope,
       NotJson, Classified, SqlGenerator, SqlValidator, AcceptSql, RejectSql, SqlExecutor,
       QuerySucceeds, QueryFailsRetry, QueryFailsForGood, CallDatabase, AnswerFormatter,
       At, Route, runVars, Nodes, LlmNodes
  <2>2. pc' # "RAISED"
    BY <1>3 DEF QuestionAnalyzer, QuestionResolved, AskClarification, TooManyRounds, OutOfScope,
       NotJson, SqlGenerator, SqlValidator, AcceptSql, RejectSql, SqlExecutor,
       QuerySucceeds, QueryFailsRetry, QueryFailsForGood, AnswerFormatter,
       Route, AfterAnalyzer, AfterGenerator, AfterValidator, AfterExecutor, AfterFormatter
  <2> QED
    BY <2>1, <2>2 DEF Nodes, LlmNodes
<1> QED
  BY <1>1, <1>2, <1>3 DEF Next

\* The caller of graph.ainvoke gets exactly one outcome of the start state, or
\* one exception: the part of the graph the API layer relies on.
THEOREM Refinement == Spec => ImplementsContract
<1>1. Init => Contract!Init
  BY SameData DEF Init, Contract!Init, Phase, Result
<1>2. GraphInv /\ [Next]_vars => [Contract!Next]_Contract!contractVars
  <2> SUFFICES ASSUME GraphInv, [Next]_vars
               PROVE  Contract!Next \/ UNCHANGED Contract!contractVars
    OBVIOUS
  <2>1. CASE UNCHANGED vars
    BY <2>1 DEF vars, runVars, Contract!contractVars, Phase, Result, dialogueVars
  <2>2. CASE Next /\ pc' = "END"
    BY <2>2, EndsReturn DEF Contract!Next
  <2>3. CASE pc' # "END"
    BY <2>3, OtherSteps DEF Contract!Next
  <2> QED
    BY <2>1, <2>2, <2>3
<1> QED
  BY <1>1, <1>2, GraphInvariant, PTL DEF Spec, ImplementsContract, Contract!Spec

=============================================================================
