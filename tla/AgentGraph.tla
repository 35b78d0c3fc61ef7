----------------------------- MODULE AgentGraph -----------------------------
(***************************************************************************)
(* One run of the compiled LangGraph workflow (agent/graph.py) with the    *)
(* five nodes of agent/nodes/.  A node's partial state update and the edge *)
(* it is routed along are one action: LangGraph applies them in one        *)
(* superstep, and the state is private to the run.                         *)
(***************************************************************************)
EXTENDS AgentState, Sequences

CONSTANTS
    Sql,             \* statements the generator may write
    SafeSql,         \* those validate_sql accepts
    RowCounts,       \* sizes of result sets
    RowLimits,       \* what settings.db_results_row_limit may be
    MaxSqlRetries,   \* settings.max_sql_retries
    RecursionLimits  \* node executions LangGraph may allow one run: the code
                     \* passes no recursion_limit and pins no version of it

\* What an answer can be, beside a field copied out of the classifier's reply or
\* the code's default for it (Values): the formatter's text, or an error message.
OwnTexts == {"formatted", "classify_failed", "too_ambiguous", "unsafe_sql", "query_failed"}

ASSUME AnswerAssumption == None \notin OwnTexts
ASSUME SqlAssumption == SafeSql \subseteq Sql /\ None \notin Sql
ASSUME RowsAssumption == RowCounts \subseteq Nat /\ None \notin RowCounts
ASSUME LimitAssumption ==
    /\ RowLimits \subseteq Int
    /\ MaxSqlRetries \in Nat
    /\ RecursionLimits \subseteq Nat

VARIABLES
    start,               \* the AgentState fields the API layer supplied
    recursion_limit,     \* what LangGraph was built with
    row_limit,           \* config["configurable"]["db_results_row_limit"]
    pc,                  \* the node scheduled next, "END", or "RAISED"
    fault,               \* why the run raised
    steps,               \* node executions so far
    status,              \* AgentState, from here on
    accumulated_intent,
    last_clarification,
    ambiguity_count,
    answer,              \* what the answer is made of, None when it is None
    sql,
    sql_error,           \* the statement whose failure the message reports
    retry_count,
    db_results,          \* the number of rows
    prompt,              \* what the generator's last prompt was built from
    rows_shown,          \* rows the formatter put in its prompt
    db_calls             \* history: every statement sent to the database

runVars == <<start, recursion_limit, row_limit>>
dialogueVars == <<accumulated_intent, last_clarification, ambiguity_count>>
sqlVars == <<sql, sql_error, retry_count, prompt>>
dbVars == <<db_results, db_calls>>
vars == <<runVars, pc, fault, steps, status, dialogueVars, answer, sqlVars,
          dbVars, rows_shown>>

LlmNodes == {"question_analyzer", "sql_generator", "answer_formatter"}
Nodes == LlmNodes \cup {"sql_validator", "sql_executor"}
LlmFaults == {"llm_call", "reply_shape"}

-----------------------------------------------------------------------------
(* The edges: the statuses a node may return, and where each one leads.    *)

AfterAnalyzer == [generating           |-> "sql_generator",
                  asking_clarification |-> "END",
                  error                |-> "END"]

(* mutant: the generator is wired straight to the executor *)
MutAfterGenerator == [validating |-> "sql_executor"]

AfterGenerator == [validating |-> "sql_validator"]

AfterValidator == [executing |-> "sql_executor", error |-> "END"]

AfterExecutor == [formatting |-> "answer_formatter",
                  generating |-> "sql_generator",
                  error      |-> "END"]

AfterFormatter == [done |-> "END"]

\* A node may run: LangGraph scheduled it, and has supersteps left.
At(node) == pc = node /\ steps < recursion_limit

\* The node returned this status, and _route follows it.
Route(edges, newStatus) ==
    /\ status' = newStatus
    /\ pc' = edges[newStatus]
    /\ steps' = steps + 1
    /\ UNCHANGED <<runVars, fault>>

-----------------------------------------------------------------------------
(* routes.py 121-138: the initial AgentState.                              *)

Init ==
    /\ start \in StartStates
    /\ recursion_limit \in RecursionLimits /\ row_limit \in RowLimits
    /\ pc = "question_analyzer" /\ fault = "none" /\ steps = 0
    /\ status = "analyzing"
    /\ accumulated_intent = start.accumulated_intent
    /\ last_clarification = start.last_clarification
    /\ ambiguity_count = start.ambiguity_count
    /\ answer = None
    /\ sql = None /\ sql_error = None /\ retry_count = 0
    /\ prompt = [intent |-> {}, retry_sql |-> None, retry_error |-> None]
    /\ db_results = None /\ rows_shown = 0 /\ db_calls = <<>>

-----------------------------------------------------------------------------
(* question_analyzer                                                       *)

\* Both LLM calls came back: the merged intent, then a classification.
Classified(classification, reply, intent) ==
    /\ At("question_analyzer")
    /\ reply \in Classifying(classification)
    /\ intent \in ResolvedIntents(start)
    /\ accumulated_intent' = intent
    /\ UNCHANGED <<sqlVars, dbVars, rows_shown>>

(* mutant: the counter is not reset when a question resolves *)
MutQuestionResolved ==
    \E reply \in ClassifierReplies : \E intent \in Intents :
        /\ Classified("answerable", reply, intent)
        /\ last_clarification' = None
        /\ Route(AfterAnalyzer, "generating")
        /\ UNCHANGED <<ambiguity_count, answer>>

QuestionResolved ==
    \E reply \in ClassifierReplies : \E intent \in Intents :
        /\ Classified("answerable", reply, intent)
        /\ last_clarification' = None /\ ambiguity_count' = 0
        /\ Route(AfterAnalyzer, "generating")
        /\ UNCHANGED answer

(* mutant: one round too many *)
MutRoundsLeft == ambiguity_count <= MaxClarificationRounds

RoundsLeft == ambiguity_count < MaxClarificationRounds

AskClarification ==
    \E reply \in ClassifierReplies : \E intent \in Intents :
        /\ Classified("ambiguous", reply, intent)
        /\ RoundsLeft
        /\ last_clarification' = Get(reply.clarification_question)
        /\ ambiguity_count' = ambiguity_count + 1
        /\ answer' = last_clarification'
        /\ Route(AfterAnalyzer, "asking_clarification")

TooManyRounds ==
    \E reply \in ClassifierReplies : \E intent \in Intents :
        /\ Classified("ambiguous", reply, intent)
        /\ ~RoundsLeft
        /\ answer' = "too_ambiguous"
        /\ Route(AfterAnalyzer, "error")
        /\ UNCHANGED <<last_clarification, ambiguity_count>>

OutOfScope ==
    \E reply \in ClassifierReplies : \E intent \in Intents :
        /\ Classified("out_of_scope", reply, intent)
        /\ answer' = Get(reply.reason)
        /\ Route(AfterAnalyzer, "error")
        /\ UNCHANGED <<last_clarification, ambiguity_count>>

NotJson ==
    \E reply \in ClassifierReplies : \E intent \in Intents :
        /\ At("question_analyzer")
        /\ reply.shape = "not_json"
        /\ intent \in ResolvedIntents(start)
        /\ accumulated_intent' = intent
        /\ answer' = "classify_failed"
        /\ Route(AfterAnalyzer, "error")
        /\ UNCHANGED <<last_clarification, ambiguity_count, sqlVars, dbVars, rows_shown>>

-----------------------------------------------------------------------------
(* sql_generator                                                           *)

(* mutant: sql_error is cleared before the prompt is built from it *)
MutPromptNow ==
    [intent      |-> OrQuestion(accumulated_intent, start.question),
     retry_sql   |-> IF retry_count > 0 THEN sql ELSE None,
     retry_error |-> None]

\* What build_sql_prompt is given; its retry block needs both retry fields.
PromptNow ==
    [intent      |-> OrQuestion(accumulated_intent, start.question),
     retry_sql   |-> IF retry_count > 0 THEN sql ELSE None,
     retry_error |-> IF retry_count > 0 THEN sql_error ELSE None]

SqlGenerator ==
    /\ At("sql_generator")
    /\ prompt' = PromptNow
    /\ sql' \in Sql
    /\ sql_error' = None
    /\ Route(AfterGenerator, "validating")
    /\ UNCHANGED <<dialogueVars, answer, retry_count, dbVars, rows_shown>>

-----------------------------------------------------------------------------
(* sql_validator                                                           *)

AcceptSql ==
    /\ At("sql_validator")
    /\ sql \in SafeSql
    /\ Route(AfterValidator, "executing")
    /\ UNCHANGED <<dialogueVars, answer, sqlVars, dbVars, rows_shown>>

RejectSql ==
    /\ At("sql_validator")
    /\ sql \notin SafeSql
    /\ answer' = "unsafe_sql"
    /\ Route(AfterValidator, "error")
    /\ UNCHANGED <<dialogueVars, sqlVars, dbVars, rows_shown>>

-----------------------------------------------------------------------------
(* sql_executor                                                            *)

\* connector.execute_query(state["sql"]) answered or raised.
CallDatabase ==
    /\ At("sql_executor")
    /\ db_calls' = Append(db_calls, sql)
    /\ UNCHANGED <<dialogueVars, rows_shown, prompt, sql>>

QuerySucceeds ==
    /\ CallDatabase
    /\ db_results' \in RowCounts
    /\ sql_error' = None
    /\ Route(AfterExecutor, "formatting")
    /\ UNCHANGED <<answer, retry_count>>

(* mutant: the count is compared before it is incremented *)
MutRetriesLeft == retry_count <= MaxSqlRetries

RetriesLeft == retry_count + 1 <= MaxSqlRetries

(* mutant: the retry count is not written back *)
MutQueryFailsRetry ==
    /\ CallDatabase
    /\ RetriesLeft
    /\ sql_error' = sql
    /\ Route(AfterExecutor, "generating")
    /\ UNCHANGED <<answer, retry_count, db_results>>

QueryFailsRetry ==
    /\ CallDatabase
    /\ RetriesLeft
    /\ sql_error' = sql
    /\ retry_count' = retry_count + 1
    /\ Route(AfterExecutor, "generating")
    /\ UNCHANGED <<answer, db_results>>

QueryFailsForGood ==
    /\ CallDatabase
    /\ ~RetriesLeft
    /\ sql_error' = sql
    /\ answer' = "query_failed"
    /\ Route(AfterExecutor, "error")
    /\ UNCHANGED <<retry_count, db_results>>

-----------------------------------------------------------------------------
(* answer_formatter                                                        *)

(* mutant: the limit is one row short *)
MutTruncated(rows) ==
    LET bound == IF row_limit < 0 THEN rows + row_limit ELSE row_limit
    IN  IF bound < 0 THEN 0 ELSE IF rows < bound THEN rows ELSE bound - 1

\* db_results[:row_limit], as a number of rows: a negative limit counts from the
\* end of the list.
Truncated(rows) ==
    LET bound == IF row_limit < 0 THEN rows + row_limit ELSE row_limit
    IN  IF bound < 0 THEN 0 ELSE IF rows < bound THEN rows ELSE bound

AnswerFormatter ==
    /\ At("answer_formatter")
    /\ rows_shown' = Truncated(IF db_results = None THEN 0 ELSE db_results)
    /\ answer' = "formatted"
    /\ Route(AfterFormatter, "done")
    /\ UNCHANGED <<dialogueVars, sqlVars, dbVars>>

-----------------------------------------------------------------------------
(* What makes graph.ainvoke raise: nothing of the run is saved then.       *)

Raise(reason) ==
    /\ pc' = "RAISED"
    /\ fault' = reason
    /\ UNCHANGED <<runVars, steps, status, dialogueVars, answer, sqlVars, dbVars, rows_shown>>

\* The model provider's call raises, or its reply has content that is not a
\* string (content.strip): no node catches either.
LlmCallRaises == \E node \in LlmNodes : At(node) /\ Raise("llm_call")

\* parsed.get on a reply that is JSON but not an object (line 89).
ReplyNotAnObject ==
    \E reply \in ClassifierReplies :
        At("question_analyzer") /\ reply.shape = "not_object" /\ Raise("reply_shape")

RecursionLimitHit ==
    pc \in Nodes /\ steps >= recursion_limit /\ Raise("recursion_limit")

-----------------------------------------------------------------------------
QuestionAnalyzer ==
    QuestionResolved \/ AskClarification \/ TooManyRounds \/ OutOfScope \/ NotJson

SqlValidator == AcceptSql \/ RejectSql

SqlExecutor == QuerySucceeds \/ QueryFailsRetry \/ QueryFailsForGood

Raises == LlmCallRaises \/ ReplyNotAnObject \/ RecursionLimitHit

Next ==
    \/ QuestionAnalyzer
    \/ SqlGenerator
    \/ SqlValidator
    \/ SqlExecutor
    \/ AnswerFormatter
    \/ Raises

\* LangGraph keeps stepping, and a model call ends: the client times out.  No
\* fairness for the executor, whose database call has no timeout.
Fairness ==
    /\ WF_vars(QuestionAnalyzer \/ ReplyNotAnObject \/ LlmCallRaises)
    /\ WF_vars(SqlGenerator \/ AnswerFormatter)
    /\ WF_vars(SqlValidator)
    /\ WF_vars(RecursionLimitHit)

Spec == Init /\ [][Next]_vars

FairSpec == Spec /\ Fairness

-----------------------------------------------------------------------------
(* Properties                                                              *)

Statuses == {"analyzing", "generating", "validating", "executing", "formatting",
             "asking_clarification", "error", "done"}

\* What each variable ranges over.
FieldTypes ==
    /\ start \in StartStates
    /\ recursion_limit \in RecursionLimits
    /\ row_limit \in RowLimits
    /\ pc \in Nodes \cup {"END", "RAISED"}
    /\ fault \in LlmFaults \cup {"none", "recursion_limit"}
    /\ steps \in Nat
    /\ status \in Statuses
    /\ accumulated_intent \in Intents \cup {None}
    /\ last_clarification \in Values
    /\ ambiguity_count \in 0 .. MaxClarificationRounds
    /\ answer \in OwnTexts \cup Values
    /\ sql \in Sql \cup {None}
    /\ sql_error \in Sql \cup {None}
    /\ retry_count \in Nat
    /\ db_results \in RowCounts \cup {None}
    /\ prompt \in [intent : Intents, retry_sql : Sql \cup {None}, retry_error : Sql \cup {None}]
    /\ rows_shown \in Nat
    /\ db_calls \in Seq(Sql \cup {None})

\* last_clarification and answer are declared `str | None` (state.py 101, 119).
\* Only a classifier that sends something else breaks that, in three ways: the
\* run asks it as its question, it starts from one that was asked before and ends
\* without resolving it, or it gives it as the reason of a refusal.
TextTypes ==
    /\ last_clarification = "other" =>
        /\ "other" \in Clarifications
        /\ \/ status = "asking_clarification"
           \/ status \in {"analyzing", "error"} /\ start.last_clarification = "other"
    /\ answer = "other" =>
        \/ status = "asking_clarification" /\ last_clarification = "other"
        \/ status = "error" /\ "other" \in Reasons /\ db_calls = <<>>

\* Every field holds a value of the type agent/state.py declares for it, but for
\* the two texts that TextTypes says the classifier can spoil, and when.
TypeOK == FieldTypes /\ TextTypes

\* No statement reaches the database that validate_sql did not accept, on no
\* path through the retry loop.
OnlyValidatedSqlRuns == \A i \in DOMAIN db_calls : db_calls[i] \in SafeSql

\* A run sends at most 1 + MAX_SQL_RETRIES statements, and tells the user that
\* the query failed only once it has used all of them.
AttemptBudget ==
    /\ Len(db_calls) <= MaxSqlRetries + 1
    /\ answer = "query_failed" => Len(db_calls) = MaxSqlRetries + 1

\* A first prompt has no retry block.  Every later one shows the statement the
\* database refused last, together with the error of that very statement.
RetryContext ==
    pc = "sql_validator" =>
        LET attempts == Len(db_calls)
            refused  == IF attempts = 0 THEN None ELSE db_calls[attempts]
        IN  prompt.retry_sql = refused /\ prompt.retry_error = refused

\* The loop needs at most three nodes per attempt and two around it: LangGraph's
\* limit can only end a run if it is smaller than that.
LimitOnlyIfTooSmall ==
    fault = "recursion_limit" => recursion_limit < 3 * (MaxSqlRetries + 1) + 2

\* An answer is about the statement the state is left with: the last one sent, and
\* not refused.  A positive limit hides rows only where it is reached, so that an
\* empty list means an empty result; any other limit hides rows of every result
\* that has some, and the formatter cannot tell (prompts/answer_formatter.py 25).
EmptyMeansEmpty ==
    status = "done" =>
        /\ db_calls # <<>> /\ db_calls[Len(db_calls)] = sql /\ sql_error = None
        /\ row_limit > 0 =>
            /\ rows_shown = 0 <=> db_results = 0
            /\ rows_shown # db_results => rows_shown = row_limit
        /\ row_limit <= 0 /\ db_results # 0 => rows_shown < db_results

\* Unless a model call raised or LangGraph's limit is too small, a run comes to
\* its end or stays in a database call that never answers.
AnswersUnlessFaulty ==
    <>[](\/ pc \in {"END", "sql_executor"}
         \/ fault \in LlmFaults
         \/ recursion_limit < 3 * (MaxSqlRetries + 1) + 2)

-----------------------------------------------------------------------------
(* The inductive invariant behind the properties (AgentGraphProofs).        *)

\* The analyzer has not run; the pipeline loop is running.
Fresh == pc = "question_analyzer"
Looping == pc \in {"sql_generator", "sql_validator", "sql_executor"}

\* Each attempt before the current one took three steps and one statement.
Progress ==
    /\ retry_count <= MaxSqlRetries
    /\ Fresh => retry_count = 0 /\ steps = 0 /\ db_calls = <<>>
    /\ Looping => Len(db_calls) = retry_count
    /\ pc = "sql_generator" => steps = 3 * retry_count + 1
    /\ pc = "sql_validator" => steps = 3 * retry_count + 2
    /\ pc = "sql_executor" => steps = 3 * retry_count + 3
    /\ pc = "answer_formatter" =>
        /\ steps = 3 * retry_count + 4
        /\ Len(db_calls) = retry_count + 1
        /\ db_results # None

\* What the next prompt and the next database call will be given.
LoopData ==
    /\ pc = "sql_executor" => sql \in SafeSql
    /\ pc = "sql_generator" /\ retry_count > 0 =>
        sql = db_calls[retry_count] /\ sql_error = db_calls[retry_count]
    /\ pc = "answer_formatter" => sql = db_calls[Len(db_calls)] /\ sql_error = None

\* What is known of the dialogue fields, so that each end is an outcome.
DialogueData ==
    /\ Fresh =>
        /\ ambiguity_count = start.ambiguity_count
        /\ last_clarification = start.last_clarification
    /\ Looping \/ pc = "answer_formatter" =>
        /\ accumulated_intent \in ResolvedIntents(start)
        /\ last_clarification = None /\ ambiguity_count = 0
    /\ pc \in Nodes => answer = None /\ status # "done" /\ fault = "none"
    /\ status = "done" => answer = "formatted"

GraphInv ==
    /\ TypeOK
    /\ Progress /\ LoopData /\ DialogueData
    /\ OnlyValidatedSqlRuns /\ AttemptBudget /\ RetryContext
    /\ LimitOnlyIfTooSmall /\ EmptyMeansEmpty

-----------------------------------------------------------------------------
(* What the repository says of the program and the code does not do.         *)

\* routes.py 173-176: a malformed LLM reply is one of the error cases a run
\* ends in, not something it raises.
FormatErrorsEndTheRun == fault # "reply_shape"

-----------------------------------------------------------------------------
(* The run, seen from api/routes.py                                        *)

Phase == IF pc = "END" THEN "returned" ELSE IF pc = "RAISED" THEN "raised" ELSE "running"

Result ==
    IF pc = "END"
    THEN [status |-> status, accumulated_intent |-> accumulated_intent,
          last_clarification |-> last_clarification, ambiguity_count |-> ambiguity_count,
          answer |-> IF answer \in {None, "other"} THEN answer ELSE "string"]
    ELSE None

Contract == INSTANCE TurnContract WITH phase <- Phase, result <- Result

\* A run returns exactly one outcome of its start state, or raises: in
\* particular a resolved question leaves no clarification behind, however the
\* SQL pipeline ends.
ImplementsContract == Contract!Spec

=============================================================================
