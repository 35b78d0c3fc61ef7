------------------------------ MODULE RunTrace ------------------------------
(***************************************************************************)
(* One graph run together with the lines its nodes log (agent/tracing.py). *)
(* A node logs that it starts and how it ends.  The lines of a run share   *)
(* its trace_id, so a reader of the log can pick them out.                 *)
(***************************************************************************)
EXTENDS AgentGraph

\* A status is a text.
ASSUME StatusAssumption == None \notin Statuses

VARIABLE log   \* the lines with this run's trace_id

traceVars == <<vars, log>>

NodeEvent == {"start", "end", "error", "retry", "clarification_requested"}

\* `value` is the context a reader needs: a status, a statement, or a count.
Entry(node, event, value) == [node |-> node, event |-> event, value |-> value]

Started(node) == Entry(node, "start", IF node = "sql_generator" THEN retry_count ELSE None)

\* The node ran to its end.
Logs(node, event, value) == log' = log \o <<Started(node), Entry(node, event, value)>>

-----------------------------------------------------------------------------
LogsQuestionAnalyzer ==
    \/ QuestionResolved /\ Logs("question_analyzer", "end", "generating")
    \/ AskClarification /\ Logs("question_analyzer", "clarification_requested", ambiguity_count')
    \/ TooManyRounds /\ Logs("question_analyzer", "error", None)
    \/ NotJson /\ Logs("question_analyzer", "error", None)
    \/ OutOfScope /\ Logs("question_analyzer", "end", "error")

(* mutant: the statement of the state before is logged *)
MutLogsSqlGenerator == SqlGenerator /\ Logs("sql_generator", "end", sql)

LogsSqlGenerator == SqlGenerator /\ Logs("sql_generator", "end", sql')

(* mutant: a statement that is rejected is logged like any other *)
MutLogsSqlValidator ==
    \/ AcceptSql /\ Logs("sql_validator", "end", None)
    \/ RejectSql /\ Logs("sql_validator", "end", None)

LogsSqlValidator ==
    \/ AcceptSql /\ Logs("sql_validator", "end", None)
    \/ RejectSql /\ Logs("sql_validator", "error", None)

(* mutant: the count is logged as it was before the retry *)
MutLogsSqlExecutor ==
    \/ QuerySucceeds /\ Logs("sql_executor", "end", db_results')
    \/ QueryFailsRetry /\ Logs("sql_executor", "retry", retry_count)
    \/ QueryFailsForGood /\ Logs("sql_executor", "error", None)

LogsSqlExecutor ==
    \/ QuerySucceeds /\ Logs("sql_executor", "end", db_results')
    \/ QueryFailsRetry /\ Logs("sql_executor", "retry", retry_count')
    \/ QueryFailsForGood /\ Logs("sql_executor", "error", None)

LogsAnswerFormatter == AnswerFormatter /\ Logs("answer_formatter", "end", None)

(* mutant: the node logs that it starts after its model call *)
MutLogsRaise == Raises /\ UNCHANGED log

\* A node that raises has logged its start and nothing else; LangGraph's limit
\* is met between two nodes.
LogsRaise ==
    \/ (LlmCallRaises \/ ReplyNotAnObject) /\ log' = Append(log, Started(pc))
    \/ RecursionLimitHit /\ UNCHANGED log

TraceInit == Init /\ log = <<>>

TraceNext ==
    \/ LogsQuestionAnalyzer \/ LogsSqlGenerator \/ LogsSqlValidator \/ LogsSqlExecutor
    \/ LogsAnswerFormatter \/ LogsRaise

TraceSpec == TraceInit /\ [][TraceNext]_traceVars

-----------------------------------------------------------------------------
(* Properties: what a reader can tell of a run from its lines alone.        *)

Starts == {i \in DOMAIN log : log[i].event = "start"}

\* The executor sends a statement, the generator drafts one, and the executor
\* leaves it to another try.
Sends == {i \in Starts : log[i].node = "sql_executor"}
Drafts == {i \in Starts : log[i].node = "sql_generator"}
Retries == {i \in DOMAIN log : log[i].event = "retry"}

\* How many of these lines are above line i.
Above(lines, i) == Cardinality({j \in lines : j < i})

\* The log names the node a model call raised in: every start is closed by one
\* line of the same node, but the last start of a run that raised in a node.
RaiseLocated ==
    \A i \in DOMAIN log :
        /\ log[i].event \in NodeEvent
        /\ i \in Starts <=> i % 2 = 1
        /\ i \in Starts /\ i < Len(log) => log[i + 1].node = log[i].node
        /\ i = Len(log) => (i \in Starts <=> fault \in LlmFaults)

\* The lines above line i that have a statement; the last of them has this one.
Written(i) == {k \in 1 .. i - 1 : log[k].node = "sql_generator" /\ log[k].event = "end"}

LastWritten(i, statement) ==
    \E k \in Written(i) : log[k].value = statement /\ \A l \in Written(i) : l <= k

\* The executor's lines do not say what it sent.  All the same the log has
\* every statement sent to the database, in order: for each start of the
\* executor the last one a generator was logged with.
StatementsLogged ==
    /\ Cardinality(Sends) = Len(db_calls)
    /\ \A i \in Sends : LastWritten(i, db_calls[Above(Sends, i) + 1])

\* How a run that returned ended, read off its last line.
StatusLogged ==
    pc = "END" =>
        LET last == log[Len(log)] IN
        status = CASE last.event = "clarification_requested" -> "asking_clarification"
                   [] last.event = "error" -> "error"
                   [] last.event = "end" -> IF last.value = "error" THEN "error" ELSE "done"
                   [] OTHER -> "unknown"

\* Retries are numbered from 1 up, and the generator starts each with its number.
RetriesNumbered ==
    /\ \A i \in Retries : log[i].value = Above(Retries, i) + 1
    /\ \A i \in Drafts : log[i].value = Above(Drafts, i)
    /\ Cardinality(Drafts) <= Cardinality(Retries) + 1

-----------------------------------------------------------------------------
(* The inductive invariant behind the properties (RunTraceProofs).          *)

LineValues == Sql \cup Nat \cup {None, "generating", "error"}

Lines == [node : Nodes, event : NodeEvent, value : LineValues]

\* The counts the lines are numbered with, wherever the run stands.
LinesCounted ==
    /\ Cardinality(Retries) = retry_count
    /\ pc \in {"question_analyzer", "sql_generator"} => Cardinality(Drafts) = retry_count
    /\ pc \in {"sql_validator", "sql_executor", "answer_formatter"} =>
        Cardinality(Drafts) = retry_count + 1

\* The statement to be sent next is the one logged last.
SqlLogged ==
    pc \in {"sql_validator", "sql_executor"} => LastWritten(Len(log) + 1, sql)

TraceInv ==
    /\ log \in Seq(Lines)
    /\ RaiseLocated /\ StatementsLogged /\ StatusLogged /\ RetriesNumbered
    /\ LinesCounted /\ SqlLogged

=============================================================================
