# Verification of the university QA agent

TLA+ models of the natural-language question answering service in this
repository, TLC runs that check them on small instances, and TLAPS proofs of
their main properties for every value of the constants.

Contents: 1 the system, 2 the modules, 3 the models and the code, 4 the runs,
5 what the violated runs show, 6 the proofs, 7 abstractions and limits, 8 plan.

## 1. The system

A FastAPI process takes a question (`POST /chat`), runs a LangGraph workflow of
five nodes over it (classify, generate SQL, validate it, execute it, phrase the
answer), and keeps each session's conversation in memory. One asyncio event
loop runs everything: code between two awaits is atomic, everything else
interleaves.

| component | state | operations | talks to |
|---|---|---|---|
| Agent graph (`agent/graph.py`, `state.py`, `nodes/`) | the `AgentState` of one run, private to it | five nodes, a routing step after each; retry loop executor -> generator | the language model (three prompts and a merger), the database connector |
| SQL validation rules (`nodes/sql_validator.py`) | none | `validate_sql`, four textual guards | called by the validator node |
| Prompt builders (`agent/prompts/`) | none | build prompts, truncate rows | called by the nodes |
| Chat endpoint (`api/routes.py`) | the locals of each handler | read history, await the graph, save, respond | session store, graph |
| Session store (`api/session_store.py`) | `_store`: session id -> history | `get`, `save` | the endpoint; never persisted |
| Application lifespan (`api/main.py`, `dependencies.py`) | `app.state`, the refresh task | start-up, refresh every five minutes, shutdown | connector; requests read `app.state` on arrival |
| Database connectors (`db/`) | a lazily created pool (PostgreSQL) or one lazily opened connection (SQLite, for tests) | `execute_query`, `fetch_schema`, `healthcheck`, `close` | the database |
| Schema loader (`db/schema_loader.py`) | none | groups the schema rows into one line per table | connector |
| Tracing (`agent/tracing.py`) | the log | `Tracer.log`, called by every node | read by people only |
| Settings (`config/settings.py`) | none that changes | read environment | everybody |

What is hard here, and what would make each component correct:

* **Agent graph.** The retry loop re-enters before validation, carries three
  fields written by one node and read by another, and sits inside LangGraph's
  own step limit. Correct: nothing unvalidated runs, the budget is exact, the
  retry prompt pairs a statement with its own error, every end leaves the
  dialogue fields as the next request needs them, and a run ends.
* **Chat endpoint and store.** The history is read before an await that lasts
  seconds and overwritten after it. Correct: no turn of a client that awaits its
  responses is lost, a dialogue is bounded, its intent accounts for exactly its
  messages, and overlapping requests leave at least a well-formed history.
* **Validation rules.** Text guards stand in for a parser. Correct: what they
  accept is one query without a blocked word (which is less than one read, see
  section 5); what they refuse of the reads is a known list.
* **Lifespan and connector.** Pool creation, refresh, cancellation, and close
  overlap at every await. Correct: one pool, a clean stop, a schema that is
  never lost and never older, and that follows the database's.
* **SQLite connector and schema loader.** The schema is read in many statements
  over a connection other calls use, open and close. Correct: enforcement before
  any statement, one connection, a context that is the database's if nothing
  changed and made of whole tables if something did.
* **Tracing.** A run interleaves with others, retries and may raise anywhere; its
  lines are what is left of it. Correct: they tell where it raised, what it sent
  to the database and how it ended.

`PROJECT.json` lists the hazards at their lines, with the properties on them.

## 2. The modules

```
AgentState --- AgentStateProofs
   |  \
   |   TurnOutcomes --- TurnContract      abstract: what a run promises
   |      |   |             ^ refines
   |      |   |             |
   |      |   |        AgentGraph --- AgentGraphProofs,  AgentGraphMC
   |      |   |             +--- RunTrace --- RunTraceProofs,  RunTraceMC     with its log
   |      |   +--- Conversation           abstract: what a session promises
   |      |               ^ refines
   |      +---------- ChatApi --- ChatApiProofs,  ChatApiMC
SqlValidator --- SqlValidatorProofs       the SafeSql of AgentGraph
DbConnector --- AppLifespan --- AppLifespanProofs,  AppLifespanMC
SchemaContext --- SchemaContextProofs
        |               |
        SqliteConnector --- SqliteConnectorProofs,  SqliteConnectorMC
```

`AgentGraph` is one run in detail. `TurnContract` is the same run seen from
`graph.ainvoke`'s caller: one outcome of `TurnOutcomes!Outcomes(start)` or one
exception. The refinement is both model-checked and proved, so `ChatApi` can
use `Outcomes` for a run and spend its states on concurrent requests.
`ChatApi!TypeOK` closes the circle: every state it starts a run from is one of
the `StartStates` that `AgentGraph` begins in. `Conversation` is the endpoint as its
clients see it: a session is a sequence of atomic turns, with no store and
nothing in flight. `ChatApi` implements it for sessions whose client awaits each
response, across failures and restarts.

## 3. The models and the code

`PROJECT.json` maps each definition to its lines. The correspondence in short:

**AgentState** - replies, intents and start states. A text is abstracted to what
is read off it: an intent is the *set of user messages* its wording accounts
for ({} is the empty string), a field of the classifier's JSON is missing,
null, a string, or another type, and `Get` is `dict.get` with its default,
which an explicit null does not trigger. `ResolvedIntents` is step 1 of the
analyzer (merge, carry, or take the question). The language model is free to
say anything within these types; `MergerFaithful` says whether the merger keeps
everything (needed only by IntentIsDialogue) or may drop any of it.

**AgentGraph** - variables are the fields of `AgentState` plus the scheduled node
(`pc`), the node count (`steps`), and histories (`db_calls`, `prompt`,
`rows_shown`). A node's update and the edge `_route` takes are one action,
since LangGraph applies them in one superstep; one action per way a node can
return: `QuestionResolved`, `AskClarification`, `TooManyRounds`, `OutOfScope`,
`NotJson` (question_analyzer); `SqlGenerator`; `AcceptSql`, `RejectSql`;
`QuerySucceeds`, `QueryFailsRetry`, `QueryFailsForGood`; `AnswerFormatter`.
`Raises` are the three ways `ainvoke` raises: a model call, a reply that is
JSON but no object, LangGraph's limit. The edge tables are functions from the
statuses a node may return. An answer is one of the code's own texts
(`OwnTexts`) or a value of the classifier's reply as `dict.get` returns it.
`row_limit` is the DB_RESULTS_ROW_LIMIT of the process, any integer, and
`Truncated` is the slice `db_results[:row_limit]`, with Python's meaning of a
limit that is zero or negative.

**ChatApi** - `store` is `SessionStore._store` with its default for absent keys.
`StartTurn` is `chat()` up to `await graph.ainvoke`, `FinishTurn` all of it after
the await (save, then response validation, no await between), `FailTurn` the
`except` branch. `history` and `input` are the handler's locals, which is what
makes overlapping requests interesting. `responses` and `overlapped` are
history variables. A request is identified with its question, so a double
submit is two requests. `Restart` is a new process: an empty store, nothing in
flight, and sessions that start over. `Conversations` gives `said` its value: the
responses of each session since the last restart, for the sessions that never
overlapped; the first overlap is its `Desert`.

**SqlValidator** - a statement is any sequence of *pieces of text* (a word, a
blocked keyword, a blank, a parenthesis, a semicolon, a quoted piece hiding
one of these...). `Verdict` is the guard chain with Python's `strip`, `lstrip`,
`rstrip`, prefix test and `\b`. `IsOneQuery` says without the guards' forms of the
text that a statement is one, opens as a query does, and has no blocked word;
`IsOneRead` adds that it does not create a table with INTO.

**DbConnector**, **AppLifespan** - the awaits are `create_pool`, the query (acquire,
fetch, and the release on leaving `async with pool.acquire()`), and `Pool.close`.
`Call` runs up to the first of them; `PoolCreated`, `Answers`, `Fails` are their
ends; `Returns` resumes the caller. A cancelled caller (`Interrupted`) that holds a
connection waits for asyncpg to give it back, which waits for the database
without a timeout (`Released`), or leaves the release to asyncpg if that had
begun. `closing` and `on` hold
pool numbers because `close()` evaluates `self._pool` before it waits and clears
the attribute after. `AppLifespan` adds the tasks of the process: `lifespan()`
(`LoadSchema`, `Loaded`, `StartupFails`, then `CancelRefresh`, `CloseConnector`,
`Closed`), `_refresh_schema_loop()` (`Wake`, `Refreshed`, `RefreshFails`,
`RefreshCancelled`, then `RefreshReleased`, or `CancelLost` where the release raises
and `except Exception` takes that for a failed refresh), and requests that copy the schema on arrival and query as
often as they like. Migrations change the database's `version` at any time.

**SchemaContext** - pure: what each adapter's `fetch_schema` returns for a database
(`SqliteRows` with its `KeyMap`, `PostgresRows` with the join of the
information_schema views as it is written) and the lines `load_schema_context`
makes of the rows (`Context`). `Describes` says independently what the lines should be.

**SqliteConnector** - a connection is a queue of statements that a thread executes
in order, as aiosqlite does; `queue` holds the tasks whose statement waits.
`Call` runs up to the first await of `_get_conn` or of the statement, `Opened` and
`Enforces` are the ends of its two awaits (the second reads `self._conn` again),
`Queries`, `Defines`, `ReadsNames`, `ReadsKeys` and `ReadsColumns` the execution of a
statement and what the caller posts next. `Close` posts the close, `Closes`
executes it and clears `self._conn`, whatever it is by then. `database` is one per
connection for ":memory:" and shared for a file. `during` and `raced` are history.

**RunTrace** - AgentGraph with `log`, the lines of the run's trace_id. Each `Logs...`
action is the node's action with the lines it logs; a node that raises has
logged only its start.

## 4. The runs

`tlc -config <cfg> <module>`; each takes two minutes at most.

| run | states | what it checks |
|---|---|---|
| agent_graph (`AgentGraph.cfg`, AgentGraphMC) | 153 216 | every path of one graph run |
| chat_api (`ChatApi.cfg`, ChatApiMC) | 253 665 | concurrent requests over the store, restarts |
| sql_validator (`SqlValidator.cfg`, SqlValidator) | 402 234 | the guard chain on every statement of five pieces |
| app_lifespan (`AppLifespan.cfg`, AppLifespanMC) | 103 500 | start-up, refresh, requests, shutdown |
| sqlite_connector (`SqliteConnector.cfg`, SqliteConnectorMC) | 1 107 219 | the tests' connector and the schema context it gives |
| run_trace (`RunTrace.cfg`, RunTraceMC) | 5 166 | what the log of a run tells |
| six runs named in section 5 | - | each refutes one documented statement |

**agent_graph.** *TypeOK* (each field has the type `state.py` declares, but for
`last_clarification` and `answer`: they are not text exactly where the classifier's
JSON was not, see section 5), *OnlyValidatedSqlRuns* (on no path does the database see a
statement `validate_sql` did not accept), *AttemptBudget* (exactly
1 + MAX_SQL_RETRIES statements before giving up), *RetryContext* (a retry prompt
shows the statement refused last with its own error), *LimitOnlyIfTooSmall*
(LangGraph's limit ends a run only below 3 * MAX_SQL_RETRIES + 5 node
executions; with the usual limit of 25, MAX_SQL_RETRIES = 7 is the first setting
that meets it), *EmptyMeansEmpty* (an answer is about the statement sent last; with a positive row
limit the formatter hears of an empty result only if that query had one, and
with any other it is shown too little of every result that has rows),
*ImplementsContract* (the refinement), and the liveness
property *AnswersUnlessFaulty*.
Bounds: two retries, the default, so there is a first, a middle and a last
attempt; two clarification rounds, so the counter is below, next to and at its
bound; LangGraph limits 6, 11 and 14, below, at and above what two retries need
(11); two safe statements and an unsafe one, so that a retry may repeat or
change its statement; result sets of 0, 1 and 3 rows around a row limit of 2, and
the limits 0 and -2; a reply of every shape, status and field type the node reads.

**chat_api.** For sessions whose requests never overlapped: *NoLostTurn* (the
store is the transcript of the responses, failed runs leaving no trace),
*RoundsBounded*, *IntentIsDialogue* (an intent accounts for exactly the messages
of its dialogue), *RecentContext* (a run sees the last exchanges, whole). For all
sessions: *SurvivingTurns* (a store damaged by overlap still holds whole
exchanges, in order, the last response among them) and *ContinuesOneResponse*
(the dialogue fields of a run are those of one response, never a mixture).
*ImplementsConversation* is the refinement: no answer of an awaited session
depends on anything but the turn before it, each request has its effect once
and at one moment, and a restart leaves nothing behind.
Bounds: four requests of one session cover two rounds, the refusal of a third
and a fresh question after it, with failures in between, and every overlap of
up to four; the one request of another session shows that sessions do not
disturb each other; Window 1 is exceeded by the second exchange. Requests a1-a4
are symmetric: no definition tells them apart, and no liveness is checked here.

**sql_validator.** *AcceptedIsOneQuery*: what passes the four guards is one
statement that opens as a query does and has no blocked word. *RefusedForACause*: a
read is refused only if a quoted piece hides a blocked word or a semicolon, if
a blank follows an opening parenthesis before the first word, or if its
trailing semicolons are apart (`; ;`). Bound: every guard looks at one piece and
its neighbours, at the first word, or at two semicolons; five pieces hold any
two of these at once. All kinds of piece occur.

**app_lifespan.** *NeverTwoPools*, *CleanStop* (when the application has stopped, no
connection, task or call is left), *RequestsHaveASchema*, *NeverOlder* (the schema
context never goes back), and the liveness properties *PicksUpMigrations* (if
refreshes go on succeeding the context becomes the database's) and
*ShutdownEnds*: a shutdown that has begun ends, unless the database never answers
what it awaits (the refresh task's release, or the pool's close), or the
cancellation was lost in a release that raised, after which `main.py:112` awaits a
loop that goes on. Bounds: two requests, enough for two callers beside the refresh;
three schema versions, so that one can be skipped.

**sqlite_connector.** *KeysEnforced* (no statement runs before PRAGMA foreign_keys = ON),
*OneConnection* (one connection, unless two first calls overlap, see section 5),
*QuietFetchDescribes* (if no table changed while the schema was read, the context is
the database's), *EachTableWhole* (if tables did change, each line still is a
definition the table had, and each table has one line), *AdaptersAgree* (both
adapters return the same rows for plain schemas: single-column keys with names
of their own). Bounds: two tasks, so that first calls, a fetch and a change, or a
call and a close can overlap; two connections, so that the connector is reopened
once or races with itself; three changes of tables, so that a table can be made,
changed and dropped, or two made and one changed, during one fetch; a table has
no key, a single key, or a composite key, and both tables may have the same, so
constraint names may collide. The tasks are symmetric and no liveness is checked.

**run_trace.** *RaiseLocated* (every start is closed by a line of its node, but the
last one of a run that raised in a node), *StatementsLogged* (the generator's lines
give what the executor sent, which its own lines do not say), *StatusLogged* (the
last line tells how the run ended) and *RetriesNumbered*. Bounds: three retries; one
reply per branch of the analyzer; LangGraph limits that end the run early, at the
last attempt, or never.

**Deadlock** is not checked (`CHECK_DEADLOCK FALSE`): a run, a request, a bounded
statement and a process really come to their ends.

**Fairness.** AgentGraph: LangGraph schedules the next node while there is one,
and the model client ends a call with an answer or a timeout, so weak fairness
of the nodes that call the model, of the validator and of the limit. *None* for
the executor: `execute_query` is given no timeout, and a run may stay there for
ever; `AnswersUnlessFaulty` says so. AppLifespan: weak fairness only of what
the event loop does by itself, raising a pending cancellation in the refresh task
(`RefreshCancelled`) and resuming `lifespan()` when the task has ended
(`CloseConnector`). None of `RefreshReleased` and `Closed`: a release and
`Pool.close()` wait for the database, which may never answer, and the code sets no
timeout. Nothing is assumed of the clients or the server's decision to stop
either; PicksUpMigrations assumes in its own statement that refreshes succeed. The other modules
have safety properties only.

Each property of the passing runs is paired in `PROJECT.json` with a mutant: a
plausible bug in a mapped definition (operators named `Mut...`) under which the
same run refutes the property.

## 5. What the violated runs show

| run | statement | behaviour of the code |
|---|---|---|
| lost_turn | `session_store.py:49`: `turns` holds all conversation turns | Two requests of a session start before either ends; both read the same history, and the second save (`routes.py:157`) has only its own exchange added. In the same way the counter restarts, so overlapping requests can also exceed MAX_CLARIFICATION_ROUNDS. |
| undelivered_turn | `routes.py:173-176`: an LLM format error is a 422 | The classifier's `reason` is, say, a list: it becomes the answer, the turn is saved, then `ChatResponse` rejects it: HTTP 500 for a turn the session remembers. |
| null_clarification | `README.md:68`: continuation turns merge the new input | The classifier sends `"clarification_question": null`; the status asks, `last_clarification` is None, and the next run takes the old intent without the user's answer. |
| window_zero | `state.py:113`: history capped to the window | With CONVERSATION_HISTORY_WINDOW=0, `turns[-0:]` is everything. |
| reply_shape | `routes.py:173-176`, as above | The classifier replies `[]`: `parsed.get` raises outside the `try`, the run raises, HTTP 500. |
| table_created | `sql_validator.py:13`: guard 3 prevents data modification or schema changes | `SELECT * INTO copy FROM students` has no blocked word and passes all four guards; PostgreSQL creates the table. |

Divergences that no run is about, since the models are built around them or a
module has a weaker property instead:

* `state.py:101` and `119` declare `answer` and `last_clarification` as `str | None`.
  They take what the classifier sent, of any JSON type; `TypeOK` says when
  (`TextTypes`), and the theorem DeclaredTexts that a classifier of strings is enough.
* `prompts/answer_formatter.py:25` takes an empty list for an empty result, and
  `helpers.py:71` promises the first `row_limit` rows. With DB_RESULTS_ROW_LIMIT=0,
  which `settings.py:61` allows, the list is empty whatever the result; with a negative
  limit rows are dropped from the end. `EmptyMeansEmpty` says what each limit does.
* `PLANNING.md:314` says the classifier's `reason` is never shown to the user;
  `OutOfScope` returns it as the answer, as `question_analyzer.py:126` does.
* `main.py:43` says the refresh loop runs until cancelled at shutdown. A cancellation
  whose release raises is taken for a failed refresh (`CancelLost`), and the
  shutdown then never ends.
* `sql_validator.py:46` says only SELECT and WITH open a statement; `startswith`
  also accepts SELECTED or WITHOUT, which the database then refuses at the cost
  of a retry.
* `postgres.py:58-59` says one pool is shared by all calls. Two first calls at once
  both find None and create a pool each. The application's callers never do this
  (`NeverTwoPools`): its start-up query is over before anybody else calls.
* `sqlite.py:5-7` says a single connection is kept for the connector's lifetime.
  Two first calls at once open one each; a ":memory:" database made through the
  first is not seen through the second, and the first is never closed.
  `OneConnection` is about callers that let the first call end.
* `sqlite.py:33-35` says both adapters produce the same rows. They differ on keys of
  several columns (`postgres.py:42-44` pairs each column with each column referred
  to), on equal constraint names in two tables (the join is by name alone), and on
  references that leave out the column (`REFERENCES t` gives "t.None" in SQLite).
  `AdaptersAgree` is about the remaining schemas.
* `tracing.py:10-12` says a line is emitted for every error. A node that raises logs its
  start only; `RaiseLocated` says what can be told from that.
* `README.md:71` says the executor caps the rows at DB_RESULTS_ROW_LIMIT, while the
  code caps them in the formatter's prompt; `README.md:130` and `tracing.py:7-8` say
  model calls are tagged with `config={"metadata": ...}`, and no code does this.

## 6. The proofs

`tlapm` on `AgentStateProofs.tla`, `AgentGraphProofs.tla`, `RunTraceProofs.tla`,
`ChatApiProofs.tla`, `SqlValidatorProofs.tla`, `AppLifespanProofs.tla`,
`SchemaContextProofs.tla` and `SqliteConnectorProofs.tla`. Every theorem holds for all
values of the constants under the named ASSUMEs of the modules: finitely many
questions, natural numbers for MAX_SQL_RETRIES and MAX_CLARIFICATION_ROUNDS (the code
treats a negative one as zero), any integers as row limits, `None` distinct
from other values, the task that closes the connector distinct from those that
call it, tables with at least one column and keys that pair their columns.

**AgentGraphProofs**: TypeCorrect, DeclaredTexts, ValidatedSql, Budget, RetryPrompt,
LimitSuffices, EmptyResult and Refinement. None of the invariants is inductive
alone; `AgentGraph!GraphInv` adds
* `Progress`: at each node of the loop `steps` and `Len(db_calls)` are functions of
  `retry_count` (this is what makes the budget and the limit exact);
* `LoopData`: the executor holds a safe statement, and on a retry `sql` and
  `sql_error` are both the last statement sent;
* `DialogueData`: before the analyzer the fields are those of the start state,
  after it the intent is a resolved one and the clarification fields are reset.

There is one lemma per node for its step. *Refinement* (`Spec => ImplementsContract`)
shows that a step into END is TurnContract's `Return` (`EndIsOutcome`: the final
fields are an outcome of the start state), a step into RAISED is `Raise`, and
every other step leaves `Phase` and `Result` alone. GraphInv supplies the
facts about the state before the step.

**RunTraceProofs**: RaisesLocated, StatementsInLog, StatusInLog, RetriesInLog, for any
retry budget. The run of RunTrace is one of AgentGraph (`TraceIsRun`), so GraphInv
holds of it; `RunTrace!TraceInv` adds what ties the log to the state: one draft and
one retry line per retry so far (`LinesCounted`), and a statement accepted for the
executor that the generator wrote last (`SqlLogged`). What a line means depends on
the lines above it only, so appending lines keeps it (`NumbersKept`, `StatementsKept`,
`LocatedKept`); `NextNumber` is about the numbering itself. One lemma per node says
what its lines add.

**ChatApiProofs**: ChatTypeCorrect, TurnsKept, RoundsCorrect, ContextCorrect,
OneResponse, TurnsSurvive, in three layers over the type invariant.
* Overlapping requests lose turns and counts (section 5), so the session layer is
  about `Disciplined` sessions, those whose requests never overlapped: `Undisturbed` (a run in flight is alone and its
  local history is still the stored one) makes the save an append, and the
  sequence lemmas `ExchangeAppended`, `TranscriptGrows` and `TranscriptCut` say what
  an append and a window do to a transcript. `CountsTrailing` (the stored count
  is the length of the trailing run of clarification questions) is what makes
  RoundsBounded inductive.
* The source layer holds however requests overlap: `OneSource` (every history,
  stored or local, is that of one response), `RespondedOnce`, `LocalsAgree`.
* The extract layer too: every history, stored or local, holds whole exchanges of
  responses of its session in their order (`Extracts`), and a stored one ends in the
  last (`EndsWithLast`). `ExtractStays` and `ExtractGrows` say what another response
  and a save do to such a history; TurnsSurvive follows.

`AllResumable` links the two modules: a history that asks for a clarification
has all a start state of AgentGraph needs.

A restart empties everything at once; `RestartTypes`, `RestartSession` and
`RestartSource` show that the empty state has each layer.

At its end the refinement, ChatRefines (`Spec => ImplementsConversation`). `FinishIsTurn`:
the save of an undisturbed request is Conversation's Turn, because the history it
began with is still the session's (`StartsAgree`, from the session layer) and
because a run's outcomes depend only on the four fields Conversation!Start has
(`SameOutcomes`). `StartIsDesertion`: a request that overlaps takes its session out of
the promise. Every other step stutters. IntentsCorrect is proved here, since it needs
the same link between a run and the responses before it: `IntentIsDialogue` is
inductive over those layers, a response extends the dialogue that is open or begins
one (`DialogueGrows`), and the run it comes from resolved its intent from that
of the response before (`IntentsGrow`).

**AppLifespanProofs**: LifeTypeCorrect, OnePoolEver, StopsClean, SchemaForAll,
SchemaNeverOlder, for any number of requests and versions. The properties are
not inductive: `LifeInv` adds which pool there is and who may be at the connector
at each point of lifespan() (`AloneAtStart`, `StartupPool`, `ServingPool`: the pool
is there before a second caller exists, and stays until none does), that only
tasks that wait for a call have one, but for a release left to asyncpg, which keeps
the pool from being closed (`Callers`), what each step of the shutdown
has waited for (`StoppedInOrder`), and that what the refresh task read is not older
than what it replaces (`Versions`).

**SqliteConnectorProofs**: PostedOnce, KeysAlwaysEnforced, OneConnectionOpen, TablesWhole,
QuietFetch and SameRows, for any number of tasks, connections and tables. TypeOK says more than types: a statement is
at one place of one queue exactly as long as its task waits for it. `SqliteConnector!ConnectorInv`
adds that a connection without enforcement has its PRAGMA at the head of its queue
(`PragmaFirst`), that a task keeps its first statement until it has a connection
(`FirstKept`), and, as long as first calls do not overlap, that one task opens a
connection, only when there is none, and that a close is posted to the current
one (`OneOpener`). The lemmas on queues (`TakesHead`, `Posts`, `QueueTurns`) say what
an execution and a post do to the places.

The last three theorems are about a read that takes many steps, with other calls
between any two of them. `SqliteConnector!FetchInv` says what a task in fetch_schema
holds halfway (`Reads`): the tables it has rows of, followed by those left to read,
are distinct, and they are the tables of the database as long as that did not
change; the rows of each table are together (`Grouped`) and make a whole line of the
context; the key map is that of the table it is about to read. `Current` adds that
the tables its connection will show it next are among those it has seen, for which
`Defines` extends `during` at every change. `ReadsBegin`, `ReadsItsKeys`,
`ReadsItsColumns` and `ReadsNothing` (the table was dropped meanwhile) are its four
steps, `ReadsMore` is a change by somebody else, and there is one lemma per action
for the rest (`CallFetch` to `ColumnsFetch`).

**SchemaContextProofs** has the lemmas these rest on, about the operators of
SchemaContext and sequences of every length: what `FlattenSeq` and `At` compute, that
`KeyMap` gives each column one of its targets (`KeyMapTargets`), that the rows of one
table more are one line more (`ContextGrows`), and that for plain schemas the join by
constraint name finds the column's own keys (`JoinedIsTargets`) and so returns the
same rows (`PlainRows`). Induction is on the length of a sequence, by a least
counterexample, and over sets of sequences in place of predicates (`SequencesFrom`).

**SqlValidatorProofs**: AcceptedForAll, RefusedForAll, for statements of every length
(`AcceptedRead` and `RefusedCause` are about any text, MaxPieces plays no part). There is no
induction: the first and the last piece of a kind exist because the naturals are well
founded (`Smallest`, `Largest`); from them the lemmas `LeftStripped`, `RightStripped` and
`Stripped` place what Python's strips leave, and `OpensWhere` and `StackedWhere` say in
positions of the statement what the guards say of the stripped text.

Only model-checked: the liveness properties (AnswersUnlessFaulty,
PicksUpMigrations, ShutdownEnds), which need ENABLED and are outside what the
prover does. Every invariant the passing runs check, and both refinements, are
stated by a theorem.

## 7. Abstractions and limits

* Language model, merger, database, migrations, LangGraph's scheduler, and the
  HTTP server's stop are outside this repository and modelled by what
  the code relies on ("external" in the map). `RecursionLimits` counts the node
  executions after which LangGraph lets a run complete; the code sets no
  recursion_limit and pins no exact version (`langgraph>=0.2.0`), so it is a
  constant. What LangGraph may still execute between passing the limit and
  raising is not distinguished.
* `AgentGraph!SafeSql` is a constant: the proofs hold for any predicate, and
  SqlValidator is about the one the code has.
* Requests are not aborted at shutdown: the server is started without a limit on
  how long it waits for them (`Makefile:12`, `main.py:11`), so the model waits too.
* Not among the pieces of SqlValidator: comments and non-ASCII blanks. Case is folded everywhere as in the code.
  `;;` at the end is accepted (`rstrip` takes all of them, though the docstring
  says "the trailing one").
* A start-up whose schema query fails leaves its pool to the end of the
  process, as the code does; CleanStop is about applications that served.
* SqliteConnector: a statement of `execute_query` or `fetch_schema` (execute, fetch,
  close of the cursor) is one item of the connection's queue and reads the
  database at one moment. Rows, transactions and locks are left out, so are two
  processes on one file; the PRAGMA of a fresh connection does not fail. Key
  definitions always name the columns they refer to. `close()` is called by one task.
* RunTrace: lines of other runs, timestamps and the fields nobody needs to follow a
  run (reasons, error texts) are left out. `setup_logging` is not modelled: it
  sets the handler and the level once, and with a LOG_LEVEL above INFO there are no
  lines at all.
* Left out because no state depends on them: prompt wording, the few-shot files
  (read once), reading settings from the environment and the DSN made of them,
  the factory's choice of an adapter.
* The store has no bound and no eviction, as `session_store.py` says; there is
  nothing to state about its size.

## 8. Plan

Done, in this order: AgentState, TurnOutcomes, TurnContract, AgentGraph with its
proofs; ChatApi with its proofs; SqlValidator; DbConnector and AppLifespan;
restarts and Conversation with the proof of the refinement; SchemaContext and
SqliteConnector; RunTrace; AppLifespanProofs; the proofs of SurvivingTurns and
IntentIsDialogue, RunTraceProofs, SqliteConnectorProofs, SqlValidatorProofs;
SchemaContextProofs and the proofs about fetch_schema.

Next: step lemmas for the liveness properties, those facts about single steps that
need no ENABLED (what a node, a retry or a step of the shutdown brings closer), so
that only the fairness argument itself is left to TLC.
