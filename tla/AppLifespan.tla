----------------------------- MODULE AppLifespan ----------------------------
(***************************************************************************)
(* The application's life (api/main.py): start-up loads the schema, then   *)
(* requests are served while a background task refreshes it, until the     *)
(* shutdown cancels the task and closes the connector.  All of them share  *)
(* the connector of DbConnector.                                           *)
(***************************************************************************)
EXTENDS DbConnector

CONSTANTS
    Lifespan, Refresh,   \* the two tasks of main.py
    Requests             \* the requests the server runs, /chat and /health

ASSUME TasksAssumption ==
    /\ Tasks = Requests \cup {Lifespan, Refresh}
    /\ Lifespan # Refresh /\ {Lifespan, Refresh} \cap Requests = {}

VARIABLES
    app,         \* where lifespan() stands
    schema,      \* app.state.schema_context: the version it shows, 0 before it is set
    refresh,     \* where _refresh_schema_loop() stands
    cancel,      \* of refresh_task.cancel(): "none" yet; "pending" until it raises
                 \* CancelledError in the task; "raised"; "lost" to a handler
    stop,        \* the server was told to stop: it accepts no more requests
    request,     \* of each request: "unsent", "running", "done"
    context      \* of each request: the schema_context it was given

appVars == <<app, schema, refresh, cancel, stop, request, context>>
vars == <<dbVars, appVars>>

Init ==
    /\ DbInit
    /\ app = "starting" /\ schema = 0
    /\ refresh = "none" /\ cancel = "none" /\ stop = FALSE
    /\ request = [r \in Requests |-> "unsent"]
    /\ context = [r \in Requests |-> 0]

-----------------------------------------------------------------------------
(* lifespan(), up to its yield                                              *)

LoadSchema ==
    /\ app = "starting"
    /\ Call(Lifespan)
    /\ app' = "loading"
    /\ UNCHANGED <<schema, refresh, cancel, stop, request, context>>

(* mutant: the first load is left to the refresh task *)
MutLoaded ==
    /\ app = "loading"
    /\ call' = [call EXCEPT ![Lifespan] = "idle"]
    /\ app' = "serving" /\ refresh' = "sleeping"
    /\ UNCHANGED <<pool, closing, created, live, on, read, version, schema, cancel, stop, request, context>>

\* The schema is there; the rest of the start-up has no await before the yield.
Loaded ==
    /\ app = "loading"
    /\ Returns(Lifespan, "answered")
    /\ schema' = read[Lifespan]
    /\ refresh' = "sleeping"
    /\ app' = "serving"
    /\ UNCHANGED <<cancel, stop, request, context>>

\* The server does not start, and does not call the rest of lifespan().
StartupFails ==
    /\ app = "loading"
    /\ Returns(Lifespan, "raised")
    /\ app' = "failed"
    /\ UNCHANGED <<schema, refresh, cancel, stop, request, context>>

-----------------------------------------------------------------------------
(* _refresh_schema_loop()                                                   *)

Wake ==
    /\ refresh = "sleeping" /\ cancel # "pending"
    /\ Call(Refresh)
    /\ refresh' = "fetching"
    /\ UNCHANGED <<app, schema, cancel, stop, request, context>>

(* mutant: the loop loads the new context and does not store it *)
MutRefreshed ==
    /\ refresh = "fetching" /\ cancel # "pending"
    /\ Returns(Refresh, "answered")
    /\ refresh' = "sleeping"
    /\ UNCHANGED <<app, schema, cancel, stop, request, context>>

Refreshed ==
    /\ refresh = "fetching" /\ cancel # "pending"
    /\ Returns(Refresh, "answered")
    /\ schema' = read[Refresh]
    /\ refresh' = "sleeping"
    /\ UNCHANGED <<app, cancel, stop, request, context>>

(* mutant: the context is cleared before it is fetched again *)
MutRefreshFails ==
    /\ refresh = "fetching" /\ cancel # "pending"
    /\ Returns(Refresh, "raised")
    /\ schema' = 0
    /\ refresh' = "sleeping"
    /\ UNCHANGED <<app, cancel, stop, request, context>>

\* `except Exception`: the previous context is retained.
RefreshFails ==
    /\ refresh = "fetching" /\ cancel # "pending"
    /\ Returns(Refresh, "raised")
    /\ refresh' = "sleeping"
    /\ UNCHANGED <<app, schema, cancel, stop, request, context>>

(* mutant: the loop's handler catches the cancellation too *)
MutRefreshCancelled ==
    /\ cancel = "pending" /\ refresh \in {"sleeping", "fetching"}
    /\ cancel' = "raised"
    /\ Interrupted(Refresh)
    /\ refresh' = IF call'[Refresh] = "releasing" THEN "unwinding"
                  ELSE IF refresh = "fetching" THEN "sleeping" ELSE "ended"
    /\ UNCHANGED <<app, schema, stop, request, context>>

\* CancelledError is no Exception: it ends the loop at whichever await it is
\* raised, but a query is left only when its connection is given back.  If that
\* had begun, asyncpg goes on with it alone (asyncio.shield).
RefreshCancelled ==
    /\ cancel = "pending" /\ refresh \in {"sleeping", "fetching"}
    /\ cancel' = "raised"
    /\ Interrupted(Refresh)
    /\ \/ refresh' = "ended" /\ (call'[Refresh] = "releasing" => call[Refresh] = "answered")
       \/ refresh' = "unwinding" /\ call'[Refresh] = "releasing"
    /\ UNCHANGED <<app, schema, stop, request, context>>

\* The connection is given back, and CancelledError goes on to end the loop.
RefreshReleased ==
    /\ Released(Refresh)
    /\ refresh' = "ended"
    /\ UNCHANGED <<app, schema, cancel, stop, request, context>>

\* Giving it back raised, which replaces CancelledError by an Exception: the loop
\* takes it for one more refresh that failed, and goes on.
CancelLost ==
    /\ refresh = "unwinding"
    /\ Released(Refresh)
    /\ refresh' = "sleeping" /\ cancel' = "lost"
    /\ UNCHANGED <<app, schema, stop, request, context>>

-----------------------------------------------------------------------------
(* Requests, and the server that runs them                                  *)

\* The dependencies read app.state before the handler runs.
Arrive(r) ==
    /\ app = "serving" /\ ~stop
    /\ request[r] = "unsent"
    /\ request' = [request EXCEPT ![r] = "running"]
    /\ context' = [context EXCEPT ![r] = schema]
    /\ UNCHANGED <<dbVars, app, schema, refresh, cancel, stop>>

\* sql_executor or healthcheck: a request queries as often as its run retries.
Query(r) ==
    /\ request[r] = "running"
    /\ Call(r)
    /\ UNCHANGED appVars

\* Both callers go on whether the query answered or raised.
Continue(r) ==
    /\ request[r] = "running"
    /\ Returns(r, "answered") \/ Returns(r, "raised")
    /\ UNCHANGED appVars

Respond(r) ==
    /\ request[r] = "running" /\ call[r] = "idle"
    /\ request' = [request EXCEPT ![r] = "done"]
    /\ UNCHANGED <<dbVars, app, schema, refresh, cancel, stop, context>>

Stop ==
    /\ app = "serving" /\ ~stop
    /\ stop' = TRUE
    /\ UNCHANGED <<dbVars, app, schema, refresh, cancel, request, context>>

-----------------------------------------------------------------------------
(* lifespan(), after its yield                                              *)

\* The server resumes it once no request is left, however long that takes (uvicorn
\* is started without a limit): cancel, and await the task.
CancelRefresh ==
    /\ app = "serving" /\ stop
    /\ \A r \in Requests : request[r] # "running"
    /\ app' = "cancelling" /\ cancel' = "pending"
    /\ UNCHANGED <<dbVars, schema, refresh, stop, request, context>>

(* mutant: the connector is closed without awaiting the cancelled task *)
MutRefreshAwaited == TRUE

RefreshAwaited == refresh = "ended"

CloseConnector ==
    /\ app = "cancelling" /\ RefreshAwaited
    /\ CloseBegins
    /\ app' = "closing"
    /\ UNCHANGED <<schema, refresh, cancel, stop, request, context>>

Closed ==
    /\ app = "closing"
    /\ CloseEnds
    /\ app' = "stopped"
    /\ UNCHANGED <<schema, refresh, cancel, stop, request, context>>

-----------------------------------------------------------------------------
RefreshLoop ==
    \/ Wake \/ Refreshed \/ RefreshFails
    \/ RefreshCancelled \/ RefreshReleased \/ CancelLost

Serve == \E r \in Requests : Arrive(r) \/ Query(r) \/ Continue(r) \/ Respond(r)

Shutdown == CancelRefresh \/ CloseConnector \/ Closed

Next ==
    \/ LoadSchema \/ Loaded \/ StartupFails
    \/ RefreshLoop
    \/ Serve
    \/ Stop \/ Shutdown
    \/ DbStep /\ UNCHANGED appVars

\* The event loop raises a pending cancellation, and runs a task whose await is
\* over.  Nothing is assumed of the database, which may never answer a query, a
\* release or a close, nor of the clients and of the migrations.
Fairness == WF_vars(RefreshCancelled) /\ WF_vars(CloseConnector)

Spec == Init /\ [][Next]_vars

FairSpec == Spec /\ Fairness

-----------------------------------------------------------------------------
(* Properties                                                               *)

\* In particular app.state.schema_context is set once the application serves.
TypeOK ==
    /\ pool \in Nat /\ created \in Nat /\ live \subseteq 1 .. created
    /\ closing \in 0 .. created /\ on \in [Tasks -> 0 .. created]
    /\ cancel \in {"none", "pending", "raised", "lost"} /\ stop \in BOOLEAN
    /\ call \in [Tasks -> {"idle", "creating", "querying", "answered", "raised", "releasing"}]
    /\ read \in [Tasks -> 0 .. MaxVersion] /\ version \in 1 .. MaxVersion
    /\ app \in {"starting", "loading", "serving", "cancelling", "closing", "stopped", "failed"}
    /\ schema \in IF app \in {"starting", "loading", "failed"} THEN {0} ELSE 1 .. MaxVersion
    /\ refresh \in {"none", "sleeping", "fetching", "unwinding", "ended"}
    /\ request \in [Requests -> {"unsent", "running", "done"}]
    /\ context \in [Requests -> 0 .. MaxVersion]

\* Two tasks never create a pool each (OnePool of DbConnector): the start-up
\* query is over before any other task can call the connector.
NeverTwoPools == OnePool

\* The application has stopped only when nothing of it is left: no connection, no
\* task, no call under way that would open one again.
CleanStop ==
    app = "stopped" =>
        /\ live = {} /\ pool = 0
        /\ refresh = "ended"
        /\ \A t \in Tasks : call[t] = "idle"

\* Every request is given a schema that the database had when it was read, also
\* when refreshes have failed.
RequestsHaveASchema ==
    \A r \in Requests : request[r] = "running" => context[r] \in 1 .. schema

\* The schema never goes back to an older version, or to none.
NeverOlder == [][schema' >= schema]_vars

RefreshSucceeds ==
    refresh = "fetching" /\ refresh' = "sleeping" /\ call[Refresh] = "answered"

\* Changes are picked up without a restart: if refreshes go on succeeding, the
\* schema in use comes to be the database's, migrations being over.
PicksUpMigrations == []<><<RefreshSucceeds>>_vars => <>[](schema = version)

\* The two awaits of the shutdown that only the database can end: the refresh
\* task's release, and the pool's close.
AwaitsDatabase == app = "closing" \/ (app = "cancelling" /\ refresh = "unwinding")

\* A shutdown that has begun comes to its end, whatever the refresh task was
\* doing when it was cancelled, but for two cases: the database never answers what
\* the shutdown awaits of it, or the cancellation is lost in a release that fails.
ShutdownEnds ==
    app = "cancelling" ~> (app = "stopped" \/ cancel = "lost" \/ []AwaitsDatabase)

=============================================================================
