----------------------------- MODULE DbConnector ----------------------------
(***************************************************************************)
(* PostgresConnector (db/postgres.py): one lazily created asyncpg pool,    *)
(* used by any number of tasks of one event loop.  A task runs without     *)
(* interruption from one await to the next; the awaits are create_pool,    *)
(* the query (acquire, fetch, release) and the pool's close.  The database *)
(* counts the versions of its schema, so that a query's result tells when  *)
(* it was computed.                                                        *)
(***************************************************************************)
EXTENDS Naturals, FiniteSets

CONSTANTS
    Tasks,       \* whoever calls the connector
    MaxVersion   \* bound on the schema changes in the database

ASSUME VersionAssumption == MaxVersion \in Nat \ {0}

VARIABLES
    pool,      \* self._pool: the number of a pool, or 0 for None
    closing,   \* the pool close() waits for, or 0
    created,   \* pools created so far; they are numbered in this order
    live,      \* pools that hold connections to the database
    call,      \* of each task: where its call to the connector stands
    on,        \* of each task: the pool its last query was sent to, or 0
    read,      \* of each task: the version its last query saw
    version    \* the database's schema, changed by migrations

dbVars == <<pool, closing, created, live, call, on, read, version>>

DbInit ==
    /\ pool = 0 /\ closing = 0
    /\ created = 0 /\ live = {}
    /\ call = [t \in Tasks |-> "idle"]
    /\ on = [t \in Tasks |-> 0] /\ read = [t \in Tasks |-> 0]
    /\ version = 1

-----------------------------------------------------------------------------
\* execute_query up to its first await: _pool_ tests for None, and creates the
\* pool or goes on to acquire, which a closing pool refuses.
Call(t) ==
    /\ call[t] = "idle"
    /\ call' = [call EXCEPT ![t] = IF pool = 0 THEN "creating"
                                   ELSE IF pool = closing THEN "raised" ELSE "querying"]
    /\ on' = [on EXCEPT ![t] = pool]
    /\ UNCHANGED <<pool, closing, created, live, read, version>>

\* create_pool returned; no await until the query is sent.
PoolCreated(t) ==
    /\ call[t] = "creating"
    /\ created' = created + 1
    /\ pool' = created + 1
    /\ live' = live \cup {created + 1}
    /\ on' = [on EXCEPT ![t] = created + 1]
    /\ call' = [call EXCEPT ![t] = "querying"]
    /\ UNCHANGED <<closing, read, version>>

\* The database computed the result; it is on its way.
Answers(t) ==
    /\ call[t] = "querying"
    /\ read' = [read EXCEPT ![t] = version]
    /\ call' = [call EXCEPT ![t] = "answered"]
    /\ UNCHANGED <<pool, closing, created, live, on, version>>

\* create_pool, acquire or fetch raised, or the release after an answer did;
\* without a pool self._pool stays None.
Fails(t) ==
    /\ call[t] \in {"creating", "querying", "answered"}
    /\ call' = [call EXCEPT ![t] = "raised"]
    /\ UNCHANGED <<pool, closing, created, live, on, read, version>>

\* The caller has its result or its exception, the connection is given back, and
\* it goes on.
Returns(t, how) ==
    /\ call[t] = how
    /\ call' = [call EXCEPT ![t] = "idle"]
    /\ UNCHANGED <<pool, closing, created, live, on, read, version>>

\* The calling task is cancelled, and gives up the call or the wait for it.  A
\* connection it holds is given back on the way out of `async with
\* pool.acquire()`: asyncpg waits until the database has acknowledged the
\* cancellation and reset the connection, with no timeout.
Interrupted(t) ==
    /\ \/ /\ call[t] \in {"querying", "answered"}
          /\ call' = [call EXCEPT ![t] = "releasing"]
       \/ /\ call[t] \in {"idle", "creating", "querying", "raised"}
          /\ call' = [call EXCEPT ![t] = "idle"]
    /\ UNCHANGED <<pool, closing, created, live, on, read, version>>

\* The database did, or its connection broke: either way it is given back.
Released(t) == Returns(t, "releasing")

\* close(): nothing to do without a pool.
CloseBegins ==
    /\ pool # 0 /\ closing = 0
    /\ closing' = pool
    /\ UNCHANGED <<pool, created, live, call, on, read, version>>

\* Pool.close() waits for every connection of the pool to be given back, and
\* whatever self._pool is by then is forgotten.
CloseEnds ==
    /\ closing # 0
    /\ \A t \in Tasks : on[t] = closing => call[t] \notin {"querying", "answered", "releasing"}
    /\ live' = live \ {closing}
    /\ pool' = 0 /\ closing' = 0
    /\ UNCHANGED <<created, call, on, read, version>>

\* A migration, by somebody else.
Migrate ==
    /\ version < MaxVersion
    /\ version' = version + 1
    /\ UNCHANGED <<pool, closing, created, live, call, on, read>>

\* What the connector and the database do by themselves.
DbStep == Migrate \/ \E t \in Tasks : PoolCreated(t) \/ Answers(t) \/ Fails(t)

-----------------------------------------------------------------------------
\* Class docstring, lines 58-60: "the pool is created on the first call to any
\* query method and is shared across all subsequent calls".  The connector keeps
\* this only for callers that let the first call end; AppLifespan shows that the
\* application's callers do.
OnePool == Cardinality(live) <= 1

=============================================================================
