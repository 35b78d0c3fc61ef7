-------------------------- MODULE AppLifespanProofs -------------------------
(***************************************************************************)
(* The invariants of AppLifespan, for any number of requests and of schema *)
(* versions.  LifeInv is inductive: it says which pool there is and which  *)
(* tasks may be at the connector at each point of lifespan().              *)
(***************************************************************************)
EXTENDS AppLifespan, FiniteSetTheorems, TLAPS

\* Before the start-up query nobody has called the connector.
NotYetCalled == app = "starting" => pool = 0 /\ created = 0 /\ live = {} /\ call[Lifespan] = "idle"

\* Until lifespan() yields it is alone.
AloneAtStart ==
    app \in {"starting", "loading", "failed"} =>
        /\ refresh = "none" /\ cancel = "none" /\ ~stop /\ closing = 0
        /\ \A t \in Tasks : t # Lifespan => call[t] = "idle"
        /\ \A r \in Requests : request[r] = "unsent"

\* The one pool is there as soon as the start-up query is sent.
StartupPool ==
    /\ app = "loading" =>
        /\ call[Lifespan] \in {"creating", "querying", "answered", "raised"}
        /\ call[Lifespan] = "creating" => pool = 0 /\ created = 0 /\ live = {}
        /\ call[Lifespan] \in {"querying", "answered"} => pool = 1 /\ created = 1 /\ live = {1}
        /\ call[Lifespan] = "answered" => read[Lifespan] \in 1 .. version
    /\ app = "failed" => call[Lifespan] = "idle"
    /\ created \in {0, 1}

\* It is the only one for as long as the application serves, so that no call
\* finds self._pool None.
ServingPool ==
    /\ app \in {"serving", "cancelling", "closing"} => pool = 1 /\ created = 1 /\ live = {1}
    /\ app \in {"serving", "cancelling", "closing", "stopped"} =>
        /\ call[Lifespan] = "idle"
        /\ \A t \in Tasks : call[t] # "creating"
    /\ closing # 0 => app = "closing"
    /\ app = "closing" => closing = 1

\* A call is under way only for a task that waits for it, but for a connection
\* that the cancelled refresh left to asyncpg.  Either way it is one of the pool.
Callers ==
    /\ call[Refresh] # "idle" => refresh = "fetching" \/ call[Refresh] = "releasing"
    /\ call[Refresh] \in {"querying", "answered", "releasing"} => on[Refresh] = 1
    /\ \A r \in Requests : call[r] # "idle" => request[r] = "running"

\* Each step of the shutdown finds what the one before has left.
StoppedInOrder ==
    /\ app \in {"cancelling", "closing", "stopped"} =>
        cancel # "none" /\ stop /\ \A r \in Requests : request[r] # "running"
    /\ app \in {"serving", "cancelling", "closing", "stopped"} => refresh # "none"
    /\ app \in {"closing", "stopped"} => refresh = "ended"
    /\ app = "stopped" => pool = 0 /\ live = {} /\ call[Refresh] = "idle"

\* What the refresh task has read is not older than what it will replace.
Versions ==
    /\ schema <= version
    /\ call[Refresh] = "answered" => read[Refresh] \in schema .. version

LifeInv ==
    /\ TypeOK
    /\ NotYetCalled /\ AloneAtStart /\ StartupPool /\ ServingPool
    /\ Callers /\ StoppedInOrder /\ Versions
    /\ RequestsHaveASchema

-----------------------------------------------------------------------------
(* LifeInv is inductive                                                     *)

\* The constructor of the connector and the first lines of lifespan() establish it.
LEMMA InitLife == Init => LifeInv
<1> SUFFICES ASSUME Init
             PROVE  LifeInv
    OBVIOUS
<1> USE TasksAssumption, VersionAssumption DEF Init, DbInit
<1>1. TypeOK /\ RequestsHaveASchema
    <2>1. 0 \in 0 .. created /\ 0 \in 0 .. MaxVersion /\ version \in 1 .. MaxVersion
        OBVIOUS
    <2>2. /\ on \in [Tasks -> 0 .. created] /\ read \in [Tasks -> 0 .. MaxVersion]
          /\ context \in [Requests -> 0 .. MaxVersion]
        BY <2>1
    <2>3. QED
        BY <2>1, <2>2 DEF TypeOK, RequestsHaveASchema
<1>2. NotYetCalled /\ AloneAtStart /\ StartupPool /\ ServingPool
    BY DEF NotYetCalled, AloneAtStart, StartupPool, ServingPool
<1>3. Callers /\ StoppedInOrder /\ Versions
    BY DEF Callers, StoppedInOrder, Versions
<1>4. QED
    BY <1>1, <1>2, <1>3 DEF LifeInv

\* The start-up query, alone at the connector, creates the pool or fails.
LEMMA StartupStep ==
    ASSUME LifeInv, LoadSchema \/ Loaded \/ StartupFails
    PROVE  LifeInv'
<1> USE TasksAssumption, VersionAssumption DEF LifeInv, TypeOK, dbVars, appVars,
        NotYetCalled, AloneAtStart, StartupPool, ServingPool,
        Callers, StoppedInOrder, Versions, RequestsHaveASchema
<1>1. CASE LoadSchema
    BY <1>1 DEF LoadSchema, Call
<1>2. CASE Loaded
    BY <1>2 DEF Loaded, Returns
<1>3. CASE StartupFails
    BY <1>3 DEF StartupFails, Returns
<1>4. QED
    BY <1>1, <1>2, <1>3

\* The refresh task calls only while it runs, and leaves nothing behind but a
\* connection that is being given back.
LEMMA RefreshStep ==
    ASSUME LifeInv, RefreshLoop
    PROVE  LifeInv'
<1> USE TasksAssumption, VersionAssumption DEF LifeInv, TypeOK, dbVars, appVars,
        NotYetCalled, AloneAtStart, StartupPool, ServingPool,
        Callers, StoppedInOrder, Versions, RequestsHaveASchema
<1>1. CASE Wake
    BY <1>1 DEF Wake, Call
<1>2. CASE Refreshed
    BY <1>2 DEF Refreshed, Returns
<1>3. CASE RefreshFails
    BY <1>3 DEF RefreshFails, Returns
<1>4. CASE RefreshCancelled
    BY <1>4 DEF RefreshCancelled, Interrupted
<1>5. CASE RefreshReleased
    BY <1>5 DEF RefreshReleased, Released, Returns
<1>6. CASE CancelLost
    BY <1>6 DEF CancelLost, Released, Returns
<1>7. QED
    BY <1>1, <1>2, <1>3, <1>4, <1>5, <1>6 DEF RefreshLoop

\* A request finds the pool, and is given the schema of its arrival.
LEMMA RequestStep ==
    ASSUME LifeInv, NEW r \in Requests,
           Arrive(r) \/ Query(r) \/ Continue(r) \/ Respond(r)
    PROVE  LifeInv'
<1> USE TasksAssumption, VersionAssumption DEF LifeInv, TypeOK, dbVars, appVars,
        NotYetCalled, AloneAtStart, StartupPool, ServingPool,
        Callers, StoppedInOrder, Versions, RequestsHaveASchema
<1>1. CASE Arrive(r)
    BY <1>1 DEF Arrive
<1>2. CASE Query(r)
    BY <1>2 DEF Query, Call
<1>3. CASE Continue(r)
    BY <1>3 DEF Continue, Returns
<1>4. CASE Respond(r)
    BY <1>4 DEF Respond
<1>5. QED
    BY <1>1, <1>2, <1>3, <1>4

\* Each step of the shutdown waits for what the next one relies on.
LEMMA ShutdownStep ==
    ASSUME LifeInv, Stop \/ Shutdown
    PROVE  LifeInv'
<1> USE TasksAssumption, VersionAssumption DEF LifeInv, TypeOK, dbVars, appVars,
        NotYetCalled, AloneAtStart, StartupPool, ServingPool,
        Callers, StoppedInOrder, Versions, RequestsHaveASchema
<1>1. CASE Stop
    BY <1>1 DEF Stop
<1>2. CASE CancelRefresh
    BY <1>2 DEF CancelRefresh
<1>3. CASE CloseConnector
    BY <1>3 DEF CloseConnector, RefreshAwaited, CloseBegins
<1>4. CASE Closed
    BY <1>4 DEF Closed, CloseEnds
<1>5. QED
    BY <1>1, <1>2, <1>3, <1>4 DEF Shutdown

\* Only the start-up query creates a pool; a query reads the version there is.
LEMMA ConnectorStep ==
    ASSUME LifeInv, DbStep, UNCHANGED appVars
    PROVE  LifeInv'
<1> USE TasksAssumption, VersionAssumption DEF LifeInv, TypeOK, dbVars, appVars,
        NotYetCalled, AloneAtStart, StartupPool, ServingPool,
        Callers, StoppedInOrder, Versions, RequestsHaveASchema
<1>1. CASE Migrate
    BY <1>1 DEF Migrate
<1>2. ASSUME NEW t \in Tasks, PoolCreated(t)
      PROVE  LifeInv'
    <2>1. app = "loading" /\ t = Lifespan
        BY <1>2 DEF PoolCreated
    <2>2. pool = 0 /\ created = 0 /\ live = {}
        BY <1>2, <2>1 DEF PoolCreated
    <2>3. created' = 1 /\ pool' = 1
        BY <1>2, <2>2 DEF PoolCreated
    <2>4. live' = {1}
        BY <1>2, <2>2 DEF PoolCreated
    <2>5. /\ pool' = 1 /\ created' = 1 /\ live' = {1}
          /\ call' = [call EXCEPT ![Lifespan] = "querying"]
        BY <1>2, <2>1, <2>3, <2>4 DEF PoolCreated
    <2>6. on' \in [Tasks -> 0 .. created']
        BY <1>2, <2>1, <2>5 DEF PoolCreated
    <2>7. QED
        BY <1>2, <2>1, <2>5, <2>6 DEF PoolCreated
<1>3. ASSUME NEW t \in Tasks, Answers(t)
      PROVE  LifeInv'
    BY <1>3 DEF Answers
<1>4. ASSUME NEW t \in Tasks, Fails(t)
      PROVE  LifeInv'
    BY <1>4 DEF Fails
<1>5. QED
    BY <1>1, <1>2, <1>3, <1>4 DEF DbStep

LEMMA NextLife == LifeInv /\ [Next]_vars => LifeInv'
<1> SUFFICES ASSUME LifeInv, [Next]_vars
             PROVE  LifeInv'
    OBVIOUS
<1>1. CASE LoadSchema \/ Loaded \/ StartupFails
    BY <1>1, StartupStep
<1>2. CASE RefreshLoop
    BY <1>2, RefreshStep
<1>3. CASE Serve
    BY <1>3, RequestStep DEF Serve
<1>4. CASE Stop \/ Shutdown
    BY <1>4, ShutdownStep
<1>5. CASE DbStep /\ UNCHANGED appVars
    BY <1>5, ConnectorStep
<1>6. CASE UNCHANGED vars
    BY <1>6 DEF vars, dbVars, appVars, LifeInv, TypeOK, NotYetCalled, AloneAtStart, StartupPool,
                ServingPool, Callers, StoppedInOrder, Versions, RequestsHaveASchema
<1>7. QED
    BY <1>1, <1>2, <1>3, <1>4, <1>5, <1>6 DEF Next

\* The facts about lifespan(), its tasks and the connector hold in every state.
THEOREM Life == Spec => []LifeInv
<1>1. QED
    BY InitLife, NextLife, PTL DEF Spec

-----------------------------------------------------------------------------
(* The properties                                                           *)

\* Every variable of the application keeps its type; once it serves,
\* app.state.schema_context is set.
THEOREM LifeTypeCorrect == Spec => []TypeOK
<1>1. LifeInv => TypeOK
    BY DEF LifeInv
<1>2. QED
    BY <1>1, Life, PTL

\* However many requests call the connector, _pool_ creates one pool.
THEOREM OnePoolEver == Spec => []NeverTwoPools
<1>1. LifeInv => NeverTwoPools
    <2> SUFFICES ASSUME LifeInv
                 PROVE  Cardinality(live) <= 1
        BY DEF NeverTwoPools, OnePool
    <2>1. live = {} \/ live = {1}
        <3>1. live \subseteq 1 .. created /\ created \in {0, 1}
            BY DEF LifeInv, TypeOK, StartupPool
        <3>2. live \subseteq {1}
            BY <3>1
        <3>3. QED
            BY <3>2
    <2>2. QED
        BY <2>1, FS_EmptySet, FS_Singleton, SMTT(30)
<1>2. QED
    BY <1>1, Life, PTL

\* When lifespan() has returned, no connection, no task and no call is left.
THEOREM StopsClean == Spec => []CleanStop
<1>1. LifeInv => CleanStop
    BY TasksAssumption DEF LifeInv, CleanStop, ServingPool, Callers, StoppedInOrder
<1>2. QED
    BY <1>1, Life, PTL

\* Every request runs with a schema the database had, whatever refreshes fail.
THEOREM SchemaForAll == Spec => []RequestsHaveASchema
<1>1. LifeInv => RequestsHaveASchema
    BY DEF LifeInv
<1>2. QED
    BY <1>1, Life, PTL

\* app.state.schema_context is never replaced by an older one: only lifespan()
\* and the refresh task write it, and what they write they have just read.
THEOREM SchemaNeverOlder == Spec => NeverOlder
<1>1. LifeInv /\ [Next]_vars => [schema' >= schema]_vars
    <2> SUFFICES ASSUME LifeInv, Next
                 PROVE  schema' >= schema
        OBVIOUS
    <2>0. schema \in Nat
        BY VersionAssumption DEF LifeInv, TypeOK
    <2>1. CASE Loaded
        BY <2>1, VersionAssumption, TasksAssumption DEF Loaded, Returns, LifeInv, TypeOK, StartupPool
    <2>2. CASE Refreshed
        BY <2>2, <2>0, VersionAssumption, TasksAssumption DEF Refreshed, Returns, LifeInv, TypeOK, Versions
    <2>3. CASE ~Loaded /\ ~Refreshed
        <3>1. schema' = schema
            BY <2>3 DEF Next, LoadSchema, StartupFails, RefreshLoop, Wake, RefreshFails,
                RefreshCancelled, RefreshReleased, CancelLost, Serve, Arrive, Query, Continue,
                Respond, Stop,
                Shutdown, CancelRefresh, CloseConnector, Closed, appVars
        <3>2. QED
            BY <2>0, <3>1
    <2>4. QED
        BY <2>1, <2>2, <2>3
<1>2. QED
    BY <1>1, Life, PTL DEF Spec, NeverOlder

=============================================================================
