--------------------------- MODULE SqliteConnector --------------------------
(***************************************************************************)
(* SQLiteConnector (db/sqlite.py) over aiosqlite: a connection opened on   *)
(* the first call, with a thread of its own that executes the statements   *)
(* posted to it in their order.  A task posts a statement, and goes on     *)
(* when it was executed; fetch_schema posts two for every table.  Each     *)
(* connection to ":memory:" is a database of its own.                      *)
(***************************************************************************)
EXTENDS SchemaContext, FiniteSets

CONSTANTS
    Tasks,            \* whoever calls the connector
    Closer,           \* the task that calls close()
    Paths,            \* the paths it may be created with: "memory", "file"
    MaxConnections,   \* bound on the connections opened
    MaxChanges        \* bound on the changes of tables

ASSUME TasksAssumption == Closer \notin Tasks
ASSUME PathsAssumption == Paths \subseteq {"memory", "file"}
ASSUME BoundsAssumption == MaxConnections \in Nat \ {0} /\ MaxChanges \in Nat

VARIABLES
    path,        \* self._path
    conn,        \* self._conn: the number of a connection, or 0 for None
    opened,      \* connections opened so far; they are numbered in this order
    live,        \* those that are open
    queue,       \* of each connection: the tasks whose statements wait for it
    enforcing,   \* connections that executed PRAGMA foreign_keys = ON
    database,    \* of each connection, or 0 for the file: its tables
    waits,       \* of each task: what it waits for
    first,       \* of each task: the statement _get_conn was called for
    fetch,       \* of each task: the locals of fetch_schema
    during,      \* history: the databases there were since its first statement
    changes,     \* tables changed so far, counted for the bound
    raced        \* history: a first call began before another one was over

vars == <<path, conn, opened, live, queue, enforcing, database, waits, first, fetch, during, changes, raced>>

Connections == 1 .. MaxConnections

Home(c) == IF path = "file" THEN 0 ELSE c

NoTables == [t \in Tables |-> Absent]

Unstarted == [left |-> <<>>, map |-> <<>>, rows |-> <<>>]

Init ==
    /\ path \in Paths
    /\ conn = 0 /\ opened = 0 /\ live = {} /\ enforcing = {}
    /\ queue = [c \in Connections |-> <<>>]
    /\ database = [c \in 0 .. MaxConnections |-> NoTables]
    /\ waits = [t \in Tasks |-> "nothing"] /\ first = [t \in Tasks |-> "none"]
    /\ fetch = [t \in Tasks |-> Unstarted] /\ during = [t \in Tasks |-> {}]
    /\ changes = 0 /\ raced = FALSE

-----------------------------------------------------------------------------
(* _get_conn                                                                *)

(* mutant: the test for None is gone *)
MutCall(t, statement) ==
    /\ waits[t] = "nothing"
    /\ first' = [first EXCEPT ![t] = statement]
    /\ waits' = [waits EXCEPT ![t] = "opening"]
    /\ raced' = (raced \/ \E u \in Tasks : waits[u] = "opening")
    /\ UNCHANGED <<path, conn, opened, live, queue, enforcing, database, fetch, during, changes>>

\* A call that finds a connection posts its first statement at once.
Call(t, statement) ==
    /\ waits[t] = "nothing"
    /\ first' = [first EXCEPT ![t] = IF conn = 0 THEN statement ELSE "none"]
    /\ waits' = [waits EXCEPT ![t] = IF conn = 0 THEN "opening" ELSE statement]
    /\ queue' = IF conn = 0 THEN queue ELSE [queue EXCEPT ![conn] = Append(@, t)]
    /\ raced' = (raced \/ (conn = 0 /\ \E u \in Tasks : waits[u] = "opening"))
    /\ UNCHANGED <<path, conn, opened, live, enforcing, database, fetch, during, changes>>

(* mutant: the PRAGMA is not posted, the first statement is *)
MutOpened(t) ==
    /\ waits[t] = "opening" /\ opened < MaxConnections
    /\ opened' = opened + 1 /\ conn' = opened + 1
    /\ live' = live \cup {opened + 1}
    /\ queue' = [queue EXCEPT ![opened + 1] = <<t>>]
    /\ waits' = [waits EXCEPT ![t] = first[t]] /\ first' = [first EXCEPT ![t] = "none"]
    /\ UNCHANGED <<path, enforcing, database, fetch, during, changes, raced>>

\* aiosqlite.connect returned: no await until the PRAGMA is posted.
Opened(t) ==
    /\ waits[t] = "opening" /\ opened < MaxConnections
    /\ opened' = opened + 1 /\ conn' = opened + 1
    /\ live' = live \cup {opened + 1}
    /\ queue' = [queue EXCEPT ![opened + 1] = <<t>>]
    /\ waits' = [waits EXCEPT ![t] = "enforcing"]
    /\ UNCHANGED <<path, enforcing, database, first, fetch, during, changes, raced>>

(* mutant: the failure is swallowed, and the call goes on without a connection *)
MutOpenFails(t) ==
    /\ waits[t] = "opening"
    /\ waits' = [waits EXCEPT ![t] = first[t]]
    /\ first' = [first EXCEPT ![t] = "none"]
    /\ UNCHANGED <<path, conn, opened, live, queue, enforcing, database, fetch, during, changes, raced>>

OpenFails(t) ==
    /\ waits[t] = "opening"
    /\ waits' = [waits EXCEPT ![t] = "nothing"]
    /\ first' = [first EXCEPT ![t] = "none"]
    /\ UNCHANGED <<path, conn, opened, live, queue, enforcing, database, fetch, during, changes, raced>>

\* Connection c executes the statement of t that was posted first.
Executes(c, t, statement) ==
    /\ c \in live /\ queue[c] # <<>> /\ Head(queue[c]) = t
    /\ waits[t] = statement

\* `return self._conn` reads the attribute again: by now it may be another
\* connection, or None, which has no execute.
Enforces(c, t) ==
    /\ Executes(c, t, "enforcing")
    /\ enforcing' = enforcing \cup {c}
    /\ LET rest == [queue EXCEPT ![c] = Tail(@)]
       IN  IF conn = 0
           THEN queue' = rest /\ waits' = [waits EXCEPT ![t] = "nothing"]
           ELSE /\ queue' = [rest EXCEPT ![conn] = Append(@, t)]
                /\ waits' = [waits EXCEPT ![t] = first[t]]
    /\ first' = [first EXCEPT ![t] = "none"]
    /\ UNCHANGED <<path, conn, opened, live, database, fetch, during, changes, raced>>

-----------------------------------------------------------------------------
(* execute_query, and healthcheck through it                                *)

Finishes(c, t) ==
    /\ queue' = [queue EXCEPT ![c] = Tail(@)]
    /\ waits' = [waits EXCEPT ![t] = "nothing"]
    /\ fetch' = [fetch EXCEPT ![t] = Unstarted] /\ during' = [during EXCEPT ![t] = {}]

Queries(c, t) ==
    /\ Executes(c, t, "query")
    /\ Finishes(c, t)
    /\ UNCHANGED <<path, conn, opened, live, enforcing, database, first, changes, raced>>

\* Tasks that have read the table names on a connection to the same tables.
Fetching(c) ==
    {t \in Tasks : during[t] # {} /\ \E d \in Connections :
        Home(d) = Home(c) /\ Contains(queue[d], t)}

\* CREATE, ALTER and DROP TABLE: they are statements like any other.
Defines(c, t) ==
    /\ Executes(c, t, "define")
    /\ changes < MaxChanges
    /\ changes' = changes + 1
    /\ \E table \in Tables, definition \in Definitions \cup {Absent} :
        database' = [database EXCEPT ![Home(c)][table] = definition]
    /\ queue' = [queue EXCEPT ![c] = Tail(@)]
    /\ waits' = [waits EXCEPT ![t] = "nothing"]
    /\ during' = [u \in Tasks |-> IF u \in Fetching(c) THEN during[u] \cup {database'[Home(c)]}
                                  ELSE during[u]]
    /\ UNCHANGED <<path, conn, opened, live, enforcing, first, fetch, raced>>

\* A statement raises, as every statement does on a connection that is closed.
StatementFails(c, t) ==
    /\ queue[c] # <<>> /\ Head(queue[c]) = t /\ t \in Tasks
    /\ waits[t] # "enforcing"
    /\ Finishes(c, t)
    /\ UNCHANGED <<path, conn, opened, live, enforcing, database, first, changes, raced>>

-----------------------------------------------------------------------------
(* fetch_schema                                                             *)

\* The next statement is posted on the connection the call began with.
Goes(c, t, statement) ==
    /\ queue' = [queue EXCEPT ![c] = IF statement = "returned" THEN Tail(@) ELSE Append(Tail(@), t)]
    /\ waits' = [waits EXCEPT ![t] = statement]
    /\ UNCHANGED <<path, conn, opened, live, enforcing, database, first, changes, raced>>

AfterTable(left) == IF left = <<>> THEN "returned" ELSE "keys"

ReadsNames(c, t) ==
    LET names == Existing(database[Home(c)]) IN
    /\ Executes(c, t, "names")
    /\ fetch' = [fetch EXCEPT ![t].left = names]
    /\ during' = [during EXCEPT ![t] = {database[Home(c)]}]
    /\ Goes(c, t, AfterTable(names))

(* mutant: one fk_map for all tables *)
MutReadsKeys(c, t) ==
    /\ Executes(c, t, "keys")
    /\ fetch' = [fetch EXCEPT ![t].map = KeyMap(Definition(database[Home(c)], Head(fetch[t].left))) @@ @]
    /\ Goes(c, t, "columns")
    /\ UNCHANGED during

ReadsKeys(c, t) ==
    /\ Executes(c, t, "keys")
    /\ fetch' = [fetch EXCEPT ![t].map = KeyMap(Definition(database[Home(c)], Head(fetch[t].left)))]
    /\ Goes(c, t, "columns")
    /\ UNCHANGED during

ReadsColumns(c, t) ==
    LET left == fetch[t].left
        new == SqliteRows(Head(left), Definition(database[Home(c)], Head(left)).columns, fetch[t].map)
    IN  /\ Executes(c, t, "columns")
        /\ fetch' = [fetch EXCEPT ![t].left = Tail(left), ![t].rows = @ \o new]
        /\ Goes(c, t, AfterTable(Tail(left)))
        /\ UNCHANGED during

\* The caller has the rows and goes on.
Returned(t) ==
    /\ waits[t] = "returned"
    /\ waits' = [waits EXCEPT ![t] = "nothing"]
    /\ fetch' = [fetch EXCEPT ![t] = Unstarted] /\ during' = [during EXCEPT ![t] = {}]
    /\ UNCHANGED <<path, conn, opened, live, queue, enforcing, database, first, changes, raced>>

-----------------------------------------------------------------------------
(* close                                                                    *)

Close ==
    /\ conn # 0
    /\ \A c \in Connections : ~Contains(queue[c], Closer)
    /\ queue' = [queue EXCEPT ![conn] = Append(@, Closer)]
    /\ UNCHANGED <<path, conn, opened, live, enforcing, database, waits, first, fetch, during, changes, raced>>

\* Whatever self._conn is by then is forgotten, and a database in memory is gone.
Closes(c) ==
    /\ queue[c] # <<>> /\ Head(queue[c]) = Closer
    /\ queue' = [queue EXCEPT ![c] = Tail(@)]
    /\ live' = live \ {c}
    /\ conn' = 0
    /\ database' = IF path = "memory" THEN [database EXCEPT ![c] = NoTables] ELSE database
    /\ UNCHANGED <<path, opened, enforcing, waits, first, fetch, during, changes, raced>>

-----------------------------------------------------------------------------
Fetches(c, t) == ReadsNames(c, t) \/ ReadsKeys(c, t) \/ ReadsColumns(c, t)

Next ==
    \/ \E t \in Tasks, statement \in {"query", "define", "names"} : Call(t, statement)
    \/ \E t \in Tasks : Opened(t) \/ OpenFails(t) \/ Returned(t)
    \/ \E c \in Connections, t \in Tasks :
        Enforces(c, t) \/ Queries(c, t) \/ Defines(c, t) \/ StatementFails(c, t) \/ Fetches(c, t)
    \/ Close \/ \E c \in Connections : Closes(c)

Spec == Init /\ [][Next]_vars

-----------------------------------------------------------------------------
(* Properties                                                               *)

Posted(queues, x) == \E c \in Connections : Contains(queues[c], x)

PlacedOnce(queues) ==
    \A c, d \in Connections : \A i \in DOMAIN queues[c], j \in DOMAIN queues[d] :
        queues[c][i] = queues[d][j] => c = d /\ i = j

\* A statement waits at one place of one queue, as long as its task waits for it.
TypeOK ==
    /\ path \in Paths /\ conn \in 0 .. opened /\ opened \in 0 .. MaxConnections
    /\ live \subseteq 1 .. opened /\ enforcing \subseteq 1 .. opened /\ raced \in BOOLEAN
    /\ database \in [0 .. MaxConnections -> Databases]
    /\ waits \in [Tasks -> {"nothing", "opening", "enforcing", "query", "define",
                            "names", "keys", "columns", "returned"}]
    /\ first \in [Tasks -> {"none", "query", "define", "names"}]
    /\ queue \in [Connections -> Seq(Tasks \cup {Closer})]
    /\ PlacedOnce(queue)
    /\ \A t \in Tasks : Posted(queue, t) <=> waits[t] \notin {"nothing", "opening", "returned"}

\* Lines 9-11, foreign-key enforcement is enabled on connect: no statement is
\* ever executed before it, also when calls find the connection of another one
\* that still waits for its PRAGMA.
KeysEnforced ==
    \A c \in live :
        queue[c] # <<>> /\ Head(queue[c]) \in Tasks /\ waits[Head(queue[c])] # "enforcing"
        => c \in enforcing

\* Lines 5-7, one connection for the lifetime of the connector: if no two first
\* calls overlap, the one in self._conn is the only one open, whatever calls
\* fail and whenever it is closed.
OneConnection == ~raced => live \subseteq {conn}

\* If no table changed meanwhile, the schema context is that of the database:
\* the rows of its many statements make one whole.
QuietFetchDescribes ==
    \A t \in Tasks : waits[t] = "returned" =>
        \A db \in during[t] : during[t] = {db} => Describes(Context(fetch[t].rows), db)

\* Lines 33-35, the same output as PostgresConnector.fetch_schema, for plain schemas.
AdaptersAgree ==
    \A t \in Tasks : waits[t] = "returned" =>
        \A db \in during[t] : during[t] = {db} /\ Plain(db) => fetch[t].rows = PostgresRows(db)

\* If tables changed meanwhile, the context may be that of no database there
\* was.  But each table is listed once, with all columns of one definition it
\* had, and arrows of definitions it had, each perhaps of another.
EachTableWhole ==
    \A t \in Tasks : waits[t] = "returned" =>
        LET context == Context(fetch[t].rows)
        IN  /\ IsInjective(TablesOf(context))
            /\ \A k \in DOMAIN context : IsWhole(context[k], during[t])

-----------------------------------------------------------------------------
(* The inductive invariant behind the properties (SqliteConnectorProofs).    *)

\* A task has a first statement for as long as it waits for its connection.
FirstKept == \A t \in Tasks : waits[t] \in {"opening", "enforcing"} => first[t] # "none"

\* A connection that has not executed its PRAGMA has it at the head of its
\* queue, and one that is not open yet has no queue.
PragmaFirst ==
    \A c \in Connections :
        IF c > opened THEN queue[c] = <<>>
        ELSE c \notin enforcing =>
            queue[c] # <<>> /\ Head(queue[c]) \in Tasks /\ waits[Head(queue[c])] = "enforcing"

\* As long as first calls did not overlap, at most one task opens a connection,
\* only when there is none, and close() closes the one in self._conn.
OneOpener ==
    ~raced =>
        /\ \A t, u \in Tasks : waits[t] = "opening" /\ waits[u] = "opening" => t = u
        /\ (\E t \in Tasks : waits[t] = "opening") => conn = 0
        /\ \A c \in Connections : Contains(queue[c], Closer) => c = conn

ConnectorInv == TypeOK /\ FirstKept /\ PragmaFirst /\ OneOpener /\ OneConnection

\* What fetch_schema holds between two statements: the tables it has read and
\* those it will read are one list, and each table read is whole.
Reads(statement, local, databases) ==
    LET context == Context(local.rows)
        tables == TablesOf(context) \o local.left
    IN  /\ databases # {}
        /\ statement = "returned" <=> local.left = <<>>
        /\ IsInjective(tables)
        /\ Grouped(local.rows)
        /\ \A k \in DOMAIN context : IsWhole(context[k], databases)
        /\ statement = "columns" =>
            \E db \in databases : local.map = KeyMap(Definition(db, Head(local.left)))
        /\ \A db \in databases : databases = {db} =>
            /\ tables = Existing(db)
            /\ \A k \in DOMAIN context : Shows(context[k], db[context[k].table])

\* The database it will read next is one of those.
Current(t) == \A c \in live : Contains(queue[c], t) => database[Home(c)] \in during[t]

Maps == {<<>>} \cup {KeyMap(Definition(db, table)) : db \in Databases, table \in Tables}

Locals == [left : Seq(Tables), map : Maps, rows : Seq(Rows)]

FetchOf(t) ==
    IF waits[t] \in {"keys", "columns", "returned"}
    THEN Reads(waits[t], fetch[t], during[t]) /\ Current(t)
    ELSE fetch[t] = Unstarted /\ during[t] = {}

FetchInv ==
    /\ fetch \in [Tasks -> Locals] /\ during \in [Tasks -> SUBSET Databases]
    /\ \A t \in Tasks : FetchOf(t)

=============================================================================
