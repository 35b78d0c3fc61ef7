------------------------ MODULE SqliteConnectorProofs ------------------------
(***************************************************************************)
(* The connection of SQLiteConnector, proved for any number of tasks,      *)
(* connections and tables: every statement waits at one place, none        *)
(* overtakes the PRAGMA of its connection, one connection is open for as   *)
(* long as first calls do not overlap, and what fetch_schema returns makes *)
(* one whole, though it is read in many statements.                        *)
(***************************************************************************)
EXTENDS SqliteConnector, SchemaContextProofs

-----------------------------------------------------------------------------
(* Queues                                                                   *)

Queues == [Connections -> Seq(Tasks \cup {Closer})]

Placed(q) == q \in Queues /\ PlacedOnce(q)

\* The head of queue c left it.
Took(q, c, rest) ==
    /\ Placed(rest)
    /\ \A d \in Connections : d # c => rest[d] = q[d]
    /\ \A x : Posted(rest, x) <=> Posted(q, x) /\ x # Head(q[c])
    /\ \A d \in Connections : \A x : Contains(rest[d], x) => Contains(q[d], x)

\* x came to the end of queue c.
Gained(q, c, x, more) ==
    /\ Placed(more)
    /\ \A d \in Connections : d # c => more[d] = q[d]
    /\ \A y : Posted(more, y) <=> Posted(q, y) \/ y = x
    /\ \A d \in Connections : \A y : Contains(more[d], y) <=> Contains(q[d], y) \/ (d = c /\ y = x)
    /\ more[c] # <<>>
    /\ Head(more[c]) = IF q[c] = <<>> THEN x ELSE Head(q[c])

\* The head of queue c went to its end.
Turned(q, c, turned) ==
    /\ Placed(turned)
    /\ \A d \in Connections : d # c => turned[d] = q[d]
    /\ turned[c] # <<>>
    /\ \A x : Posted(turned, x) <=> Posted(q, x)
    /\ \A d \in Connections : \A x : Contains(turned[d], x) => Contains(q[d], x)

\* What it means for a place to be the only one of its kind.
LEMMA OnlyPlace ==
    ASSUME NEW q \in Queues, PlacedOnce(q), NEW c \in Connections, q[c] # <<>>,
           NEW d \in Connections, q[d] # <<>>, Head(q[d]) = Head(q[c])
    PROVE  d = c
<1>1. /\ 1 \in DOMAIN q[c] /\ q[c][1] = Head(q[c])
      /\ 1 \in DOMAIN q[d] /\ q[d][1] = Head(q[d])
  BY DEF Queues
<1> QED
  BY <1>1 DEF PlacedOnce

\* Taking the head of a queue: it waits nowhere then, all others where they did.
LEMMA TakesHead ==
    ASSUME NEW q \in Queues, PlacedOnce(q), NEW c \in Connections, q[c] # <<>>,
           NEW rest \in Queues, rest[c] = Tail(q[c]),
           \A d \in Connections : d # c => rest[d] = q[d]
    PROVE  Took(q, c, rest) /\ Head(q[c]) \in Tasks \cup {Closer} /\ Posted(q, Head(q[c]))
<1> DEFINE S == Tasks \cup {Closer}
           s == q[c]
           tail == Tail(s)
<1>1. s \in Seq(S) /\ s # <<>>
  BY DEF Queues
<1> HIDE DEF S
<1>2. /\ tail \in Seq(S) /\ Len(tail) = Len(s) - 1 /\ Len(s) \in Nat \ {0} /\ Head(s) = s[1] /\ s[1] \in S
      /\ \A i \in 1 .. Len(tail) : tail[i] = s[i + 1]
      /\ DOMAIN tail = 1 .. Len(tail) /\ DOMAIN s = 1 .. Len(s)
  <2> HIDE DEF s
  <2> QED
    BY <1>1
<1>3. rest[c] = tail /\ \A d \in Connections : d # c => rest[d] = q[d]
  OBVIOUS
<1>5. \A d \in Connections : DOMAIN q[d] = 1 .. Len(q[d]) /\ Len(q[d]) \in Nat
  BY DEF Queues
<1>6. \A d \in Connections : \A i \in DOMAIN rest[d] :
        IF d = c THEN i + 1 \in DOMAIN q[d] /\ rest[d][i] = q[d][i + 1]
        ELSE i \in DOMAIN q[d] /\ rest[d][i] = q[d][i]
  <2> TAKE d \in Connections
  <2> TAKE i \in DOMAIN rest[d]
  <2>1. CASE d = c
    <3>1. i \in 1 .. Len(tail)
      BY <1>2, <1>3, <2>1
    <3> HIDE DEF tail, s
    <3>2. i + 1 \in 1 .. Len(s) /\ tail[i] = s[i + 1]
      BY <3>1, <1>2
    <3> QED
      BY <3>2, <1>2, <1>3, <2>1 DEF s
  <2>2. CASE d # c
    BY <2>2, <1>3
  <2> QED
    BY <2>1, <2>2
<1>7. PlacedOnce(rest)
  <2> SUFFICES ASSUME NEW d \in Connections, NEW e \in Connections,
                      NEW i \in DOMAIN rest[d], NEW j \in DOMAIN rest[e], rest[d][i] = rest[e][j]
               PROVE  d = e /\ i = j
    BY DEF PlacedOnce
  <2> DEFINE I == IF d = c THEN i + 1 ELSE i
             J == IF e = c THEN j + 1 ELSE j
  <2>1. I \in DOMAIN q[d] /\ J \in DOMAIN q[e] /\ q[d][I] = q[e][J]
    BY <1>6
  <2>2. d = e /\ I = J
    <3> HIDE DEF I, J
    <3> QED
      BY <2>1 DEF PlacedOnce
  <2>3. i \in Nat /\ j \in Nat
    BY DEF Queues
  <2> QED
    BY <2>2, <2>3
<1>8. \A d \in Connections : \A x : Contains(q[d], x) <=> \E i \in DOMAIN q[d] : q[d][i] = x
  BY <1>5 DEF Contains
<1>9. \A d \in Connections : \A x : Contains(rest[d], x) <=> \E i \in DOMAIN rest[d] : rest[d][i] = x
  <2>1. \A d \in Connections : DOMAIN rest[d] = 1 .. Len(rest[d])
    BY DEF Queues
  <2> QED
    BY <2>1 DEF Contains
<1>10. \A d \in Connections : \A x : Contains(rest[d], x) => Contains(q[d], x)
  <2> SUFFICES ASSUME NEW d \in Connections, NEW x, Contains(rest[d], x)
               PROVE  \E i \in DOMAIN q[d] : q[d][i] = x
    BY <1>8
  <2>1. PICK i \in DOMAIN rest[d] : rest[d][i] = x
    BY <1>9
  <2>2. CASE d = c
    BY <2>1, <2>2, <1>6
  <2>3. CASE d # c
    BY <2>1, <2>3, <1>6
  <2> QED
    BY <2>2, <2>3
<1>11. 1 \in DOMAIN q[c] /\ q[c][1] = Head(q[c])
  BY <1>2
<1>12. Posted(q, Head(q[c]))
  BY <1>8, <1>11 DEF Posted
<1>13. ASSUME NEW x, Posted(rest, x) PROVE Posted(q, x) /\ x # Head(q[c])
  <2> PICK d \in Connections : \E i \in DOMAIN rest[d] : rest[d][i] = x
    BY <1>9, <1>13 DEF Posted
  <2>1. PICK i \in DOMAIN rest[d] : rest[d][i] = x
    OBVIOUS
  <2>2. Posted(q, x)
    BY <1>10, <1>13 DEF Posted
  <2>3. CASE d = c
    <3>0. i \in 1 .. Len(tail)
      BY <1>2, <1>3, <2>3
    <3>1. i + 1 \in DOMAIN q[c] /\ q[c][i + 1] = x /\ i \in Nat \ {0}
      BY <3>0, <2>1, <2>3, <1>6
    <3>2. i + 1 # 1
      BY <3>1
    <3> QED
      BY <3>1, <3>2, <1>11, <2>2 DEF PlacedOnce
  <2>4. CASE d # c
    BY <2>1, <2>2, <2>4, <1>6, <1>11 DEF PlacedOnce
  <2> QED
    BY <2>3, <2>4
<1>14. ASSUME NEW x, Posted(q, x), x # Head(q[c]) PROVE Posted(rest, x)
  <2> PICK d \in Connections : \E i \in DOMAIN q[d] : q[d][i] = x
    BY <1>8, <1>14 DEF Posted
  <2>1. PICK i \in DOMAIN q[d] : q[d][i] = x
    OBVIOUS
  <2>2. CASE d = c
    <3>1. i \in 1 .. Len(s) /\ i # 1 /\ s[i] = x
      BY <2>1, <2>2, <1>2, <1>11, <1>14
    <3>2. i - 1 \in 1 .. Len(tail) /\ (i - 1) + 1 = i
      <4> HIDE DEF s, tail
      <4> QED
        BY <3>1, <1>2
    <3>3. tail[i - 1] = x
      BY <3>1, <3>2, <1>2
    <3> QED
      BY <3>2, <3>3, <1>2, <1>3, <1>9, <2>2 DEF Posted
  <2>3. CASE d # c
    BY <2>1, <2>3, <1>3, <1>9 DEF Posted
  <2> QED
    BY <2>2, <2>3
<1> QED
  BY <1>2, <1>7, <1>10, <1>12, <1>13, <1>14 DEF S, Took, Placed

\* Posting to a queue: one more waits, at its end.
LEMMA Posts ==
    ASSUME NEW q \in Queues, PlacedOnce(q), NEW c \in Connections,
           NEW x \in Tasks \cup {Closer}, ~Posted(q, x),
           NEW more \in Queues, more[c] = Append(q[c], x),
           \A d \in Connections : d # c => more[d] = q[d]
    PROVE  Gained(q, c, x, more)
<1> DEFINE S == Tasks \cup {Closer}
           s == q[c]
           n == Len(s)
           longer == Append(s, x)
<1>1. s \in Seq(S) /\ x \in S
  BY DEF Queues
<1> HIDE DEF S
<1>2. n \in Nat /\ DOMAIN s = 1 .. n
  <2> HIDE DEF s
  <2> QED
    BY <1>1
<1>3. /\ longer \in Seq(S) /\ Len(longer) = n + 1 /\ longer # <<>>
      /\ DOMAIN longer = 1 .. (n + 1) /\ longer[n + 1] = x
      /\ \A i \in 1 .. n : longer[i] = s[i]
  <2> HIDE DEF s
  <2> QED
    BY <1>1
<1>4. Head(longer) = IF s = <<>> THEN x ELSE Head(s)
  <2> HIDE DEF s
  <2> QED
    BY <1>1
<1>5. more[c] = longer /\ \A d \in Connections : d # c => more[d] = q[d]
  OBVIOUS
<1>7. \A d \in Connections : \A y :
        /\ Contains(q[d], y) <=> \E i \in DOMAIN q[d] : q[d][i] = y
        /\ Contains(more[d], y) <=> \E i \in DOMAIN more[d] : more[d][i] = y
  <2>1. \A d \in Connections : DOMAIN more[d] = 1 .. Len(more[d]) /\ DOMAIN q[d] = 1 .. Len(q[d])
    BY DEF Queues
  <2> QED
    BY <2>1 DEF Contains
<1>8. \A d \in Connections : \A i : i \in DOMAIN more[d] <=> i \in DOMAIN q[d] \/ (d = c /\ i = n + 1)
  <2>1. \A i : i \in 1 .. (n + 1) <=> i \in 1 .. n \/ i = n + 1
    <3> HIDE DEF n
    <3> QED
      BY <1>2
  <2> QED
    BY <2>1, <1>2, <1>3, <1>5
<1>9. \A d \in Connections : \A i \in DOMAIN q[d] : more[d][i] = q[d][i]
  BY <1>2, <1>3, <1>5
<1>10. n + 1 \notin DOMAIN q[c] /\ more[c][n + 1] = x
  <2>1. n + 1 \notin 1 .. n
    <3> HIDE DEF n
    <3> QED
      BY <1>2
  <2> QED
    BY <2>1, <1>2, <1>3, <1>5
<1>11. \A d \in Connections : \A i \in DOMAIN q[d] : q[d][i] # x
  BY <1>7 DEF Posted
<1>12. PlacedOnce(more)
  <2> HIDE DEF n
  <2> SUFFICES ASSUME NEW d \in Connections, NEW e \in Connections,
                      NEW i \in DOMAIN more[d], NEW j \in DOMAIN more[e], more[d][i] = more[e][j]
               PROVE  d = e /\ i = j
    BY DEF PlacedOnce
  <2>1. CASE i \in DOMAIN q[d] /\ j \in DOMAIN q[e]
    BY <2>1, <1>9 DEF PlacedOnce
  <2>2. CASE i \notin DOMAIN q[d]
    <3>1. d = c /\ i = n + 1 /\ more[e][j] = x
      BY <2>2, <1>8, <1>10
    <3>2. j \notin DOMAIN q[e]
      BY <3>1, <1>9, <1>11
    <3> QED
      BY <3>1, <3>2, <1>8
  <2>3. CASE j \notin DOMAIN q[e]
    <3>1. e = c /\ j = n + 1 /\ more[d][i] = x
      BY <2>3, <1>8, <1>10
    <3>2. i \notin DOMAIN q[d]
      BY <3>1, <1>9, <1>11
    <3> QED
      BY <3>1, <3>2, <1>8
  <2> QED
    BY <2>1, <2>2, <2>3
<1>13. \A d \in Connections : \A y : Contains(more[d], y) <=> Contains(q[d], y) \/ (d = c /\ y = x)
  <2> HIDE DEF n
  <2> TAKE d \in Connections
  <2> TAKE y
  <2>1. ASSUME Contains(more[d], y) PROVE Contains(q[d], y) \/ (d = c /\ y = x)
    <3>1. PICK i \in DOMAIN more[d] : more[d][i] = y
      BY <2>1, <1>7
    <3>2. CASE i \in DOMAIN q[d]
      BY <3>1, <3>2, <1>7, <1>9
    <3>3. CASE i \notin DOMAIN q[d]
      BY <3>1, <3>3, <1>8, <1>10
    <3> QED
      BY <3>2, <3>3
  <2>2. ASSUME Contains(q[d], y) PROVE Contains(more[d], y)
    <3>1. PICK i \in DOMAIN q[d] : q[d][i] = y
      BY <2>2, <1>7
    <3> QED
      BY <3>1, <1>7, <1>8, <1>9
  <2>3. Contains(more[c], x)
    BY <1>7, <1>8, <1>10
  <2> QED
    BY <2>1, <2>2, <2>3
<1> QED
  BY <1>3, <1>4, <1>5, <1>12, <1>13 DEF Posted, Gained, Placed

\* The same, of the queue a function update gives.
LEMMA QueueTakes ==
    ASSUME NEW q, Placed(q), NEW c \in Connections, q[c] # <<>>,
           NEW rest, rest = [q EXCEPT ![c] = Tail(@)]
    PROVE  Took(q, c, rest) /\ Head(q[c]) \in Tasks \cup {Closer} /\ Posted(q, Head(q[c]))
<1>1. /\ q \in Queues /\ PlacedOnce(q)
      /\ rest \in Queues /\ rest[c] = Tail(q[c]) /\ \A d \in Connections : d # c => rest[d] = q[d]
  BY DEF Placed, Queues
<1> QED
  BY <1>1, TakesHead

LEMMA QueueGrows ==
    ASSUME NEW q, Placed(q), NEW c \in Connections,
           NEW x \in Tasks \cup {Closer}, ~Posted(q, x),
           NEW more, more = [q EXCEPT ![c] = Append(@, x)]
    PROVE  Gained(q, c, x, more)
<1>1. /\ q \in Queues /\ PlacedOnce(q)
      /\ more \in Queues /\ more[c] = Append(q[c], x) /\ \A d \in Connections : d # c => more[d] = q[d]
  BY DEF Placed, Queues
<1> QED
  BY <1>1, Posts

\* A queue whose head goes to its end.
LEMMA QueueTurns ==
    ASSUME NEW q, Placed(q), NEW c \in Connections, q[c] # <<>>,
           NEW turned, turned = [q EXCEPT ![c] = Append(Tail(@), Head(q[c]))]
    PROVE  Turned(q, c, turned) /\ Head(q[c]) \in Tasks \cup {Closer} /\ Posted(q, Head(q[c]))
<1> DEFINE x == Head(q[c])
<1>1. PICK rest : rest = [q EXCEPT ![c] = Tail(@)]
  OBVIOUS
<1>2. turned = [rest EXCEPT ![c] = Append(@, x)]
  BY <1>1 DEF Placed, Queues
<1>3. Took(q, c, rest) /\ x \in Tasks \cup {Closer} /\ Posted(q, x)
  BY <1>1, QueueTakes
<1>4. Placed(rest) /\ ~Posted(rest, x)
  BY <1>3 DEF Took
<1> HIDE DEF x
<1>5. Gained(rest, c, x, turned)
  BY <1>2, <1>3, <1>4, QueueGrows
<1>6. Contains(q[c], x)
  BY DEF Contains, Placed, Queues, x
<1> QED
  BY <1>3, <1>5, <1>6 DEF Took, Gained, Turned, x

-----------------------------------------------------------------------------
(* _get_conn                                                                *)

Statements == {"nothing", "opening", "enforcing", "query", "define", "names", "keys", "columns", "returned"}

\* What TypeOK says of the queues.
LEMMA QueueType ==
    ASSUME TypeOK
    PROVE  /\ Placed(queue)
           /\ \A t \in Tasks : Posted(queue, t) <=> waits[t] \notin {"nothing", "opening", "returned"}
BY DEF TypeOK, Placed, Queues

\* A connection that is open is one of those there may be.
LEMMA InRange ==
    ASSUME TypeOK
    PROVE  /\ opened \in Nat /\ MaxConnections \in Nat \ {0} /\ opened <= MaxConnections
           /\ conn \in Nat /\ conn <= opened
           /\ conn # 0 => conn \in Connections
           /\ opened < MaxConnections => opened + 1 \in Connections
BY BoundsAssumption DEF TypeOK, Connections

LEMMA InitConnector == Init => ConnectorInv
<1> SUFFICES ASSUME Init PROVE ConnectorInv
  OBVIOUS
<1>1. \A x : ~Posted(queue, x) /\ \A c \in Connections : ~Contains(queue[c], x)
  BY DEF Init, Posted, Contains
<1>2. PlacedOnce(queue)
  BY DEF Init, PlacedOnce
<1>3. queue \in [Connections -> Seq(Tasks \cup {Closer})]
  BY DEF Init
<1>4. database \in [0 .. MaxConnections -> Databases]
  BY DEF Init, Databases, NoTables
<1>5. TypeOK
  <2>1. /\ path \in Paths /\ conn \in 0 .. opened /\ opened \in 0 .. MaxConnections
        /\ live \subseteq 1 .. opened /\ enforcing \subseteq 1 .. opened /\ raced \in BOOLEAN
    <3>1. path \in Paths /\ conn = 0 /\ opened = 0 /\ live = {} /\ enforcing = {} /\ raced = FALSE
      BY DEF Init
    <3>2. 0 \in 0 .. 0 /\ 0 \in 0 .. MaxConnections
      BY BoundsAssumption
    <3> QED
      BY <3>1, <3>2
  <2>2. waits \in [Tasks -> Statements] /\ first \in [Tasks -> {"none", "query", "define", "names"}]
    BY DEF Init, Statements
  <2>3. \A t \in Tasks : Posted(queue, t) <=> waits[t] \notin {"nothing", "opening", "returned"}
    BY <1>1 DEF Init
  <2> QED
    BY <1>2, <1>3, <1>4, <2>1, <2>2, <2>3 DEF TypeOK, Statements
<1>6. FirstKept /\ PragmaFirst /\ OneOpener /\ OneConnection
  BY <1>1, BoundsAssumption DEF Init, FirstKept, PragmaFirst, OneOpener, OneConnection, Connections
<1> QED
  BY <1>5, <1>6 DEF ConnectorInv

\* Queues may grow at their ends: the PRAGMA stays at the head.
LEMMA PragmaStays ==
    ASSUME PragmaFirst, TypeOK, opened' = opened, enforcing' = enforcing,
           \A c \in Connections : c > opened => queue'[c] = queue[c],
           \A c \in Connections : c \notin enforcing /\ queue[c] # <<>> /\ Head(queue[c]) \in Tasks
                                    /\ waits[Head(queue[c])] = "enforcing" =>
               queue'[c] # <<>> /\ Head(queue'[c]) = Head(queue[c]),
           \A t \in Tasks : waits[t] = "enforcing" => waits'[t] = "enforcing"
    PROVE  PragmaFirst'
BY DEF PragmaFirst

LEMMA CallStep ==
    ASSUME ConnectorInv, NEW t \in Tasks, NEW statement \in {"query", "define", "names"},
           Call(t, statement)
    PROVE  ConnectorInv'
<1> USE DEF ConnectorInv
<1>1. \A u \in Tasks : waits'[u] = IF u # t THEN waits[u] ELSE IF conn = 0 THEN "opening" ELSE statement
  BY DEF Call, TypeOK
<1>2. \A u \in Tasks : first'[u] = IF u # t THEN first[u] ELSE IF conn = 0 THEN statement ELSE "none"
  BY DEF Call, TypeOK
<1>3. waits' \in [Tasks -> Statements] /\ first' \in [Tasks -> {"none", "query", "define", "names"}]
  BY DEF Call, TypeOK, Statements
<1>4. waits[t] = "nothing" /\ ~Posted(queue, t)
  BY QueueType DEF Call
<1>5. /\ UNCHANGED <<path, conn, opened, live, enforcing, database>>
      /\ raced' \in BOOLEAN /\ (~raced' => ~raced)
  BY DEF Call, TypeOK
<1>6. /\ Placed(queue')
      /\ \A u \in Tasks : Posted(queue', u) <=> waits'[u] \notin {"nothing", "opening", "returned"}
      /\ \A c \in Connections : Contains(queue'[c], Closer) => Contains(queue[c], Closer)
      /\ PragmaFirst'
  <2>1. CASE conn = 0
    <3>1. queue' = queue
      BY <2>1 DEF Call
    <3>2. PragmaFirst'
      BY <3>1, <1>1, <1>4, <1>5, PragmaStays
    <3> QED
      BY <3>1, <3>2, <2>1, <1>1, <1>4, QueueType
  <2>2. CASE conn # 0
    <3>1. queue' = [queue EXCEPT ![conn] = Append(@, t)] /\ conn \in Connections
      BY <2>2, InRange DEF Call
    <3>2. Gained(queue, conn, t, queue')
      BY <3>1, <1>4, QueueType, QueueGrows
    <3>3. t # Closer
      BY TasksAssumption
    <3>4. PragmaFirst'
      <4>1. \A c \in Connections : c > opened => queue'[c] = queue[c]
        BY <3>1, <3>2, InRange DEF Gained
      <4>2. \A c \in Connections : queue[c] # <<>> => queue'[c] # <<>> /\ Head(queue'[c]) = Head(queue[c])
        BY <3>2 DEF Gained
      <4> QED
        BY <4>1, <4>2, <1>1, <1>4, <1>5, PragmaStays
    <3> QED
      BY <3>2, <3>3, <3>4, <2>2, <1>1, <1>4, QueueType DEF Gained
  <2> QED
    BY <2>1, <2>2
<1>7. TypeOK'
  BY <1>3, <1>5, <1>6 DEF TypeOK, Placed, Queues, Statements
<1>8. FirstKept'
  BY <1>1, <1>2 DEF FirstKept
<1>9. OneOpener'
  <2> SUFFICES ASSUME ~raced' PROVE OneOpener'
    BY DEF OneOpener
  <2>1. conn = 0 => \A u \in Tasks : waits[u] # "opening"
    BY DEF Call
  <2>2. conn # 0 => \A u \in Tasks : waits'[u] # "opening"
    BY <1>1, <1>5 DEF OneOpener
  <2> QED
    BY <2>1, <2>2, <1>1, <1>5, <1>6 DEF OneOpener
<1>10. OneConnection'
  BY <1>5 DEF OneConnection
<1> QED
  BY <1>6, <1>7, <1>8, <1>9, <1>10

\* A new connection begins with its PRAGMA.
LEMMA OpenedStep ==
    ASSUME ConnectorInv, NEW t \in Tasks, Opened(t)
    PROVE  ConnectorInv'
<1> USE DEF ConnectorInv
<1>1. \A u \in Tasks : waits'[u] = IF u = t THEN "enforcing" ELSE waits[u]
  BY DEF Opened, TypeOK
<1>2. waits' \in [Tasks -> Statements]
  BY DEF Opened, TypeOK, Statements
<1>3. /\ UNCHANGED <<path, enforcing, database, first, raced>>
      /\ waits[t] = "opening" /\ opened < MaxConnections /\ opened' = opened + 1 /\ conn' = opened + 1
      /\ live' = live \cup {opened + 1}
  BY DEF Opened
<1>4. ~Posted(queue, t)
  BY <1>3, QueueType
<1> DEFINE new == opened + 1
<1>5. /\ new \in Connections /\ new > opened /\ opened \in Nat /\ MaxConnections \in Nat
      /\ queue[new] = <<>>
  BY <1>3, InRange DEF PragmaFirst
<1>6. queue' = [queue EXCEPT ![new] = Append(@, t)]
  BY <1>5 DEF Opened
<1>7. opened' = new /\ conn' = new /\ live' = live \cup {new}
  BY <1>3
<1> HIDE DEF new
<1>8. Gained(queue, new, t, queue') /\ Head(queue'[new]) = t
  <2>1. Gained(queue, new, t, queue')
    BY <1>4, <1>5, <1>6, QueueType, QueueGrows
  <2> QED
    BY <2>1, <1>5 DEF Gained
<1>9. \A u \in Tasks : Posted(queue', u) <=> waits'[u] \notin {"nothing", "opening", "returned"}
  BY <1>1, <1>8, QueueType DEF Gained
<1>10. TypeOK'
  <2>1. new \in 0 .. MaxConnections /\ new \in 1 .. new /\ 1 .. opened \subseteq 1 .. new /\ new \in 0 .. new
    BY <1>5 DEF Connections, new
  <2>2. Placed(queue')
    BY <1>8 DEF Gained
  <2> QED
    BY <2>1, <2>2, <1>2, <1>3, <1>7, <1>9 DEF TypeOK, Placed, Queues, Statements
<1>11. FirstKept'
  BY <1>1, <1>3 DEF FirstKept
<1>12. PragmaFirst'
  <2> SUFFICES ASSUME NEW c \in Connections
               PROVE  IF c > new THEN queue'[c] = <<>>
                      ELSE c \notin enforcing =>
                        queue'[c] # <<>> /\ Head(queue'[c]) \in Tasks /\ waits'[Head(queue'[c])] = "enforcing"
    BY <1>3, <1>7 DEF PragmaFirst
  <2>1. CASE c = new
    <3>1. ~(new > new)
      BY <1>5 DEF Connections
    <3> QED
      BY <2>1, <3>1, <1>1, <1>8 DEF Gained
  <2>2. CASE c # new
    <3>1. queue'[c] = queue[c] /\ (c > new => c > opened) /\ (c > opened => c > new)
      BY <2>2, <1>5, <1>8 DEF Gained, Connections, new
    <3> QED
      BY <3>1, <1>1 DEF PragmaFirst
  <2> QED
    BY <2>1, <2>2
<1>13. OneOpener' /\ OneConnection'
  <2> SUFFICES ASSUME ~raced
               PROVE  /\ \A u \in Tasks : waits'[u] # "opening"
                      /\ \A c \in Connections : ~Contains(queue'[c], Closer)
                      /\ live' \subseteq {conn'}
    BY <1>3 DEF OneOpener, OneConnection
  <2>1. conn = 0 /\ \A u \in Tasks : u # t => waits[u] # "opening"
    BY <1>3 DEF OneOpener
  <2>2. \A c \in Connections : ~Contains(queue[c], Closer)
    BY <2>1 DEF OneOpener, Connections
  <2>3. live = {}
    BY <2>1 DEF OneConnection, TypeOK
  <2> QED
    BY <2>1, <2>2, <2>3, <1>1, <1>7, <1>8, TasksAssumption DEF Gained
<1> QED
  BY <1>10, <1>11, <1>12, <1>13

LEMMA OpenFailsStep ==
    ASSUME ConnectorInv, NEW t \in Tasks, OpenFails(t)
    PROVE  ConnectorInv'
<1> USE DEF ConnectorInv
<1>1. \A u \in Tasks : /\ waits'[u] = IF u = t THEN "nothing" ELSE waits[u]
                       /\ first'[u] = IF u = t THEN "none" ELSE first[u]
  BY DEF OpenFails, TypeOK
<1>2. /\ UNCHANGED <<path, conn, opened, live, queue, enforcing, database, raced>>
      /\ waits[t] = "opening"
  BY DEF OpenFails
<1>3. waits' \in [Tasks -> Statements] /\ first' \in [Tasks -> {"none", "query", "define", "names"}]
  BY DEF OpenFails, TypeOK, Statements
<1>4. \A u \in Tasks : Posted(queue', u) <=> waits'[u] \notin {"nothing", "opening", "returned"}
  BY <1>1, <1>2, QueueType
<1>5. TypeOK'
  BY <1>2, <1>3, <1>4 DEF TypeOK, Statements
<1>6. PragmaFirst'
  BY <1>1, <1>2, PragmaStays
<1> QED
  BY <1>1, <1>2, <1>5, <1>6 DEF FirstKept, OneOpener, OneConnection

\* The PRAGMA is executed, and the call goes on with whatever is in self._conn.
LEMMA EnforcesStep ==
    ASSUME ConnectorInv, NEW c \in Connections, NEW t \in Tasks, Enforces(c, t)
    PROVE  ConnectorInv'
<1> USE DEF ConnectorInv
<1>1. /\ queue[c] # <<>> /\ Head(queue[c]) = t /\ waits[t] = "enforcing" /\ c \in live
      /\ enforcing' = enforcing \cup {c}
      /\ UNCHANGED <<path, conn, opened, live, database, raced>>
  BY DEF Enforces, Executes
<1>2. \A u \in Tasks : /\ waits'[u] = IF u # t THEN waits[u] ELSE IF conn = 0 THEN "nothing" ELSE first[t]
                       /\ first'[u] = IF u = t THEN "none" ELSE first[u]
  BY DEF Enforces, TypeOK
<1>3. first[t] \in {"query", "define", "names"}
  BY <1>1 DEF FirstKept, TypeOK
<1>4. waits' \in [Tasks -> Statements] /\ first' \in [Tasks -> {"none", "query", "define", "names"}]
  BY <1>3 DEF Enforces, TypeOK, Statements
<1>5. PICK rest : rest = [queue EXCEPT ![c] = Tail(@)]
  OBVIOUS
<1>6. Took(queue, c, rest)
  BY <1>1, <1>5, QueueType, QueueTakes
<1>7. /\ Placed(queue')
      /\ \A x : Posted(queue', x) <=> IF x = t THEN conn # 0 ELSE Posted(queue, x)
      /\ \A d \in Connections : Contains(queue'[d], Closer) => Contains(queue[d], Closer)
      /\ \A d \in Connections : d # c /\ queue[d] # <<>> => queue'[d] # <<>> /\ Head(queue'[d]) = Head(queue[d])
      /\ \A d \in Connections : d # c /\ d # conn => queue'[d] = queue[d]
  <2>1. CASE conn = 0
    <3>1. queue' = rest
      BY <2>1, <1>5 DEF Enforces
    <3> QED
      BY <3>1, <2>1, <1>1, <1>6 DEF Took
  <2>2. CASE conn # 0
    <3>1. queue' = [rest EXCEPT ![conn] = Append(@, t)] /\ conn \in Connections
      BY <2>2, <1>5, InRange DEF Enforces
    <3>2. Placed(rest) /\ ~Posted(rest, t)
      BY <1>1, <1>6 DEF Took
    <3>3. Gained(rest, conn, t, queue')
      BY <3>1, <3>2, QueueGrows
    <3>4. Posted(queue, t) /\ t # Closer
      BY <1>1, QueueType, TasksAssumption
    <3> QED
      BY <3>3, <3>4, <2>2, <1>1, <1>6 DEF Took, Gained
  <2> QED
    BY <2>1, <2>2
<1>8. \A u \in Tasks : Posted(queue', u) <=> waits'[u] \notin {"nothing", "opening", "returned"}
  BY <1>1, <1>2, <1>3, <1>7, QueueType
<1>9. TypeOK'
  BY <1>1, <1>4, <1>7, <1>8 DEF TypeOK, Placed, Queues, Statements
<1>10. FirstKept'
  BY <1>2, <1>3 DEF FirstKept
<1>11. PragmaFirst'
  <2> SUFFICES ASSUME NEW d \in Connections
               PROVE  IF d > opened THEN queue'[d] = <<>>
                      ELSE d \notin enforcing' =>
                        queue'[d] # <<>> /\ Head(queue'[d]) \in Tasks /\ waits'[Head(queue'[d])] = "enforcing"
    BY <1>1 DEF PragmaFirst
  <2>1. CASE d > opened
    BY <2>1, <1>1, <1>7, InRange DEF PragmaFirst
  <2>2. CASE ~(d > opened) /\ d \notin enforcing'
    <3>1. d # c /\ d \notin enforcing
      BY <2>2, <1>1
    <3>2. queue[d] # <<>> /\ Head(queue[d]) \in Tasks /\ waits[Head(queue[d])] = "enforcing"
      BY <2>2, <3>1 DEF PragmaFirst
    <3>3. Head(queue[d]) # t
      BY <3>1, <3>2, <1>1, QueueType, OnlyPlace DEF Placed
    <3> QED
      BY <3>1, <3>2, <3>3, <2>2, <1>2, <1>7
  <2> QED
    BY <2>1, <2>2
<1>12. OneOpener' /\ OneConnection'
  BY <1>1, <1>2, <1>3, <1>7 DEF OneOpener, OneConnection
<1> QED
  BY <1>9, <1>10, <1>11, <1>12

-----------------------------------------------------------------------------
(* Statements                                                               *)

\* A statement was executed or failed, and its task posts another one, or none.
\* Whatever became of the tables.
LEMMA StatementStep ==
    ASSUME ConnectorInv, NEW c \in Connections, NEW t \in Tasks,
           queue[c] # <<>>, Head(queue[c]) = t, waits[t] # "enforcing",
           NEW next \in {"nothing", "returned", "keys", "columns"},
           waits' = [waits EXCEPT ![t] = next],
           queue' = [queue EXCEPT ![c] = IF next \in {"nothing", "returned"} THEN Tail(@) ELSE Append(Tail(@), t)],
           database' \in [0 .. MaxConnections -> Databases],
           UNCHANGED <<path, conn, opened, live, enforcing, first, raced>>
    PROVE  ConnectorInv'
<1> USE DEF ConnectorInv
<1>1. \A u \in Tasks : waits'[u] = IF u = t THEN next ELSE waits[u]
  BY DEF TypeOK
<1>2. waits' \in [Tasks -> Statements]
  BY DEF TypeOK, Statements
<1>3. /\ Placed(queue')
      /\ \A x : Posted(queue', x) <=> IF x = t THEN next \notin {"nothing", "returned"} ELSE Posted(queue, x)
      /\ \A d \in Connections : Contains(queue'[d], Closer) => Contains(queue[d], Closer)
      /\ \A d \in Connections : d # c => queue'[d] = queue[d]
  <2>1. CASE next \in {"nothing", "returned"}
    <3>1. queue' = [queue EXCEPT ![c] = Tail(@)]
      BY <2>1
    <3>2. Took(queue, c, queue')
      BY <3>1, QueueType, QueueTakes
    <3> QED
      BY <3>2, <2>1 DEF Took
  <2>2. CASE next \notin {"nothing", "returned"}
    <3>1. queue' = [queue EXCEPT ![c] = Append(Tail(@), Head(queue[c]))]
      BY <2>2
    <3>2. Turned(queue, c, queue') /\ Posted(queue, t)
      BY <3>1, QueueType, QueueTurns
    <3> QED
      BY <3>2, <2>2 DEF Turned
  <2> QED
    BY <2>1, <2>2
<1>4. \A u \in Tasks : Posted(queue', u) <=> waits'[u] \notin {"nothing", "opening", "returned"}
  BY <1>1, <1>3, QueueType
<1>5. TypeOK'
  BY <1>2, <1>3, <1>4 DEF TypeOK, Placed, Queues, Statements
<1>6. FirstKept'
  BY <1>1 DEF FirstKept
<1>7. PragmaFirst'
  <2>1. \A d \in Connections : d > opened => queue'[d] = queue[d]
    BY <1>3 DEF PragmaFirst
  <2>2. \A d \in Connections : queue[d] # <<>> /\ Head(queue[d]) \in Tasks /\ waits[Head(queue[d])] = "enforcing"
          => queue'[d] = queue[d]
    BY <1>3
  <2> QED
    BY <2>1, <2>2, <1>1, PragmaStays
<1>8. OneOpener' /\ OneConnection'
  BY <1>1, <1>3 DEF OneOpener, OneConnection
<1> QED
  BY <1>5, <1>6, <1>7, <1>8

LEMMA ExecutedStep ==
    ASSUME ConnectorInv, NEW c \in Connections, NEW t \in Tasks,
           Queries(c, t) \/ Defines(c, t) \/ StatementFails(c, t) \/ Fetches(c, t)
    PROVE  ConnectorInv'
<1> USE DEF ConnectorInv
<1>1. database \in [0 .. MaxConnections -> Databases] /\ waits \in [Tasks -> Statements]
  BY DEF TypeOK, Statements
<1>2. CASE Queries(c, t)
  <2>1. /\ queue[c] # <<>> /\ Head(queue[c]) = t /\ waits[t] # "enforcing"
        /\ waits' = [waits EXCEPT ![t] = "nothing"] /\ queue' = [queue EXCEPT ![c] = Tail(@)]
        /\ UNCHANGED <<path, conn, opened, live, enforcing, database, first, raced>>
    BY <1>2 DEF Queries, Executes, Finishes
  <2> QED
    BY <2>1, <1>1, StatementStep
<1>3. CASE StatementFails(c, t)
  <2>1. /\ queue[c] # <<>> /\ Head(queue[c]) = t /\ waits[t] # "enforcing"
        /\ waits' = [waits EXCEPT ![t] = "nothing"] /\ queue' = [queue EXCEPT ![c] = Tail(@)]
        /\ UNCHANGED <<path, conn, opened, live, enforcing, database, first, raced>>
    BY <1>3 DEF StatementFails, Finishes
  <2> QED
    BY <2>1, <1>1, StatementStep
<1>4. CASE Defines(c, t)
  <2>1. /\ queue[c] # <<>> /\ Head(queue[c]) = t /\ waits[t] # "enforcing"
        /\ waits' = [waits EXCEPT ![t] = "nothing"] /\ queue' = [queue EXCEPT ![c] = Tail(@)]
        /\ UNCHANGED <<path, conn, opened, live, enforcing, first, raced>>
    BY <1>4 DEF Defines, Executes
  <2>2. PICK table \in Tables, definition \in Definitions \cup {Absent} :
          database' = [database EXCEPT ![Home(c)][table] = definition]
    BY <1>4 DEF Defines
  <2>3. database' \in [0 .. MaxConnections -> Databases]
    BY <2>2, <1>1 DEF Databases
  <2> QED
    BY <2>1, <2>3, <1>1, StatementStep
<1>5. CASE Fetches(c, t)
  <2>1. \E next \in {"returned", "keys", "columns"} : waits[t] \in {"names", "keys", "columns"} /\ Goes(c, t, next)
    BY <1>5 DEF Fetches, ReadsNames, ReadsKeys, ReadsColumns, AfterTable, Executes
  <2>2. PICK next \in {"returned", "keys", "columns"} : Goes(c, t, next)
    BY <2>1
  <2>3. queue[c] # <<>> /\ Head(queue[c]) = t /\ waits[t] # "enforcing"
    BY <1>5 DEF Fetches, ReadsNames, ReadsKeys, ReadsColumns, Executes
  <2>4. /\ waits' = [waits EXCEPT ![t] = next]
        /\ queue' = [queue EXCEPT ![c] = IF next \in {"nothing", "returned"} THEN Tail(@) ELSE Append(Tail(@), t)]
        /\ UNCHANGED <<path, conn, opened, live, enforcing, database, first, raced>>
    BY <2>2 DEF Goes
  <2> QED
    BY <2>3, <2>4, <1>1, StatementStep
<1> QED
  BY <1>2, <1>3, <1>4, <1>5

LEMMA ReturnedStep ==
    ASSUME ConnectorInv, NEW t \in Tasks, Returned(t)
    PROVE  ConnectorInv'
<1> USE DEF ConnectorInv
<1>1. \A u \in Tasks : waits'[u] = IF u = t THEN "nothing" ELSE waits[u]
  BY DEF Returned, TypeOK
<1>2. /\ UNCHANGED <<path, conn, opened, live, queue, enforcing, database, first, raced>>
      /\ waits[t] = "returned" /\ waits' \in [Tasks -> Statements]
  BY DEF Returned, TypeOK, Statements
<1>3. \A u \in Tasks : Posted(queue', u) <=> waits'[u] \notin {"nothing", "opening", "returned"}
  BY <1>1, <1>2, QueueType
<1>4. TypeOK'
  BY <1>2, <1>3 DEF TypeOK, Statements
<1>5. PragmaFirst'
  BY <1>1, <1>2, PragmaStays
<1> QED
  BY <1>1, <1>2, <1>4, <1>5 DEF FirstKept, OneOpener, OneConnection

-----------------------------------------------------------------------------
(* close                                                                    *)

LEMMA CloseStep ==
    ASSUME ConnectorInv, Close
    PROVE  ConnectorInv'
<1> USE DEF ConnectorInv
<1>1. /\ conn # 0 /\ conn \in Connections /\ ~Posted(queue, Closer)
      /\ queue' = [queue EXCEPT ![conn] = Append(@, Closer)]
      /\ UNCHANGED <<path, conn, opened, live, enforcing, database, waits, first, raced>>
  BY InRange DEF Close, Posted
<1>2. Gained(queue, conn, Closer, queue')
  BY <1>1, QueueType, QueueGrows
<1>3. \A u \in Tasks : Posted(queue', u) <=> waits'[u] \notin {"nothing", "opening", "returned"}
  BY <1>1, <1>2, QueueType, TasksAssumption DEF Gained
<1>4. TypeOK'
  BY <1>1, <1>2, <1>3 DEF TypeOK, Gained, Placed, Queues
<1>5. PragmaFirst'
  <2>1. \A c \in Connections : c > opened => queue'[c] = queue[c]
    BY <1>1, <1>2, InRange DEF Gained
  <2>2. \A c \in Connections : queue[c] # <<>> => queue'[c] # <<>> /\ Head(queue'[c]) = Head(queue[c])
    BY <1>2 DEF Gained
  <2> QED
    BY <2>1, <2>2, <1>1, PragmaStays
<1> QED
  BY <1>1, <1>2, <1>4, <1>5 DEF FirstKept, OneOpener, OneConnection, Gained

LEMMA ClosesStep ==
    ASSUME ConnectorInv, NEW c \in Connections, Closes(c)
    PROVE  ConnectorInv'
<1> USE DEF ConnectorInv
<1>1. /\ queue[c] # <<>> /\ Head(queue[c]) = Closer
      /\ queue' = [queue EXCEPT ![c] = Tail(@)] /\ live' = live \ {c} /\ conn' = 0
      /\ UNCHANGED <<path, opened, enforcing, waits, first, raced>>
  BY DEF Closes
<1>2. Took(queue, c, queue')
  BY <1>1, QueueType, QueueTakes
<1>3. database' \in [0 .. MaxConnections -> Databases]
  BY DEF Closes, TypeOK, Databases, NoTables
<1>4. \A u \in Tasks : Posted(queue', u) <=> waits'[u] \notin {"nothing", "opening", "returned"}
  BY <1>1, <1>2, QueueType, TasksAssumption DEF Took
<1>5. TypeOK'
  <2>1. path' \in Paths /\ conn' \in 0 .. opened' /\ opened' \in 0 .. MaxConnections
    BY <1>1, InRange DEF TypeOK
  <2>2. live' \subseteq 1 .. opened' /\ enforcing' \subseteq 1 .. opened' /\ raced' \in BOOLEAN
    BY <1>1 DEF TypeOK
  <2> QED
    BY <2>1, <2>2, <1>1, <1>2, <1>3, <1>4 DEF TypeOK, Took, Placed, Queues
<1>6. PragmaFirst'
  <2>1. \A d \in Connections : d > opened => queue'[d] = queue[d]
    BY <1>1, <1>2 DEF PragmaFirst, Took
  <2>2. \A d \in Connections : queue[d] # <<>> /\ Head(queue[d]) \in Tasks => queue'[d] = queue[d]
    BY <1>1, <1>2, TasksAssumption DEF Took
  <2> QED
    BY <2>1, <2>2, <1>1, PragmaStays
<1>7. OneOpener' /\ OneConnection'
  <2> SUFFICES ASSUME ~raced
               PROVE  /\ \A t \in Tasks : waits[t] # "opening"
                      /\ \A d \in Connections : ~Contains(queue'[d], Closer)
                      /\ live' = {}
    BY <1>1 DEF OneOpener, OneConnection
  <2>1. Contains(queue[c], Closer)
    BY <1>1, QueueType DEF Contains, Placed, Queues
  <2>2. c = conn /\ conn # 0
    BY <2>1 DEF OneOpener, Connections
  <2>3. ~Posted(queue', Closer)
    BY <1>1, <1>2 DEF Took
  <2> QED
    BY <2>2, <2>3, <1>1 DEF OneOpener, OneConnection, Posted
<1> QED
  BY <1>1, <1>5, <1>6, <1>7 DEF FirstKept

-----------------------------------------------------------------------------
(* Theorems                                                                 *)

LEMMA NextConnector == ConnectorInv /\ [Next]_vars => ConnectorInv'
<1> SUFFICES ASSUME ConnectorInv, [Next]_vars PROVE ConnectorInv'
  OBVIOUS
<1>1. ASSUME NEW t \in Tasks, NEW statement \in {"query", "define", "names"}, Call(t, statement)
      PROVE  ConnectorInv'
  BY <1>1, CallStep
<1>2. ASSUME NEW t \in Tasks, Opened(t) \/ OpenFails(t) \/ Returned(t) PROVE ConnectorInv'
  BY <1>2, OpenedStep, OpenFailsStep, ReturnedStep
<1>3. ASSUME NEW c \in Connections, NEW t \in Tasks,
             Enforces(c, t) \/ Queries(c, t) \/ Defines(c, t) \/ StatementFails(c, t) \/ Fetches(c, t)
      PROVE  ConnectorInv'
  BY <1>3, EnforcesStep, ExecutedStep
<1>4. CASE Close
  BY <1>4, CloseStep
<1>5. ASSUME NEW c \in Connections, Closes(c) PROVE ConnectorInv'
  BY <1>5, ClosesStep
<1>6. CASE UNCHANGED vars
  BY <1>6 DEF vars, ConnectorInv, TypeOK, FirstKept, PragmaFirst, OneOpener, OneConnection, Posted, PlacedOnce
<1> QED
  BY <1>1, <1>2, <1>3, <1>4, <1>5, <1>6 DEF Next

\* The invariant holds whatever calls overlap, fail, or find the connector closed.
THEOREM ConnectorInvariant == Spec => []ConnectorInv
<1>1. Init => ConnectorInv
  BY InitConnector
<1>2. ConnectorInv /\ [Next]_vars => ConnectorInv'
  BY NextConnector
<1> QED
  BY <1>1, <1>2, PTL DEF Spec

\* A statement waits at one place of one queue, for as long as its task waits
\* for it: none is lost when connections are replaced or closed under it.
THEOREM PostedOnce == Spec => []TypeOK
<1>1. ConnectorInv => TypeOK
  BY DEF ConnectorInv
<1> QED
  BY <1>1, ConnectorInvariant, PTL

\* No connection executes a statement before PRAGMA foreign_keys = ON, although
\* self._conn is set before the PRAGMA is executed.
THEOREM KeysAlwaysEnforced == Spec => []KeysEnforced
<1>1. ConnectorInv => KeysEnforced
  BY InRange DEF ConnectorInv, PragmaFirst, KeysEnforced, TypeOK, Connections
<1> QED
  BY <1>1, ConnectorInvariant, PTL

\* As long as no two first calls overlap, the connection in self._conn is the
\* only one that is open.
THEOREM OneConnectionOpen == Spec => []OneConnection
<1>1. ConnectorInv => OneConnection
  BY DEF ConnectorInv
<1> QED
  BY <1>1, ConnectorInvariant, PTL

-----------------------------------------------------------------------------
(* fetch_schema                                                             *)

LEMMA TablesOfLines ==
    ASSUME NEW rows \in Seq(Rows)
    PROVE  /\ TablesOf(Context(rows)) \in Seq(Tables)
           /\ Len(TablesOf(Context(rows))) = Len(Context(rows))
           /\ \A k \in 1 .. Len(Context(rows)) : TablesOf(Context(rows))[k] = Context(rows)[k].table
<1> DEFINE context == Context(rows)
           n == Len(context)
<1>1. context \in Seq(Lines)
  BY ContextLines
<1> HIDE DEF context
<1>2. n \in Nat /\ DOMAIN context = 1 .. n /\ \A k \in 1 .. n : context[k] \in Lines
  BY <1>1
<1>3. \A k \in 1 .. n : context[k].table \in Tables
  BY <1>2 DEF Lines
<1>4. TablesOf(context) = [k \in 1 .. n |-> context[k].table]
  BY <1>2 DEF TablesOf
<1> HIDE DEF n
<1> QED
  BY <1>2, <1>3, <1>4 DEF context, n

\* The list of tables read and to be read, position by position.
LEMMA TableList ==
    ASSUME NEW rows \in Seq(Rows), NEW left \in Seq(Tables)
    PROVE  LET context == Context(rows)
               tables == TablesOf(context) \o left
               n == Len(context)
           IN  /\ n \in Nat /\ DOMAIN context = 1 .. n
               /\ tables \in Seq(Tables) /\ DOMAIN tables = 1 .. n + Len(left) /\ Len(tables) = n + Len(left)
               /\ \A k \in 1 .. n : tables[k] = context[k].table
               /\ \A k \in 1 .. Len(left) : tables[n + k] = left[k]
<1> DEFINE context == Context(rows)
           read == TablesOf(context)
           n == Len(context)
<1>1. context \in Seq(Lines)
  BY ContextLines
<1>2. read \in Seq(Tables) /\ Len(read) = n /\ \A k \in 1 .. n : read[k] = context[k].table
  BY TablesOfLines
<1> HIDE DEF context, read
<1>3. n \in Nat /\ DOMAIN context = 1 .. n
  BY <1>1
<1>4. /\ read \o left \in Seq(Tables) /\ DOMAIN (read \o left) = 1 .. n + Len(left)
      /\ Len(read \o left) = n + Len(left)
      /\ \A k \in 1 .. n : (read \o left)[k] = read[k]
      /\ \A k \in 1 .. Len(left) : (read \o left)[n + k] = left[k]
  <2>1. Concats(Tables, read, left)
    BY <1>2, Concatenated
  <2> QED
    BY <1>2, <2>1 DEF Concats
<1> QED
  BY <1>2, <1>3, <1>4 DEF context, read

LEMMA WholeStays ==
    ASSUME NEW line, NEW databases, NEW more, databases \subseteq more, IsWhole(line, databases)
    PROVE  IsWhole(line, more)
<1> DEFINE had == {db[line.table] : db \in databases} \ {Absent}
           now == {db[line.table] : db \in more} \ {Absent}
<1>1. had \subseteq now
  OBVIOUS
<1>2. /\ \E definition \in had : ColumnsOf(line) = definition.columns
      /\ \A i \in DOMAIN line.columns :
            line.columns[i].references \subseteq
                UNION {Targets(definition, line.columns[i].column) : definition \in had}
  BY DEF IsWhole
<1> HIDE DEF had, now
<1>3. \A i \in DOMAIN line.columns :
        UNION {Targets(definition, line.columns[i].column) : definition \in had} \subseteq
            UNION {Targets(definition, line.columns[i].column) : definition \in now}
  BY <1>1
<1>4. \A i \in DOMAIN line.columns :
        line.columns[i].references \subseteq
            UNION {Targets(definition, line.columns[i].column) : definition \in now}
  BY <1>2, <1>3
<1> QED
  BY <1>1, <1>2, <1>4 DEF IsWhole, now

\* The tables changed meanwhile.
LEMMA ReadsMore ==
    ASSUME NEW statement, NEW local, NEW databases, Reads(statement, local, databases), NEW db
    PROVE  Reads(statement, local, databases \cup {db})
<1> DEFINE more == databases \cup {db}
           context == Context(local.rows)
           tables == TablesOf(context) \o local.left
<1>1. \A k \in DOMAIN context : IsWhole(context[k], more)
  BY WholeStays DEF Reads
<1>2. \A base \in more : more = {base} => base \in databases /\ databases = {base}
  BY DEF Reads
<1>3. statement = "columns" => \E base \in more : local.map = KeyMap(Definition(base, Head(local.left)))
  BY DEF Reads
<1>4. \A base \in more : more = {base} =>
        /\ tables = Existing(base)
        /\ \A k \in DOMAIN context : Shows(context[k], base[context[k].table])
  <2> TAKE base \in more
  <2> HAVE more = {base}
  <2>1. base \in databases /\ databases = {base}
    BY <1>2
  <2> QED
    BY <2>1 DEF Reads
<1> QED
  BY <1>1, <1>3, <1>4 DEF Reads

\* The names of the tables are read.
LEMMA ReadsBegin ==
    ASSUME NEW db \in Databases, NEW local, local.rows = <<>>, local.left = Existing(db)
    PROVE  Reads(AfterTable(local.left), local, {db})
<1> DEFINE context == Context(local.rows)
           names == Existing(db)
           tables == TablesOf(context) \o names
<1>1. names \in Seq(Tables) /\ IsInjective(names)
  BY ExistingTables
<1>2. context = <<>>
  <2>1. <<>> \in Seq(Rows) /\ Beginnings(<<>>) = <<>>
    BY AtEmpty DEF Beginnings
  <2>2. Context(<<>>) \in Seq(Lines) /\ Len(Context(<<>>)) = 0
    BY <2>1, ContextLines
  <2> QED
    BY <2>2
<1>3. TablesOf(context) = <<>>
  BY <1>2 DEF TablesOf
<1>4. tables = names
  BY <1>1, <1>3, ConcatEmptySeq
<1>5. AfterTable(names) # "columns" /\ (AfterTable(names) = "returned" <=> names = <<>>)
  BY DEF AfterTable
<1>6. DOMAIN context = {}
  BY <1>2
<1>7. Grouped(local.rows)
  BY GroupedNone
<1> HIDE DEF names, context
<1> QED
  BY <1>1, <1>4, <1>5, <1>6, <1>7 DEF Reads, names, context

\* The keys of the next table are read.
LEMMA ReadsItsKeys ==
    ASSUME NEW local, NEW databases, Reads("keys", local, databases), NEW db \in databases,
           NEW after, after.left = local.left, after.rows = local.rows,
           after.map = KeyMap(Definition(db, Head(local.left)))
    PROVE  Reads("columns", after, databases)
BY DEF Reads

\* A table that is gone has no columns to read.
LEMMA ReadsNothing ==
    ASSUME NEW local, NEW databases \in SUBSET Databases, Reads("columns", local, databases),
           local.left \in Seq(Tables), local.rows \in Seq(Rows), local.left # <<>>,
           NEW db \in databases, db[Head(local.left)] = Absent,
           NEW after, after.left = Tail(local.left), after.rows = local.rows
    PROVE  Reads(AfterTable(Tail(local.left)), after, databases)
<1> DEFINE left == local.left
           rest == Tail(left)
           context == Context(local.rows)
           n == Len(context)
           tables == TablesOf(context) \o left
           now == TablesOf(context) \o rest
<1>1. /\ rest \in Seq(Tables) /\ Len(rest) = Len(left) - 1 /\ Len(left) \in Nat \ {0}
      /\ \A k \in 1 .. Len(rest) : rest[k] = left[k + 1]
      /\ Head(left) = left[1]
  <2>1. left \in Seq(Tables) /\ left # <<>>
    OBVIOUS
  <2> HIDE DEF left
  <2> QED
    BY <2>1
<1> HIDE DEF rest
<1>2. /\ n \in Nat /\ DOMAIN tables = 1 .. n + Len(left)
      /\ \A k \in 1 .. n : tables[k] = context[k].table
      /\ \A k \in 1 .. Len(left) : tables[n + k] = left[k]
  BY TableList
<1>3. /\ DOMAIN now = 1 .. n + Len(rest)
      /\ \A k \in 1 .. n : now[k] = context[k].table
      /\ \A k \in 1 .. Len(rest) : now[n + k] = rest[k]
  BY <1>1, TableList
<1>4. IsInjective(tables) /\ databases # {} /\ \A k \in DOMAIN context : IsWhole(context[k], databases)
  BY DEF Reads
<1>5. IsInjective(now)
  <2> DEFINE Place(k) == IF k \in 1 .. n THEN k ELSE k + 1
  <2> HIDE DEF tables, now, left, context, n
  <2>1. \A k \in DOMAIN now : Place(k) \in DOMAIN tables /\ now[k] = tables[Place(k)]
    <3> TAKE k \in DOMAIN now
    <3>1. CASE k \in 1 .. n
      BY <1>1, <1>2, <1>3, <3>1
    <3>2. CASE k \notin 1 .. n
      <4> DEFINE j == k - n
      <4>1. j \in 1 .. Len(rest) /\ k = n + j
        BY <1>1, <1>2, <1>3, <3>2
      <4>2. j + 1 \in 1 .. Len(left) /\ k + 1 = n + (j + 1)
        <5> DEFINE a == Len(rest)
                   b == Len(left)
        <5>1. b \in Nat /\ a = b - 1 /\ n \in Nat /\ j \in 1 .. a /\ k = n + j
          BY <1>1, <1>2, <4>1
        <5> HIDE DEF a, b, j
        <5>2. j + 1 \in 1 .. b /\ k + 1 = n + (j + 1)
          BY <5>1
        <5> QED
          BY <5>2 DEF b
      <4> HIDE DEF j
      <4>3. now[k] = left[j + 1] /\ tables[k + 1] = left[j + 1]
        BY <1>1, <1>2, <1>3, <4>1, <4>2
      <4>4. k + 1 \in DOMAIN tables
        BY <1>1, <1>2, <4>1, <4>2
      <4> QED
        BY <3>2, <4>3, <4>4
    <3> QED
      BY <3>1, <3>2
  <2>2. \A j, k \in DOMAIN now : Place(j) = Place(k) => j = k
    <3>1. DOMAIN now \subseteq Nat \ {0}
      BY <1>3
    <3>2. \A j, k \in Nat \ {0} : Place(j) = Place(k) => j = k
      BY <1>2
    <3> HIDE DEF Place
    <3> QED
      BY <3>1, <3>2
  <2> QED
    BY <1>4, <2>1, <2>2 DEF IsInjective
<1>6. ASSUME NEW base \in databases, databases = {base} PROVE FALSE
  <2>1. base = db /\ tables = Existing(base)
    BY <1>6 DEF Reads
  <2>2. n + 1 \in DOMAIN tables /\ tables[n + 1] = Head(left)
    <3> HIDE DEF n, tables, left
    <3>1. 1 \in 1 .. Len(left)
      BY <1>1
    <3> QED
      BY <1>1, <1>2, <3>1
  <2>3. base[tables[n + 1]] # Absent
    BY <2>1, <2>2, ExistingTables
  <2> QED
    BY <2>1, <2>2, <2>3
<1>7. AfterTable(rest) # "columns" /\ (AfterTable(rest) = "returned" <=> rest = <<>>)
  BY DEF AfterTable
<1>8. Context(after.rows) = context /\ after.left = rest /\ Grouped(after.rows)
  BY DEF rest, Reads
<1> HIDE DEF context, rest, tables, now, n
<1>9. Reads(AfterTable(rest), after, databases)
  BY <1>4, <1>5, <1>6, <1>7, <1>8 DEF Reads, now
<1> QED
  BY <1>9 DEF rest

\* The columns of the next table are read: it is one line more.
LEMMA ReadsItsColumns ==
    ASSUME NEW local, NEW databases \in SUBSET Databases, Reads("columns", local, databases),
           local.left \in Seq(Tables), local.rows \in Seq(Rows), local.left # <<>>,
           NEW db \in databases, db[Head(local.left)] # Absent,
           NEW after, after.left = Tail(local.left),
           after.rows = local.rows \o SqliteRows(Head(local.left), db[Head(local.left)].columns, local.map)
    PROVE  Reads(AfterTable(Tail(local.left)), after, databases)
<1> DEFINE left == local.left
           rows == local.rows
           table == Head(left)
           rest == Tail(left)
           new == SqliteRows(table, db[table].columns, local.map)
           line == [table |-> table, columns |-> new]
           context == Context(rows)
           n == Len(context)
           tables == TablesOf(context) \o left
           grown == Context(rows \o new)
           now == TablesOf(grown) \o rest
<1>1. /\ rest \in Seq(Tables) /\ Len(rest) = Len(left) - 1 /\ Len(left) \in Nat \ {0}
      /\ \A k \in 1 .. Len(rest) : rest[k] = left[k + 1]
      /\ table = left[1] /\ table \in Tables
  <2>1. left \in Seq(Tables) /\ left # <<>>
    OBVIOUS
  <2> HIDE DEF left
  <2> QED
    BY <2>1
<1>2. /\ n \in Nat /\ DOMAIN context = 1 .. n /\ tables \in Seq(Tables) /\ Len(tables) = n + Len(left)
      /\ DOMAIN tables = 1 .. n + Len(left)
      /\ \A k \in 1 .. n : tables[k] = context[k].table
      /\ \A k \in 1 .. Len(left) : tables[n + k] = left[k]
  BY TableList
<1>3. IsInjective(tables) /\ databases # {} /\ \A k \in DOMAIN context : IsWhole(context[k], databases)
  BY DEF Reads
<1>4. PICK before \in databases : local.map = KeyMap(Definition(before, table))
  BY DEF Reads
<1>5. /\ Definition(db, table) \in Tabular /\ Definition(db, table) = db[table]
      /\ db[table].columns \in Seq(Columns) /\ db[table].columns # <<>>
      /\ Definition(before, table) \in Tabular
  <2>1. /\ Definition(db, table) \in Tabular /\ Definition(db, table) = db[table] /\ db[table].columns # <<>>
        /\ Definition(before, table) \in Tabular
    BY <1>1, DefinitionTypes
  <2>2. db[table].columns \in Seq(Columns)
    BY <2>1 DEF Tabular
  <2> QED
    BY <2>1, <2>2
<1>6. new \in Seq(Rows) /\ new # <<>> /\ \A i \in DOMAIN new : new[i].table = table
  <2>1. Arrows(local.map)
    BY <1>4, <1>5, MapArrows
  <2> DEFINE columns == db[table].columns
  <2>2. columns \in Seq(Columns) /\ columns # <<>>
    BY <1>5
  <2>3. new = SqliteRows(table, columns, local.map)
    OBVIOUS
  <2> HIDE DEF columns, new, table
  <2>4. new \in Seq(Rows) /\ Len(new) = Len(columns) /\ \A i \in DOMAIN new : new[i].table = table
    <3> DEFINE map == local.map
    <3>1. Arrows(map) /\ new = SqliteRows(table, columns, map) /\ table \in Tables
      BY <1>1, <2>1, <2>3
    <3> HIDE DEF map
    <3>2. AreRows(new, table, columns, map)
      BY <2>2, <3>1, RowsOfColumns
    <3> QED
      BY <3>2 DEF AreRows
  <2> QED
    BY <2>2, <2>4
<1>7. OfNewTable(rows, new, table)
  <2> SUFFICES ASSUME NEW i \in DOMAIN rows, rows[i].table = table PROVE FALSE
    BY <1>6 DEF OfNewTable
  <2>1. PICK k \in DOMAIN context : context[k].table = table
    BY RowsAreShown
  <2>2. /\ k \in DOMAIN tables /\ n + 1 \in DOMAIN tables /\ k # n + 1
        /\ tables[k] = table /\ tables[n + 1] = table
    <3> HIDE DEF n, context, tables, left, table
    <3>1. 1 \in 1 .. Len(left) /\ k \in 1 .. n /\ n \in Nat /\ k # n + 1
      BY <1>1, <1>2
    <3>2. k \in 1 .. n + Len(left) /\ n + 1 \in 1 .. n + Len(left)
      BY <1>1, <3>1
    <3> QED
      BY <1>1, <1>2, <2>1, <3>1, <3>2
  <2> HIDE DEF tables
  <2> QED
    BY <1>3, <2>2 DEF IsInjective
<1>8. /\ Len(grown) = n + 1
      /\ \A k \in 1 .. n : grown[k] = context[k] /\ context[k].table # table
      /\ grown[n + 1] = line
  <2> HIDE DEF new, table, rows
  <2>1. rows \in Seq(Rows)
    BY DEF rows
  <2> QED
    BY <1>6, <1>7, <2>1, ContextGrows
<1>9. rows \o new \in Seq(Rows)
  BY <1>6
<1>10. /\ now \in Seq(Tables) /\ Len(now) = (n + 1) + Len(rest) /\ DOMAIN grown = 1 .. n + 1
       /\ \A k \in 1 .. n + 1 : now[k] = grown[k].table
       /\ \A k \in 1 .. Len(rest) : now[(n + 1) + k] = rest[k]
  <2> DEFINE all == rows \o new
  <2>1. all \in Seq(Rows) /\ Len(Context(all)) = n + 1
    BY <1>8, <1>9
  <2> HIDE DEF all, n, rest
  <2>2. /\ TablesOf(Context(all)) \o rest \in Seq(Tables)
        /\ Len(TablesOf(Context(all)) \o rest) = (n + 1) + Len(rest)
        /\ DOMAIN Context(all) = 1 .. n + 1
        /\ \A k \in 1 .. n + 1 : (TablesOf(Context(all)) \o rest)[k] = Context(all)[k].table
        /\ \A k \in 1 .. Len(rest) : (TablesOf(Context(all)) \o rest)[(n + 1) + k] = rest[k]
    <3> DEFINE c == Context(all)
    <3>1. /\ DOMAIN c = 1 .. Len(c)
          /\ TablesOf(c) \o rest \in Seq(Tables)
          /\ Len(TablesOf(c) \o rest) = Len(c) + Len(rest)
          /\ \A k \in 1 .. Len(c) : (TablesOf(c) \o rest)[k] = c[k].table
          /\ \A k \in 1 .. Len(rest) : (TablesOf(c) \o rest)[Len(c) + k] = rest[k]
      BY <1>1, <2>1, TableList
    <3>2. Len(c) = n + 1
      BY <2>1
    <3> HIDE DEF c
    <3>3. /\ TablesOf(c) \o rest \in Seq(Tables)
          /\ Len(TablesOf(c) \o rest) = (n + 1) + Len(rest)
          /\ DOMAIN c = 1 .. n + 1
          /\ \A k \in 1 .. n + 1 : (TablesOf(c) \o rest)[k] = c[k].table
          /\ \A k \in 1 .. Len(rest) : (TablesOf(c) \o rest)[(n + 1) + k] = rest[k]
      BY <3>1, <3>2
    <3> QED
      BY <3>3 DEF c
  <2> QED
    BY <2>2 DEF all
<1>11. line.table = table /\ line.columns = new
  OBVIOUS
<1>12. /\ IsWhole(line, databases)
       /\ databases = {db} => Shows(line, db[table])
  <2>1. IsWhole(line, databases)
    BY <1>1, <1>4, LineWhole
  <2>2. ASSUME databases = {db} PROVE Shows(line, db[table])
    <3>1. before = db
      BY <2>2
    <3> DEFINE d == db[table]
    <3>2. local.map = KeyMap(d) /\ d \in Tabular
      BY <1>4, <1>5, <3>1
    <3>3. line = [table |-> table, columns |-> SqliteRows(table, d.columns, KeyMap(d))]
      BY <3>2
    <3> HIDE DEF d, line, table
    <3>4. Shows(line, d)
      BY <1>1, <3>2, <3>3, LineShows
    <3> QED
      BY <3>4 DEF d
  <2> QED
    BY <2>1, <2>2
<1>13. now = tables
  <2> HIDE DEF now, tables, grown, line, context, left, rest, n, table
  <2>1. Len(now) = Len(tables)
    BY <1>1, <1>2, <1>10
  <2>2. \A k \in 1 .. Len(now) : now[k] = tables[k]
    <3> TAKE k \in 1 .. Len(now)
    <3>1. CASE k \in 1 .. n
      <4>1. k \in 1 .. n + 1
        BY <1>2, <3>1
      <4>2. now[k] = grown[k].table /\ grown[k] = context[k]
        BY <1>8, <1>10, <3>1, <4>1
      <4>3. tables[k] = context[k].table
        BY <1>2, <3>1
      <4> QED
        BY <4>2, <4>3
    <3>2. CASE k = n + 1
      <4>1. k \in 1 .. n + 1 /\ 1 \in 1 .. Len(left)
        BY <1>1, <1>2, <3>2
      <4> QED
        BY <1>1, <1>2, <1>8, <1>10, <1>11, <3>2, <4>1
    <3>3. CASE k \notin 1 .. n /\ k # n + 1
      <4> DEFINE j == k - (n + 1)
      <4>1. j \in 1 .. Len(rest) /\ k = (n + 1) + j /\ j + 1 \in 1 .. Len(left) /\ k = n + (j + 1)
        <5> DEFINE a == Len(rest)
                   b == Len(left)
        <5>1. b \in Nat /\ a = b - 1 /\ n \in Nat /\ k \in 1 .. (n + 1) + a
          BY <1>1, <1>2, <1>10
        <5> HIDE DEF a, b
        <5>2. j \in 1 .. a /\ k = (n + 1) + j /\ j + 1 \in 1 .. b /\ k = n + (j + 1)
          BY <3>3, <5>1
        <5> QED
          BY <5>2 DEF a, b
      <4> HIDE DEF j
      <4>2. now[k] = rest[j] /\ tables[k] = left[j + 1] /\ rest[j] = left[j + 1]
        BY <1>1, <1>2, <1>10, <4>1
      <4> QED
        BY <4>2
    <3> QED
      BY <3>1, <3>2, <3>3
  <2> QED
    BY <1>2, <1>10, <2>1, <2>2, SeqEqual
<1>14. \A k \in DOMAIN grown : k \in 1 .. n \/ k = n + 1
  <2>1. n \in Nat /\ DOMAIN grown = 1 .. n + 1
    BY <1>2, <1>10
  <2> HIDE DEF grown, n
  <2> QED
    BY <2>1
<1>15. \A k \in DOMAIN grown : IsWhole(grown[k], databases)
  <2> HIDE DEF grown, context, line
  <2> TAKE k \in DOMAIN grown
  <2>1. CASE k \in 1 .. n
    BY <1>2, <1>3, <1>8, <2>1
  <2>2. CASE k = n + 1
    BY <1>8, <1>12, <2>2
  <2> QED
    BY <1>14, <2>1, <2>2
<1>16. ASSUME NEW base \in databases, databases = {base}
       PROVE  /\ now = Existing(base)
              /\ \A k \in DOMAIN grown : Shows(grown[k], base[grown[k].table])
  <2>1. base = db /\ tables = Existing(base) /\ \A k \in DOMAIN context : Shows(context[k], base[context[k].table])
    BY <1>16 DEF Reads
  <2> HIDE DEF grown, context, line, now, tables, table
  <2>2. ASSUME NEW k \in DOMAIN grown PROVE Shows(grown[k], base[grown[k].table])
    <3>1. CASE k \in 1 .. n
      BY <1>2, <1>8, <2>1, <3>1
    <3>2. CASE k = n + 1
      BY <1>8, <1>11, <1>12, <1>16, <2>1, <3>2
    <3> QED
      BY <1>14, <3>1, <3>2
  <2> QED
    BY <1>13, <2>1, <2>2
<1>17. AfterTable(rest) # "columns" /\ (AfterTable(rest) = "returned" <=> rest = <<>>)
  BY DEF AfterTable
<1>18. Context(after.rows) = grown /\ after.left = rest /\ Grouped(after.rows)
  <2>1. Grouped(rows) /\ after.rows = rows \o new
    BY DEF Reads
  <2> HIDE DEF new, table, rows
  <2>2. Grouped(rows \o new)
    <3>1. rows \in Seq(Rows)
      BY DEF rows
    <3> QED
      BY <1>6, <1>7, <2>1, <3>1, GroupedGrows
  <2> QED
    BY <2>1, <2>2
<1> HIDE DEF context, rest, tables, now, n, grown, left, line, table
<1>19. IsInjective(now)
  BY <1>3, <1>13
<1>20. Reads(AfterTable(rest), after, databases)
  BY <1>3, <1>15, <1>16, <1>17, <1>18, <1>19 DEF Reads, now
<1> QED
  BY <1>20 DEF rest, left

\* What a task has read stands for as long as it, its statement and the tables
\* it reads stay as they are.
LEMMA FetchStays ==
    ASSUME NEW u \in Tasks, FetchOf(u),
           waits'[u] = waits[u], fetch'[u] = fetch[u], during'[u] = during[u],
           \A d \in live' : Contains(queue'[d], u) =>
               d \in live /\ Contains(queue[d], u) /\ (database[Home(d)])' = database[Home(d)]
    PROVE  FetchOf(u)'
<1>1. Current(u) => Current(u)'
  BY DEF Current
<1> QED
  BY <1>1 DEF FetchOf

\* A task that is not in fetch_schema, or only begins it, holds nothing.
LEMMA FetchIdle ==
    ASSUME NEW u \in Tasks, waits'[u] \notin {"keys", "columns", "returned"},
           fetch'[u] = Unstarted, during'[u] = {}
    PROVE  FetchOf(u)'
BY DEF FetchOf

LEMMA UnstartedType == Unstarted \in Locals
<1>1. <<>> \in Seq(Tables) /\ <<>> \in Seq(Rows) /\ <<>> \in Maps
  BY DEF Maps
<1> QED
  BY <1>1 DEF Unstarted, Locals

LEMMA OpenInRange == ASSUME TypeOK PROVE live \subseteq Connections
BY BoundsAssumption DEF TypeOK, Connections

\* One lemma per action: what it leaves of the invariant on fetch_schema.
LEMMA CallFetch ==
    ASSUME ConnectorInv, FetchInv, NEW t \in Tasks, NEW statement \in {"query", "define", "names"},
           Call(t, statement)
    PROVE  FetchInv'
<1>1. /\ waits[t] = "nothing" /\ waits' = [waits EXCEPT ![t] = IF conn = 0 THEN "opening" ELSE statement]
      /\ queue' = IF conn = 0 THEN queue ELSE [queue EXCEPT ![conn] = Append(@, t)]
      /\ UNCHANGED <<path, conn, live, database, fetch, during>>
  BY DEF Call
<1>2. waits \in [Tasks -> Statements] /\ ~Posted(queue, t) /\ TypeOK
  BY <1>1, QueueType DEF ConnectorInv, TypeOK, Statements
<1>3. \A d \in Connections : \A u \in Tasks : u # t /\ Contains(queue'[d], u) => Contains(queue[d], u)
  <2>1. CASE conn = 0
    BY <1>1, <2>1
  <2>2. CASE conn # 0
    <3>1. conn \in Connections /\ queue' = [queue EXCEPT ![conn] = Append(@, t)]
      BY <1>1, <1>2, <2>2, InRange
    <3>2. Gained(queue, conn, t, queue')
      BY <1>2, <3>1, QueueType, QueueGrows
    <3> QED
      BY <3>2 DEF Gained
  <2> QED
    BY <2>1, <2>2
<1>4. ASSUME NEW u \in Tasks PROVE FetchOf(u)'
  <2>1. CASE u = t
    <3>1. fetch[t] = Unstarted /\ during[t] = {}
      BY <1>1 DEF FetchInv, FetchOf
    <3> QED
      BY <1>1, <1>2, <2>1, <3>1, FetchIdle
  <2>2. CASE u # t
    <3>1. waits'[u] = waits[u]
      BY <1>1, <1>2, <2>2
    <3>2. \A d \in live' : Contains(queue'[d], u) =>
            d \in live /\ Contains(queue[d], u) /\ (database[Home(d)])' = database[Home(d)]
      BY <1>1, <1>2, <1>3, <2>2, OpenInRange DEF Home
    <3> QED
      BY <1>1, <3>1, <3>2, FetchStays DEF FetchInv
  <2> QED
    BY <2>1, <2>2
<1> QED
  BY <1>1, <1>4 DEF FetchInv

LEMMA OpenedFetch ==
    ASSUME ConnectorInv, FetchInv, NEW t \in Tasks, Opened(t)
    PROVE  FetchInv'
<1>1. /\ waits[t] = "opening" /\ waits' = [waits EXCEPT ![t] = "enforcing"]
      /\ opened < MaxConnections /\ queue' = [queue EXCEPT ![opened + 1] = <<t>>]
      /\ live' = live \cup {opened + 1}
      /\ UNCHANGED <<path, database, fetch, during>>
  BY DEF Opened
<1>2. waits \in [Tasks -> Statements] /\ queue \in Queues /\ TypeOK /\ opened + 1 \in Connections
  BY <1>1, QueueType, InRange DEF ConnectorInv, TypeOK, Statements, Queues
<1>3. \A d \in live' : \A u \in Tasks : u # t /\ Contains(queue'[d], u) => d \in live /\ Contains(queue[d], u)
  <2> TAKE d \in live'
  <2> TAKE u \in Tasks
  <2> HAVE u # t /\ Contains(queue'[d], u)
  <2>1. CASE d = opened + 1
    <3>1. queue'[d] = <<t>>
      BY <1>1, <1>2, <2>1 DEF Queues
    <3>2. ~Contains(<<t>>, u)
      BY DEF Contains
    <3> QED
      BY <3>1, <3>2
  <2>2. CASE d # opened + 1
    <3>1. d \in live /\ d \in Connections
      BY <1>1, <1>2, <2>2, OpenInRange
    <3>2. queue'[d] = queue[d]
      BY <1>1, <1>2, <2>2, <3>1 DEF Queues
    <3> QED
      BY <3>1, <3>2
  <2> QED
    BY <2>1, <2>2
<1>4. ASSUME NEW u \in Tasks PROVE FetchOf(u)'
  <2>1. CASE u = t
    <3>1. fetch[t] = Unstarted /\ during[t] = {}
      BY <1>1 DEF FetchInv, FetchOf
    <3> QED
      BY <1>1, <1>2, <2>1, <3>1, FetchIdle
  <2>2. CASE u # t
    <3>1. waits'[u] = waits[u]
      BY <1>1, <1>2, <2>2
    <3>2. \A d \in live' : Contains(queue'[d], u) =>
            d \in live /\ Contains(queue[d], u) /\ (database[Home(d)])' = database[Home(d)]
      BY <1>1, <1>3, <2>2 DEF Home
    <3> QED
      BY <1>1, <3>1, <3>2, FetchStays DEF FetchInv
  <2> QED
    BY <2>1, <2>2
<1> QED
  BY <1>1, <1>4 DEF FetchInv

LEMMA OpenFailsFetch ==
    ASSUME ConnectorInv, FetchInv, NEW t \in Tasks, OpenFails(t)
    PROVE  FetchInv'
<1>1. /\ waits[t] = "opening" /\ waits' = [waits EXCEPT ![t] = "nothing"]
      /\ UNCHANGED <<path, live, queue, database, fetch, during>>
  BY DEF OpenFails
<1>2. waits \in [Tasks -> Statements]
  BY DEF ConnectorInv, TypeOK, Statements
<1>3. ASSUME NEW u \in Tasks PROVE FetchOf(u)'
  <2>1. CASE u = t
    <3>1. fetch[t] = Unstarted /\ during[t] = {}
      BY <1>1 DEF FetchInv, FetchOf
    <3> QED
      BY <1>1, <1>2, <2>1, <3>1, FetchIdle
  <2>2. CASE u # t
    <3>1. waits'[u] = waits[u]
      BY <1>1, <1>2, <2>2
    <3>2. \A d \in live' : Contains(queue'[d], u) =>
            d \in live /\ Contains(queue[d], u) /\ (database[Home(d)])' = database[Home(d)]
      BY <1>1 DEF Home
    <3> QED
      BY <1>1, <3>1, <3>2, FetchStays DEF FetchInv
  <2> QED
    BY <2>1, <2>2
<1> QED
  BY <1>1, <1>3 DEF FetchInv

LEMMA EnforcesFetch ==
    ASSUME ConnectorInv, FetchInv, NEW c \in Connections, NEW t \in Tasks, Enforces(c, t)
    PROVE  FetchInv'
<1>1. /\ queue[c] # <<>> /\ Head(queue[c]) = t /\ waits[t] = "enforcing"
      /\ waits' = [waits EXCEPT ![t] = IF conn = 0 THEN "nothing" ELSE first[t]]
      /\ UNCHANGED <<path, live, database, fetch, during>>
  BY DEF Enforces, Executes
<1>2. /\ waits \in [Tasks -> Statements] /\ TypeOK
      /\ first[t] \notin {"keys", "columns", "returned"}
  BY DEF ConnectorInv, TypeOK, Statements
<1>3. \A d \in Connections : \A u \in Tasks : u # t /\ Contains(queue'[d], u) => Contains(queue[d], u)
  <2>1. PICK rest : rest = [queue EXCEPT ![c] = Tail(@)]
    OBVIOUS
  <2>2. Took(queue, c, rest)
    BY <1>1, <1>2, <2>1, QueueType, QueueTakes
  <2>3. CASE conn = 0
    <3>1. queue' = rest
      BY <2>1, <2>3 DEF Enforces
    <3> QED
      BY <2>2, <3>1 DEF Took
  <2>4. CASE conn # 0
    <3>1. queue' = [rest EXCEPT ![conn] = Append(@, t)] /\ conn \in Connections
      BY <1>2, <2>1, <2>4, InRange DEF Enforces
    <3>2. Placed(rest) /\ ~Posted(rest, t)
      BY <1>1, <2>2 DEF Took
    <3>3. Gained(rest, conn, t, queue')
      BY <3>1, <3>2, QueueGrows
    <3> QED
      BY <2>2, <3>3 DEF Took, Gained
  <2> QED
    BY <2>3, <2>4
<1>4. ASSUME NEW u \in Tasks PROVE FetchOf(u)'
  <2>1. CASE u = t
    <3>1. fetch[t] = Unstarted /\ during[t] = {}
      BY <1>1 DEF FetchInv, FetchOf
    <3>2. waits'[t] \notin {"keys", "columns", "returned"}
      BY <1>1, <1>2
    <3> QED
      BY <1>1, <2>1, <3>1, <3>2, FetchIdle
  <2>2. CASE u # t
    <3>1. waits'[u] = waits[u]
      BY <1>1, <1>2, <2>2
    <3>2. \A d \in live' : Contains(queue'[d], u) =>
            d \in live /\ Contains(queue[d], u) /\ (database[Home(d)])' = database[Home(d)]
      BY <1>1, <1>2, <1>3, <2>2, OpenInRange DEF Home
    <3> QED
      BY <1>1, <3>1, <3>2, FetchStays DEF FetchInv
  <2> QED
    BY <2>1, <2>2
<1> QED
  BY <1>1, <1>4 DEF FetchInv

\* A statement that was executed leaves its queue or goes to its end: nothing
\* waits elsewhere than before, and its task nowhere else.
LEMMA StatementQueue ==
    ASSUME TypeOK, NEW c \in Connections, NEW t \in Tasks, queue[c] # <<>>, Head(queue[c]) = t,
           \/ queue' = [queue EXCEPT ![c] = Tail(@)]
           \/ queue' = [queue EXCEPT ![c] = Append(Tail(@), t)]
    PROVE  /\ \A d \in Connections : \A x : Contains(queue'[d], x) => Contains(queue[d], x)
           /\ \A d \in Connections : Contains(queue[d], t) => d = c
<1>1. \A d \in Connections : \A x : Contains(queue'[d], x) => Contains(queue[d], x)
  <2>1. CASE queue' = [queue EXCEPT ![c] = Tail(@)]
    <3>1. Took(queue, c, queue')
      BY <2>1, QueueType, QueueTakes
    <3> QED
      BY <3>1 DEF Took
  <2>2. CASE queue' = [queue EXCEPT ![c] = Append(Tail(@), t)]
    <3>1. queue' = [queue EXCEPT ![c] = Append(Tail(@), Head(queue[c]))]
      BY <2>2
    <3>2. Turned(queue, c, queue')
      BY <3>1, QueueType, QueueTurns
    <3> QED
      BY <3>2 DEF Turned
  <2> QED
    BY <2>1, <2>2
<1>2. ASSUME NEW d \in Connections, Contains(queue[d], t) PROVE d = c
  <2>1. queue \in Queues /\ PlacedOnce(queue)
    BY QueueType DEF Placed
  <2>2. 1 \in DOMAIN queue[c] /\ queue[c][1] = t
    BY <2>1 DEF Queues
  <2>3. PICK i \in DOMAIN queue[d] : queue[d][i] = t
    BY <1>2, <2>1 DEF Contains, Queues
  <2> QED
    BY <2>1, <2>2, <2>3 DEF PlacedOnce
<1> QED
  BY <1>1, <1>2

\* A step on the connection of t changes nothing for a task that is not t, as
\* long as the tables stay.
LEMMA OthersFetch ==
    ASSUME ConnectorInv, FetchInv, NEW c \in Connections, NEW t \in Tasks,
           queue[c] # <<>>, Head(queue[c]) = t,
           \/ queue' = [queue EXCEPT ![c] = Tail(@)]
           \/ queue' = [queue EXCEPT ![c] = Append(Tail(@), t)],
           NEW statement, waits' = [waits EXCEPT ![t] = statement],
           UNCHANGED <<path, live, database>>,
           NEW u \in Tasks, u # t, fetch'[u] = fetch[u], during'[u] = during[u]
    PROVE  FetchOf(u)'
<1>1. waits \in [Tasks -> Statements] /\ TypeOK
  BY DEF ConnectorInv, TypeOK, Statements
<1>2. waits'[u] = waits[u]
  BY <1>1
<1>3. \A d \in live' : Contains(queue'[d], u) =>
        d \in live /\ Contains(queue[d], u) /\ (database[Home(d)])' = database[Home(d)]
  BY <1>1, StatementQueue, OpenInRange DEF Home
<1> QED
  BY <1>2, <1>3, FetchStays DEF FetchInv

LEMMA FinishesFetch ==
    ASSUME ConnectorInv, FetchInv, NEW c \in Connections, NEW t \in Tasks,
           Queries(c, t) \/ StatementFails(c, t)
    PROVE  FetchInv'
<1>1. /\ queue[c] # <<>> /\ Head(queue[c]) = t /\ queue' = [queue EXCEPT ![c] = Tail(@)]
      /\ waits' = [waits EXCEPT ![t] = "nothing"]
      /\ fetch' = [fetch EXCEPT ![t] = Unstarted] /\ during' = [during EXCEPT ![t] = {}]
      /\ UNCHANGED <<path, live, database>>
  BY DEF Queries, StatementFails, Executes, Finishes
<1>2. /\ waits \in [Tasks -> Statements]
      /\ fetch \in [Tasks -> Locals] /\ during \in [Tasks -> SUBSET Databases]
  BY DEF ConnectorInv, TypeOK, Statements, FetchInv
<1>3. fetch' \in [Tasks -> Locals] /\ during' \in [Tasks -> SUBSET Databases]
  BY <1>1, <1>2, UnstartedType
<1>4. FetchOf(t)'
  BY <1>1, <1>2, FetchIdle
<1>5. ASSUME NEW u \in Tasks, u # t PROVE FetchOf(u)'
  <2>1. fetch'[u] = fetch[u] /\ during'[u] = during[u]
    BY <1>1, <1>2, <1>5
  <2> QED
    BY <1>1, <1>5, <2>1, OthersFetch
<1> QED
  BY <1>3, <1>4, <1>5 DEF FetchInv

LEMMA ReturnedFetch ==
    ASSUME ConnectorInv, FetchInv, NEW t \in Tasks, Returned(t)
    PROVE  FetchInv'
<1>1. /\ waits' = [waits EXCEPT ![t] = "nothing"]
      /\ fetch' = [fetch EXCEPT ![t] = Unstarted] /\ during' = [during EXCEPT ![t] = {}]
      /\ UNCHANGED <<path, live, queue, database>>
  BY DEF Returned
<1>2. /\ waits \in [Tasks -> Statements]
      /\ fetch \in [Tasks -> Locals] /\ during \in [Tasks -> SUBSET Databases]
  BY DEF ConnectorInv, TypeOK, Statements, FetchInv
<1>3. fetch' \in [Tasks -> Locals] /\ during' \in [Tasks -> SUBSET Databases]
  BY <1>1, <1>2, UnstartedType
<1>4. FetchOf(t)'
  BY <1>1, <1>2, FetchIdle
<1>5. ASSUME NEW u \in Tasks, u # t PROVE FetchOf(u)'
  <2>1. fetch'[u] = fetch[u] /\ during'[u] = during[u] /\ waits'[u] = waits[u]
    BY <1>1, <1>2, <1>5
  <2>2. \A d \in live' : Contains(queue'[d], u) =>
          d \in live /\ Contains(queue[d], u) /\ (database[Home(d)])' = database[Home(d)]
    BY <1>1 DEF Home
  <2> QED
    BY <2>1, <2>2, FetchStays DEF FetchInv
<1> QED
  BY <1>3, <1>4, <1>5 DEF FetchInv

LEMMA CloseFetch ==
    ASSUME ConnectorInv, FetchInv, Close
    PROVE  FetchInv'
<1>1. /\ conn # 0 /\ conn \in Connections /\ ~Posted(queue, Closer) /\ TypeOK
      /\ queue' = [queue EXCEPT ![conn] = Append(@, Closer)]
      /\ UNCHANGED <<path, live, database, waits, fetch, during>>
  BY InRange DEF Close, Posted, ConnectorInv
<1>2. Gained(queue, conn, Closer, queue')
  BY <1>1, QueueType, QueueGrows
<1>3. ASSUME NEW u \in Tasks PROVE FetchOf(u)'
  <2>1. \A d \in live' : Contains(queue'[d], u) =>
          d \in live /\ Contains(queue[d], u) /\ (database[Home(d)])' = database[Home(d)]
    BY <1>1, <1>2, OpenInRange, TasksAssumption DEF Gained, Home
  <2> QED
    BY <1>1, <2>1, FetchStays DEF FetchInv
<1> QED
  BY <1>1, <1>3 DEF FetchInv

LEMMA ClosesFetch ==
    ASSUME ConnectorInv, FetchInv, NEW c \in Connections, Closes(c)
    PROVE  FetchInv'
<1>1. /\ queue[c] # <<>> /\ TypeOK
      /\ queue' = [queue EXCEPT ![c] = Tail(@)] /\ live' = live \ {c}
      /\ database' = IF path = "memory" THEN [database EXCEPT ![c] = NoTables] ELSE database
      /\ UNCHANGED <<path, waits, fetch, during>>
  BY DEF Closes, ConnectorInv
<1>2. Took(queue, c, queue')
  BY <1>1, QueueType, QueueTakes
<1>3. \A d \in live' : d # c /\ d \in live /\ d \in Connections
  BY <1>1, OpenInRange
<1>4. \A d \in live' : (database[Home(d)])' = database[Home(d)]
  <2> TAKE d \in live'
  <2>1. path \in {"memory", "file"} /\ database \in [0 .. MaxConnections -> Databases]
    BY <1>1, PathsAssumption DEF TypeOK
  <2>2. CASE path = "memory"
    <3>1. Home(d) = d /\ Home(d)' = d /\ d # c
      BY <1>1, <1>3, <2>2 DEF Home
    <3>2. d \in 0 .. MaxConnections
      BY <1>3, BoundsAssumption DEF Connections
    <3> QED
      BY <1>1, <2>1, <2>2, <3>1, <3>2
  <2>3. CASE path = "file"
    BY <1>1, <2>3 DEF Home
  <2> QED
    BY <2>1, <2>2, <2>3
<1>5. ASSUME NEW u \in Tasks PROVE FetchOf(u)'
  <2>1. \A d \in live' : Contains(queue'[d], u) =>
          d \in live /\ Contains(queue[d], u) /\ (database[Home(d)])' = database[Home(d)]
    BY <1>2, <1>3, <1>4 DEF Took
  <2> QED
    BY <1>1, <2>1, FetchStays DEF FetchInv
<1> QED
  BY <1>1, <1>5 DEF FetchInv

LEMMA DefinesFetch ==
    ASSUME ConnectorInv, FetchInv, NEW c \in Connections, NEW t \in Tasks, Defines(c, t)
    PROVE  FetchInv'
<1> DEFINE tables == database'[Home(c)]
<1>1. /\ queue[c] # <<>> /\ Head(queue[c]) = t /\ waits[t] = "define" /\ TypeOK
      /\ queue' = [queue EXCEPT ![c] = Tail(@)]
      /\ waits' = [waits EXCEPT ![t] = "nothing"]
      /\ during' = [u \in Tasks |-> IF u \in Fetching(c) THEN during[u] \cup {tables} ELSE during[u]]
      /\ UNCHANGED <<path, live, fetch>>
  BY DEF Defines, Executes, ConnectorInv
<1>2. /\ waits \in [Tasks -> Statements] /\ database \in [0 .. MaxConnections -> Databases]
      /\ fetch \in [Tasks -> Locals] /\ during \in [Tasks -> SUBSET Databases]
  BY DEF ConnectorInv, TypeOK, Statements, FetchInv
<1>3. PICK table \in Tables, definition \in Definitions \cup {Absent} :
          database' = [database EXCEPT ![Home(c)][table] = definition]
  BY DEF Defines
<1>4. \A d \in Connections : Home(d) \in 0 .. MaxConnections /\ Home(d)' = Home(d)
  BY <1>1, BoundsAssumption DEF Connections, Home
<1>5. /\ database' \in [0 .. MaxConnections -> Databases]
      /\ \A e \in 0 .. MaxConnections : e # Home(c) => database'[e] = database[e]
  BY <1>2, <1>3, <1>4 DEF Databases
<1>6. tables \in Databases
  BY <1>4, <1>5
<1> HIDE DEF tables
<1>7. during' \in [Tasks -> SUBSET Databases]
  BY <1>1, <1>2, <1>6
<1>8. \A d \in Connections : \A x : Contains(queue'[d], x) => Contains(queue[d], x)
  BY <1>1, StatementQueue
<1>9. \A u \in Tasks : during[u] = {} => FetchOf(u) /\ waits[u] \notin {"keys", "columns", "returned"}
  BY DEF FetchInv, FetchOf, Reads
<1>10. ASSUME NEW u \in Tasks PROVE FetchOf(u)'
  <2>1. CASE during[u] = {}
    <3>1. u \notin Fetching(c)
      BY <2>1 DEF Fetching
    <3>2. during'[u] = {} /\ fetch'[u] = Unstarted /\ waits'[u] \notin {"keys", "columns", "returned"}
      BY <1>1, <1>2, <1>9, <2>1, <3>1 DEF FetchOf
    <3> QED
      BY <3>2, FetchIdle
  <2>2. CASE during[u] # {} /\ u \notin Fetching(c)
    <3>1. u # t
      BY <1>1, <2>2 DEF FetchInv, FetchOf
    <3>2. waits'[u] = waits[u] /\ fetch'[u] = fetch[u] /\ during'[u] = during[u]
      BY <1>1, <1>2, <2>2, <3>1
    <3>3. \A d \in Connections : Contains(queue[d], u) => Home(d) # Home(c)
      BY <2>2 DEF Fetching
    <3>4. \A d \in live' : Contains(queue'[d], u) =>
            d \in live /\ Contains(queue[d], u) /\ (database[Home(d)])' = database[Home(d)]
      BY <1>1, <1>4, <1>5, <1>8, <3>3, OpenInRange
    <3> QED
      BY <3>2, <3>4, FetchStays DEF FetchInv
  <2>3. CASE during[u] # {} /\ u \in Fetching(c)
    <3>1. u # t /\ waits[u] \in {"keys", "columns", "returned"}
      BY <1>1, <2>3 DEF FetchInv, FetchOf
    <3>2. waits'[u] = waits[u] /\ fetch'[u] = fetch[u] /\ during'[u] = during[u] \cup {tables}
      BY <1>1, <1>2, <2>3, <3>1
    <3>3. Reads(waits[u], fetch[u], during[u]) /\ Current(u)
      BY <3>1 DEF FetchInv, FetchOf
    <3>4. Reads(waits'[u], fetch'[u], during'[u])
      <4> DEFINE statement == waits[u]
                 local == fetch[u]
                 databases == during[u]
      <4>1. Reads(statement, local, databases)
        BY <3>3
      <4> HIDE DEF statement, local, databases
      <4>2. Reads(statement, local, databases \cup {tables})
        BY <4>1, ReadsMore
      <4>3. waits'[u] = statement /\ fetch'[u] = local /\ during'[u] = databases \cup {tables}
        BY <3>2 DEF statement, local, databases
      <4> QED
        BY <4>2, <4>3
    <3>5. Current(u)'
      <4> SUFFICES ASSUME NEW d \in live', Contains(queue'[d], u)
                   PROVE  (database[Home(d)])' \in during'[u]
        BY DEF Current
      <4>1. d \in live /\ d \in Connections /\ Contains(queue[d], u)
        BY <1>1, <1>8, OpenInRange
      <4>2. database[Home(d)] \in during[u]
        BY <3>3, <4>1 DEF Current
      <4>3. CASE Home(d) = Home(c)
        <5>1. (database[Home(d)])' = tables
          BY <1>4, <4>1, <4>3 DEF tables
        <5> QED
          BY <3>2, <5>1
      <4>4. CASE Home(d) # Home(c)
        <5>1. (database[Home(d)])' = database[Home(d)]
          BY <1>4, <1>5, <4>1, <4>4
        <5> QED
          BY <3>2, <4>2, <5>1
      <4> QED
        BY <4>3, <4>4
    <3> QED
      BY <3>1, <3>2, <3>4, <3>5 DEF FetchOf
  <2> QED
    BY <2>1, <2>2, <2>3
<1> QED
  BY <1>1, <1>2, <1>7, <1>10 DEF FetchInv

\* A task reads on: it will find the tables it found this time.
LEMMA CurrentStays ==
    ASSUME TypeOK, NEW c \in Connections, NEW t \in Tasks, queue[c] # <<>>, Head(queue[c]) = t,
           \/ queue' = [queue EXCEPT ![c] = Tail(@)]
           \/ queue' = [queue EXCEPT ![c] = Append(Tail(@), t)],
           UNCHANGED <<path, live, database>>, database[Home(c)] \in during'[t]
    PROVE  Current(t)'
<1> SUFFICES ASSUME NEW d \in live', Contains(queue'[d], t)
             PROVE  (database[Home(d)])' \in during'[t]
  BY DEF Current
<1>1. d \in Connections
  BY OpenInRange
<1>2. d = c
  <2>1. Contains(queue[d], t)
    BY <1>1, StatementQueue
  <2> QED
    BY <1>1, <2>1, StatementQueue
<1> QED
  BY <1>2 DEF Home

LEMMA NamesFetch ==
    ASSUME ConnectorInv, FetchInv, NEW c \in Connections, NEW t \in Tasks, ReadsNames(c, t)
    PROVE  FetchInv'
<1> DEFINE db == database[Home(c)]
           names == Existing(db)
           statement == AfterTable(names)
<1>1. /\ queue[c] # <<>> /\ Head(queue[c]) = t /\ waits[t] = "names" /\ TypeOK
      /\ queue' = [queue EXCEPT ![c] = IF statement = "returned" THEN Tail(@) ELSE Append(Tail(@), t)]
      /\ waits' = [waits EXCEPT ![t] = statement]
      /\ fetch' = [fetch EXCEPT ![t].left = names]
      /\ during' = [during EXCEPT ![t] = {db}]
      /\ UNCHANGED <<path, live, database>>
  BY DEF ReadsNames, Executes, Goes, ConnectorInv
<1>2. /\ waits \in [Tasks -> Statements] /\ database \in [0 .. MaxConnections -> Databases]
      /\ fetch \in [Tasks -> Locals] /\ during \in [Tasks -> SUBSET Databases]
      /\ fetch[t] = Unstarted
  BY <1>1 DEF TypeOK, Statements, FetchInv, FetchOf
<1>3. db \in Databases
  BY <1>2, BoundsAssumption DEF Connections, Home
<1>4. names \in Seq(Tables) /\ statement \in {"keys", "returned"}
  BY <1>3, ExistingTables DEF AfterTable
<1>5. \/ queue' = [queue EXCEPT ![c] = Tail(@)]
      \/ queue' = [queue EXCEPT ![c] = Append(Tail(@), t)]
  BY <1>1
<1> HIDE DEF db, names
<1> DEFINE local == [fetch[t] EXCEPT !.left = names]
<1>6. /\ local \in Locals /\ local.left = names /\ local.rows = <<>>
      /\ fetch' = [fetch EXCEPT ![t] = local]
  <2>1. fetch[t] \in Locals /\ fetch[t].rows = <<>>
    BY <1>2 DEF Unstarted
  <2>2. local \in Locals /\ local.left = names /\ local.rows = fetch[t].rows
    BY <1>4, <2>1 DEF Locals
  <2> QED
    BY <1>1, <2>1, <2>2
<1> HIDE DEF local
<1>7. /\ fetch' \in [Tasks -> Locals] /\ during' \in [Tasks -> SUBSET Databases]
      /\ fetch'[t] = local /\ waits'[t] = statement /\ during'[t] = {db}
  BY <1>1, <1>2, <1>3, <1>6
<1>8. FetchOf(t)'
  <2>1. Reads(statement, local, {db})
    BY <1>3, <1>6, ReadsBegin DEF names
  <2>2. Current(t)'
    <3>1. database[Home(c)] \in during'[t]
      BY <1>7 DEF db
    <3> QED
      BY <1>1, <1>5, <3>1, CurrentStays
  <2> QED
    BY <1>4, <1>7, <2>1, <2>2 DEF FetchOf
<1>9. ASSUME NEW u \in Tasks, u # t PROVE FetchOf(u)'
  <2>1. fetch'[u] = fetch[u] /\ during'[u] = during[u]
    BY <1>1, <1>2, <1>9
  <2> QED
    BY <1>1, <1>5, <1>9, <2>1, OthersFetch
<1> QED
  BY <1>7, <1>8, <1>9 DEF FetchInv

\* Whoever has begun to read holds the tables of every connection it waits on.
LEMMA ReadsFrom ==
    ASSUME ConnectorInv, FetchInv, NEW c \in Connections, NEW t \in Tasks,
           c \in live, queue[c] # <<>>, Head(queue[c]) = t, waits[t] \in {"keys", "columns"}
    PROVE  /\ Reads(waits[t], fetch[t], during[t]) /\ database[Home(c)] \in during[t]
           /\ fetch[t] \in Locals /\ during[t] \in SUBSET Databases
           /\ fetch[t].left # <<>>
<1>1. Reads(waits[t], fetch[t], during[t]) /\ Current(t)
  BY DEF FetchInv, FetchOf
<1>2. Contains(queue[c], t)
  <2>1. queue \in Queues
    <3>1. TypeOK
      BY DEF ConnectorInv
    <3> QED
      BY <3>1, QueueType DEF Placed
  <2>2. 1 \in DOMAIN queue[c] /\ queue[c][1] = t
    BY <2>1 DEF Queues
  <2> QED
    BY <2>2 DEF Contains
<1>3. fetch[t].left # <<>>
  BY <1>1 DEF Reads
<1> QED
  BY <1>1, <1>2, <1>3 DEF Current, FetchInv

LEMMA KeysFetch ==
    ASSUME ConnectorInv, FetchInv, NEW c \in Connections, NEW t \in Tasks, ReadsKeys(c, t)
    PROVE  FetchInv'
<1> DEFINE db == database[Home(c)]
           table == Head(fetch[t].left)
           map == KeyMap(Definition(db, table))
           local == [fetch[t] EXCEPT !.map = map]
<1>1. /\ c \in live /\ queue[c] # <<>> /\ Head(queue[c]) = t /\ waits[t] = "keys" /\ TypeOK
      /\ queue' = [queue EXCEPT ![c] = Append(Tail(@), t)]
      /\ waits' = [waits EXCEPT ![t] = "columns"]
      /\ fetch' = [fetch EXCEPT ![t] = local]
      /\ UNCHANGED <<path, live, database, during>>
  BY DEF ReadsKeys, Executes, Goes, ConnectorInv
<1>2. /\ waits \in [Tasks -> Statements] /\ fetch \in [Tasks -> Locals]
      /\ during \in [Tasks -> SUBSET Databases]
  BY <1>1 DEF TypeOK, Statements, FetchInv
<1>3. /\ Reads("keys", fetch[t], during[t]) /\ db \in during[t] /\ db \in Databases
      /\ fetch[t] \in Locals /\ fetch[t].left # <<>>
  BY <1>1, ReadsFrom
<1>4. map \in Maps
  <2> DEFINE left == fetch[t].left
  <2>1. left \in Seq(Tables) /\ left # <<>>
    BY <1>3 DEF Locals
  <2> HIDE DEF left
  <2>2. Head(left) \in Tables
    BY <2>1
  <2> QED
    BY <1>3, <2>2 DEF Maps, left
<1> HIDE DEF map
<1>5. local \in Locals /\ local.left = fetch[t].left /\ local.rows = fetch[t].rows /\ local.map = map
  BY <1>3, <1>4 DEF Locals
<1> HIDE DEF local, db
<1>6. /\ fetch' \in [Tasks -> Locals] /\ during' \in [Tasks -> SUBSET Databases]
      /\ fetch'[t] = local /\ waits'[t] = "columns" /\ during'[t] = during[t]
  BY <1>1, <1>2, <1>5
<1>7. FetchOf(t)'
  <2>1. Reads("columns", local, during[t])
    BY <1>3, <1>5, ReadsItsKeys DEF map
  <2>2. Current(t)'
    <3>1. database[Home(c)] \in during'[t]
      BY <1>3, <1>6 DEF db
    <3> QED
      BY <1>1, <3>1, CurrentStays
  <2> QED
    BY <1>6, <2>1, <2>2 DEF FetchOf
<1>8. ASSUME NEW u \in Tasks, u # t PROVE FetchOf(u)'
  <2>1. fetch'[u] = fetch[u] /\ during'[u] = during[u]
    BY <1>1, <1>2, <1>8
  <2> QED
    BY <1>1, <1>8, <2>1, OthersFetch
<1> QED
  BY <1>6, <1>7, <1>8 DEF FetchInv

LEMMA ColumnsFetch ==
    ASSUME ConnectorInv, FetchInv, NEW c \in Connections, NEW t \in Tasks, ReadsColumns(c, t)
    PROVE  FetchInv'
<1> DEFINE db == database[Home(c)]
           left == fetch[t].left
           table == Head(left)
           new == SqliteRows(table, Definition(db, table).columns, fetch[t].map)
           statement == AfterTable(Tail(left))
           local == [fetch[t] EXCEPT !.left = Tail(left), !.rows = @ \o new]
<1>1. /\ c \in live /\ queue[c] # <<>> /\ Head(queue[c]) = t /\ waits[t] = "columns" /\ TypeOK
      /\ queue' = [queue EXCEPT ![c] = IF statement = "returned" THEN Tail(@) ELSE Append(Tail(@), t)]
      /\ waits' = [waits EXCEPT ![t] = statement]
      /\ fetch' = [fetch EXCEPT ![t] = local]
      /\ UNCHANGED <<path, live, database, during>>
  BY DEF ReadsColumns, Executes, Goes, ConnectorInv
<1>2. /\ waits \in [Tasks -> Statements] /\ fetch \in [Tasks -> Locals]
      /\ during \in [Tasks -> SUBSET Databases]
  BY <1>1 DEF TypeOK, Statements, FetchInv
<1>3. /\ Reads("columns", fetch[t], during[t]) /\ db \in during[t] /\ db \in Databases
      /\ fetch[t] \in Locals /\ left # <<>> /\ during[t] \in SUBSET Databases
  BY <1>1, ReadsFrom
<1>4. /\ left \in Seq(Tables) /\ Tail(left) \in Seq(Tables) /\ table \in Tables
      /\ fetch[t].rows \in Seq(Rows) /\ statement \in {"keys", "returned"}
  <2>1. left \in Seq(Tables) /\ left # <<>> /\ fetch[t].rows \in Seq(Rows)
    BY <1>3 DEF Locals
  <2>2. statement \in {"keys", "returned"}
    BY DEF AfterTable
  <2> HIDE DEF left, statement
  <2>3. Tail(left) \in Seq(Tables) /\ table \in Tables
    BY <2>1
  <2> QED
    BY <2>1, <2>2, <2>3
<1>5. \/ queue' = [queue EXCEPT ![c] = Tail(@)]
      \/ queue' = [queue EXCEPT ![c] = Append(Tail(@), t)]
  BY <1>1
<1>6. new \in Seq(Rows)
  <2>1. PICK before \in during[t] : fetch[t].map = KeyMap(Definition(before, table))
    BY <1>3 DEF Reads
  <2>2. Arrows(fetch[t].map)
    BY <1>3, <1>4, <2>1, DefinitionTypes, MapArrows
  <2> DEFINE columns == Definition(db, table).columns
             map == fetch[t].map
  <2>3. columns \in Seq(Columns)
    BY <1>3, <1>4, DefinitionTypes DEF Tabular
  <2> HIDE DEF columns, map, db, left, table
  <2>4. AreRows(new, table, columns, map)
    BY <1>4, <2>2, <2>3, RowsOfColumns DEF columns, map
  <2> QED
    BY <2>4 DEF AreRows
<1>7. /\ local \in Locals /\ local.left = Tail(left) /\ local.rows = fetch[t].rows \o new
  <2> HIDE DEF new, left
  <2>1. fetch[t].rows \o new \in Seq(Rows)
    BY <1>4, <1>6
  <2> QED
    BY <1>3, <1>4, <2>1 DEF Locals
<1> HIDE DEF local, db
<1>8. /\ fetch' \in [Tasks -> Locals] /\ during' \in [Tasks -> SUBSET Databases]
      /\ fetch'[t] = local /\ waits'[t] = statement /\ during'[t] = during[t]
  BY <1>1, <1>2, <1>7
<1>9. FetchOf(t)'
  <2>1. Reads(statement, local, during[t])
    <3>1. CASE db[table] = Absent
      <4>1. Definition(db, table).columns = <<>>
        BY <3>1 DEF Definition
      <4>2. new = <<>>
        BY <4>1 DEF SqliteRows
      <4>3. local.rows = fetch[t].rows
        BY <1>4, <1>7, <4>2, ConcatEmptySeq
      <4> QED
        BY <1>3, <1>4, <1>7, <3>1, <4>3, ReadsNothing
    <3>2. CASE db[table] # Absent
      <4>1. local.rows = fetch[t].rows \o SqliteRows(table, db[table].columns, fetch[t].map)
        BY <1>7, <3>2 DEF Definition
      <4> QED
        BY <1>3, <1>4, <1>7, <3>2, <4>1, ReadsItsColumns
    <3> QED
      BY <3>1, <3>2
  <2>2. Current(t)'
    <3>1. database[Home(c)] \in during'[t]
      BY <1>3, <1>8 DEF db
    <3> QED
      BY <1>1, <1>5, <3>1, CurrentStays
  <2> QED
    BY <1>4, <1>8, <2>1, <2>2 DEF FetchOf
<1>10. ASSUME NEW u \in Tasks, u # t PROVE FetchOf(u)'
  <2>1. fetch'[u] = fetch[u] /\ during'[u] = during[u]
    BY <1>1, <1>2, <1>10
  <2> QED
    BY <1>1, <1>5, <1>10, <2>1, OthersFetch
<1> QED
  BY <1>8, <1>9, <1>10 DEF FetchInv

LEMMA InitFetch == Init => FetchInv
<1> SUFFICES ASSUME Init PROVE FetchInv
  OBVIOUS
<1>1. /\ waits = [t \in Tasks |-> "nothing"] /\ fetch = [t \in Tasks |-> Unstarted]
      /\ during = [t \in Tasks |-> {}]
  BY DEF Init
<1>2. \A t \in Tasks : FetchOf(t)
  BY <1>1 DEF FetchOf
<1> QED
  BY <1>1, <1>2, UnstartedType DEF FetchInv

LEMMA NextFetch == ConnectorInv /\ FetchInv /\ [Next]_vars => FetchInv'
<1> SUFFICES ASSUME ConnectorInv, FetchInv, [Next]_vars PROVE FetchInv'
  OBVIOUS
<1>1. CASE \E t \in Tasks, statement \in {"query", "define", "names"} : Call(t, statement)
  BY <1>1, CallFetch
<1>2. CASE \E t \in Tasks : Opened(t) \/ OpenFails(t) \/ Returned(t)
  BY <1>2, OpenedFetch, OpenFailsFetch, ReturnedFetch
<1>3. ASSUME NEW c \in Connections, NEW t \in Tasks,
             Enforces(c, t) \/ Queries(c, t) \/ Defines(c, t) \/ StatementFails(c, t) \/ Fetches(c, t)
      PROVE  FetchInv'
  <2>1. CASE Enforces(c, t)
    BY <2>1, EnforcesFetch
  <2>2. CASE Queries(c, t) \/ StatementFails(c, t)
    BY <2>2, FinishesFetch
  <2>3. CASE Defines(c, t)
    BY <2>3, DefinesFetch
  <2>4. CASE Fetches(c, t)
    BY <2>4, NamesFetch, KeysFetch, ColumnsFetch DEF Fetches
  <2> QED
    BY <1>3, <2>1, <2>2, <2>3, <2>4
<1>4. CASE Close \/ \E c \in Connections : Closes(c)
  BY <1>4, CloseFetch, ClosesFetch
<1>5. CASE UNCHANGED vars
  <2>1. UNCHANGED <<path, live, queue, database, waits, fetch, during>>
    BY <1>5 DEF vars
  <2>2. ASSUME NEW u \in Tasks PROVE FetchOf(u)'
    <3>1. \A d \in live' : Contains(queue'[d], u) =>
            d \in live /\ Contains(queue[d], u) /\ (database[Home(d)])' = database[Home(d)]
      BY <2>1 DEF Home
    <3> QED
      BY <2>1, <3>1, FetchStays DEF FetchInv
  <2> QED
    BY <2>1, <2>2 DEF FetchInv
<1> QED
  BY <1>1, <1>2, <1>3, <1>4, <1>5 DEF Next

\* While fetch_schema reads, what it has read and what it will read next make the
\* tables of the database, whatever else is executed in between.
THEOREM FetchInvariant == Spec => [](ConnectorInv /\ FetchInv)
<1>1. Init => ConnectorInv /\ FetchInv
  BY InitConnector, InitFetch
<1>2. ConnectorInv /\ FetchInv /\ [Next]_vars => (ConnectorInv /\ FetchInv)'
  BY NextConnector, NextFetch
<1> QED
  BY <1>1, <1>2, PTL DEF Spec

\* Whoever has its rows has read all tables.
LEMMA ReadAll ==
    ASSUME FetchInv, NEW t \in Tasks, waits[t] = "returned"
    PROVE  /\ Reads("returned", fetch[t], during[t])
           /\ TablesOf(Context(fetch[t].rows)) \o fetch[t].left = TablesOf(Context(fetch[t].rows))
<1> DEFINE rows == fetch[t].rows
           tables == TablesOf(Context(rows))
<1>1. Reads("returned", fetch[t], during[t]) /\ rows \in Seq(Rows)
  BY DEF FetchInv, FetchOf, Locals
<1>2. fetch[t].left = <<>>
  BY <1>1 DEF Reads
<1>3. tables \in Seq(Tables)
  <2> HIDE DEF rows
  <2> QED
    BY <1>1, TablesOfLines
<1> HIDE DEF tables
<1>4. tables \o fetch[t].left = tables
  BY <1>2, <1>3, ConcatEmptySeq
<1> QED
  BY <1>1, <1>4 DEF tables

\* Tables that change while fetch_schema reads them are still each listed once,
\* with the columns of one definition (sqlite.py:24-84).
THEOREM TablesWhole == Spec => []EachTableWhole
<1>1. FetchInv => EachTableWhole
  <2> SUFFICES ASSUME FetchInv, NEW t \in Tasks, waits[t] = "returned"
               PROVE  LET context == Context(fetch[t].rows)
                      IN  /\ IsInjective(TablesOf(context))
                          /\ \A k \in DOMAIN context : IsWhole(context[k], during[t])
    BY DEF EachTableWhole
  <2> QED
    BY ReadAll DEF Reads
<1> QED
  BY <1>1, FetchInvariant, PTL

\* Tables that do not change meanwhile are described as they are, whatever
\* connections are opened and closed and whatever else is executed between the
\* statements.
THEOREM QuietFetch == Spec => []QuietFetchDescribes
<1>1. FetchInv => QuietFetchDescribes
  <2> SUFFICES ASSUME FetchInv, NEW t \in Tasks, waits[t] = "returned",
                      NEW db \in during[t], during[t] = {db}
               PROVE  Describes(Context(fetch[t].rows), db)
    BY DEF QuietFetchDescribes
  <2> QED
    BY ReadAll DEF Reads, Describes
<1> QED
  BY <1>1, FetchInvariant, PTL

\* For plain schemas that do not change meanwhile, these are the rows of the
\* PostgreSQL adapter, row for row (sqlite.py:33-35).
THEOREM SameRows == Spec => []AdaptersAgree
<1>1. FetchInv => AdaptersAgree
  <2> SUFFICES ASSUME FetchInv, NEW t \in Tasks, waits[t] = "returned",
                      NEW db \in during[t], during[t] = {db}, Plain(db)
               PROVE  fetch[t].rows = PostgresRows(db)
    BY DEF AdaptersAgree
  <2>1. fetch[t].rows \in Seq(Rows) /\ db \in Databases
    BY DEF FetchInv, Locals
  <2>2. Grouped(fetch[t].rows) /\ Describes(Context(fetch[t].rows), db)
    BY ReadAll DEF Reads, Describes
  <2> QED
    BY <2>1, <2>2, PlainRows
<1> QED
  BY <1>1, FetchInvariant, PTL

=============================================================================
