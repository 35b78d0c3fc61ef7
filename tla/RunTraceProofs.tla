---------------------------- MODULE RunTraceProofs ---------------------------
(***************************************************************************)
(* What a reader of the log can tell of a run, proved for all values of    *)
(* the constants, from the invariant of the run itself (AgentGraphProofs). *)
(***************************************************************************)
EXTENDS RunTrace, AgentGraphProofs, SequenceTheorems, FiniteSetTheorems

-----------------------------------------------------------------------------
(* Numbered lines                                                           *)

\* A line below all others has the next number, and leaves the others theirs.
LEMMA NextNumber ==
    ASSUME NEW n \in Nat, NEW lines \in SUBSET (1 .. n), NEW p \in Nat, p > n
    PROVE  /\ Cardinality(lines) \in Nat
           /\ Cardinality(lines \cup {p}) = Cardinality(lines) + 1
           /\ Above(lines \cup {p}, p) = Cardinality(lines)
           /\ \A i \in lines : /\ Above(lines \cup {p}, i) = Above(lines, i)
                              /\ Above(lines, i) \in Nat /\ Above(lines, i) < Cardinality(lines)
<1>1. IsFiniteSet(lines)
  <2>1. IsFiniteSet(1 .. n)
    BY FS_Interval
  <2> QED
    BY <2>1, FS_Subset
<1>2. p \notin lines
  OBVIOUS
<1>3. {j \in lines \cup {p} : j < p} = lines
  <2>1. \A j \in lines : j < p
    OBVIOUS
  <2>2. ~(p < p)
    OBVIOUS
  <2> QED
    BY <2>1, <2>2
<1>4. \A i \in lines : {j \in lines \cup {p} : j < i} = {j \in lines : j < i}
  OBVIOUS
<1>5. ASSUME NEW i \in lines
      PROVE  Above(lines, i) \in Nat /\ Above(lines, i) < Cardinality(lines)
  <2> DEFINE above == {j \in lines : j < i}
  <2>1. above \in SUBSET lines /\ i \notin above
    OBVIOUS
  <2> HIDE DEF above
  <2>2. IsFiniteSet(above) /\ Cardinality(above) <= Cardinality(lines) /\ Cardinality(above) # Cardinality(lines)
    BY <1>1, <2>1, FS_Subset
  <2>3. Cardinality(above) \in Nat /\ Cardinality(lines) \in Nat
    BY <1>1, <2>2, FS_CardinalityType
  <2> QED
    BY <2>2, <2>3 DEF Above, above
<1> QED
  BY <1>1, <1>2, <1>3, <1>4, <1>5, FS_CardinalityType, FS_AddElement DEF Above

LEMMA LogType ==
    ASSUME log \in Seq(Lines)
    PROVE  /\ Len(log) \in Nat /\ DOMAIN log = 1 .. Len(log)
           /\ Starts \subseteq 1 .. Len(log) /\ Retries \subseteq 1 .. Len(log)
           /\ Sends \subseteq 1 .. Len(log) /\ Drafts \subseteq 1 .. Len(log)
BY DEF Starts, Retries, Sends, Drafts

-----------------------------------------------------------------------------
(* A node that ran to its end                                               *)

\* The two lines it adds.
LEMMA LinesAdded ==
    ASSUME log \in Seq(Lines), retry_count \in Nat,
           NEW node \in Nodes, NEW event \in NodeEvent, NEW value \in LineValues,
           Logs(node, event, value)
    PROVE  /\ log' \in Seq(Lines) /\ Len(log') = Len(log) + 2
           /\ \A i \in 1 .. Len(log) : log'[i] = log[i]
           /\ log'[Len(log) + 1] = Started(node)
           /\ log'[Len(log) + 2] = Entry(node, event, value)
<1> DEFINE added == <<Started(node), Entry(node, event, value)>>
<1>1. Started(node) \in Lines /\ Entry(node, event, value) \in Lines
  BY DEF Started, Entry, Lines, LineValues, NodeEvent
<1>2. added \in Seq(Lines) /\ Len(added) = 2 /\ added[1] = Started(node) /\ added[2] = Entry(node, event, value)
  BY <1>1
<1>3. log' = log \o added /\ Len(log) \in Nat
  BY DEF Logs
<1> HIDE DEF added
<1>4. /\ log' \in Seq(Lines) /\ Len(log') = Len(log) + Len(added)
      /\ \A i \in 1 .. Len(log) + Len(added) :
            log'[i] = IF i <= Len(log) THEN log[i] ELSE added[i - Len(log)]
  BY <1>2, <1>3, ConcatProperties
<1> QED
  BY <1>2, <1>3, <1>4

\* What they are.
LEMMA KindsAdded ==
    ASSUME log \in Seq(Lines), retry_count \in Nat, NEW n, n = Len(log),
           NEW node \in Nodes, NEW event \in NodeEvent, NEW value \in LineValues,
           event # "start", Logs(node, event, value)
    PROVE  /\ Starts' = Starts \cup {n + 1}
           /\ Sends' = IF node = "sql_executor" THEN Sends \cup {n + 1} ELSE Sends
           /\ Drafts' = IF node = "sql_generator" THEN Drafts \cup {n + 1} ELSE Drafts
           /\ Retries' = IF event = "retry" THEN Retries \cup {n + 2} ELSE Retries
           /\ \A i \in 1 .. n + 1 : Written(i)' = Written(i)
           /\ Written(n + 3)' = IF node = "sql_generator" /\ event = "end"
                                THEN Written(n + 1) \cup {n + 2} ELSE Written(n + 1)
<1>1. n \in Nat /\ DOMAIN log = 1 .. n
  OBVIOUS
<1>2. /\ log' \in Seq(Lines) /\ Len(log') = n + 2
      /\ \A i \in 1 .. n : log'[i] = log[i]
      /\ log'[n + 1] = Started(node) /\ log'[n + 2] = Entry(node, event, value)
  BY LinesAdded
<1>3. DOMAIN log' = (1 .. n) \cup {n + 1, n + 2} /\ n + 1 \notin 1 .. n /\ n + 2 \notin 1 .. n
  BY <1>1, <1>2
<1>4. /\ log'[n + 1].event = "start" /\ log'[n + 1].node = node
      /\ log'[n + 2].event = event /\ log'[n + 2].node = node
  BY <1>2 DEF Started, Entry
<1>5. Starts' = Starts \cup {n + 1}
  BY <1>1, <1>2, <1>3, <1>4 DEF Starts
<1>6. Starts \subseteq 1 .. n /\ \A i \in Starts' : i # n + 1 => i \in Starts /\ log'[i] = log[i]
  BY <1>1, <1>2, <1>5 DEF Starts
<1>7. Sends' = IF node = "sql_executor" THEN Sends \cup {n + 1} ELSE Sends
  BY <1>3, <1>4, <1>5, <1>6 DEF Sends
<1>8. Drafts' = IF node = "sql_generator" THEN Drafts \cup {n + 1} ELSE Drafts
  <2>1. Drafts' = {i \in Starts \cup {n + 1} : log'[i].node = "sql_generator"}
    BY <1>5 DEF Drafts
  <2>2. n + 1 \notin Starts /\ \A i \in Starts : log'[i] = log[i]
    BY <1>3, <1>5, <1>6
  <2> QED
    BY <1>4, <2>1, <2>2 DEF Drafts
<1>9. Retries' = IF event = "retry" THEN Retries \cup {n + 2} ELSE Retries
  BY <1>1, <1>2, <1>3, <1>4 DEF Retries
<1>10. ASSUME NEW i \in 1 .. n + 1 PROVE Written(i)' = Written(i)
  <2>1. \A k \in 1 .. i - 1 : log'[k] = log[k]
    BY <1>1, <1>2
  <2> QED
    BY <2>1 DEF Written
<1>11. Written(n + 3)' = IF node = "sql_generator" /\ event = "end"
                         THEN Written(n + 1) \cup {n + 2} ELSE Written(n + 1)
  <2>1. 1 .. (n + 3) - 1 = (1 .. n) \cup {n + 1, n + 2} /\ (n + 1) - 1 = n
    BY <1>1
  <2>2. Written(n + 1) = {k \in 1 .. n : log[k].node = "sql_generator" /\ log[k].event = "end"}
    BY <2>1 DEF Written
  <2>3. Written(n + 3)' = {k \in (1 .. n) \cup {n + 1, n + 2} :
                                log'[k].node = "sql_generator" /\ log'[k].event = "end"}
    <3>1. Written(n + 3)' = {k \in 1 .. (n + 3) - 1 :
                                log'[k].node = "sql_generator" /\ log'[k].event = "end"}
      BY DEF Written
    <3> QED
      BY <2>1, <3>1
  <2>4. \A k \in 1 .. n :
            k \in Written(n + 3)' <=> k \in Written(n + 1)
    BY <2>2, <2>3, <1>2
  <2>5. n + 1 \notin Written(n + 3)' /\ (n + 2 \in Written(n + 3)' <=> node = "sql_generator" /\ event = "end")
    BY <2>3, <1>1, <1>4
  <2>6. Written(n + 3)' \subseteq (1 .. n) \cup {n + 1, n + 2} /\ Written(n + 1) \subseteq 1 .. n
    BY <2>2, <2>3
  <2>7. \A k : k \in Written(n + 3)' <=>
                k \in Written(n + 1) \/ (k = n + 2 /\ node = "sql_generator" /\ event = "end")
    BY <2>4, <2>5, <2>6
  <2>8. CASE node = "sql_generator" /\ event = "end"
    BY <2>7, <2>8
  <2>9. CASE ~(node = "sql_generator" /\ event = "end")
    BY <2>7, <2>9
  <2> QED
    BY <2>8, <2>9
<1> QED
  BY <1>5, <1>7, <1>8, <1>9, <1>10, <1>11

\* A line keeps the statement that was logged last above it.
LEMMA LastStays ==
    ASSUME log \in Seq(Lines), retry_count \in Nat,
           NEW node \in Nodes, NEW event \in NodeEvent, NEW value \in LineValues,
           event # "start", Logs(node, event, value),
           NEW i \in 1 .. Len(log) + 1, NEW statement, LastWritten(i, statement)
    PROVE  LastWritten(i, statement)'
<1>1. Written(i)' = Written(i)
  BY KindsAdded
<1>2. PICK k \in Written(i) : log[k].value = statement /\ \A l \in Written(i) : l <= k
  BY DEF LastWritten
<1>3. k \in 1 .. Len(log)
  BY LogType DEF Written
<1>4. log'[k] = log[k]
  BY <1>3, LinesAdded
<1> QED
  BY <1>1, <1>2, <1>4 DEF LastWritten

\* A node that did not raise closes its own start.
LEMMA LocatedKept ==
    ASSUME log \in Seq(Lines), retry_count \in Nat, RaiseLocated, fault = "none", fault' = "none",
           NEW node \in Nodes, NEW event \in NodeEvent, NEW value \in LineValues,
           event # "start", Logs(node, event, value)
    PROVE  RaiseLocated'
<1> DEFINE n == Len(log)
<1>1. n \in Nat /\ DOMAIN log = 1 .. n /\ Starts \subseteq 1 .. n
  BY LogType
<1>2. /\ Len(log') = n + 2 /\ DOMAIN log' = 1 .. n + 2
      /\ \A i \in 1 .. n : log'[i] = log[i]
      /\ log'[n + 1].event = "start" /\ log'[n + 1].node = node
      /\ log'[n + 2].event = event /\ log'[n + 2].node = node
  <2>1. /\ log' \in Seq(Lines) /\ Len(log') = n + 2
        /\ \A i \in 1 .. n : log'[i] = log[i]
        /\ log'[n + 1] = Started(node) /\ log'[n + 2] = Entry(node, event, value)
    BY LinesAdded
  <2>2. DOMAIN log' = 1 .. n + 2
    BY <2>1
  <2> QED
    BY <2>1, <2>2 DEF Started, Entry
<1>3. Starts' = Starts \cup {n + 1}
  BY KindsAdded
<1> HIDE DEF n
<1>4. fault \notin LlmFaults /\ fault' \notin LlmFaults
  BY DEF LlmFaults
<1>5. n % 2 = 0
  <2>1. CASE n = 0
    BY <2>1
  <2>2. CASE n # 0
    BY <2>2, <1>1, <1>4 DEF RaiseLocated, n
  <2> QED
    BY <2>1, <2>2
<1>6. (n + 1) % 2 = 1 /\ (n + 2) % 2 = 0
  BY <1>1, <1>5
<1>7. ASSUME NEW i \in 1 .. n
      PROVE  /\ log'[i].event \in NodeEvent
             /\ i \in Starts' <=> i % 2 = 1
             /\ i \in Starts' => log'[i + 1].node = log'[i].node
  <2>1. /\ log[i].event \in NodeEvent
        /\ i \in Starts <=> i % 2 = 1
        /\ i \in Starts /\ i < n => log[i + 1].node = log[i].node
        /\ i = n => i \notin Starts
    BY <1>1, <1>4 DEF RaiseLocated, n
  <2>2. i \in Starts' <=> i \in Starts
    BY <1>1, <1>3
  <2>3. i < n => i + 1 \in 1 .. n
    BY <1>1
  <2> QED
    BY <2>1, <2>2, <2>3, <1>1, <1>2
<1>8. ASSUME NEW i \in 1 .. n + 2
      PROVE  /\ log'[i].event \in NodeEvent
             /\ i \in Starts' <=> i % 2 = 1
             /\ i \in Starts' /\ i < n + 2 => log'[i + 1].node = log'[i].node
             /\ i = n + 2 => i \notin Starts'
  <2>1. CASE i \in 1 .. n
    BY <2>1, <1>1, <1>7
  <2>2. CASE i = n + 1
    BY <2>2, <1>1, <1>2, <1>3, <1>6 DEF NodeEvent
  <2>3. CASE i = n + 2
    BY <2>3, <1>1, <1>2, <1>3, <1>6
  <2> QED
    BY <2>1, <2>2, <2>3, <1>1
<1> QED
  BY <1>2, <1>4, <1>8 DEF RaiseLocated

\* A statement that is sent is the one logged last, and it is sent once.
LEMMA StatementsKept ==
    ASSUME log \in Seq(Lines), retry_count \in Nat, StatementsLogged,
           db_calls \in Seq(Sql \cup {None}),
           NEW node \in Nodes, NEW event \in NodeEvent, NEW value \in LineValues,
           event # "start", Logs(node, event, value),
           IF node = "sql_executor"
           THEN LastWritten(Len(log) + 1, sql) /\ db_calls' = Append(db_calls, sql) /\ sql \in Sql \cup {None}
           ELSE db_calls' = db_calls
    PROVE  StatementsLogged'
<1> DEFINE n == Len(log)
<1>1. n \in Nat /\ Sends \subseteq 1 .. n
  BY LogType
<1>2. Sends' = IF node = "sql_executor" THEN Sends \cup {n + 1} ELSE Sends
  BY KindsAdded
<1>3. /\ Cardinality(Sends) = Len(db_calls)
      /\ \A i \in Sends : LastWritten(i, db_calls[Above(Sends, i) + 1])
  BY DEF StatementsLogged
<1>4. /\ Cardinality(Sends) \in Nat
      /\ Cardinality(Sends \cup {n + 1}) = Cardinality(Sends) + 1
      /\ Above(Sends \cup {n + 1}, n + 1) = Cardinality(Sends)
      /\ \A i \in Sends : /\ Above(Sends \cup {n + 1}, i) = Above(Sends, i)
                          /\ Above(Sends, i) \in Nat /\ Above(Sends, i) < Cardinality(Sends)
  <2> DEFINE p == n + 1
  <2>1. Sends \in SUBSET (1 .. n) /\ p \in Nat /\ p > n /\ n \in Nat
    BY <1>1
  <2> HIDE DEF n, p
  <2>2. /\ Cardinality(Sends) \in Nat
        /\ Cardinality(Sends \cup {p}) = Cardinality(Sends) + 1
        /\ Above(Sends \cup {p}, p) = Cardinality(Sends)
        /\ \A i \in Sends : /\ Above(Sends \cup {p}, i) = Above(Sends, i)
                           /\ Above(Sends, i) \in Nat /\ Above(Sends, i) < Cardinality(Sends)
    BY <2>1, NextNumber
  <2> QED
    BY <2>2 DEF p
<1>5. ASSUME NEW i \in Sends, NEW statement, LastWritten(i, statement) PROVE LastWritten(i, statement)'
  BY <1>1, <1>5, LastStays
<1>6. CASE node # "sql_executor"
  <2>1. Sends' = Sends /\ db_calls' = db_calls
    BY <1>2, <1>6
  <2>2. ASSUME NEW i \in Sends' PROVE LastWritten(i, db_calls[Above(Sends, i) + 1])'
    <3>1. PICK statement : statement = db_calls[Above(Sends, i) + 1]
      OBVIOUS
    <3>2. LastWritten(i, statement)'
      BY <1>3, <1>5, <2>1, <3>1
    <3> QED
      BY <2>1, <3>1, <3>2 DEF LastWritten
  <2> QED
    BY <1>3, <2>1, <2>2 DEF StatementsLogged
<1>7. CASE node = "sql_executor"
  <2>1. Sends' = Sends \cup {n + 1} /\ db_calls' = Append(db_calls, sql)
    BY <1>2, <1>7
  <2>2. /\ Len(db_calls') = Len(db_calls) + 1 /\ db_calls'[Len(db_calls) + 1] = sql
        /\ \A k \in 1 .. Len(db_calls) : db_calls'[k] = db_calls[k]
    BY <2>1
  <2>3. ASSUME NEW i \in Sends' PROVE LastWritten(i, db_calls[Above(Sends, i) + 1])'
    <3>1. PICK statement : statement = db_calls'[Above(Sends', i) + 1]
      OBVIOUS
    <3>2. CASE i = n + 1
      <4>1. statement = sql
        BY <3>1, <3>2, <2>1, <2>2, <1>3, <1>4
      <4>2. LastWritten(i, statement)
        BY <1>7, <3>2, <4>1
      <4>3. LastWritten(i, statement)'
        BY <3>2, <4>2, <1>1, LastStays
      <4> QED
        BY <3>1, <4>3 DEF LastWritten
    <3>3. CASE i \in Sends
      <4>1. statement = db_calls[Above(Sends, i) + 1]
        <5>1. Above(Sends', i) = Above(Sends, i) /\ Above(Sends, i) + 1 \in 1 .. Len(db_calls)
          <6>1. Above(Sends', i) = Above(Sends, i)
            BY <3>3, <2>1, <1>4
          <6>2. Above(Sends, i) \in Nat /\ Above(Sends, i) < Len(db_calls) /\ Len(db_calls) \in Nat
            BY <3>3, <1>3, <1>4
          <6> QED
            BY <6>1, <6>2
        <5> QED
          BY <3>1, <5>1, <2>2
      <4>2. LastWritten(i, statement)'
        BY <3>3, <4>1, <1>3, <1>5
      <4> QED
        BY <3>1, <4>2 DEF LastWritten
    <3> QED
      BY <2>1, <3>2, <3>3
  <2> QED
    BY <1>3, <1>4, <2>1, <2>2, <2>3 DEF StatementsLogged
<1> QED
  BY <1>6, <1>7

\* The numbers of the new lines, and how many there are then.
LEMMA NumbersKept ==
    ASSUME log \in Seq(Lines), retry_count \in Nat, RetriesNumbered, Cardinality(Retries) = retry_count,
           NEW node \in Nodes, NEW event \in NodeEvent, NEW value \in LineValues,
           event # "start", Logs(node, event, value),
           node = "sql_generator" => Cardinality(Drafts) = retry_count,
           event = "retry" => value = retry_count + 1
    PROVE  /\ RetriesNumbered'
           /\ Cardinality(Retries') = retry_count + (IF event = "retry" THEN 1 ELSE 0)
           /\ Cardinality(Drafts') = Cardinality(Drafts) + (IF node = "sql_generator" THEN 1 ELSE 0)
<1> DEFINE n == Len(log)
<1>1. n \in Nat /\ Drafts \subseteq 1 .. n /\ Retries \subseteq 1 .. n
  BY LogType
<1>2. /\ Drafts' = IF node = "sql_generator" THEN Drafts \cup {n + 1} ELSE Drafts
      /\ Retries' = IF event = "retry" THEN Retries \cup {n + 2} ELSE Retries
  BY KindsAdded
<1>3. /\ \A i \in 1 .. n : log'[i] = log[i]
      /\ log'[n + 1] = Started(node) /\ log'[n + 2] = Entry(node, event, value)
  BY LinesAdded
<1>4. /\ node = "sql_generator" => log'[n + 1].value = retry_count
      /\ log'[n + 2].value = value
  BY <1>3 DEF Started, Entry
<1>5. /\ Cardinality(Drafts) \in Nat
      /\ Cardinality(Drafts \cup {n + 1}) = Cardinality(Drafts) + 1
      /\ Above(Drafts \cup {n + 1}, n + 1) = Cardinality(Drafts)
      /\ \A i \in Drafts : /\ Above(Drafts \cup {n + 1}, i) = Above(Drafts, i)
                           /\ Above(Drafts, i) \in Nat /\ Above(Drafts, i) < Cardinality(Drafts)
  <2> DEFINE p == n + 1
  <2>1. Drafts \in SUBSET (1 .. n) /\ p \in Nat /\ p > n /\ n \in Nat
    BY <1>1
  <2> HIDE DEF n, p
  <2>2. /\ Cardinality(Drafts) \in Nat
        /\ Cardinality(Drafts \cup {p}) = Cardinality(Drafts) + 1
        /\ Above(Drafts \cup {p}, p) = Cardinality(Drafts)
        /\ \A i \in Drafts : /\ Above(Drafts \cup {p}, i) = Above(Drafts, i)
                           /\ Above(Drafts, i) \in Nat /\ Above(Drafts, i) < Cardinality(Drafts)
    BY <2>1, NextNumber
  <2> QED
    BY <2>2 DEF p
<1>6. /\ Cardinality(Retries) \in Nat
      /\ Cardinality(Retries \cup {n + 2}) = Cardinality(Retries) + 1
      /\ Above(Retries \cup {n + 2}, n + 2) = Cardinality(Retries)
      /\ \A i \in Retries : /\ Above(Retries \cup {n + 2}, i) = Above(Retries, i)
                            /\ Above(Retries, i) \in Nat /\ Above(Retries, i) < Cardinality(Retries)
  <2> DEFINE p == n + 2
  <2>1. Retries \in SUBSET (1 .. n) /\ p \in Nat /\ p > n /\ n \in Nat
    BY <1>1
  <2> HIDE DEF n, p
  <2>2. /\ Cardinality(Retries) \in Nat
        /\ Cardinality(Retries \cup {p}) = Cardinality(Retries) + 1
        /\ Above(Retries \cup {p}, p) = Cardinality(Retries)
        /\ \A i \in Retries : /\ Above(Retries \cup {p}, i) = Above(Retries, i)
                           /\ Above(Retries, i) \in Nat /\ Above(Retries, i) < Cardinality(Retries)
    BY <2>1, NextNumber
  <2> QED
    BY <2>2 DEF p
<1> HIDE DEF n
<1>7. ASSUME NEW i \in Retries' PROVE log'[i].value = Above(Retries', i) + 1
  <2>1. CASE i \in Retries
    BY <2>1, <1>1, <1>2, <1>3, <1>6 DEF RetriesNumbered
  <2>2. CASE i \notin Retries
    BY <2>2, <1>2, <1>4, <1>6
  <2> QED
    BY <2>1, <2>2
<1>8. ASSUME NEW i \in Drafts' PROVE log'[i].value = Above(Drafts', i)
  <2>1. CASE i \in Drafts
    BY <2>1, <1>1, <1>2, <1>3, <1>5 DEF RetriesNumbered
  <2>2. CASE i \notin Drafts
    BY <2>2, <1>2, <1>4, <1>5
  <2> QED
    BY <2>1, <2>2
<1>9. Cardinality(Drafts') <= Cardinality(Retries') + 1
  BY <1>2, <1>5, <1>6 DEF RetriesNumbered
<1>10. RetriesNumbered'
  BY <1>7, <1>8, <1>9 DEF RetriesNumbered
<1> QED
  BY <1>2, <1>5, <1>6, <1>10

\* The statement below the new lines is a new one, or the one above them.
LEMMA LastBelow ==
    ASSUME log \in Seq(Lines), retry_count \in Nat, NEW n, n = Len(log),
           NEW node \in Nodes, NEW event \in NodeEvent, NEW value \in LineValues,
           event # "start", Logs(node, event, value)
    PROVE  /\ node = "sql_generator" /\ event = "end" => LastWritten(n + 3, value)'
           /\ node # "sql_generator" =>
                \A statement : LastWritten(n + 1, statement) => LastWritten(n + 3, statement)'
<1>1. n \in Nat /\ Written(n + 1) \subseteq 1 .. n
  BY DEF Written
<1>2. Written(n + 3)' = IF node = "sql_generator" /\ event = "end"
                        THEN Written(n + 1) \cup {n + 2} ELSE Written(n + 1)
  BY KindsAdded
<1>3. (\A i \in 1 .. n : log'[i] = log[i]) /\ log'[n + 2].value = value
  <2>1. (\A i \in 1 .. n : log'[i] = log[i]) /\ log'[n + 2] = Entry(node, event, value)
    BY LinesAdded
  <2> QED
    BY <2>1 DEF Entry
<1>4. ASSUME node = "sql_generator", event = "end" PROVE LastWritten(n + 3, value)'
  <2>1. n + 2 \in Written(n + 3)' /\ \A l \in Written(n + 3)' : l <= n + 2
    BY <1>1, <1>2, <1>4
  <2> QED
    BY <2>1, <1>3 DEF LastWritten
<1>5. ASSUME node # "sql_generator", NEW statement, LastWritten(n + 1, statement)
      PROVE  LastWritten(n + 3, statement)'
  <2>1. Written(n + 3)' = Written(n + 1)
    BY <1>2, <1>5
  <2>2. PICK k \in Written(n + 1) : log[k].value = statement /\ \A l \in Written(n + 1) : l <= k
    BY <1>5 DEF LastWritten
  <2>3. log'[k] = log[k]
    BY <1>1, <1>3, <2>2
  <2> QED
    BY <2>1, <2>2, <2>3 DEF LastWritten
<1> QED
  BY <1>4, <1>5

-----------------------------------------------------------------------------
(* Step by step                                                             *)

\* What every node that ran to its end keeps, and what it left behind.
LEMMA EndKept ==
    ASSUME GraphInv, TraceInv, NEW node \in Nodes, NEW event \in NodeEvent, NEW value \in LineValues,
           event # "start", Logs(node, event, value), pc = node, fault' = fault,
           db_calls' = IF node = "sql_executor" THEN Append(db_calls, sql) ELSE db_calls,
           event = "retry" => value = retry_count + 1
    PROVE  /\ log' \in Seq(Lines) /\ Len(log') = Len(log) + 2
           /\ log'[Len(log')] = Entry(node, event, value)
           /\ RaiseLocated' /\ StatementsLogged' /\ RetriesNumbered'
           /\ Cardinality(Retries') = retry_count + (IF event = "retry" THEN 1 ELSE 0)
           /\ Cardinality(Drafts') = Cardinality(Drafts) + (IF node = "sql_generator" THEN 1 ELSE 0)
<1>1. /\ retry_count \in Nat /\ log \in Seq(Lines) /\ db_calls \in Seq(Sql \cup {None})
      /\ sql \in Sql \cup {None} /\ fault = "none"
  BY DEF GraphInv, TypeOK, FieldTypes, TraceInv, DialogueData
<1>2. /\ log' \in Seq(Lines) /\ Len(log') = Len(log) + 2 /\ Len(log) \in Nat
      /\ log'[Len(log) + 2] = Entry(node, event, value)
  BY <1>1, LinesAdded
<1>3. RaiseLocated'
  BY <1>1, LocatedKept DEF TraceInv
<1>4. StatementsLogged'
  <2>1. node = "sql_executor" => LastWritten(Len(log) + 1, sql)
    BY DEF TraceInv, SqlLogged
  <2> QED
    BY <1>1, <2>1, StatementsKept DEF TraceInv
<1>5. /\ RetriesNumbered'
      /\ Cardinality(Retries') = retry_count + (IF event = "retry" THEN 1 ELSE 0)
      /\ Cardinality(Drafts') = Cardinality(Drafts) + (IF node = "sql_generator" THEN 1 ELSE 0)
  <2>1. Cardinality(Retries) = retry_count /\ (node = "sql_generator" => Cardinality(Drafts) = retry_count)
    BY DEF TraceInv, LinesCounted
  <2> QED
    BY <1>1, <2>1, NumbersKept DEF TraceInv
<1> QED
  BY <1>2, <1>3, <1>4, <1>5

LEMMA DraftsCounted == log \in Seq(Lines) => Cardinality(Drafts) \in Nat
<1> SUFFICES ASSUME log \in Seq(Lines) PROVE Cardinality(Drafts) \in Nat
  OBVIOUS
<1>1. Drafts \in SUBSET (1 .. Len(log)) /\ IsFiniteSet(1 .. Len(log))
  BY LogType, FS_Interval
<1> QED
  BY <1>1, FS_Subset, FS_CardinalityType

LEMMA AnalyzerTrace ==
    ASSUME GraphInv, TraceInv, LogsQuestionAnalyzer
    PROVE  TraceInv'
<1> DEFINE node == "question_analyzer"
<1>1. /\ pc = node /\ fault' = fault /\ db_calls' = db_calls /\ retry_count' = retry_count
      /\ status' \in {"generating", "asking_clarification", "error"}
      /\ pc' = AfterAnalyzer[status']
  BY DEF LogsQuestionAnalyzer, QuestionResolved, AskClarification, TooManyRounds, NotJson, OutOfScope,
         Classified, At, Route, sqlVars, dbVars
<1>2. PICK event \in NodeEvent \ {"start", "retry"}, value \in LineValues :
        /\ Logs(node, event, value)
        /\ status' # "generating" =>
            status' = CASE event = "clarification_requested" -> "asking_clarification"
                        [] event = "error" -> "error"
                        [] event = "end" -> IF value = "error" THEN "error" ELSE "done"
                        [] OTHER -> "unknown"
  <2> USE DEF Route, NodeEvent, LineValues
  <2>1. CASE QuestionResolved /\ Logs(node, "end", "generating")
    BY <2>1 DEF QuestionResolved
  <2>2. CASE AskClarification /\ Logs(node, "clarification_requested", ambiguity_count')
    <3>1. ambiguity_count' \in Nat
      BY <2>2 DEF AskClarification, GraphInv, TypeOK, FieldTypes
    <3> QED
      BY <2>2, <3>1 DEF AskClarification
  <2>3. CASE (TooManyRounds \/ NotJson) /\ Logs(node, "error", None)
    BY <2>3 DEF TooManyRounds, NotJson
  <2>4. CASE OutOfScope /\ Logs(node, "end", "error")
    BY <2>4 DEF OutOfScope
  <2> QED
    BY <2>1, <2>2, <2>3, <2>4 DEF LogsQuestionAnalyzer
<1>3. /\ log' \in Seq(Lines) /\ log'[Len(log')] = Entry(node, event, value)
      /\ RaiseLocated' /\ StatementsLogged' /\ RetriesNumbered'
      /\ Cardinality(Retries') = retry_count
      /\ Cardinality(Drafts') = Cardinality(Drafts)
  <2>1. node \in Nodes /\ db_calls' = IF node = "sql_executor" THEN Append(db_calls, sql) ELSE db_calls
    BY <1>1 DEF Nodes, LlmNodes
  <2>2. /\ log' \in Seq(Lines) /\ log'[Len(log')] = Entry(node, event, value)
        /\ RaiseLocated' /\ StatementsLogged' /\ RetriesNumbered'
        /\ Cardinality(Retries') = retry_count + 0
        /\ Cardinality(Drafts') = Cardinality(Drafts) + 0
    BY <1>1, <1>2, <2>1, EndKept
  <2>3. Cardinality(Drafts) \in Nat /\ retry_count \in Nat
    BY DraftsCounted DEF GraphInv, TypeOK, FieldTypes, TraceInv
  <2> QED
    BY <2>2, <2>3
<1>4. pc' \in {"sql_generator", "END"} /\ (pc' = "END" => status' # "generating")
  BY <1>1 DEF AfterAnalyzer
<1>5. LinesCounted' /\ SqlLogged'
  BY <1>1, <1>3, <1>4 DEF TraceInv, LinesCounted, SqlLogged
<1>6. StatusLogged'
  BY <1>2, <1>3, <1>4 DEF StatusLogged, Entry
<1> QED
  BY <1>3, <1>5, <1>6 DEF TraceInv

LEMMA GeneratorTrace ==
    ASSUME GraphInv, TraceInv, LogsSqlGenerator
    PROVE  TraceInv'
<1> DEFINE node == "sql_generator"
<1>1. /\ pc = node /\ fault' = fault /\ db_calls' = db_calls /\ retry_count' = retry_count
      /\ pc' = "sql_validator" /\ sql' \in Sql /\ Logs(node, "end", sql')
  BY DEF LogsSqlGenerator, SqlGenerator, At, Route, AfterGenerator, dbVars
<1>2. PICK value \in LineValues : value = sql'
  BY <1>1 DEF LineValues
<1>3. /\ node \in Nodes /\ "end" \in NodeEvent
      /\ db_calls' = IF node = "sql_executor" THEN Append(db_calls, sql) ELSE db_calls
  BY <1>1 DEF Nodes, LlmNodes, NodeEvent
<1>4. /\ log' \in Seq(Lines) /\ Len(log') = Len(log) + 2
      /\ RaiseLocated' /\ StatementsLogged' /\ RetriesNumbered'
      /\ Cardinality(Retries') = retry_count + 0
      /\ Cardinality(Drafts') = Cardinality(Drafts) + 1
  BY <1>1, <1>2, <1>3, EndKept
<1>5. retry_count \in Nat /\ Cardinality(Drafts) = retry_count
  BY <1>1 DEF GraphInv, TypeOK, FieldTypes, TraceInv, LinesCounted
<1>6. LinesCounted'
  BY <1>1, <1>4, <1>5 DEF LinesCounted
<1>7. SqlLogged'
  <2>1. PICK n : n = Len(log)
    OBVIOUS
  <2>2. LastWritten(n + 3, value)'
    BY <1>1, <1>2, <1>3, <1>5, <2>1, LastBelow DEF TraceInv
  <2>3. Len(log') + 1 = n + 3
    BY <1>4, <2>1 DEF TraceInv
  <2> QED
    BY <1>2, <2>2, <2>3 DEF SqlLogged, LastWritten, Written
<1>8. StatusLogged'
  BY <1>1 DEF StatusLogged
<1> QED
  BY <1>4, <1>6, <1>7, <1>8 DEF TraceInv

LEMMA ValidatorTrace ==
    ASSUME GraphInv, TraceInv, LogsSqlValidator
    PROVE  TraceInv'
<1> DEFINE node == "sql_validator"
<1>1. PICK event \in {"end", "error"} :
        /\ Logs(node, event, None)
        /\ pc = node /\ fault' = fault /\ db_calls' = db_calls /\ retry_count' = retry_count
        /\ sql' = sql
        /\ IF event = "error" THEN pc' = "END" /\ status' = "error" ELSE pc' = "sql_executor"
  BY DEF LogsSqlValidator, AcceptSql, RejectSql, At, Route, AfterValidator, dbVars, sqlVars
<1>2. /\ node \in Nodes /\ event \in NodeEvent /\ event # "start" /\ None \in LineValues
      /\ db_calls' = IF node = "sql_executor" THEN Append(db_calls, sql) ELSE db_calls
  BY <1>1 DEF Nodes, LlmNodes, NodeEvent, LineValues
<1>3. /\ log' \in Seq(Lines) /\ Len(log') = Len(log) + 2
      /\ log'[Len(log')] = Entry(node, event, None)
      /\ RaiseLocated' /\ StatementsLogged' /\ RetriesNumbered'
      /\ Cardinality(Retries') = retry_count + 0
      /\ Cardinality(Drafts') = Cardinality(Drafts) + 0
  BY <1>1, <1>2, EndKept
<1>4. retry_count \in Nat /\ Cardinality(Drafts) = retry_count + 1
  BY <1>1 DEF GraphInv, TypeOK, FieldTypes, TraceInv, LinesCounted
<1>5. LinesCounted'
  BY <1>1, <1>3, <1>4 DEF LinesCounted
<1>6. SqlLogged'
  <2>1. PICK n : n = Len(log)
    OBVIOUS
  <2>2. PICK statement : statement = sql
    OBVIOUS
  <2>3. LastWritten(n + 1, statement)
    BY <1>1, <2>1, <2>2 DEF TraceInv, SqlLogged
  <2>4. LastWritten(n + 3, statement)'
    BY <1>1, <1>2, <1>4, <2>1, <2>3, LastBelow DEF TraceInv
  <2>5. Len(log') + 1 = n + 3
    BY <1>3, <2>1 DEF TraceInv
  <2> QED
    BY <1>1, <2>2, <2>4, <2>5 DEF SqlLogged, LastWritten, Written
<1>7. StatusLogged'
  BY <1>1, <1>3 DEF StatusLogged, Entry
<1> QED
  BY <1>3, <1>5, <1>6, <1>7 DEF TraceInv

LEMMA ExecutorTrace ==
    ASSUME GraphInv, TraceInv, LogsSqlExecutor
    PROVE  TraceInv'
<1> DEFINE node == "sql_executor"
<1>1. /\ pc = node /\ fault' = fault /\ db_calls' = Append(db_calls, sql)
  BY DEF LogsSqlExecutor, QuerySucceeds, QueryFailsRetry, QueryFailsForGood, CallDatabase, At, Route
<1>2. PICK event \in {"end", "retry", "error"}, value \in LineValues :
        /\ Logs(node, event, value)
        /\ event = "retry" => value = retry_count + 1
        /\ retry_count' = retry_count + (IF event = "retry" THEN 1 ELSE 0)
        /\ pc' = CASE event = "end" -> "answer_formatter"
                   [] event = "retry" -> "sql_generator"
                   [] event = "error" -> "END"
        /\ event = "error" => status' = "error"
  <2> USE DEF Route, LineValues, AfterExecutor
  <2>1. retry_count \in Nat
    BY DEF GraphInv, TypeOK, FieldTypes
  <2>2. CASE QuerySucceeds /\ Logs(node, "end", db_results')
    <3>1. db_results' \in Nat
      BY <2>2, RowsAssumption DEF QuerySucceeds
    <3> QED
      BY <2>1, <2>2, <3>1 DEF QuerySucceeds
  <2>3. CASE QueryFailsRetry /\ Logs(node, "retry", retry_count')
    BY <2>1, <2>3 DEF QueryFailsRetry
  <2>4. CASE QueryFailsForGood /\ Logs(node, "error", None)
    BY <2>1, <2>4 DEF QueryFailsForGood
  <2> QED
    BY <2>2, <2>3, <2>4 DEF LogsSqlExecutor
<1>3. /\ node \in Nodes /\ event \in NodeEvent /\ event # "start"
      /\ db_calls' = IF node = "sql_executor" THEN Append(db_calls, sql) ELSE db_calls
  BY <1>1, <1>2 DEF Nodes, NodeEvent
<1>4. /\ log' \in Seq(Lines) /\ log'[Len(log')] = Entry(node, event, value)
      /\ RaiseLocated' /\ StatementsLogged' /\ RetriesNumbered'
      /\ Cardinality(Retries') = retry_count + (IF event = "retry" THEN 1 ELSE 0)
      /\ Cardinality(Drafts') = Cardinality(Drafts) + 0
  BY <1>1, <1>2, <1>3, EndKept
<1>5. retry_count \in Nat /\ Cardinality(Drafts) = retry_count + 1
  BY <1>1 DEF GraphInv, TypeOK, FieldTypes, TraceInv, LinesCounted
<1>6. LinesCounted' /\ SqlLogged'
  BY <1>2, <1>4, <1>5 DEF LinesCounted, SqlLogged
<1>7. StatusLogged'
  BY <1>2, <1>4 DEF StatusLogged, Entry
<1> QED
  BY <1>4, <1>6, <1>7 DEF TraceInv

LEMMA FormatterTrace ==
    ASSUME GraphInv, TraceInv, LogsAnswerFormatter
    PROVE  TraceInv'
<1> DEFINE node == "answer_formatter"
<1>1. /\ pc = node /\ fault' = fault /\ db_calls' = db_calls /\ retry_count' = retry_count
      /\ pc' = "END" /\ status' = "done" /\ Logs(node, "end", None)
  BY DEF LogsAnswerFormatter, AnswerFormatter, At, Route, AfterFormatter, dbVars, sqlVars
<1>2. /\ node \in Nodes /\ "end" \in NodeEvent /\ None \in LineValues
      /\ db_calls' = IF node = "sql_executor" THEN Append(db_calls, sql) ELSE db_calls
  BY <1>1 DEF Nodes, LlmNodes, NodeEvent, LineValues
<1>3. /\ log' \in Seq(Lines) /\ log'[Len(log')] = Entry(node, "end", None)
      /\ RaiseLocated' /\ StatementsLogged' /\ RetriesNumbered'
      /\ Cardinality(Retries') = retry_count + 0
  BY <1>1, <1>2, EndKept
<1>4. LinesCounted' /\ SqlLogged'
  BY <1>1, <1>3 DEF LinesCounted, SqlLogged, GraphInv, TypeOK, FieldTypes
<1>5. StatusLogged'
  BY <1>1, <1>3, StatusAssumption DEF StatusLogged, Entry, Statuses
<1> QED
  BY <1>3, <1>4, <1>5 DEF TraceInv

\* A node that raised leaves an open start, and nothing is logged after it.
LEMMA RaiseInNodeTrace ==
    ASSUME GraphInv, TraceInv, LlmCallRaises \/ ReplyNotAnObject, log' = Append(log, Started(pc))
    PROVE  TraceInv'
<1> DEFINE n == Len(log)
           added == Started(pc)
<1>1. /\ pc \in LlmNodes /\ pc' = "RAISED" /\ fault' \in LlmFaults
      /\ retry_count' = retry_count /\ db_calls' = db_calls
  BY DEF LlmCallRaises, ReplyNotAnObject, Raise, At, LlmFaults, LlmNodes, sqlVars, dbVars
<1>2. /\ fault \notin LlmFaults /\ retry_count \in Nat /\ log \in Seq(Lines)
      /\ db_calls \in Seq(Sql \cup {None})
  BY <1>1 DEF GraphInv, TypeOK, FieldTypes, DialogueData, TraceInv, LlmFaults, Nodes
<1>3. /\ added \in Lines /\ added.event = "start" /\ added.node = pc
      /\ pc = "sql_generator" => added.value = retry_count
  BY <1>1, <1>2 DEF Started, Entry, Lines, LineValues, NodeEvent, Nodes
<1> HIDE DEF added
<1>4. /\ log' \in Seq(Lines) /\ Len(log') = n + 1 /\ n \in Nat
      /\ DOMAIN log = 1 .. n /\ DOMAIN log' = 1 .. n + 1
      /\ log'[n + 1] = added
      /\ \A i \in 1 .. n : log'[i] = log[i]
  BY <1>2, <1>3 DEF added
<1>5. /\ Starts \subseteq 1 .. n /\ Retries \subseteq 1 .. n
      /\ Sends \subseteq 1 .. n /\ Drafts \subseteq 1 .. n
  BY <1>2, LogType
<1> HIDE DEF n
<1>6. Starts' = Starts \cup {n + 1}
  BY <1>3, <1>4 DEF Starts
<1>7. Retries' = Retries
  BY <1>3, <1>4 DEF Retries
<1>8. \A i \in Starts' : i # n + 1 => i \in Starts /\ log'[i] = log[i]
  BY <1>4, <1>5, <1>6
<1>9. Sends' = Sends
  <2>1. pc # "sql_executor"
    BY <1>1 DEF LlmNodes
  <2> QED
    BY <2>1, <1>3, <1>4, <1>5, <1>6, <1>8 DEF Sends
<1>10. Drafts' = IF pc = "sql_generator" THEN Drafts \cup {n + 1} ELSE Drafts
  BY <1>3, <1>4, <1>5, <1>6, <1>8 DEF Drafts
<1>11. RaiseLocated'
  <2>1. n % 2 = 0
    <3>1. CASE n = 0
      BY <3>1
    <3>2. CASE n # 0
      <4>1. n \in DOMAIN log
        BY <3>2, <1>4
      <4>2. (n \in Starts <=> n % 2 = 1) /\ n \notin Starts
        BY <4>1, <1>2 DEF TraceInv, RaiseLocated, n
      <4> QED
        BY <4>2, <1>4
    <3> QED
      BY <3>1, <3>2
  <2>2. (n + 1) % 2 = 1
    BY <2>1, <1>4
  <2>3. ASSUME NEW i \in 1 .. n
        PROVE  /\ log'[i].event \in NodeEvent
               /\ i \in Starts' <=> i % 2 = 1
               /\ i \in Starts' /\ i < n + 1 => log'[i + 1].node = log'[i].node
    <3>1. /\ log[i].event \in NodeEvent
          /\ i \in Starts <=> i % 2 = 1
          /\ i \in Starts /\ i < n => log[i + 1].node = log[i].node
          /\ i = n => i \notin Starts
      BY <1>2, <1>4 DEF TraceInv, RaiseLocated, n
    <3>2. (i \in Starts' <=> i \in Starts) /\ (i < n => i + 1 \in 1 .. n)
      BY <1>4, <1>6
    <3> QED
      BY <3>1, <3>2, <1>4
  <2>4. ASSUME NEW i \in 1 .. n + 1
        PROVE  /\ log'[i].event \in NodeEvent
               /\ i \in Starts' <=> i % 2 = 1
               /\ i \in Starts' /\ i < n + 1 => log'[i + 1].node = log'[i].node
               /\ i = n + 1 => i \in Starts'
    <3>1. CASE i \in 1 .. n
      BY <3>1, <1>4, <2>3
    <3>2. CASE i = n + 1
      BY <3>2, <1>3, <1>4, <1>6, <2>2 DEF NodeEvent
    <3> QED
      BY <3>1, <3>2, <1>4
  <2> QED
    BY <2>4, <1>1, <1>4 DEF RaiseLocated
<1>12. StatementsLogged'
  <2>1. ASSUME NEW i \in Sends PROVE LastWritten(i, db_calls[Above(Sends, i) + 1])'
    <3>1. PICK statement : statement = db_calls[Above(Sends, i) + 1]
      OBVIOUS
    <3>2. PICK k \in Written(i) : log[k].value = statement /\ \A l \in Written(i) : l <= k
      BY <3>1 DEF TraceInv, StatementsLogged, LastWritten
    <3>3. Written(i)' = Written(i)
      <4>1. \A j \in 1 .. i - 1 : log'[j] = log[j]
        BY <1>4, <1>5
      <4> QED
        BY <4>1 DEF Written
    <3>4. log'[k] = log[k]
      BY <3>2, <1>4, <1>5 DEF Written
    <3> QED
      BY <3>1, <3>2, <3>3, <3>4, <1>1, <1>9 DEF LastWritten
  <2> QED
    BY <2>1, <1>1, <1>9 DEF TraceInv, StatementsLogged
<1>13. RetriesNumbered'
  <2>1. /\ Cardinality(Retries) = retry_count
        /\ pc = "sql_generator" => Cardinality(Drafts) = retry_count
        /\ Cardinality(Drafts) <= retry_count + 1
        /\ \A i \in Retries : log[i].value = Above(Retries, i) + 1
        /\ \A i \in Drafts : log[i].value = Above(Drafts, i)
    BY DEF TraceInv, LinesCounted, RetriesNumbered
  <2>2. \A i \in Retries' : log'[i].value = Above(Retries', i) + 1
    BY <2>1, <1>4, <1>5, <1>7
  <2>3. CASE pc # "sql_generator"
    BY <2>1, <2>2, <2>3, <1>4, <1>5, <1>7, <1>10 DEF RetriesNumbered
  <2>4. CASE pc = "sql_generator"
    <3> DEFINE p == n + 1
    <3>1. Drafts \in SUBSET (1 .. n) /\ p \in Nat /\ p > n /\ n \in Nat
      BY <1>4, <1>5
    <3> HIDE DEF p
    <3>2. /\ Cardinality(Drafts \cup {p}) = Cardinality(Drafts) + 1
          /\ Above(Drafts \cup {p}, p) = Cardinality(Drafts)
          /\ \A i \in Drafts : Above(Drafts \cup {p}, i) = Above(Drafts, i)
      <4> DEFINE drafted == Drafts
      <4>1. drafted \in SUBSET (1 .. n) /\ p \in Nat /\ p > n /\ n \in Nat
        BY <3>1
      <4> HIDE DEF n, drafted
      <4>2. /\ Cardinality(drafted \cup {p}) = Cardinality(drafted) + 1
            /\ Above(drafted \cup {p}, p) = Cardinality(drafted)
            /\ \A i \in drafted : Above(drafted \cup {p}, i) = Above(drafted, i)
        BY <4>1, NextNumber
      <4> QED
        BY <4>2 DEF drafted
    <3>3. Drafts' = Drafts \cup {p} /\ log'[p].value = retry_count
      BY <2>4, <1>3, <1>4, <1>10 DEF p
    <3>4. ASSUME NEW i \in Drafts' PROVE log'[i].value = Above(Drafts', i)
      <4>1. CASE i = p
        BY <4>1, <3>2, <3>3, <2>1, <2>4
      <4>2. CASE i \in Drafts
        BY <4>2, <3>2, <3>3, <2>1, <1>4, <1>5
      <4> QED
        BY <4>1, <4>2, <3>3
    <3>5. Cardinality(Drafts') <= Cardinality(Retries') + 1
      BY <3>2, <3>3, <2>1, <2>4, <1>2, <1>7
    <3> QED
      BY <3>4, <3>5, <2>2 DEF RetriesNumbered
  <2> QED
    BY <2>3, <2>4
<1>14. LinesCounted' /\ SqlLogged' /\ StatusLogged'
  BY <1>1, <1>7 DEF TraceInv, LinesCounted, SqlLogged, StatusLogged
<1> QED
  BY <1>4, <1>11, <1>12, <1>13, <1>14 DEF TraceInv

\* LangGraph's limit is met between two nodes: nothing is logged.
LEMMA LimitTrace ==
    ASSUME GraphInv, TraceInv, RecursionLimitHit, log' = log
    PROVE  TraceInv'
<1>1. /\ pc \in Nodes /\ pc' = "RAISED" /\ fault' \notin LlmFaults /\ fault \notin LlmFaults
      /\ retry_count' = retry_count /\ db_calls' = db_calls
  BY DEF RecursionLimitHit, Raise, LlmFaults, sqlVars, dbVars, GraphInv, DialogueData
<1>2. Starts' = Starts /\ Sends' = Sends /\ Drafts' = Drafts /\ Retries' = Retries
  BY DEF Starts, Sends, Drafts, Retries
<1>3. RaiseLocated'
  BY <1>1, <1>2 DEF TraceInv, RaiseLocated
<1>4. StatementsLogged' /\ RetriesNumbered'
  BY <1>1, <1>2 DEF TraceInv, StatementsLogged, RetriesNumbered, LastWritten, Written
<1>5. LinesCounted' /\ SqlLogged' /\ StatusLogged'
  BY <1>1, <1>2 DEF TraceInv, LinesCounted, SqlLogged, StatusLogged
<1> QED
  BY <1>3, <1>4, <1>5 DEF TraceInv

LEMMA StutterTrace ==
    ASSUME TraceInv, UNCHANGED traceVars
    PROVE  TraceInv'
<1>1. log' = log /\ UNCHANGED <<pc, fault, status, sql, retry_count, db_calls>>
  BY DEF traceVars, vars, sqlVars, dbVars
<1>2. Starts' = Starts /\ Sends' = Sends /\ Drafts' = Drafts /\ Retries' = Retries
  BY <1>1 DEF Starts, Sends, Drafts, Retries
<1>3. RaiseLocated' /\ StatusLogged'
  BY <1>1, <1>2 DEF TraceInv, RaiseLocated, StatusLogged
<1>4. StatementsLogged' /\ SqlLogged'
  BY <1>1, <1>2 DEF TraceInv, StatementsLogged, SqlLogged, LastWritten, Written
<1>5. RetriesNumbered' /\ LinesCounted'
  BY <1>1, <1>2 DEF TraceInv, RetriesNumbered, LinesCounted
<1> QED
  BY <1>1, <1>3, <1>4, <1>5 DEF TraceInv

LEMMA InitTrace == TraceInit => TraceInv
<1> SUFFICES ASSUME TraceInit PROVE TraceInv
  OBVIOUS
<1>1. /\ log = <<>> /\ pc = "question_analyzer" /\ retry_count = 0 /\ db_calls = <<>>
  BY DEF TraceInit, Init
<1>2. Starts = {} /\ Sends = {} /\ Drafts = {} /\ Retries = {}
  BY <1>1 DEF Starts, Sends, Drafts, Retries
<1>3. RaiseLocated /\ StatementsLogged /\ RetriesNumbered
  BY <1>1, <1>2, FS_EmptySet DEF RaiseLocated, StatementsLogged, RetriesNumbered
<1>4. LinesCounted /\ SqlLogged /\ StatusLogged
  BY <1>1, <1>2, FS_EmptySet DEF LinesCounted, SqlLogged, StatusLogged
<1> QED
  BY <1>1, <1>3, <1>4 DEF TraceInv

\* A run that logs is a run.
LEMMA TraceIsRun == TraceSpec => Spec
<1>1. TraceInit => Init
  BY DEF TraceInit
<1>2. [TraceNext]_traceVars => [Next]_vars
  BY DEF TraceNext, traceVars, Next, LogsQuestionAnalyzer, LogsSqlGenerator, LogsSqlValidator,
         LogsSqlExecutor, LogsAnswerFormatter, LogsRaise, QuestionAnalyzer, SqlValidator, SqlExecutor, Raises
<1> QED
  BY <1>1, <1>2, PTL DEF Spec, TraceSpec

LEMMA TraceInvariant == TraceSpec => [](GraphInv /\ TraceInv)
<1>1. TraceSpec => []GraphInv
  BY TraceIsRun, GraphInvariant, PTL
<1>2. GraphInv /\ TraceInv /\ [TraceNext]_traceVars => TraceInv'
  BY AnalyzerTrace, GeneratorTrace, ValidatorTrace, ExecutorTrace, FormatterTrace,
     RaiseInNodeTrace, LimitTrace, StutterTrace
  DEF TraceNext, LogsRaise
<1> QED
  BY InitTrace, <1>1, <1>2, PTL DEF TraceSpec

\* The log names the node a run raised in, and only then has an open start.
THEOREM RaisesLocated == TraceSpec => []RaiseLocated
BY TraceInvariant, PTL DEF TraceInv

\* The log has every statement sent to the database, in order, although the
\* executor does not log what it sends.
THEOREM StatementsInLog == TraceSpec => []StatementsLogged
BY TraceInvariant, PTL DEF TraceInv

\* The last line of a run that returned tells its status.
THEOREM StatusInLog == TraceSpec => []StatusLogged
BY TraceInvariant, PTL DEF TraceInv

\* Retries are numbered without a gap, and every draft has the number of its retry.
THEOREM RetriesInLog == TraceSpec => []RetriesNumbered
BY TraceInvariant, PTL DEF TraceInv

=============================================================================
