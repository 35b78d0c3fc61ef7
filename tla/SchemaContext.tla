---------------------------- MODULE SchemaContext ---------------------------
(***************************************************************************)
(* From a database's tables to the schema context of the prompts: the      *)
(* rows the adapters' fetch_schema returns (db/sqlite.py, db/postgres.py)  *)
(* and the lines load_schema_context makes of them (db/schema_loader.py).  *)
(* A column's type is left out: it is passed on and never looked at.       *)
(***************************************************************************)
EXTENDS Integers, SequencesExt

CONSTANTS
    TableNames,    \* every table name, in the order of ORDER BY
    Columns,       \* every column name
    KeyNames,      \* every constraint name
    Definitions,   \* what CREATE TABLE may say of a table
    Absent         \* the definition of a table that does not exist

Tables == ToSet(TableNames)

\* Columns of a table that refer one by one to columns of a table.
ForeignKeys ==
    {key \in [name : KeyNames, from : Seq(Columns), table : Tables, to : Seq(Columns)] :
        Len(key.from) = Len(key.to)}

ASSUME TablesAssumption == TableNames \in Seq(Tables) /\ IsInjective(TableNames)

\* A definition has its columns in the order declared, one at least, and its
\* foreign keys in the order PRAGMA foreign_key_list lists them.
ASSUME DefinitionsAssumption ==
    /\ Definitions \subseteq [columns : Seq(Columns) \ {<<>>}, keys : Seq(ForeignKeys)]
    /\ Absent \notin Definitions

Databases == [Tables -> Definitions \cup {Absent}]

\* The elements of a sequence at some positions, in their order.
At(seq, positions) ==
    FlattenSeq([i \in DOMAIN seq |-> IF i \in positions THEN <<seq[i]>> ELSE <<>>])

Existing(db) == At(TableNames, {i \in DOMAIN TableNames : db[TableNames[i]] # Absent})

\* `references` is {} for None, `is_fk` is that it is not.
Row(table, column, references) == [table |-> table, column |-> column, references |-> references]

Rows == [table : Tables, column : Columns, references : SUBSET (Tables \X Columns)]

-----------------------------------------------------------------------------
(* SQLiteConnector: one PRAGMA per table and kind                           *)

\* fk_map: the key listed last wins a column that several keys have.
KeyMap(definition) ==
    LET keys == definition.keys
        Winner(column) == CHOOSE i \in DOMAIN keys :
            /\ Contains(keys[i].from, column)
            /\ \A j \in DOMAIN keys : Contains(keys[j].from, column) => j <= i
        Target(column, key) ==
            LET k == CHOOSE k \in DOMAIN key.from : key.from[k] = column
            IN  <<key.table, key.to[k]>>
    IN  [column \in UNION {ToSet(keys[i].from) : i \in DOMAIN keys} |->
            Target(column, keys[Winner(column)])]

\* The column's entry in fk_map, as `is_fk` and `references`.
Referred(map, column) == IF column \in DOMAIN map THEN {map[column]} ELSE {}

\* A PRAGMA on a table that is gone returns no rows.
Definition(db, table) == IF db[table] = Absent THEN [columns |-> <<>>, keys |-> <<>>] ELSE db[table]

SqliteRows(table, columns, map) ==
    [i \in DOMAIN columns |-> Row(table, columns[i], Referred(map, columns[i]))]

-----------------------------------------------------------------------------
(* PostgresConnector: one query over four information_schema views          *)

Keys(db) == UNION {ToSet(db[t].keys) : t \in ToSet(Existing(db))}

Having(db, key) == {t \in ToSet(Existing(db)) : Contains(db[t].keys, key)}

KeyColumnUsage(db) ==
    UNION {{[name |-> key.name, table |-> t, column |-> c] : c \in ToSet(key.from), t \in Having(db, key)} :
        key \in Keys(db)}

ConstraintColumnUsage(db) ==
    UNION {{[name |-> key.name, table |-> key.table, column |-> c] : c \in ToSet(key.to)} :
        key \in Keys(db)}

\* The join is by constraint name alone: every column a constraint uses, with
\* every column it refers to.
Joined(db, table, column) ==
    {<<u.table, u.column>> : u \in
        {u \in ConstraintColumnUsage(db) :
            [name |-> u.name, table |-> table, column |-> column] \in KeyColumnUsage(db)}}

\* The LEFT JOIN has a row for each reference of a column, or one without.  (A
\* row the join repeats is listed once here.)
ColumnRows(db, table, column) ==
    LET references == SetToSeq(Joined(db, table, column))
    IN  IF references = <<>> THEN <<Row(table, column, {})>>
        ELSE [i \in DOMAIN references |-> Row(table, column, {references[i]})]

PostgresRows(db) ==
    LET OfTable(t) == FlattenSeq([i \in DOMAIN db[t].columns |-> ColumnRows(db, t, db[t].columns[i])])
        existing == Existing(db)
    IN  FlattenSeq([i \in DOMAIN existing |-> OfTable(existing[i])])

-----------------------------------------------------------------------------
(* load_schema_context                                                      *)

RowsOf(rows, table) == At(rows, {i \in DOMAIN rows : rows[i].table = table})

(* mutant: the test `if table not in tables` is gone *)
MutLine(rows, table) ==
    [table |-> table, columns |-> <<Last(RowsOf(rows, table))>>]

\* A column is shown with an arrow to its reference, if it has one.
Line(rows, table) == [table |-> table, columns |-> RowsOf(rows, table)]

\* A dictionary keeps the order in which its keys were added.
Context(rows) ==
    LET first == At(rows, {i \in DOMAIN rows : \A j \in 1 .. i - 1 : rows[j].table # rows[i].table})
    IN  [k \in DOMAIN first |-> Line(rows, first[k].table)]

-----------------------------------------------------------------------------
(* What the rows and the lines are for                                      *)

\* The columns that a table's keys say a column refers to.
Targets(definition, column) ==
    UNION {{<<key.table, key.to[k]>> : k \in {k \in DOMAIN key.from : key.from[k] = column}} :
        key \in ToSet(definition.keys)}

ColumnsOf(line) == [i \in DOMAIN line.columns |-> line.columns[i].column]

TablesOf(context) == [k \in DOMAIN context |-> context[k].table]

\* All columns of a table in order, each with an arrow to one of its targets, if
\* it has any.
Shows(line, definition) ==
    /\ ColumnsOf(line) = definition.columns
    /\ \A i \in DOMAIN line.columns :
        LET targets == Targets(definition, line.columns[i].column) IN
        IF targets = {} THEN line.columns[i].references = {}
        ELSE \E target \in targets : line.columns[i].references = {target}

\* Every table in order, as it is defined.
Describes(context, db) ==
    /\ TablesOf(context) = Existing(db)
    /\ \A k \in DOMAIN context : Shows(context[k], db[context[k].table])

\* All columns of one definition that the table had in some databases, with
\* arrows of the same or other ones.
IsWhole(line, databases) ==
    LET had == {db[line.table] : db \in databases} \ {Absent}
    IN  /\ \E definition \in had : ColumnsOf(line) = definition.columns
        /\ \A i \in DOMAIN line.columns :
            line.columns[i].references \subseteq
                UNION {Targets(definition, line.columns[i].column) : definition \in had}

\* The rows of a table are together, in the order of the lines.
Blocks(rows) == [k \in DOMAIN Context(rows) |-> Context(rows)[k].columns]

Grouped(rows) == rows = FlattenSeq(Blocks(rows))

\* The schemas the adapters can be compared on: constraints have names of their
\* own and one column, and a column has one at most.
Plain(db) ==
    /\ \A key \in Keys(db) : Len(key.from) = 1 /\ Cardinality(Having(db, key)) = 1
    /\ \A key, other \in Keys(db) : key.name = other.name => key = other
    /\ \A t \in ToSet(Existing(db)) : \A column \in ToSet(db[t].columns) :
        Cardinality({key \in ToSet(db[t].keys) : Contains(key.from, column)}) <= 1

=============================================================================
