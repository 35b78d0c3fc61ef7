-------------------------- MODULE SqliteConnectorMC -------------------------
(* Values for the constants of SqliteConnector.  A table may refer to one    *)
(* column, or to two with a key of two columns.                              *)
EXTENDS SqliteConnector

CONSTANTS t1, t2

MCTasks == {t1, t2}

\* Nothing tells the tasks apart.
Interchangeable == Permutations(MCTasks)

MCTableNames == <<"courses", "students">>

Key(name, columns) == [name |-> name, from |-> columns, table |-> "courses", to |-> columns]

Table(keys) == [columns |-> <<"id", "term">>, keys |-> keys]

MCDefinitions ==
    {Table(<<>>), Table(<<Key("single", <<"id">>)>>), Table(<<Key("double", <<"id", "term">>)>>)}
=============================================================================
