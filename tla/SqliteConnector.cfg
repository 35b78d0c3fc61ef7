SPECIFICATION Spec
CONSTANTS
    t1 = t1
    t2 = t2
    Tasks <- MCTasks
    Closer = Closer
    Paths = {"memory", "file"}
    MaxConnections = 2
    MaxChanges = 3
    TableNames <- MCTableNames
    Columns = {"id", "term"}
    KeyNames = {"single", "double"}
    Definitions <- MCDefinitions
    Absent = Absent
SYMMETRY Interchangeable
INVARIANTS
    TypeOK
    KeysEnforced
    OneConnection
    QuietFetchDescribes
    AdaptersAgree
    EachTableWhole
CHECK_DEADLOCK FALSE
