SPECIFICATION Spec

CONSTANTS
    None = None
    Programs = {p1, p2}
    Builds = {2, 3}
    Files <- MCFiles
    MaxRows = 1
    MaxBackups = 2

SYMMETRY Symmetry

INVARIANTS
    TypeOK
    SchemaIsRecorded
    SoleMigrationBackedUp

PROPERTIES
    ImplementsLifecycle

CHECK_DEADLOCK FALSE
