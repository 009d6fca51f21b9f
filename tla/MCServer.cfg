SPECIFICATION Spec

CONSTANTS
    k1 = k1
    Connections = {k1}

INVARIANTS
    TypeOK
    AnswersFit

PROPERTIES
    ShutdownCompletes
    CallsReturn
    PingFindsDisconnection

CHECK_DEADLOCK FALSE
