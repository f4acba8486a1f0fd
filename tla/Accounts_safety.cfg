CONSTANTS
    Tokens = {t1}
    Requests = {q1, q2}
    None = None
    MaxUsers = 3
    MaxRevocations = 1
SPECIFICATION Spec
SYMMETRY Symmetry
INVARIANTS TypeOK SessionsKeepTheirAccount RevocationHolds
PROPERTY SerialAdminRemains
CHECK_DEADLOCK FALSE
