CONSTANTS
    Tokens = {t1}
    Requests = {q1, q2}
    None = None
    MaxUsers = 2
    MaxRevocations = 1
SPECIFICATION Spec
SYMMETRY Symmetry
PROPERTY UpdatesKeepAnAdmin
CHECK_DEADLOCK FALSE
