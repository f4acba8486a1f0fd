CONSTANTS
    Attempts = {a1, a2}
    Addresses = {ip1, ip2}
    Names = {user1, user2}
    Max = 2
    Window = 2
    MaxKeys = 3
SPECIFICATION FairSpec
INVARIANTS TypeOK KeysBounded FailuresBounded NothingForgotten
PROPERTY ThrottleEnds
