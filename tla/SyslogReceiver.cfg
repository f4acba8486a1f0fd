CONSTANTS
    Conns = {c1}
    None = None
    MaxStarts = 2
    MaxLines = 2
    MaxFaults = 2
SPECIFICATION FairSpec
INVARIANTS TypeOK AtMostOneLateRow HitsAreComplete
PROPERTIES ReceiverStops PortsReleased
CHECK_DEADLOCK FALSE
