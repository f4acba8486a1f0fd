CONSTANTS
    k1 = k1  k2 = k2
    main = main  a1 = a1  a2 = a2
    words = words  noWords = noWords
    Keys <- MCKeys
    Callers <- MCCallers
    Admins <- MCAdmins
    Main = main
    Configs <- MCConfigs
    Unstartable <- MCUnstartable
    Seed <- One
    Readers = {r1, r2}
    Nobody = Nobody
    None = None
    StopAll = StopAll
    MaxSaves = 2
    MaxRestarts = 1
SPECIFICATION FairSpec
INVARIANTS TypeOK OneReaderPerKey Reconciled StoredFirst SerialSavesTakeEffect
PROPERTY SaveReturns
CHECK_DEADLOCK FALSE
