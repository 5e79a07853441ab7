\* A client, a forced sell, a rebuild and a reset contend for the three locks.
CONSTANTS
    c1 = c1
    w1 = w1
    r1 = r1
    s1 = s1
    o1 = o1
    Users <- TwoUsers
    IndexUsers = {"indexer"}
    OrderIds = {o1}
    Bodies <- OneUserBodies
    NoOrder = NoOrder
    StartingCash = 8
    Fee = 1
    Clients = {c1}
    Writers = {w1}
    Rebuilders = {r1}
    Resetters = {s1}
    Nobody = Nobody
    MaxOps = 3
    MaxCrashes = 1
    MaxLegs = 2
SPECIFICATION FairSpec
PROPERTIES OperationsAreSerial EveryOperationEnds
