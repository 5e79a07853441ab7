\* Two clients race and retry under two identifiers, with a forced sell and a
\* crash at any point.
CONSTANTS
    c1 = c1
    c2 = c2
    w1 = w1
    o1 = o1
    o2 = o2
    Users = {"agent"}
    IndexUsers = {}
    OrderIds = {o1, o2}
    Bodies <- OneUserBodies
    NoOrder = NoOrder
    StartingCash = 4
    Fee = 2
    Clients = {c1, c2}
    Writers = {w1}
    Rebuilders = {}
    Resetters = {}
    Nobody = Nobody
    MaxOps = 4
    MaxCrashes = 1
    MaxLegs = 2
SYMMETRY ClientSymmetry
SPECIFICATION Spec
INVARIANTS TypeOK CommittedConsistent AnswersHold
PROPERTIES HistoryIsKept
