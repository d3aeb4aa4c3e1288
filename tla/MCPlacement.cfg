CONSTANTS
    Null = Null
    r1 = r1
    r2 = r2
    r3 = r3
    ann = ann
    ben = ben
    north = north
    south = south
    b1 = b1
    b2 = b2
    b3 = b3
    b4 = b4
    Requests = {r1, r2, r3}
    Kinds = {"add", "place"}
    Baskets = {b1, b2, b3}
    Owner <- MCOwner
    Branch <- MCBranch
    SiteCap <- MCSiteCap
    BuyerCap <- MCBuyerCap
    InitialUnits <- MCNoSouthBasket
    MaxUnits = 2
SPECIFICATION Spec
INVARIANTS TypeOK ClosedExactlyWhenPlaced AnsweredWithOwnOrder CountsAlone WithinBudgets
PROPERTIES PlacesAtomically EveryRequestIsAnswered
CHECK_DEADLOCK FALSE
