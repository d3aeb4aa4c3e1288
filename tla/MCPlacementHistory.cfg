CONSTANTS
    Null = Null
    r1 = r1
    r2 = r2
    r3 = r3
    ann = ann
    ben = ben
    north = north
    south = south
    b1 = b1
    b2 = b2
    b3 = b3
    b4 = b4
    Requests = {r1, r2, r3}
    Kinds = {"add", "remove", "place"}
    Baskets = {b1, b2, b3, b4}
    Owner <- MCOwner
    Branch <- MCBranch
    SiteCap <- MCSiteCap
    BuyerCap <- MCBuyerCap
    InitialUnits <- MCInitialUnits
    MaxUnits = 2
SPECIFICATION Spec
SYMMETRY Symmetry
INVARIANT ClosedBasketIsWhatWasOrdered
CHECK_DEADLOCK FALSE
