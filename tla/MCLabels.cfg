CONSTANTS
    Null = Null
    o1 = o1
    s1 = s1
    s2 = s2
    h1 = h1
    h2 = h2
    j1 = j1
    j2 = j2
    Orders = {o1}
    Shipments = {s1, s2}
    Handlers = {h1, h2}
    Jobs = {j1, j2}
    Attempts = 2
    OrderMoves = {"DISPATCHED", "CHANGES_REQUESTED", "CANCELLED"}
    MaxConsignments = 2
SPECIFICATION Spec
SYMMETRY Symmetry
INVARIANTS TypeOK OneConsignmentPerShipment LabelIsOfItsConsignment NoLabelOutsideProduction DispatchedOnItsLabel UnderWayHasJob OneLiveShipment
PROPERTY VoidedStaysVoided
CHECK_DEADLOCK FALSE
CONSTRAINTS NotBothAtOnce FewerBeside
