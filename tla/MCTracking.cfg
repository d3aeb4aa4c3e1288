CONSTANTS
    o1 = o1
    s1 = s1
    s2 = s2
    p1 = p1
    p2 = p2
    p3 = p3
    w1 = w1
    w2 = w2
    h1 = h1
    Orders = {o1}
    Shipments = {s1, s2}
    Parcels = {p1, p2, p3}
    OrderOf <- MCOrderOf
    ShipmentOf <- MCShipmentOf
    FirstTracked <- MCFirstTracked
    Pollers = {w1}
    Refreshers = {w2}
    Requested = {s2}
    Handlers = {h1}
    OrderMoves = {"DISPATCHED"}
    PollBatch = 1
    MaxDeaths = 1
SPECIFICATION Spec
INVARIANTS TypeOK WholeOrderArrived
PROPERTY DeliveryIsNoticed
CHECK_DEADLOCK FALSE
