CONSTANTS
    Null = Null
    buyer = buyer
    manager = manager
    admin = admin
    o1 = o1
    o2 = o2
    s1 = s1
    s2 = s2
    s3 = s3
    p1 = p1
    h1 = h1
    h2 = h2
    Users = {buyer, manager, admin}
    Orders = {o1}
    Products = {p1}
    Steps = {s1, s2, s3}
    Handlers = {h1, h2}
    RoleOf <- MCRoleOf
    Granted <- MCGranted
    Sees <- MCSees
    Placer <- MCPlacer
    Want <- MCWant
    OverThreshold <- MCOverThreshold
    Plan <- MCPlan
    Tier <- MCTier
    Addressee <- MCAddressee
    OnHand <- MCOnHand
    MaxOnHand = 0
SPECIFICATION Spec
SYMMETRY Symmetry
PROPERTY TerminalIsFinal
CHECK_DEADLOCK FALSE
