CONSTANTS
    Null = Null
    may = may
    june = june
    a = a
    b = b
    c = c
    i1 = i1
    i2 = i2
    i3 = i3
    h1 = h1
    h2 = h2
    Scopes = {may, june}
    Orders = {a, b, c}
    ScopeOf <- MCScopeOf
    Invoices = {i1, i2, i3}
    Handlers = {h1, h2}
    MaxNumber = 3
SPECIFICATION Spec
SYMMETRY Symmetry
CONSTRAINT MayIsApart
INVARIANTS TypeOK BilledOnce NumbersAreUnbroken NumbersAreUnique TotalsAreOfTheLines
PROPERTY IssuedIsFrozen
CHECK_DEADLOCK FALSE
