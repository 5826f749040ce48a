SPECIFICATION LimiterSpec
CONSTANTS
    a1 = a1  a2 = a2  a3 = a3  a4 = a4  a5 = a5  b1 = b1  b2 = b2
    home = home  office = office
    Attempts = {a1, a2, a3, a4, a5, b1, b2}
    AddressOf <- MCAddressOf
    Limit = 2
    Window = 2
    MaxTime = 6
SYMMETRY Symmetry
INVARIANTS
    LessThanTwiceTheLimit RefusedOnlyWhenFull
CHECK_DEADLOCK FALSE
