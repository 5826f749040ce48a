SPECIFICATION Spec
CONSTANTS
    p1 = p1  p2 = p2  p3 = p3  p4 = p4  t1 = t1  t2 = t2
    Polls = {p1, p2, p3}
    Toggles = {t1, t2}
    Events = {"reset", "fault", "retry"}
SYMMETRY Symmetry
INVARIANTS TypeOK CurrentIsNewest NewestIsOpen
CHECK_DEADLOCK FALSE
