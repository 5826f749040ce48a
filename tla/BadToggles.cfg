SPECIFICATION Spec
CONSTANTS
    p1 = p1  p2 = p2  p3 = p3  p4 = p4  t1 = t1  t2 = t2
    Polls = {p1}
    Toggles = {t1, t2}
    Events = {}
SYMMETRY Symmetry
INVARIANT TogglesAlternate
CHECK_DEADLOCK FALSE
