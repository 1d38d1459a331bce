SPECIFICATION Spec
CONSTANTS
    t1 = t1
    t2 = t2
    None = None
    ann = ann
    bob = bob
    g1 = g1
    g2 = g2
PROPERTY NothingStaysPending
CHECK_DEADLOCK FALSE
