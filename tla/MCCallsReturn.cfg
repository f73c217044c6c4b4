CONSTANTS
    t1 = t1
    t2 = t2
    t3 = t3
    None = None
    Elsewhere = Elsewhere
SPECIFICATION Spec
PROPERTIES
    PublicationsReachEveryone
    ProbesAndDrainsEnd
CHECK_DEADLOCK FALSE
