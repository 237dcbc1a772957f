SPECIFICATION Spec
CONSTANTS
    p1 = p1
    p2 = p2
    p3 = p3
    s1 = s1
    s2 = s2
    Procs = {p1, p2, p3}
    Sessions = {s1, s2}
    SessionOf <- TwoAndOne
    Nobody = nobody
    Inodes = {i1, i2, i3}
    Tokens = {t1, t2, t3, t4}
INVARIANTS
    LeaseTypeOK
    LeaseExclusive
    OwnedInside
PROPERTIES
    RemovesOwnLease
