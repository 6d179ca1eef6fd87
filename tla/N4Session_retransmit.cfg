SPECIFICATION Spec
CONSTANTS
    Slots = {s1, s2}
    Teids = {t1, t2, t3}
    UeIps = {u1, u2}
    FarIds = {f1}
    PdrIds = {p1}
    QerIds = {1, 2}
    None = None
    Null = Null
    QerElements = 1
    MaxSeid = 3
    Retransmits = TRUE
SYMMETRY Symmetry
INVARIANT SessionsAreReachable
