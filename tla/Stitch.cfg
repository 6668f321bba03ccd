SPECIFICATION Spec
CONSTANTS
    a = a
    b = b
    Key = {k1, k2, k3}
    History <- ShortHistories
    Thread = {t1, t2}
    Absent = Absent
    Capacity = {1, 2}
    Ttl = {1, 2}
    SweepInterval = 2
    MaxTime = 2
    MaxSessions = 2
    MaxReloads = 1
    MaxRestarts = 1
SYMMETRY Symmetry
INVARIANTS SessionInv
PROPERTIES ImplementsSessions ExpiredNeverExtended EvictionExact
CHECK_DEADLOCK FALSE
