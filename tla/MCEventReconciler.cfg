\* In-order, exactly-once feed: the stores converge to the server's state.
CONSTANTS
    c1 = c1  c2 = c2  v1 = v1  u1 = u1  t1 = t1  t2 = t2  k1 = k1  s1 = s1  s2 = s2
    CrIds <- MCCrIds
    VrIds <- MCVrIds
    KdUids <- MCKdUids
    CrValues <- MCCrValues
    VrValues <- MCVrValues
    KdValues <- MCKdValues
    MaxMounts = 2
    MaxServerOps = 3
    Reorder = FALSE
SPECIFICATION Spec
\* The dashboard idles once the server stops changing: no step is owed.
CHECK_DEADLOCK FALSE
INVARIANTS TypeOK ConvergesWhenQuiet
PROPERTIES AbandonedConnectionsClose EventuallyConsistent
