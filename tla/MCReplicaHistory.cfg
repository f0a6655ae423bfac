\* In-order feed: the stores implement the monotonic per-entry replica.
CONSTANTS
    c1 = c1  c2 = c2  v1 = v1  u1 = u1  t1 = t1  t2 = t2  k1 = k1  s1 = s1  s2 = s2
    CrIds <- MCCrIds
    VrIds <- MCVrIds
    KdUids <- MCKdUids
    CrValues <- MCCrValues
    VrValues <- MCVrValues
    KdValues <- MCKdValues
    MaxMounts = 2
    MaxServerOps = 3
    Reorder = FALSE
SPECIFICATION HSpec
\* The dashboard idles once the server stops changing: no step is owed.
CHECK_DEADLOCK FALSE
PROPERTIES ImplementsMonotonicReplica
