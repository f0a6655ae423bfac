\* Feed that may reorder (spec 4.1): once the server has stopped changing, a
\* stale update delivered late is never corrected and the Maps never converge.
CONSTANTS
    c1 = c1  c2 = c2  v1 = v1  u1 = u1  t1 = t1  t2 = t2  k1 = k1  s1 = s1  s2 = s2
    CrIds <- MCCrIds
    VrIds <- MCVrIds
    KdUids <- MCKdUids
    CrValues <- MCCrValues
    VrValues <- MCVrValues
    KdValues <- MCKdValues
    MaxMounts = 2
    MaxServerOps = 3
    Reorder = TRUE
SPECIFICATION Spec
\* The dashboard idles once the server stops changing: no step is owed.
CHECK_DEADLOCK FALSE
PROPERTIES EventuallyConsistent
