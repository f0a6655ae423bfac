\* A StrictMode session: two doInit runs, LoggedInApp's effect run twice at
\* each mount and re-run when the second Api arrives; a 401 and a second
\* login remount it.  The server may create and delete one entry.
CONSTANTS
    u1 = u1  c1 = c1  t1 = t1
    Users = {u1}
    MaxRequests = 2
    StrictMode = TRUE
    CrIds <- MCCrIds
    VrIds = {}
    KdUids = {}
    CrValues <- MCCrValues
    VrValues = {}
    KdValues = {}
    MaxMounts = 3
    MaxServerOps = 2
    Reorder = FALSE
SPECIFICATION CSpec
\* The page idles once the session settles and the server stops changing.
CHECK_DEADLOCK FALSE
INVARIANTS ConvergesWhenQuiet
