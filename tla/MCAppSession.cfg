\* Two users; getUser may be called four times: enough for a login, a 401,
\* a login as another user and a failed fetch.
CONSTANTS
    u1 = u1  u2 = u2
    Users = {u1, u2}
    MaxRequests = 4
    StrictMode = FALSE
SPECIFICATION SSpec
\* App waits for input once it shows Login, the dashboard, or Loading after
\* a rejected getAuthInfo; leaving the page ends all activity.
CHECK_DEADLOCK FALSE
INVARIANTS SessionTypeOK SingleUserRequest
PROPERTIES SettlesAfterInit ImplementsScreens
