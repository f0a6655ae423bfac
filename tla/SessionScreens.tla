---------------------------- MODULE SessionScreens ----------------------------
(***************************************************************************)
(* What App promises of the screen it shows, abstractly: Loading until the *)
(* Api and auth info are known, then Login, the dashboard once a user is   *)
(* known, back to Login when the session is lost, and gone for good after  *)
(* a logout.  AppSession implements it (AppSession!ImplementsScreens).     *)
(***************************************************************************)
VARIABLE screen

Screens == {"loading", "login", "app", "left"}

Init == screen = "loading"

Step(from, to) == screen = from /\ screen' = to

Next ==
    \/ Step("loading", "login")   \* the Api and auth info arrive
    \/ Step("login", "app")       \* a user is known
    \/ Step("app", "login")       \* the session is lost (401)
    \/ Step("app", "left")        \* logout

Spec == Init /\ [][Next]_screen
=============================================================================
