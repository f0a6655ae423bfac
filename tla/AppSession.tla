------------------------------ MODULE AppSession ------------------------------
(***************************************************************************)
(* The App component (src/pkg/webui/ui/src/components/App.tsx:182-252):    *)
(* it chooses the Api (static or real), fetches the auth info, fetches the *)
(* user, and renders Loading, Login or LoggedInApp.  Its two effects start *)
(* async functions whose awaits are the interleaving points; React runs an *)
(* effect after a commit in which one of its dependencies changed.         *)
(*                                                                         *)
(* Under React StrictMode (development builds) React runs every mount      *)
(* effect, its cleanup and the effect again.  The [] effect then starts    *)
(* two doInits: its `if (api)` guard reads the api of the first render's   *)
(* closure, which is always undefined.  Each doInit builds its own Api.    *)
(* Whether the app is wrapped in StrictMode is decided outside src/, so   *)
(* it is a constant.                                                       *)
(***************************************************************************)
EXTENDS Naturals

CONSTANTS
    Users,       \* users getUser may return
    MaxRequests, \* bound on getUser calls
    StrictMode   \* the app runs under React StrictMode

ASSUME Users # {} /\ MaxRequests \in Nat \ {0} /\ StrictMode \in BOOLEAN

(* The runs of the [] effect, hence of doInit, in one App mount.          *)
InitRuns == IF StrictMode THEN {1, 2} ELSE {1}

VARIABLES
    api,             \* App.tsx:183, the Api built by a doInit run, or NoApi
    authInfo,        \* App.tsx:184
    user,            \* App.tsx:185
    isStatic,        \* App.tsx:186
    initRan,         \* the [] effect of lines 200-222 has run
    initPc,          \* initPc[r]: where doInit run r is suspended
    staticBuild,     \* staticBuild[r]: run r's local isStatic, held across its awaits
    userDeps,        \* [user, api] when the effect of 224-241 last ran
    pendingGetUser,  \* getUser calls in flight
    requests,        \* getUser calls made so far
    left,            \* onLogout navigated away from the page
    shortNames       \* LoggedInApp's useLoadingHelper state (App.tsx:132-135)

svars == <<api, authInfo, user, isStatic, initRan, initPc, staticBuild,
           userDeps, pendingGetUser, requests, left, shortNames>>

Undef == "undefined"

(* `new StaticApi()` or `new RealApi(onUnauthorized)` of doInit run r.   *)
Apis == [kind : {"static", "real"}, run : InitRuns]

(* The api state before any setApi.                                       *)
NoApi == [kind |-> "undefined", run |-> 0]

(* The three branches of App's render (lines 243-251).                    *)
View ==
    IF api = NoApi \/ authInfo = Undef THEN "loading"
    ELSE IF user = Undef THEN "login"
    ELSE "app"

SessionTypeOK ==
    /\ api \in {NoApi} \cup Apis
    /\ authInfo \in {Undef, "authInfo"}
    /\ user \in {Undef} \cup Users
    /\ isStatic \in BOOLEAN
    /\ initPc \in [InitRuns -> {"idle", "checkStatic", "getAuthInfo", "done", "rejected"}]
    /\ staticBuild \in [InitRuns -> BOOLEAN]
    /\ pendingGetUser \in 0..MaxRequests
    /\ requests \in 0..MaxRequests
    /\ shortNames \in {"loading", "loaded", "error"}

SInit ==
    /\ api = NoApi
    /\ authInfo = Undef
    /\ user = Undef
    /\ isStatic = FALSE
    /\ initRan = FALSE
    /\ initPc = [r \in InitRuns |-> "idle"]
    /\ staticBuild = [r \in InitRuns |-> FALSE]
    /\ userDeps = <<"initial", [kind |-> "initial", run |-> 0]>>
    /\ pendingGetUser = 0
    /\ requests = 0
    /\ left = FALSE
    /\ shortNames = "loading"

-----------------------------------------------------------------------------
(* Effect of lines 200-222: runs once per effect run of the App mount;    *)
(* api is undefined in the closure, so each run starts a doInit, which    *)
(* awaits checkStaticBuild().                                             *)
InitEffect ==
    /\ ~left
    /\ ~initRan
    /\ initRan' = TRUE
    /\ initPc' = [r \in InitRuns |-> "checkStatic"]
    /\ UNCHANGED <<api, authInfo, user, isStatic, staticBuild, userDeps,
                   pendingGetUser, requests, left, shortNames>>

(* checkStaticBuild() of run r resolves; doInit builds its Api (lines    *)
(* 209-214) and awaits api.getAuthInfo().                                 *)
CheckStaticBuildResolves(r) ==
    /\ ~left
    /\ initPc[r] = "checkStatic"
    /\ \E b \in BOOLEAN :
         \* the same build answers every run of doInit alike
         /\ \A q \in InitRuns : initPc[q] \in {"getAuthInfo", "done", "rejected"} => staticBuild[q] = b
         /\ staticBuild' = [staticBuild EXCEPT ![r] = b]
    /\ initPc' = [initPc EXCEPT ![r] = "getAuthInfo"]
    /\ UNCHANGED <<api, authInfo, user, isStatic, initRan, userDeps,
                   pendingGetUser, requests, left, shortNames>>

(* The Api that run r built.                                              *)
BuiltApi(r) == [kind |-> IF staticBuild[r] THEN "static" ELSE "real", run |-> r]

(* A slip: doInit forgetting setAuthInfo.                                 *)
GetAuthInfoResolvesNoAuthInfo(r) ==
    /\ ~left
    /\ initPc[r] = "getAuthInfo"
    /\ initPc' = [initPc EXCEPT ![r] = "done"]
    /\ api' = BuiltApi(r)
    /\ isStatic' = staticBuild[r]
    /\ UNCHANGED <<authInfo, user, initRan, staticBuild, userDeps,
                   pendingGetUser, requests, left, shortNames>>

(* getAuthInfo() of run r resolves: setApi, setAuthInfo, setIsStatic     *)
(* (216-218), whatever another run has set meanwhile.                     *)
GetAuthInfoResolves(r) ==
    /\ ~left
    /\ initPc[r] = "getAuthInfo"
    /\ initPc' = [initPc EXCEPT ![r] = "done"]
    /\ api' = BuiltApi(r)
    /\ authInfo' = "authInfo"
    /\ isStatic' = staticBuild[r]
    /\ UNCHANGED <<user, initRan, staticBuild, userDeps, pendingGetUser,
                   requests, left, shortNames>>

(* getAuthInfo() rejects: doInit has no catch and nobody awaits it, so    *)
(* nothing is set.                                                        *)
GetAuthInfoRejects(r) ==
    /\ ~left
    /\ initPc[r] = "getAuthInfo"
    /\ initPc' = [initPc EXCEPT ![r] = "rejected"]
    /\ UNCHANGED <<api, authInfo, user, isStatic, initRan, staticBuild,
                   userDeps, pendingGetUser, requests, left, shortNames>>

(* A slip: running the effect after every commit, ignoring its deps.      *)
UserEffectEveryRender ==
    /\ ~left
    /\ initRan
    /\ userDeps' = <<user, api>>
    /\ IF user = Undef /\ api # NoApi /\ requests < MaxRequests
         THEN /\ pendingGetUser' = pendingGetUser + 1
              /\ requests' = requests + 1
         ELSE UNCHANGED <<pendingGetUser, requests>>
    /\ UNCHANGED <<api, authInfo, user, isStatic, initRan, initPc, staticBuild, left, shortNames>>

(* Effect of lines 224-241, after a commit that changed user or api: with *)
(* no user and an api it calls doGetUser, which awaits api.getUser().     *)
UserEffect ==
    /\ ~left
    /\ initRan
    /\ userDeps # <<user, api>>
    /\ userDeps' = <<user, api>>
    /\ IF user = Undef /\ api # NoApi /\ requests < MaxRequests
         THEN /\ pendingGetUser' = pendingGetUser + 1
              /\ requests' = requests + 1
         ELSE UNCHANGED <<pendingGetUser, requests>>
    /\ UNCHANGED <<api, authInfo, user, isStatic, initRan, initPc, staticBuild, left, shortNames>>

(* getUser() resolves and setUser(user) runs (233-235), or it rejects and *)
(* the catch only logs (236-238).                                         *)
GetUserResolves ==
    /\ ~left
    /\ pendingGetUser > 0
    /\ pendingGetUser' = pendingGetUser - 1
    /\ \/ /\ \E u \in Users : user' = u
          \* a first user mounts LoggedInApp, whose short names start loading;
          \* a later one only re-renders it (useLoadingHelper's deps are [api])
          /\ shortNames' = IF user = Undef THEN "loading" ELSE shortNames
       \/ UNCHANGED <<user, shortNames>>
    /\ UNCHANGED <<api, authInfo, isStatic, initRan, initPc, staticBuild,
                   userDeps, requests, left>>

(* A slip: dropping the Api along with the user on a 401.                 *)
onUnauthorizedResetsApi ==
    /\ ~left
    /\ api.kind = "real"
    /\ user # Undef
    /\ user' = Undef
    /\ api' = NoApi
    /\ UNCHANGED <<authInfo, isStatic, initRan, initPc, staticBuild,
                   userDeps, pendingGetUser, requests, left, shortNames>>

(* RealApi calls onUnauthorized on a 401 from any of its requests          *)
(* (lines 195-198, 213): the user is dropped, LoggedInApp unmounts.        *)
onUnauthorized ==
    /\ ~left
    /\ api.kind = "real"
    /\ user # Undef
    /\ user' = Undef
    /\ UNCHANGED <<api, authInfo, isStatic, initRan, initPc, staticBuild,
                   userDeps, pendingGetUser, requests, left, shortNames>>

(* LeftDrawer's logout (lines 188-194): drop the user and leave the page. *)
onLogout ==
    /\ ~left
    /\ View = "app"
    /\ user' = Undef
    /\ left' = TRUE
    /\ UNCHANGED <<api, authInfo, isStatic, initRan, initPc, staticBuild,
                   userDeps, pendingGetUser, requests, shortNames>>

(* A slip: the settled helper state left undefined instead of its result.  *)
ShortNamesSettleUndefined ==
    /\ ~left
    /\ View = "app"
    /\ shortNames = "loading"
    /\ shortNames' \in {"loaded", Undef}
    /\ UNCHANGED <<api, authInfo, user, isStatic, initRan, initPc, staticBuild,
                   userDeps, pendingGetUser, requests, left>>

(* The mounted LoggedInApp's getShortNames() settles; until then it       *)
(* renders Loading, on an error an ErrorMessageCard (lines 154-162).      *)
ShortNamesSettle ==
    /\ ~left
    /\ View = "app"
    /\ shortNames = "loading"
    /\ shortNames' \in {"loaded", "error"}
    /\ UNCHANGED <<api, authInfo, user, isStatic, initRan, initPc, staticBuild,
                   userDeps, pendingGetUser, requests, left>>

SNext ==
    \/ InitEffect
    \/ \E r \in InitRuns :
         CheckStaticBuildResolves(r) \/ GetAuthInfoResolves(r) \/ GetAuthInfoRejects(r)
    \/ UserEffect
    \/ GetUserResolves
    \/ onUnauthorized
    \/ onLogout
    \/ ShortNamesSettle

(* React flushes the effects of a commit, and the browser eventually      *)
(* settles every Promise the page is waiting on.                          *)
SFairness ==
    /\ WF_svars(InitEffect)
    /\ \A r \in InitRuns :
         /\ WF_svars(CheckStaticBuildResolves(r))
         /\ WF_svars(GetAuthInfoResolves(r) \/ GetAuthInfoRejects(r))
    /\ WF_svars(UserEffect)
    /\ WF_svars(GetUserResolves)
    /\ WF_svars(ShortNamesSettle)

SSpec == SInit /\ [][SNext]_svars /\ SFairness

-----------------------------------------------------------------------------
(* Properties                                                             *)

(* The dependency array [user, api] keeps doGetUser from being started    *)
(* again while one is in flight: no two getUser calls race to setUser.    *)
SingleUserRequest == pendingGetUser <= 1

(* Once doInit has set the api and auth info, App leaves Loading for good *)
(* and settles on Login or the dashboard with no getUser left in flight,  *)
(* unless the page was left.                                              *)
SettlesAfterInit ==
    (\E r \in InitRuns : initPc[r] = "done") ~> (left \/ (View # "loading" /\ pendingGetUser = 0))

(* The screens App shows implement SessionScreens: it never returns to    *)
(* Loading once past it, reaches the dashboard only from Login, loses a   *)
(* session only to Login, and shows nothing after a logout; this holds    *)
(* whatever the order in which doInit, the user effect, getUser's answer, *)
(* a 401 and the short-names request interleave.                          *)
Screens == INSTANCE SessionScreens WITH screen <- IF left THEN "left" ELSE View

ImplementsScreens == Screens!Spec
=============================================================================
