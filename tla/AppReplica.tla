------------------------------ MODULE AppReplica ------------------------------
(***************************************************************************)
(* App's session (AppSession) composed with the replica of the LoggedInApp *)
(* it renders (EventReconciler): App.tsx:251 mounts LoggedInApp exactly    *)
(* while App's render reaches its last branch, so a session step that     *)
(* enters that branch mounts it, one that leaves it (a 401, a logout)      *)
(* unmounts it, and one that hands it another Api (a second doInit run    *)
(* under StrictMode) re-runs its listenEvents effect, whose deps include   *)
(* props.api (App.tsx:126).  The replica's own steps (the feed, the        *)
(* server, the cancel callbacks) leave the session alone.                  *)
(***************************************************************************)
EXTENDS AppSession, EventReconciler

cvars == <<svars, vars>>

(* App's render reaches <LoggedInApp .../> (lines 243-251).               *)
LoggedInAppShown == View = "app" /\ ~left

(* A slip: the first run's cleanup ending the second run's subscription   *)
(* as well, as a cancel that closes a socket the Api shares would.        *)
MountLoggedInAppCancelsBoth ==
    IF ~StrictMode THEN Mount
    ELSE /\ mount + 2 <= MaxMounts
         /\ mounted' = TRUE
         /\ mount' = mount + 2
         /\ conn' = [conn EXCEPT ![mount + 1] = "connecting", ![mount + 2] = "connecting"]
         /\ cancelRequested' = [cancelRequested EXCEPT ![mount + 1] = TRUE, ![mount + 2] = TRUE]
         /\ commandResultSummaries' = EmptyMap
         /\ validateResultSummaries' = EmptyMap
         /\ kluctlDeployments' = EmptyMap
         /\ UNCHANGED <<feed, server, serverOps>>

(* Under StrictMode React runs a mounting component's effect, its         *)
(* cleanup, and the effect again: LoggedInApp opens two subscriptions and *)
(* cancels the first.                                                     *)
MountLoggedInApp ==
    IF ~StrictMode THEN Mount
    ELSE /\ mount + 2 <= MaxMounts
         /\ mounted' = TRUE
         /\ mount' = mount + 2
         /\ conn' = [conn EXCEPT ![mount + 1] = "connecting", ![mount + 2] = "connecting"]
         /\ cancelRequested' = [cancelRequested EXCEPT ![mount + 1] = TRUE]
         /\ commandResultSummaries' = EmptyMap
         /\ validateResultSummaries' = EmptyMap
         /\ kluctlDeployments' = EmptyMap
         /\ UNCHANGED <<feed, server, serverOps>>

(* A slip: rendering LoggedInApp on, after a 401, instead of Login.       *)
RenderKeepsLoggedInApp ==
    CASE ~LoggedInAppShown /\ LoggedInAppShown' -> MountLoggedInApp
      [] LoggedInAppShown /\ LoggedInAppShown' /\ api' # api -> Resubscribe
      [] OTHER -> UNCHANGED vars

(* What the commit of a session step does to LoggedInApp.                 *)
RenderLoggedInApp ==
    CASE ~LoggedInAppShown /\ LoggedInAppShown' -> MountLoggedInApp
      [] LoggedInAppShown /\ ~LoggedInAppShown' -> Unmount
      [] LoggedInAppShown /\ LoggedInAppShown' /\ api' # api -> Resubscribe
      [] OTHER -> UNCHANGED vars

SessionStep(A) == A /\ RenderLoggedInApp

ReplicaStep ==
    /\ \/ \E m \in Mounts : Connect(m) \/ RunCancel(m) \/ Dispatch(m)
       \/ ServerUpsert
       \/ ServerDelete
    /\ UNCHANGED svars

CInit == SInit /\ Init

CNext == SessionStep(SNext) \/ ReplicaStep

(* The session's fairness (AppSession!SFairness) on its steps with their  *)
(* commits, and the event loop's on the replica (EventReconciler).        *)
CFairness ==
    /\ WF_cvars(SessionStep(InitEffect))
    /\ \A r \in InitRuns :
         /\ WF_cvars(SessionStep(CheckStaticBuildResolves(r)))
         /\ WF_cvars(SessionStep(GetAuthInfoResolves(r) \/ GetAuthInfoRejects(r)))
    /\ WF_cvars(SessionStep(UserEffect))
    /\ WF_cvars(SessionStep(GetUserResolves))
    /\ WF_cvars(SessionStep(ShortNamesSettle))
    /\ Fairness

CSpec == CInit /\ [][CNext]_cvars /\ CFairness

-----------------------------------------------------------------------------
(* Properties                                                             *)

(* Whenever App shows Login, Loading or nothing (after a 401, a logout,   *)
(* or before a user is known), no cluster data is held for it and no     *)
(* subscription still feeds it: LoggedInApp is unmounted, its Maps are    *)
(* gone, and every connection it opened is closed or has its cancel      *)
(* requested, however the 401 or logout interleaves with pending         *)
(* listenEvents Promises, StrictMode's double effects and a late setApi.  *)
LoggedOutHoldsNothing ==
    ~LoggedInAppShown =>
        /\ ~mounted
        /\ Stores = EmptyStores
        /\ \A m \in Mounts : conn[m] \in {"open", "connecting"} => cancelRequested[m]

(* While App shows the dashboard, LoggedInApp's latest listenEvents       *)
(* subscription eventually opens and is not one that a cleanup has        *)
(* cancelled: StrictMode's doubled effect at mount and the re-run when    *)
(* the second Api arrives each cancel the run before and leave the last   *)
(* one live, under the event loop's fairness alone.                       *)
SubscriptionEstablished ==
    LoggedInAppShown ~>
        (~LoggedInAppShown \/ (conn[mount] = "open" /\ ~cancelRequested[mount]))
=============================================================================
