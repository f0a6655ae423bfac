--------------------------- MODULE EventReconciler ---------------------------
(***************************************************************************)
(* The live replica of the server's state kept by LoggedInApp             *)
(* (src/pkg/webui/ui/src/components/App.tsx, lines 45-130).                *)
(*                                                                         *)
(* Three keyed stores (useImmer maps) are filled only by the handlers of  *)
(* the listenEvents subscription opened in a useEffect.  The effect's      *)
(* cleanup does not close the connection directly: listenEvents returns a  *)
(* Promise of the cancel function, and cleanup runs `cancel.then(c=>c())`. *)
(* The server (the kluctl webui backend, not under src/) is modelled from  *)
(* the spec: it replays its state as update events when a connection      *)
(* opens and then broadcasts every change to every open connection.       *)
(***************************************************************************)
EXTENDS Naturals, Sequences, SequencesExt, Functions, JsMap

CONSTANTS
    CrIds,        \* ids of command result summaries
    VrIds,        \* ids of validate result summaries
    KdUids,       \* metadata.uid of KluctlDeployment objects
    CrValues,     \* command result summaries the server may hold
    VrValues,     \* validate result summaries the server may hold
    KdValues,     \* [deployment, clusterId] pairs the server may hold
    MaxMounts,    \* bound on the runs of LoggedInApp's listenEvents effect
    MaxServerOps, \* bound on server-side changes
    Reorder       \* TRUE: the feed may deliver its messages in any order

ASSUME /\ \A v \in CrValues : v.id \in CrIds
       /\ \A v \in VrValues : v.id \in VrIds
       /\ \A v \in KdValues : v.deployment.uid \in KdUids
       /\ MaxMounts \in Nat \ {0}
       /\ MaxServerOps \in Nat
       /\ Reorder \in BOOLEAN

VARIABLES
    commandResultSummaries,  \* App.tsx:48, id -> summary
    validateResultSummaries, \* App.tsx:49, id -> summary
    kluctlDeployments,       \* App.tsx:50, uid -> [deployment, clusterId]
    mounted,                 \* is a LoggedInApp instance mounted?
    mount,                   \* number of the current (or last) run of the effect
    conn,                    \* conn[m]: state of instance m's connection
    cancelRequested,         \* conn[m]'s cleanup has run `cancel.then(...)`
    feed,                    \* feed[m]: messages in flight on conn[m]
    server,                  \* the server's three collections
    serverOps                \* number of server-side changes so far

stores == <<commandResultSummaries, validateResultSummaries, kluctlDeployments>>
session == <<mounted, mount, conn, cancelRequested>>
vars == <<stores, session, feed, server, serverOps>>

Mounts == 1..MaxMounts

(* The server's collections are plain keyed collections (spec 4.1).      *)
NoEntries == [x \in {} |-> x]
SrvSet(f, k, v) == (k :> v) @@ f
SrvDelete(f, k) == RestrictDomain(f, LAMBDA x : x # k)

Msg ==
       [type : {"update_command_result_summary"}, summary : CrValues]
  \cup [type : {"delete_command_result_summary"}, id : CrIds]
  \cup [type : {"update_validate_result_summary"}, summary : VrValues]
  \cup [type : {"delete_validate_result_summary"}, id : VrIds]
  \cup [type : {"update_kluctl_deployment"},
        deployment : {v.deployment : v \in KdValues},
        clusterId : {v.clusterId : v \in KdValues}]
  \cup [type : {"delete_kluctl_deployment"}, id : KdUids]

Stores == [cr |-> AsFunction(commandResultSummaries),
           vr |-> AsFunction(validateResultSummaries),
           kd |-> AsFunction(kluctlDeployments)]

EmptyStores == [cr |-> NoEntries, vr |-> NoEntries, kd |-> NoEntries]

TypeOK ==
    /\ server \in [cr : UNION {[D -> CrValues] : D \in SUBSET CrIds},
                  vr : UNION {[D -> VrValues] : D \in SUBSET VrIds},
                  kd : UNION {[D -> KdValues] : D \in SUBSET KdUids}]
    /\ Values(commandResultSummaries) \subseteq CrValues
    /\ Values(validateResultSummaries) \subseteq VrValues
    /\ Values(kluctlDeployments) \subseteq KdValues
    /\ mounted \in BOOLEAN
    /\ mount \in 0..MaxMounts
    /\ conn \in [Mounts -> {"idle", "connecting", "open", "closed"}]
    /\ cancelRequested \in [Mounts -> BOOLEAN]
    /\ feed \in [Mounts -> Seq(Msg)]
    /\ serverOps \in 0..MaxServerOps

Init ==
    /\ commandResultSummaries = EmptyMap
    /\ validateResultSummaries = EmptyMap
    /\ kluctlDeployments = EmptyMap
    /\ mounted = FALSE
    /\ mount = 0
    /\ conn = [m \in Mounts |-> "idle"]
    /\ cancelRequested = [m \in Mounts |-> FALSE]
    /\ feed = [m \in Mounts |-> <<>>]
    /\ server = EmptyStores
    /\ serverOps = 0

-----------------------------------------------------------------------------
(* The six handlers defined inside the effect (App.tsx:53-96).            *)

(* A slip: inserting only unknown ids, so a replacement is lost.         *)
updateCommandResultSummaryIfAbsent(rs) ==
    /\ commandResultSummaries' =
         IF MapHas(commandResultSummaries, rs.id) THEN commandResultSummaries
         ELSE MapSet(commandResultSummaries, rs.id, rs)
    /\ UNCHANGED <<validateResultSummaries, kluctlDeployments>>

updateCommandResultSummary(rs) ==
    /\ commandResultSummaries' = MapSet(commandResultSummaries, rs.id, rs)
    /\ UNCHANGED <<validateResultSummaries, kluctlDeployments>>

deleteCommandResultSummary(id) ==
    /\ commandResultSummaries' = MapDelete(commandResultSummaries, id)
    /\ UNCHANGED <<validateResultSummaries, kluctlDeployments>>

updateValidateResultSummary(vr) ==
    /\ validateResultSummaries' = MapSet(validateResultSummaries, vr.id, vr)
    /\ UNCHANGED <<commandResultSummaries, kluctlDeployments>>

deleteValidateResultSummary(id) ==
    /\ validateResultSummaries' = MapDelete(validateResultSummaries, id)
    /\ UNCHANGED <<commandResultSummaries, kluctlDeployments>>

(* A slip: storing the object without its clusterId wrapper.            *)
updateKluctlDeploymentUnwrapped(kd, clusterId) ==
    /\ kluctlDeployments' = MapSet(kluctlDeployments, kd.uid, kd)
    /\ UNCHANGED <<commandResultSummaries, validateResultSummaries>>

updateKluctlDeployment(kd, clusterId) ==
    /\ kluctlDeployments' =
         MapSet(kluctlDeployments, kd.uid, [deployment |-> kd, clusterId |-> clusterId])
    /\ UNCHANGED <<commandResultSummaries, validateResultSummaries>>

deleteKluctlDeployment(id) ==
    /\ kluctlDeployments' = MapDelete(kluctlDeployments, id)
    /\ UNCHANGED <<commandResultSummaries, validateResultSummaries>>

(* The listener's switch on msg.type (App.tsx:100-121); it has no default *)
(* branch, so a message of another type changes nothing.                  *)
onMessage(msg) ==
    CASE msg.type = "update_command_result_summary" -> updateCommandResultSummary(msg.summary)
      [] msg.type = "delete_command_result_summary" -> deleteCommandResultSummary(msg.id)
      [] msg.type = "update_validate_result_summary" -> updateValidateResultSummary(msg.summary)
      [] msg.type = "delete_validate_result_summary" -> deleteValidateResultSummary(msg.id)
      [] msg.type = "update_kluctl_deployment" -> updateKluctlDeployment(msg.deployment, msg.clusterId)
      [] msg.type = "delete_kluctl_deployment" -> deleteKluctlDeployment(msg.id)
      [] OTHER -> UNCHANGED stores

-----------------------------------------------------------------------------
(* A slip: an effect that never subscribes (say, a guard on a dependency *)
(* that is not yet set when LoggedInApp mounts).                          *)
MountWithoutSubscribe ==
    /\ ~mounted
    /\ mount < MaxMounts
    /\ mounted' = TRUE
    /\ mount' = mount + 1
    /\ commandResultSummaries' = EmptyMap
    /\ validateResultSummaries' = EmptyMap
    /\ kluctlDeployments' = EmptyMap
    /\ UNCHANGED <<conn, cancelRequested, feed, server, serverOps>>

(* Component lifecycle: LoggedInApp mounts with three empty maps and its  *)
(* effect calls listenEvents, whose Promise is still pending.             *)
Mount ==
    /\ ~mounted
    /\ mount < MaxMounts
    /\ mounted' = TRUE
    /\ mount' = mount + 1
    /\ conn' = [conn EXCEPT ![mount + 1] = "connecting"]
    /\ commandResultSummaries' = EmptyMap
    /\ validateResultSummaries' = EmptyMap
    /\ kluctlDeployments' = EmptyMap
    /\ UNCHANGED <<cancelRequested, feed, server, serverOps>>

(* Effect cleanup on unmount (App.tsx:122-125): the component's state is  *)
(* discarded and `cancel.then(c => c())` is registered; nothing closes    *)
(* the connection yet.                                                    *)
(* A slip: cleanup calls the cancel function only if listenEvents has    *)
(* already resolved, instead of chaining it on the Promise.               *)
UnmountCancelIfResolved ==
    /\ mounted
    /\ mounted' = FALSE
    /\ cancelRequested' = [cancelRequested EXCEPT ![mount] = conn[mount] = "open"]
    /\ commandResultSummaries' = EmptyMap
    /\ validateResultSummaries' = EmptyMap
    /\ kluctlDeployments' = EmptyMap
    /\ UNCHANGED <<mount, conn, feed, server, serverOps>>

Unmount ==
    /\ mounted
    /\ mounted' = FALSE
    /\ cancelRequested' = [cancelRequested EXCEPT ![mount] = TRUE]
    /\ commandResultSummaries' = EmptyMap
    /\ validateResultSummaries' = EmptyMap
    /\ kluctlDeployments' = EmptyMap
    /\ UNCHANGED <<mount, conn, feed, server, serverOps>>

(* props.api changed while LoggedInApp stays mounted (deps of line 126):  *)
(* React runs the old run's cleanup, `cancel.then(c => c())`, and the     *)
(* effect again, which calls listenEvents on the new Api.  The component  *)
(* keeps its state: the three Maps are not cleared.  The old cancel runs  *)
(* in the microtask after its Promise settles, before any later socket    *)
(* message, so the old listener's messages are dropped (Dispatch).        *)
Resubscribe ==
    /\ mounted
    /\ mount < MaxMounts
    /\ cancelRequested' = [cancelRequested EXCEPT ![mount] = TRUE]
    /\ mount' = mount + 1
    /\ conn' = [conn EXCEPT ![mount + 1] = "connecting"]
    /\ UNCHANGED <<stores, mounted, feed, server, serverOps>>

(* The server's update events for everything it holds (spec 4.2, 6).      *)
UpdateMsgs(s) ==
       {[type |-> "update_command_result_summary", summary |-> s.cr[i]] : i \in DOMAIN s.cr}
  \cup {[type |-> "update_validate_result_summary", summary |-> s.vr[i]] : i \in DOMAIN s.vr}
  \cup {[type |-> "update_kluctl_deployment", deployment |-> s.kd[i].deployment,
         clusterId |-> s.kd[i].clusterId] : i \in DOMAIN s.kd}

(* listenEvents' Promise resolves: the connection is open and the server  *)
(* replays its current state, in an order of its choosing.                *)
Connect(m) ==
    /\ conn[m] = "connecting"
    /\ conn' = [conn EXCEPT ![m] = "open"]
    /\ \E replay \in SetToSeqs(UpdateMsgs(server)) :
         feed' = [feed EXCEPT ![m] = replay]
    /\ UNCHANGED <<stores, mounted, mount, cancelRequested, server, serverOps>>

(* The `.then(c => c())` callback: runs once the Promise has resolved and *)
(* the cleanup has asked for it; it stops delivery on that connection.    *)
RunCancel(m) ==
    /\ cancelRequested[m]
    /\ conn[m] = "open"
    /\ conn' = [conn EXCEPT ![m] = "closed"]
    /\ feed' = [feed EXCEPT ![m] = <<>>]
    /\ UNCHANGED <<stores, mounted, mount, cancelRequested, server, serverOps>>

(* The feed hands the i-th in-flight message of conn[m] to the listener.  *)
(* It reaches the stores only if run m is the mounted instance's current *)
(* one: a state update on an unmounted component is dropped by React, and *)
(* a run whose cleanup has run is cancelled before its next message.      *)
Deliverable(m) == IF Reorder THEN DOMAIN feed[m] ELSE DOMAIN feed[m] \cap {1}

Dispatch(m) ==
    /\ conn[m] = "open"
    /\ \E i \in Deliverable(m) :
         /\ feed' = [feed EXCEPT ![m] = RemoveAt(@, i)]
         /\ IF mounted /\ m = mount
              THEN onMessage(feed[m][i])
              ELSE UNCHANGED stores
    /\ UNCHANGED <<session, server, serverOps>>

-----------------------------------------------------------------------------
(* The server (spec 4.2): every change is a complete replacement or a     *)
(* delete by id, broadcast to every open connection.                      *)
Broadcast(msg) ==
    feed' = [m \in Mounts |-> IF conn[m] = "open" THEN Append(feed[m], msg) ELSE feed[m]]

(* The entry a message is about, and the value an update carries.         *)
MsgKey(msg) ==
    CASE msg.type = "update_command_result_summary" -> [col |-> "cr", id |-> msg.summary.id]
      [] msg.type = "update_validate_result_summary" -> [col |-> "vr", id |-> msg.summary.id]
      [] msg.type = "update_kluctl_deployment" -> [col |-> "kd", id |-> msg.deployment.uid]
      [] msg.type = "delete_command_result_summary" -> [col |-> "cr", id |-> msg.id]
      [] msg.type = "delete_validate_result_summary" -> [col |-> "vr", id |-> msg.id]
      [] msg.type = "delete_kluctl_deployment" -> [col |-> "kd", id |-> msg.id]

IsDelete(msg) == "id" \in DOMAIN msg

MsgValue(msg) ==
    CASE "summary" \in DOMAIN msg -> msg.summary
      [] OTHER -> [deployment |-> msg.deployment, clusterId |-> msg.clusterId]

(* The server's collections after the change a message announces.         *)
SrvApply(s, msg) ==
    LET k == MsgKey(msg) IN
    IF IsDelete(msg) THEN [s EXCEPT ![k.col] = SrvDelete(@, k.id)]
                     ELSE [s EXCEPT ![k.col] = SrvSet(@, k.id, MsgValue(msg))]

UpsertMsgs ==
       {[type |-> "update_command_result_summary", summary |-> v] : v \in CrValues}
  \cup {[type |-> "update_validate_result_summary", summary |-> v] : v \in VrValues}
  \cup {[type |-> "update_kluctl_deployment", deployment |-> v.deployment,
         clusterId |-> v.clusterId] : v \in KdValues}

DeleteMsgs(s) ==
       {[type |-> "delete_command_result_summary", id |-> i] : i \in DOMAIN s.cr}
  \cup {[type |-> "delete_validate_result_summary", id |-> i] : i \in DOMAIN s.vr}
  \cup {[type |-> "delete_kluctl_deployment", id |-> i] : i \in DOMAIN s.kd}

ServerChange(msg) ==
    /\ serverOps < MaxServerOps
    /\ serverOps' = serverOps + 1
    /\ server' = SrvApply(server, msg)
    /\ Broadcast(msg)
    /\ UNCHANGED <<stores, session>>

ServerUpsert == \E msg \in UpsertMsgs : ServerChange(msg)

ServerDelete == \E msg \in DeleteMsgs(server) : ServerChange(msg)

Next ==
    \/ Mount
    \/ Unmount
    \/ \E m \in Mounts : Connect(m) \/ RunCancel(m) \/ Dispatch(m)
    \/ ServerUpsert
    \/ ServerDelete

(* The browser's event loop eventually resolves pending Promises, runs    *)
(* their callbacks and delivers queued socket messages.                   *)
Fairness == \A m \in Mounts : WF_vars(Connect(m)) /\ WF_vars(RunCancel(m)) /\ WF_vars(Dispatch(m))

Spec == Init /\ [][Next]_vars /\ Fairness

-----------------------------------------------------------------------------
(* Properties                                                             *)

Current(m) == mounted /\ m = mount

(* Once everything the server has sent on the mounted instance's          *)
(* connection has been handled, the three stores of App.tsx:48-50 hold    *)
(* exactly the server's collections: the replay plus the handlers'        *)
(* replace-by-id and delete-by-id leave no ghost and miss no entry.       *)
ConvergesWhenQuiet ==
    \A m \in Mounts :
        (Current(m) /\ conn[m] = "open" /\ feed[m] = <<>>) => Stores = server

(* Every connection opened by a LoggedInApp instance that has since been  *)
(* unmounted is eventually closed by the `cancel.then(c => c())` of its   *)
(* effect cleanup, even when the cleanup ran before listenEvents'         *)
(* Promise had resolved.                                                  *)
AbandonedConnectionsClose ==
    \A m \in Mounts :
        (conn[m] # "idle" /\ ~Current(m)) ~> (conn[m] = "closed")

(* Once the server has made its last change, a LoggedInApp instance that  *)
(* stays mounted eventually holds exactly the server's collections: its   *)
(* subscription opens, the replay and every broadcast it missed while    *)
(* connecting arrive, and the handlers apply them, under the event loop's *)
(* fairness alone.                                                        *)
EventuallyConsistent ==
    \A m \in Mounts :
        (Current(m) /\ serverOps = MaxServerOps) ~> (~Current(m) \/ Stores = server)
=============================================================================
