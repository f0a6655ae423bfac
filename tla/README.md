# TLA+ models of the kluctl web UI dashboard

These modules model the dashboard of the kluctl web UI
(`src/pkg/webui/ui/src/components/`). The dashboard keeps a client-side replica
of the server's command results, validate results and KluctlDeployment objects.
An event feed keeps the replica up to date. The dashboard projects the replica
into a project → target tree, and `TargetsView` renders that tree.

## Inventory

| Component | Source | State | Operations | Module |
|---|---|---|---|---|
| Entity Store | App.tsx:48-50 | three `useImmer` Maps, keyed by id or uid | `draft.set`, `draft.delete` | `JsMap`, `EventReconciler` |
| Event Reconciler | App.tsx:53-126 | Maps, subscription | six handlers, the `onMessage` switch, `listenEvents` resolve, cleanup `cancel.then(c => c())` | `EventReconciler` |
| Event feed and server | api.ts and the Go server (not under src/) | server collections, per-connection feed | replay on connect, broadcast of changes | `EventReconciler` (from the spec) |
| Filter | App.tsx:46, 164-167 | `filters` | `setFilters` | `Dashboard`, `ProjectSummaries` |
| Projection Engine | project-summaries.ts (not under src/) | none (pure) | `buildProjectSummaries` | `ProjectSummaries` (from spec 4.3-4.4) |
| TargetsView selection | TargetsView.tsx:125-258 | selected target summary, selected command result, card rect | select target, close drawer, click card, close history | `Dashboard` |
| App session | App.tsx:132-162, 182-251 | api, authInfo, user, isStatic, short names | two effects and their awaits (one or two `doInit` runs), `onUnauthorized`, `onLogout` | `AppSession` |
| Replica guarantee | App.tsx:45-126 | the Maps, plus history variables (stamps) | the same steps as `EventReconciler` | `ReplicaHistory` → `MonotonicReplica` |
| App ↔ LoggedInApp | App.tsx:98-126, 243-251 | both of the above | mount, unmount and re-subscription of LoggedInApp by App's render | `AppReplica` |
| TargetDetailsDrawer | TargetDetailsDrawer.tsx | none (derived from `props.ts`) | constructor, title, tabs, Summary rows | `TargetDetails` |
| CommandResultTree expansion | CommandResultTree.tsx:17-111 | `expanded` node ids | `handleToggle`, `handleDoubleClick`, `handleItemClick` | `ExpansionTree` |
| RelationTree layout | TargetsView.tsx:51-123, 174-183 | none (geometry of `targetCount`) | render | `RelationTree` |

How the parts interact:

1. `App` chooses an Api and fetches the auth info and the user. Once it has all three, it mounts `LoggedInApp`.
2. `LoggedInApp` subscribes to the event feed. Each event is applied to one Map.
3. The memoised projection is recomputed whenever a Map or the filter changes.
4. `TargetsView` renders the projection. On a click it keeps the clicked `TargetSummary` or command result.
5. A 401 drops the user, which unmounts `LoggedInApp`. Its cleanup cancels the subscription, and a later login starts again from empty Maps.
6. A new `api` while `LoggedInApp` stays mounted re-runs its `listenEvents` effect. The cleanup cancels the old subscription, but the Maps are kept. This happens only under React StrictMode.

## Modules

- **`JsMap`**: JavaScript `Map` semantics as a sequence of key/value records.
  - `set` of a present key keeps that key's position; `set` of a new key appends it.
  - `delete` of an absent key is a no-op.
  - Iteration follows insertion order, which the projection depends on.
- **`EventReconciler`**: the replica as a whole.
  - Variables: the three Maps, the LoggedInApp lifetime (`mounted`, `mount`), and for each lifetime the state of its connection, whether its cleanup has asked to cancel, and its feed.
  - Actions:
    - `Mount` and `Unmount`.
    - `Connect`: `listenEvents` resolves, and the server replays its state in any order.
    - `Dispatch`: one message through the `onMessage` switch into the six handlers. It is dropped when it comes from an old lifetime, because React ignores state updates of an unmounted component.
    - `RunCancel`: the `cancel.then` callback.
    - `Resubscribe`: a new `props.api` re-runs the effect while LoggedInApp stays mounted. It is used only by `AppReplica`, because in `EventReconciler`'s own runs the Api never changes.
    - `ServerUpsert` and `ServerDelete`: the server changes its state and broadcasts the change. Both are `ServerChange(msg)` over the messages the server may send; `SrvApply` gives the collections after the change that a message announces.
  - The constant `Reorder` chooses a FIFO feed or a feed that delivers any pending message.
- **`ProjectSummaries`**: the projection engine, modelled from the spec because its file is not under src/.
  - `Build` computes the tree over the Maps in iteration order, with a stable insertion sort for command results.
  - No property checks the engine itself. Both the engine and any reference for it would be read from the same spec, so the check would compare the spec with itself and say nothing about the real engine. `Build` serves only as the projection that `Dashboard` renders and that its drawer snapshots.
- **`Dashboard`**: composes `EventReconciler` and `ProjectSummaries` with the filter and `TargetsView`'s three state hooks.
  - A card click is one action. `CommandResultItem`'s handler may or may not receive the click; the event then bubbles to the `Card`'s `onClick`.
- **`AppSession`**: `App`'s two effects, modelled as the points where their async functions are suspended.
  - `checkStaticBuild` resolves; `getAuthInfo` resolves or rejects (the rejection is uncaught); `getUser` resolves or fails.
  - `onUnauthorized`, `onLogout`, and `LoggedInApp`'s short-names loading gate.
  - The constant `StrictMode` says whether the app runs under React StrictMode, which is decided outside src/. Under it, React runs each mount effect, its cleanup, and the effect again.
    - The `[]` effect's `if (api)` guard reads the first render's `api`, which is undefined, so both runs start a `doInit`.
    - Each run builds its own Api (`Apis`, `BuiltApi(r)`), and the later `setApi` wins.
- **`AppReplica`**: composes `AppSession` with `EventReconciler`, in the style of a component plus its environment.
  - Every session step comes with its commit's effect on LoggedInApp (`RenderLoggedInApp`), as decided by App's render (App.tsx:243-251):
    - entering the dashboard branch mounts LoggedInApp (under StrictMode, with its effect run, cleaned up and run again);
    - leaving it unmounts LoggedInApp;
    - a new `api` while the dashboard is shown re-runs the `listenEvents` effect (`Resubscribe` in `EventReconciler`).
  - The replica's own steps leave the session unchanged.
  - Fairness is `AppSession`'s, placed on the composed steps, together with `EventReconciler`'s.
  - `Dispatch` drops the messages of a subscription whose cleanup has run. The cleanup's `cancel.then(c => c())` runs in the microtask after `listenEvents`' Promise settles, before any later socket message.

- **`MonotonicReplica`**: the abstract specification of what the Maps promise for each entry (a key of one of the three Maps).
  - The server's history of each entry: the stamp of every change, with the value it set or "no entry".
  - The replica shows, for each entry, the value of one point of that history (`seen`). `CatchUp` moves that point strictly forward. `Reset` forgets everything, as on a remount.
- **`ReplicaHistory`**: `EventReconciler` with three history variables, which its steps write and never read.
  - `hist`: the history of every entry, with stamp `serverOps + 1` for each server change.
  - `stamps[m]`: the stamp of every message in flight on connection `m`. A replayed update carries its entry's last stamp.
  - `applied`: the stamp of the message the Maps last applied to each entry. It is reset when the Maps are emptied.
  - Each `H` action is the `EventReconciler` action of the same name, conjoined with its history update.
  - The refinement maps `seen` to `applied` and `replica` to what the Maps hold (`Shown`). It is checked as the property `ImplementsMonotonicReplica`.
- **`SessionScreens`**: the abstract specification of the screens `App` shows.
  - Loading, then Login, then the dashboard; back to Login on a 401; gone after a logout.
  - `AppSession` implements it: `Screens == INSTANCE SessionScreens WITH screen <- IF left THEN "left" ELSE View`, checked as the property `ImplementsScreens`.
- **`TargetDetails`**: `MyProvider` of TargetDetailsDrawer as operators of `props.ts`.
  - The errors, warnings and drift lists are abstracted to their lengths, which is all the provider reads.
  - An absent list reached by optional chaining behaves as an empty one.
  - The one action is a re-render with another summary or none.
- **`ExpansionTree`**: the `expanded` state of CommandResultTree. Each DOM event is one action (`ClickLabel`, `ClickIcon`, `DoubleClick`).
  - React flushes a discrete event's updates before the next event. So every event reads the last commit, but all handlers of one event share its closure.
  - A dblclick bubbles through the `onDoubleClick` of every enclosing TreeItem until one stops it (`DoubleClickResult`).
  - MUI's toggle, which is not in this repository, is `MuiToggled`.
- **`RelationTree`**: the project-to-targets SVG in half pixels.
  - The three kinds of branch are sequences of relative moves, and a fold adds them up to the branch's end point.
  - Card.tsx is not in this repository, so the card height and gap are chosen once from a set of sizes.

## Runs

| Run | cfg | Expect | What it shows |
|---|---|---|---|
| reconciler_fifo | MCEventReconciler.cfg | pass (about 55k states) | `ConvergesWhenQuiet`: whenever the current connection is drained, the Maps equal the server's collections, across two lifetimes and three server changes. `AbandonedConnectionsClose`: the connection of an unmounted LoggedInApp is eventually closed, even when the unmount came before `listenEvents` resolved. `EventuallyConsistent`: once the server stops changing, a LoggedInApp that stays mounted eventually holds exactly the server's state. |
| replica_refinement | MCReplicaHistory.cfg | pass (about 225k states) | `ImplementsMonotonicReplica`: with an in-order feed, at every step (not only when the feed is drained) each entry in the Maps is a value the server really gave it. Each applied message moves that entry forward in the server's history. An older update never overwrites a newer one, and a deleted entry never comes back. This holds across unmounts, remounts and connections still delivering after their cleanup. With `Reorder = TRUE`, the same property fails in 7 steps. |
| reconciler_reorder | MCEventReconcilerReorder.cfg | violation | `EventuallyConsistent` with a reordering feed (spec 4.1 makes no ordering promise). Spec 5 allows an incorrect snapshot only until a correcting event arrives. In the trace, updates are applied out of order after the server's last change. The connection stays open and every message is delivered, but no correcting event comes, so the Maps never equal the server's collections. The handlers have no version check (App.tsx:56). |
| dashboard | MCDashboard.cfg | pass (about 86k states) | `HistoryHidesDrawer`: HistoryCards never covers an open drawer. |
| dashboard_stale_drawer | MCDashboardStaleDrawer.cfg | violation | The drawer keeps the `TargetSummary` captured at the click (TargetsView.tsx:191). A validate result that arrives later is not shown, which contradicts spec 3 ("recomputed fresh"). |
| app_session | MCAppSession.cfg | pass (168 states) | `SingleUserRequest`: never two `getUser` calls in flight. `SettlesAfterInit`: after `doInit` succeeds, App leaves Loading for Login or the dashboard with no request pending, or the page is left. `ImplementsScreens`: the screens follow `SessionScreens` under every interleaving of the effects, answers, 401s and logout. |
| app_replica | MCAppReplica.cfg | pass (about 132k states) | Checked under StrictMode. `LoggedOutHoldsNothing`: whenever App is not showing the dashboard, LoggedInApp is unmounted, its Maps are empty, and every connection it opened is closed or being cancelled. `SubscriptionEstablished`: while the dashboard is shown, its latest subscription eventually opens and is not cancelled. `ImplementsScreens` still holds with two `doInit` runs. |
| app_replica_strict_ghost | MCAppReplicaGhost.cfg | violation | Under StrictMode, the second `doInit`'s `setApi` makes LoggedInApp re-subscribe but keep its Maps. The server deletes an entry, the old subscription is already cancelled, and the new replay carries only updates. The entry stays for good, contradicting spec 5's eventual consistency. |
| target_details | MCTargetDetails.cfg | pass (221 states) | `PanelAgreesWithSummary`: the drawer's title, tabs and Summary rows agree with each other and with the latest validate result. The tab order is Summary, Drift, Errors, Warnings, and each list tab appears exactly when its row does, with the right count. |
| expansion_tree | MCExpansionTree.cfg | pass (932 states) | `GestureActsOnItsNode`: a label click only selects its node. An icon click or double click flips its own item's expansion and no other's. |
| relation_tree | MCRelationTree.cfg | pass (120 states) | `BranchesJoinCircles`: every branch starts in the root circle and reaches its target's circle, level with the card's centre. `BranchesMonotone`: no branch doubles back. |

Every property of a passing run has a mutant in PROJECT.json: a plausible bug in the mapped code that TLC catches under the run's own cfg.

### Bounds

- **reconciler_fifo**
  - Two command-result ids, one validate result and one deployment.
  - Two payloads per entity, so that an update can really replace a value.
  - Two LoggedInApp lifetimes (`MaxMounts`), so that an old connection coexists with a new one.
  - Three server changes (`MaxServerOps`): enough for update-update, update-delete and delete-update on one id, each racing the replay.
- **replica_refinement**: the constants of `reconciler_fifo`. The history variables make the state space four times larger.
- **dashboard**
  - Three targets: two in project 1 that differ only in discriminator, and one in project 2. This exercises grouping, the lexicographic order and filters on project and discriminator.
  - Two command results with equal start times, so the id tie-break matters.
  - A deployment whose target may have no command results.
- **app_session**
  - Two users.
  - Four `getUser` calls, enough for a login → 401 → login cycle.
  - `StrictMode = FALSE`, as in a production build. With `StrictMode = TRUE`, `SingleUserRequest` fails: each Api gets its own `doGetUser`. Both calls only `setUser`, so this run keeps the production setting, and `app_replica` checks the StrictMode session.
- **app_replica**
  - `StrictMode = TRUE`: two `doInit` runs, each with a static or real Api.
  - One user and two `getUser` calls.
  - One command-result entry that the server may create and then delete (two server changes). That is the least needed for a delete to fall between two subscriptions.
  - Three runs of LoggedInApp's effect (`MaxMounts`): two at mount and one when the second Api arrives. A remount after a 401 would need two more runs, so the 401 is checked only for the unmount it causes.

- **target_details**
  - Every summary with lists of up to two entries (so 0, 1 and more than 1 all occur).
  - An empty and a non-empty target name and discriminator.
  - No summary (drawer closed).
- **expansion_tree**
  - A four-node tree: the root with two children, one of which has a child. A dblclick on the grandchild therefore bubbles through two enclosing items.
- **relation_tree**
  - 1 to 12 targets, both parities.
  - Ten card sizes, including an odd height, a card with no gap, and the 48 px pitch at which the bent branches' vertical run is exactly zero.

### Fairness

- `Connect`, `RunCancel` and `Dispatch` are weakly fair: the browser's event loop settles a resolved Promise and delivers a received message. The server's actions and the user's clicks are not fair.
- In `AppSession`, the effects and Promise resolutions are weakly fair, because React flushes the effects of a commit. `onLogout` and `onUnauthorized` are not fair.
- `AppReplica` conjoins both sets of fairness conditions, with the session's placed on its composed steps.
- `CHECK_DEADLOCK FALSE` is set because the dashboard idles, waiting for events or clicks, once the server's bounded changes are used up.

## Observations from the geometry

The straight branch of an odd target count is drawn as `h ${width - circleRadius}` from x = circleRadius. It therefore ends at the SVG's right edge (x = 152), while the bent branches end at x = 147. All of them reach the target circle (centre 146, radius 5), so `BranchesJoinCircles` asks only for that. The straight one runs 1 px past the circle's edge.

## Not modelled

1. **Card window** (TargetsView.tsx:245): only the first four command results of a target are displayed and clickable. This is the design, not a hazard. A run with more than four results per target would only restate that guard.
2. **HistoryCards** (TargetsView.tsx:150-155) receives the `rs`/`ts` captured at the click, but it is not under src/, so what it does with them is unknown.
3. **A remount after a 401 under StrictMode**: it needs five runs of the effect, and the composed state space then grows past a few minutes of checking. The remount itself is checked in `reconciler_fifo`, where Mount and Unmount are free.
4. **`useLoadingHelper`** is not under src/, so whether it reloads the short names for a new `api` is unknown. The model loads them once per mount.

The following are out of scope: styling and theming; the per-target connector SVG (TargetsView.tsx:193-229), which is fixed geometry; Login, LeftDrawer, Card and HistoryCards (not under src/); and the Api's HTTP layer.

`MonotonicReplica` is not checked against the composed `AppReplica`. Its history variables would make that state space too large. Under StrictMode, the ghost entry of `app_replica_strict_ghost` would not break it anyway: a stale value the server really held is allowed, and that run already shows the ghost.
