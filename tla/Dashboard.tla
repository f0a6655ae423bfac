------------------------------ MODULE Dashboard ------------------------------
(***************************************************************************)
(* LoggedInApp's replica (EventReconciler) composed with the projection    *)
(* it memoises (App.tsx:128-130), the active filter (App.tsx:46) and the   *)
(* selection state of TargetsView (TargetsView.tsx:125-267), which shows   *)
(* the projected tree and opens a TargetDetailsDrawer or HistoryCards on   *)
(* a click.  The TargetsView state lives and dies with LoggedInApp.        *)
(***************************************************************************)
EXTENDS EventReconciler, ProjectSummaries

CONSTANTS
    Filters,        \* values FilterBar may pass to setFilters
    DisplayedCards  \* command result cards shown per target (TargetsView.tsx:245)

ASSUME /\ NoFilter \in Filters
       /\ DisplayedCards \in Nat \ {0}

VARIABLES
    filters,                 \* App.tsx:46
    selectedCommandResult,   \* TargetsView.tsx:127, [rs, ts] or Undefined
    selectedTargetSummary,   \* TargetsView.tsx:128
    selectedCardRect         \* TargetsView.tsx:129

view == <<selectedCommandResult, selectedTargetSummary, selectedCardRect>>
dvars == <<vars, filters, view>>

Undefined == [undefined |-> TRUE]

(* The bounding rectangle of the clicked card; only its presence matters. *)
Rect == [boundingClientRect |-> TRUE]

(* useMemo(() => buildProjectSummaries(...), [stores..., filters])         *)
projects == Build(commandResultSummaries, validateResultSummaries, kluctlDeployments, filters)

TargetSummaries == UNION {ToSet(projects[i].targets) : i \in DOMAIN projects}

(* TargetsView.tsx:148: with a command result and a card rect selected it *)
(* renders only HistoryCards, otherwise the tree and the drawer.          *)
HistoryShown == selectedCommandResult # Undefined /\ selectedCardRect # Undefined

DInit ==
    /\ Init
    /\ filters = NoFilter
    /\ selectedCommandResult = Undefined
    /\ selectedTargetSummary = Undefined
    /\ selectedCardRect = Undefined

-----------------------------------------------------------------------------
(* LoggedInApp mounts and unmounts with all of its state and TargetsView's. *)
DMount ==
    /\ Mount
    /\ filters' = NoFilter
    /\ selectedCommandResult' = Undefined
    /\ selectedTargetSummary' = Undefined
    /\ selectedCardRect' = Undefined

DUnmount ==
    /\ Unmount
    /\ filters' = NoFilter
    /\ selectedCommandResult' = Undefined
    /\ selectedTargetSummary' = Undefined
    /\ selectedCardRect' = Undefined

(* Feed, server and cancellation steps leave the view alone.              *)
ReplicaStep ==
    /\ \/ \E m \in Mounts : Connect(m) \/ RunCancel(m) \/ Dispatch(m)
       \/ ServerUpsert
       \/ ServerDelete
    /\ UNCHANGED <<filters, view>>

(* FilterBar calls setFilters from the outlet context (App.tsx:164-167).  *)
SetFilters ==
    /\ mounted
    /\ \E f \in Filters : filters' = f
    /\ UNCHANGED <<vars, view>>

-----------------------------------------------------------------------------
(* TargetsView handlers                                                   *)

(* TargetItem's onSelectTarget is setSelectedTargetSummary (line 191).    *)
SelectTarget ==
    /\ mounted
    /\ ~HistoryShown
    /\ \E ts \in TargetSummaries : selectedTargetSummary' = ts
    /\ UNCHANGED <<vars, filters, selectedCommandResult, selectedCardRect>>

(* The drawer's onClose (lines 134-136).                                  *)
onTargetDetailsDrawerClose ==
    /\ mounted
    /\ ~HistoryShown
    /\ selectedTargetSummary # Undefined
    /\ selectedTargetSummary' = Undefined
    /\ UNCHANGED <<vars, filters, selectedCommandResult, selectedCardRect>>

(* Slips: selecting without closing the drawer; keeping the clicked      *)
(* element itself instead of its bounding rectangle.                      *)
ClickCommandResultCardKeepsDrawer ==
    /\ mounted
    /\ ~HistoryShown
    /\ \E ts \in TargetSummaries, i \in 1..DisplayedCards, selects \in BOOLEAN :
         /\ i <= Len(ts.commandResults)
         /\ IF selects
              THEN selectedCommandResult' = [rs |-> ts.commandResults[i], ts |-> ts]
              ELSE UNCHANGED selectedCommandResult
         /\ selectedCardRect' = Rect
    /\ UNCHANGED <<vars, filters, selectedTargetSummary>>

(* A click on one of the first DisplayedCards command result cards of a   *)
(* target (lines 239-258): CommandResultItem's handler, if the click      *)
(* reaches it, runs onSelectCommandResult({rs, ts}), which closes the     *)
(* drawer and selects the result (lines 138-141); the event then bubbles  *)
(* to the Card, whose onClick records the card's rect (lines 247-250).    *)
ClickCommandResultCard ==
    /\ mounted
    /\ ~HistoryShown
    /\ \E ts \in TargetSummaries, i \in 1..DisplayedCards, selects \in BOOLEAN :
         /\ i <= Len(ts.commandResults)
         /\ IF selects
              THEN /\ selectedTargetSummary' = Undefined
                   /\ selectedCommandResult' = [rs |-> ts.commandResults[i], ts |-> ts]
              ELSE UNCHANGED <<selectedTargetSummary, selectedCommandResult>>
         /\ selectedCardRect' = Rect
    /\ UNCHANGED <<vars, filters>>

(* HistoryCards' onClose (lines 143-146).                                 *)
onHistoryCardsClose ==
    /\ mounted
    /\ HistoryShown
    /\ selectedCommandResult' = Undefined
    /\ selectedCardRect' = Undefined
    /\ UNCHANGED <<vars, filters, selectedTargetSummary>>

DNext ==
    \/ DMount
    \/ DUnmount
    \/ ReplicaStep
    \/ SetFilters
    \/ SelectTarget
    \/ onTargetDetailsDrawerClose
    \/ ClickCommandResultCard
    \/ onHistoryCardsClose

DSpec == DInit /\ [][DNext]_dvars

-----------------------------------------------------------------------------
(* Properties                                                             *)

(* While HistoryCards replaces the tree, no TargetDetailsDrawer is open   *)
(* behind it: selecting a command result closes the drawer (line 139).    *)
HistoryHidesDrawer == HistoryShown => selectedTargetSummary = Undefined

(* The open drawer shows its target's latest validate result as the      *)
(* current projection has it: readiness, drift, errors and warnings of    *)
(* TargetDetailsDrawer.tsx:19-74 are those of the stores now (spec 3: the *)
(* latest validate result is recomputed fresh, never cached).             *)
DrawerShowsCurrentTarget ==
    selectedTargetSummary # Undefined =>
        \A ts \in TargetSummaries :
            ts.target = selectedTargetSummary.target =>
                ts.lastValidateResult = selectedTargetSummary.lastValidateResult
=============================================================================
