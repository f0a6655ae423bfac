----------------------------- MODULE TargetDetails -----------------------------
(***************************************************************************)
(* TargetDetailsDrawer (src/pkg/webui/ui/src/components/targets-view/      *)
(* TargetDetailsDrawer.tsx): on every render it builds a MyProvider from    *)
(* props.ts and shows the provider's title, tabs and summary rows in a      *)
(* drawer that is open exactly when props.ts is defined.                    *)
(*                                                                          *)
(* The errors, warnings and drift lists are abstracted to their lengths:   *)
(* the provider only tests their length (an undefined list, reached by     *)
(* optional chaining, behaves as an empty one) and prints it.  A row's     *)
(* value `n + ""` is the decimal rendering of n, which is injective, so    *)
(* the row carries n itself; `ready + ""` is "true" or "false".            *)
(***************************************************************************)
EXTENDS Naturals, Sequences, SequencesExt

CONSTANTS
    TargetNames,     \* target names, "" standing for an empty or absent one
    Discriminators,  \* discriminators a target may carry
    MaxListLen       \* bound on the errors, warnings and drift lists

ASSUME "" \in TargetNames /\ MaxListLen \in Nat

NoTs == [undefined |-> TRUE]   \* props.ts === undefined
NoVr == [none |-> TRUE]        \* ts.lastValidateResult === undefined

ValidateResults ==
    [ready : BOOLEAN, errors : 0..MaxListLen, warnings : 0..MaxListLen, drift : 0..MaxListLen]

TargetSummaries ==
    [target : [targetName : TargetNames, discriminator : Discriminators],
     lastValidateResult : ValidateResults \cup {NoVr}]

VARIABLE ts   \* props.ts of the current render

Init == ts = NoTs

-----------------------------------------------------------------------------
(* this.ts?.lastValidateResult?.<list>?.length, 0 when any link is absent.  *)
ListLen(field) ==
    IF ts = NoTs \/ ts.lastValidateResult = NoVr THEN 0
    ELSE ts.lastValidateResult[field]

(* The constructor adds every drift entry to a fresh DiffStatus; its       *)
(* changedObjects has one entry per drifted object.                        *)
ChangedObjects == ListLen("drift")

getTargetName ==
    IF ts = NoTs THEN ""
    ELSE IF ts.target.targetName # "" THEN ts.target.targetName
    ELSE "<no-name>"

buildSidePanelTitle == getTargetName

(* The brace-less `if (this.ts.target)` of line 33 governs the Drift push  *)
(* only; a TargetSummary always carries its target.                       *)
buildSidePanelTabs ==
    IF ts = NoTs THEN <<>>
    ELSE <<"Summary">>
         \o (IF ts.target # NoTs /\ ChangedObjects > 0 THEN <<"Drift">> ELSE <<>>)
         \o (IF ListLen("errors") > 0 THEN <<"Errors">> ELSE <<>>)
         \o (IF ListLen("warnings") > 0 THEN <<"Warnings">> ELSE <<>>)

Row(name, value) == [name |-> name, value |-> value]

BoolString(b) == IF b THEN "true" ELSE "false"

(* A slip: the Warnings row printing the errors' count.                   *)
buildSummaryTabWarningsAsErrors ==
    <<Row("Target Name", getTargetName), Row("Discriminator", ts.target.discriminator)>>
    \o (IF ts.lastValidateResult # NoVr
          THEN <<Row("Ready", BoolString(ts.lastValidateResult.ready))>> ELSE <<>>)
    \o (IF ListLen("errors") > 0 THEN <<Row("Errors", ListLen("errors"))>> ELSE <<>>)
    \o (IF ListLen("warnings") > 0 THEN <<Row("Warnings", ListLen("errors"))>> ELSE <<>>)
    \o (IF ListLen("drift") > 0 THEN <<Row("Drifted Objects", ListLen("drift"))>> ELSE <<>>)

(* The properties table of the Summary tab (lines 57-79).                 *)
buildSummaryTab ==
    <<Row("Target Name", getTargetName), Row("Discriminator", ts.target.discriminator)>>
    \o (IF ts.lastValidateResult # NoVr
          THEN <<Row("Ready", BoolString(ts.lastValidateResult.ready))>> ELSE <<>>)
    \o (IF ListLen("errors") > 0 THEN <<Row("Errors", ListLen("errors"))>> ELSE <<>>)
    \o (IF ListLen("warnings") > 0 THEN <<Row("Warnings", ListLen("warnings"))>> ELSE <<>>)
    \o (IF ListLen("drift") > 0 THEN <<Row("Drifted Objects", ListLen("drift"))>> ELSE <<>>)

(* The Drawer's open prop (line 103).                                     *)
DrawerOpen == ts # NoTs

-----------------------------------------------------------------------------
(* TargetsView re-renders the drawer with another, or no, TargetSummary:  *)
(* a click on a target, the drawer's onClose, or a HistoryCards switch.   *)
Render ==
    \E t \in TargetSummaries \cup {NoTs} : ts' = t /\ t # ts

Next == Render

Spec == Init /\ [][Next]_ts

-----------------------------------------------------------------------------
(* Properties                                                             *)

(* What the panel says of a list, computed afresh from the summary.       *)
Count(l) ==
    CASE l = "Drift"    -> ListLen("drift")
      [] l = "Errors"   -> ListLen("errors")
      [] l = "Warnings" -> ListLen("warnings")

RowName(l) == IF l = "Drift" THEN "Drifted Objects" ELSE l

(* The open drawer's tabs and its Summary table tell one story about the  *)
(* target's latest validate result: the title names the target (with a    *)
(* placeholder for an unnamed one); the tabs are Summary followed by      *)
(* Drift, Errors and Warnings, in that order, each present exactly when   *)
(* the Summary table has a row for that list, and that row counts the     *)
(* list's entries; a closed drawer shows no tab.  The tab list is built   *)
(* from the DiffStatus of the constructor and the table from the raw      *)
(* lists, by two separate chains of optional-chaining guards.             *)
PanelAgreesWithSummary ==
    IF ~DrawerOpen THEN buildSidePanelTabs = <<>>
    ELSE LET tabs == buildSidePanelTabs
             rows == buildSummaryTab
         IN /\ buildSidePanelTitle \in (TargetNames \ {""}) \cup {"<no-name>"}
            /\ (buildSidePanelTitle = "<no-name>") <=> (ts.target.targetName = "")
            /\ tabs[1] = "Summary"
            /\ IsSorted(SelectSeq(tabs, LAMBDA l : l # "Summary"),
                        LAMBDA a, b : a = "Drift" \/ (a = "Errors" /\ b = "Warnings"))
            /\ \A l \in {"Drift", "Errors", "Warnings"} :
                 /\ Contains(tabs, l) <=> \E i \in DOMAIN rows : rows[i].name = RowName(l)
                 /\ Contains(tabs, l) <=> Count(l) > 0
                 /\ \A i \in DOMAIN rows : rows[i].name = RowName(l) => rows[i].value = Count(l)
            /\ (\E i \in DOMAIN rows : rows[i].name = "Ready")
                 <=> ts.lastValidateResult # NoVr
=============================================================================
