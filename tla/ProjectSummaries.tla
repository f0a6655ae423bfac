-------------------------- MODULE ProjectSummaries --------------------------
(***************************************************************************)
(* The projection engine buildProjectSummaries (project-summaries.ts, not  *)
(* under src/; modelled from spec 4.3-4.4), called by App.tsx:128-130 on   *)
(* the three stores and the active filter.                                 *)
(*                                                                         *)
(* Identity fields, start times and ids are naturals so that the sort keys *)
(* of the spec have an order.  A KluctlDeployment names the full target    *)
(* identity it deploys (deployment.target): the spec leaves the relation   *)
(* open (9) and this is the documented assumption.                         *)
(*                                                                         *)
(* Build is the engine as a computation over the stores in their Map       *)
(* iteration order.                                                        *)
(***************************************************************************)
EXTENDS Naturals, Sequences, SequencesExt, FiniteSets, JsMap

(* The value of a filter criterion that is not set (spec 4.3).            *)
Unset == 0

NoVr == [none |-> TRUE]
NoKd == [none |-> TRUE]

(* matches(filter, identity) of spec 4.3; an undefined filter (the        *)
(* initial state of App.tsx:46) matches everything.                       *)
NoFilter == [project |-> Unset, targetName |-> Unset, discriminator |-> Unset, clusterId |-> Unset]

Matches(filter, t) ==
    \A f \in {"project", "targetName", "discriminator", "clusterId"} :
        filter[f] = Unset \/ filter[f] = t[f]

(* Lexicographic order on identity tuples: the stable sort key (4.4.6).   *)
TargetLess(a, b) ==
    \/ a.project < b.project
    \/ a.project = b.project /\ a.targetName < b.targetName
    \/ a.project = b.project /\ a.targetName = b.targetName /\ a.discriminator < b.discriminator
    \/ a.project = b.project /\ a.targetName = b.targetName /\ a.discriminator = b.discriminator
       /\ a.clusterId < b.clusterId

(* Most recent first, ties broken by the larger id (4.4.1, 3).            *)
CrNewer(a, b) == a.startTime > b.startTime \/ (a.startTime = b.startTime /\ a.id > b.id)

(* The latest validate result: maximum start time, larger id on a tie.    *)
VrNewer(a, b) == a.startTime > b.startTime \/ (a.startTime = b.startTime /\ a.id > b.id)

(* Of two deployment objects for one target the larger uid is kept.      *)
KdPreferred(a, b) == a.deployment.uid > b.deployment.uid

KdTarget(kd) == kd.deployment.target

-----------------------------------------------------------------------------
(* Array.prototype.sort with the CrNewer comparator: a stable sort.      *)
RECURSIVE InsertCommandResult(_, _)
InsertCommandResult(x, s) ==
    IF s = <<>> \/ ~CrNewer(Head(s), x) THEN <<x>> \o s
    ELSE <<Head(s)>> \o InsertCommandResult(x, Tail(s))

RECURSIVE SortCommandResults(_)
SortCommandResults(s) ==
    IF s = <<>> THEN <<>>
    ELSE InsertCommandResult(Head(s), SortCommandResults(Tail(s)))

(* Steps 1 and 4: the command results of target t, in Map order, sorted. *)
CommandResultsOf(crs, t) ==
    SortCommandResults(SelectSeq(ValueSeq(crs), LAMBDA rs : rs.target = t))

(* Step 2: one pass over the validate results in Map order, keeping the   *)
(* newest seen so far for t.                                              *)
LastValidateResultOf(vrs, t) ==
    FoldLeft(LAMBDA cur, vr : IF vr.target = t /\ (cur = NoVr \/ VrNewer(vr, cur)) THEN vr ELSE cur,
             NoVr, ValueSeq(vrs))

(* Step 3: the deployment object of target t, if any.                     *)
KdOf(kds, t) ==
    FoldLeft(LAMBDA cur, kd : IF KdTarget(kd) = t /\ (cur = NoKd \/ KdPreferred(kd, cur)) THEN kd ELSE cur,
             NoKd, ValueSeq(kds))

(* Step 4: the targets that have any data and satisfy the filter.         *)
TargetKeys(crs, vrs, kds, filter) ==
    {t \in {rs.target : rs \in Values(crs)} \cup {vr.target : vr \in Values(vrs)}
             \cup {KdTarget(kd) : kd \in Values(kds)} : Matches(filter, t)}

Build(crs, vrs, kds, filter) ==
    LET targets == TargetKeys(crs, vrs, kds, filter)
        Summary(t) == [target |-> t,
                       commandResults |-> CommandResultsOf(crs, t),
                       lastValidateResult |-> LastValidateResultOf(vrs, t),
                       kd |-> KdOf(kds, t)]
        \* steps 5 and 6: group by project, sort projects and targets
        TargetsOf(p) == SetToSortSeq({t \in targets : t.project = p}, TargetLess)
    IN [i \in 1..Cardinality({t.project : t \in targets}) |->
          LET p == SetToSortSeq({t.project : t \in targets}, <)[i]
          IN [project |-> p,
              targets |-> [j \in DOMAIN TargetsOf(p) |-> Summary(TargetsOf(p)[j])]]]
=============================================================================
