------------------------- MODULE MCEventReconciler -------------------------
(* Small instance of EventReconciler: two command results that may move   *)
(* between two targets, one validate result whose readiness flips, one    *)
(* deployment whose spec changes.  Every id has two distinct values, so   *)
(* a replace and a merge of the same id are told apart.                   *)
EXTENDS EventReconciler

CONSTANTS c1, c2, v1, u1, t1, t2, k1, s1, s2

MCCrIds == {c1, c2}
MCVrIds == {v1}
MCKdUids == {u1}
MCCrValues == {[id |-> c, target |-> t, startTime |-> 1] : c \in MCCrIds, t \in {t1, t2}}
MCVrValues == {[id |-> v1, target |-> t1, startTime |-> 1, ready |-> r] : r \in BOOLEAN}
MCKdValues == {[deployment |-> [uid |-> u1, spec |-> s], clusterId |-> k1] : s \in {s1, s2}}
=============================================================================
