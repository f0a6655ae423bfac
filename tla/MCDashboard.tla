---------------------------- MODULE MCDashboard ----------------------------
(* Three targets: A and B of project 1 differ only in the discriminator,  *)
(* C is of project 2.  Two command results may land on A or B with equal  *)
(* or different start times; two validate results of A share a start     *)
(* time, so the tie-break by id decides which is latest; the deployment   *)
(* object moves between A and C.                                          *)
EXTENDS Dashboard

TA == [project |-> 1, targetName |-> 1, discriminator |-> 1, clusterId |-> 1]
TB == [project |-> 1, targetName |-> 1, discriminator |-> 2, clusterId |-> 1]
TC == [project |-> 2, targetName |-> 1, discriminator |-> 1, clusterId |-> 1]

MCCrValues == [id : {1, 2}, target : {TA, TB}, startTime : {1, 2}]
MCVrValues == [id : {1, 2}, target : {TA}, startTime : {1}, ready : {TRUE}]
MCKdValues == {[deployment |-> [uid |-> 1, target |-> t], clusterId |-> 1] : t \in {TA, TC}}

MCFilters == {NoFilter,
              [NoFilter EXCEPT !.project = 1],
              [NoFilter EXCEPT !.discriminator = 2]}
=============================================================================
