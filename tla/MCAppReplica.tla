---------------------------- MODULE MCAppReplica ----------------------------
(* One command result whose entry the server may create and delete; no   *)
(* validate results or deployments, which the handlers treat alike.      *)
EXTENDS AppReplica

CONSTANTS c1, t1

MCCrIds == {c1}
MCCrValues == {[id |-> c1, target |-> t1, startTime |-> 1]}
=============================================================================
