---------------------------- MODULE MCExpansionTree ----------------------------
(* A command result tree: the root with two children, one of which has a  *)
(* child of its own, so that a dblclick can bubble through two items.     *)
EXTENDS ExpansionTree

MCNodes == {"root", "objects", "errors", "deployment"}
MCParent == [n \in MCNodes \ {"root"} |-> IF n = "deployment" THEN "objects" ELSE "root"]
=============================================================================
