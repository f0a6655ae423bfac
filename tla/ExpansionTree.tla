----------------------------- MODULE ExpansionTree -----------------------------
(***************************************************************************)
(* The expansion state of CommandResultTree (src/pkg/webui/ui/src/         *)
(* components/command-result/CommandResultTree.tsx): a controlled MUI      *)
(* TreeView whose `expanded` list lives in a useState hook (line 20).       *)
(*                                                                          *)
(* Each DOM event is one step: React flushes the state updates of a        *)
(* discrete event before the next one, so every event's handlers read the  *)
(* `expanded` of the last commit.  Within one event, though, all handlers  *)
(* share that closure: a dblclick on a node bubbles to the onDoubleClick   *)
(* of every enclosing TreeItem until one stops it, each calls              *)
(* setExpanded with a list computed from the same `expanded`, and the last *)
(* call wins.                                                              *)
(*                                                                          *)
(* MUI's part (not in this repository): a click on a TreeItem's content,   *)
(* or on its expand icon, toggles an expandable item by calling            *)
(* onNodeToggle with the id removed from, or prepended to, `expanded`.     *)
(***************************************************************************)
EXTENDS Naturals, Sequences, SequencesExt, Functions

CONSTANTS
    Nodes,    \* node ids of the rendered tree
    Root,     \* id of props.rootNode
    Parent    \* parent id of each node but the root

ASSUME Root \in Nodes /\ Parent \in [Nodes \ {Root} -> Nodes]

NoNode == "none"

VARIABLES
    expanded,   \* line 20
    selected,   \* the last node handed to props.onSelectNode
    event       \* the last DOM event, for the action property

vars == <<expanded, selected, event>>

Children(n) == {c \in Nodes \ {Root} : Parent[c] = n}

(* The TreeItems an event on n's item bubbles through, innermost first.  *)
RECURSIVE BubblePath(_)
BubblePath(n) == IF n = Root THEN <<n>> ELSE <<n>> \o BubblePath(Parent[n])

(* An item is on screen when every enclosing item is expanded.           *)
Visible(n) == \A a \in ToSet(Tail(BubblePath(n))) : Contains(expanded, a)

Events == [kind : {"click", "icon", "dblclick"}, node : Nodes]

TypeOK ==
    /\ expanded \in Seq(Nodes) /\ IsInjective(expanded)
    /\ selected \in Nodes \cup {NoNode}
    /\ event \in Events \cup {[kind |-> "none", node |-> NoNode]}

Init ==
    /\ expanded = <<Root>>
    /\ selected = NoNode
    /\ event = [kind |-> "none", node |-> NoNode]

-----------------------------------------------------------------------------
Without(s, id) == SelectSeq(s, LAMBDA x : x # id)

(* MUI TreeView's toggleExpansion, passed to onNodeToggle.               *)
MuiToggled(id) ==
    IF Contains(expanded, id) THEN Without(expanded, id) ELSE <<id>> \o expanded

(* Lines 22-24.                                                           *)
handleToggle(nodeIds) == nodeIds

(* A slip: appending without the includes() test, so a second dblclick    *)
(* adds the id again instead of removing it.                              *)
handleDoubleClickAppendOnly(n) ==
    [set |-> Append(expanded, n), stop |-> TRUE]

(* A slip: the handler without e.stopPropagation().                       *)
handleDoubleClickNoStop(n) ==
    [set  |-> IF Contains(expanded, n) THEN Without(expanded, n) ELSE Append(expanded, n),
     stop |-> FALSE]

(* Lines 26-33: toggle n in the closure's `expanded`, stop the bubbling.  *)
handleDoubleClick(n) ==
    [set  |-> IF Contains(expanded, n) THEN Without(expanded, n) ELSE Append(expanded, n),
     stop |-> TRUE]

(* Lines 35-38.                                                           *)
handleItemClick(n) == [select |-> n, stop |-> TRUE]

(* The list the last onDoubleClick handler reached passes to setExpanded. *)
RECURSIVE DoubleClickResult(_)
DoubleClickResult(path) ==
    LET r == handleDoubleClick(Head(path))
    IN IF r.stop \/ Tail(path) = <<>> THEN r.set ELSE DoubleClickResult(Tail(path))

-----------------------------------------------------------------------------
(* A click on n's label Box (line 48): onSelectNode(n); unless the handler *)
(* stops it, the click reaches MUI's content handler, which toggles an    *)
(* item that has children.                                                *)
ClickLabel(n) ==
    /\ Visible(n)
    /\ LET r == handleItemClick(n)
       IN /\ selected' = r.select
          /\ expanded' = IF r.stop \/ Children(n) = {} THEN expanded
                         ELSE handleToggle(MuiToggled(n))
    /\ event' = [kind |-> "click", node |-> n]

(* A click on the expand icon, shown only for items with children (79).  *)
ClickIcon(n) ==
    /\ Visible(n)
    /\ Children(n) # {}
    /\ expanded' = handleToggle(MuiToggled(n))
    /\ event' = [kind |-> "icon", node |-> n]
    /\ UNCHANGED selected

(* A dblclick anywhere in n's item (line 96).                             *)
DoubleClick(n) ==
    /\ Visible(n)
    /\ expanded' = DoubleClickResult(BubblePath(n))
    /\ event' = [kind |-> "dblclick", node |-> n]
    /\ UNCHANGED selected

Next == \E n \in Nodes : ClickLabel(n) \/ ClickIcon(n) \/ DoubleClick(n)

Spec == Init /\ [][Next]_vars

-----------------------------------------------------------------------------
(* Properties                                                             *)

(* Every gesture acts on the item it was made on and on no other: a label *)
(* click selects that node and leaves the expansion alone, an icon click  *)
(* or a double click flips that item's expansion and no other item's,     *)
(* even though the dblclick bubbles through every enclosing TreeItem,     *)
(* each of whose handlers computes its own list from the same closure.    *)
GestureActsOnItsNode ==
    [][ /\ event'.kind = "click" => expanded' = expanded /\ selected' = event'.node
        /\ event'.kind \in {"icon", "dblclick"} =>
             SymDiff(ToSet(expanded'), ToSet(expanded)) = {event'.node}
      ]_vars
=============================================================================
