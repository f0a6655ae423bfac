\* props.rootNode has the id "root", the id the initial state expands.
CONSTANTS
    Nodes <- MCNodes
    Root = "root"
    Parent <- MCParent
SPECIFICATION Spec
INVARIANTS
    TypeOK
PROPERTIES
    GestureActsOnItsNode
