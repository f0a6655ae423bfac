\* Ten card sizes, up to twelve targets per project.
CONSTANTS
    CardSizes <- MCCardSizes
    MaxTargets = 12
SPECIFICATION Spec
INVARIANTS
    BranchesJoinCircles
    BranchesMonotone
