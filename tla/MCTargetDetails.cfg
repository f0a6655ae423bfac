\* TargetDetailsDrawer over every TargetSummary with lists of up to two
\* entries, a named and an unnamed target, with and without discriminator.
CONSTANTS
    TargetNames = {"", "app"}
    Discriminators = {"", "prod"}
    MaxListLen = 2
SPECIFICATION Spec
INVARIANTS
    PanelAgreesWithSummary
