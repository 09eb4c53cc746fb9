CONSTANTS
    Questions = {a, b}
    MaxEdits = 2
    MaxLeaves = 1
    MaxFailures = 1
SPECIFICATION FairSpec
INVARIANTS
    GradedAsShown
PROPERTIES
    SettledForGood
    TakenIsSubmitted
CHECK_DEADLOCK FALSE
