\* Three reviews, batches of two, two actions of others, one fault.
SPECIFICATION SweepSpec
CONSTANTS
    NumReviews = 3
    BatchLimit = 2
    MaxEvents = 2
    MaxFaults = 1
INVARIANTS SweepTypeOK
PROPERTIES RestKeepsItsTurn StaleIsResolved EligibleIsPublished
