SPECIFICATION Spec
CONSTANTS
    contact = contact
    NMsg = 1
    Recipient <- OneRecipient
    Dest <- ToOne
    ResendThreshold = 1
    MaxResends = 2
    StackThreshold = 2
    MaxStackResends = 2
    Aging = {1}
    Removable = {1}
    MaxCopies = 1
    MaxSends = 2
    MaxCrashes = 1
INVARIANTS TypeOK SingleFlight NothingLost BackoffHolds
PROPERTY VerdictIsFinal
CHECK_DEADLOCK FALSE
