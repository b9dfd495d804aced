SPECIFICATION Spec
CONSTANTS
    contact = contact
    NMsg = 2
    Recipient <- OneRecipient
    Dest <- ToOne
    ResendThreshold = 1
    MaxResends = 1
    StackThreshold = 1
    MaxStackResends = 1
    Aging = {}
    Removable = {1}
    MaxCopies = 1
    MaxSends = 1
    MaxCrashes = 0
INVARIANTS HeadOfLine SentMeansAccepted
PROPERTY ImplementsOutbox
CHECK_DEADLOCK FALSE
