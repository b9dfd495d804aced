SPECIFICATION FairSpec
CONSTANTS
    contact = contact
    NMsg = 1
    Recipient <- OneRecipient
    Dest <- ToOne
    ResendThreshold = 1
    MaxResends = 1
    StackThreshold = 1
    MaxStackResends = 1
    Aging = {1}
    Removable = {1}
    MaxCopies = 1
    MaxSends = 1
    MaxCrashes = 1
CHECK_DEADLOCK FALSE
PROPERTIES EveryMessageSettles
