SPECIFICATION Spec
CONSTANTS
    c1 = c1
    c2 = c2
    c3 = c3
    Commands <- MCCommands
    NoCommand = NoCommand
    MaxExpired = 1
SYMMETRY Perms
INVARIANTS
    TypeOK
    PublishedAtMostOnce
    SingleCopy
    MarkerCovers
    PublishOrder
PROPERTIES
    NeverReturns
    PopsInPublishOrder
