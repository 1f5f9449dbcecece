SPECIFICATION Spec
CONSTANTS
    host = host
    card = card
    disk = disk
    other = other
    Devices = {host, card, disk, other}
    Parent <- MCParent
    RegisterAt <- NotCompleting
    Careful = TRUE
INVARIANTS
    TypeOK
    DepthFirst
    CallsPaired
    AllOff
    NothingLeftOff
PROPERTY
    BottomUp
