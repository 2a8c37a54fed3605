\* Whether every []= form rewrites itself after a hash fast path.
CONSTANTS
    W <- MCW
    Sites <- IndsetSites
    Receivers <- MCReceivers
    RegKeys <- MCRegKeys
    Elems <- MCElems
    AryInits <- MCAryInits
    HashInits <- MCHashInits
SPECIFICATION Spec
PROPERTY HashFastPathSpeculates
