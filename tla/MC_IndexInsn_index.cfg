\* Every ind and indset form on the array, the hash and other receivers.
CONSTANTS
    W <- MCW
    Sites <- IndexSites
    Receivers <- MCReceivers
    RegKeys <- MCRegKeys
    Elems <- MCElems
    AryInits <- MCAryInits
    HashInits <- MCHashInits
SPECIFICATION Spec
INVARIANT IndexAgreesWithMethod
