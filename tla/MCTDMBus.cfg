CONSTANTS
    N = 3
    SlotWidth = 2
    OutCap = 6
    MaxReq = 2
SPECIFICATION Spec
INVARIANT TypeOK OneGrantPerSlot BoundedWaiting
PROPERTY EveryRequestGranted
