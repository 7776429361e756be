CONSTANTS
    N = 3
    Ids = {1, 2}
    RespSlotWidth = 1
    OutCap = 6
    MaxResp = 2
SPECIFICATION Spec
INVARIANT TypeOK OARotationSends
PROPERTY EveryResponseSent
