CONSTANTS
    lamp = lamp  u1 = u1  attic = attic  porch = porch
    loop = loop  driver = driver
    Loop = loop
    Callers = {driver}
    Ids = {lamp}
    Uuids = {u1}
    Names = {attic, porch}
    NoName = NoName
    InitialNames = {porch}
    UserNames = {attic}
    Timeouts = {TRUE}
    Persistence = TRUE
    MaxInbox = 1
    MaxFaults = 1
SPECIFICATION FairSpec
INVARIANTS TypeOK  
PROPERTIES InventoryRecovers StaleCorrected
