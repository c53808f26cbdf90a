SPECIFICATION Spec
CONSTANTS
    LineTexts <- MCLineTexts
    LineCapacity = 4
    LineBuffer = 2
    LineTimeOuts = 1
    SetupSystems <- MCSystems
    PoolSockets = {"a", "b", "c"}
    PoolUsers = {"u", "v"}
    PoolInterests <- MCPoolInterests
    PoolMets <- MCPoolMets
    PoolRooms = {1, 3}
    PoolCapacity = 1
    NameHosts <- MCNameHosts
    NameRoom = 3
    BufferRoom = 2
    ListHosts <- MCListHosts
    ListRooms <- MCListRooms
    MaxChanges = 2
CHECK_DEADLOCK FALSE
INVARIANTS
    NetstringsAreWhole
    LinesAreWhole
    AllOrNothing
    
    AddressIsMeant
PROPERTIES
    ImplementsPool
