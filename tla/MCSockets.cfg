SPECIFICATION FairSpec
CONSTANTS
    Users = {u1, u2}
    Sockets = {s1, s2}
    Requests = {"READY", "ADD_BOT", "LEAVE"}
    Starter = Starter
    MaxEntries = 5
    Nothing = Nothing
INVARIANTS
    TypeOK
    LoneSocketStays
PROPERTIES
    HandlersEnd
CHECK_DEADLOCK FALSE
