SPECIFICATION FairSpec
CONSTANTS
    Users = {u1}
    Bots = {100}
    RoomIds = {1}
    Stamps = {0, 1, 2, 3, 4}
    Games = {1}
    MaxNumber = 1
    MaxUsers = 1
    Nothing = Nothing
    Tasks = {t1, t2}
    Requests = {"create", "join", "leave", "socket", "ready", "unready", "start", "end", "bot"}
PROPERTIES
    EmptyRoomIsDropped
    RequestsFinish
CHECK_DEADLOCK FALSE
