SPECIFICATION RequestsSpec
CONSTANTS
    Users = {u1}
    Bots = {}
    RoomIds = {1}
    Stamps = {0, 1, 2, 3, 4}
    Games = {1}
    MaxNumber = 1
    MaxUsers = 1
    Nothing = Nothing
    Tasks = {t1, t2}
    Requests = {"create", "socket", "ready", "start", "end"}
PROPERTIES
    EndKeepsRoom
CHECK_DEADLOCK FALSE
