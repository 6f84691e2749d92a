SPECIFICATION RequestsSpec
CONSTANTS
    Users = {u1, u2}
    Bots = {100}
    RoomIds = {1}
    Stamps = {0, 1, 2, 3, 4}
    Games = {1, 2}
    MaxNumber = 1
    MaxUsers = 1
    Nothing = Nothing
    Tasks = {t1, t2}
    Requests = {"create", "join", "leave", "socket", "ready", "bot", "start", "end", "crash"}
SYMMETRY Symmetry
INVARIANTS
    CopiesLag
PROPERTIES
    PlayingIsFinal
    GameIsFixed
