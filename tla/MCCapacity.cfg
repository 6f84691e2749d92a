SPECIFICATION RequestsSpec
CONSTANTS
    Users = {u1, u2, u3}
    Bots = {}
    RoomIds = {1}
    Stamps = {0, 1, 2, 3, 4}
    Games = {}
    MaxNumber = 1
    MaxUsers = 2
    Nothing = Nothing
    Tasks = {t1, t2}
    Requests = {"create", "join"}
SYMMETRY Symmetry
INVARIANTS
    RoomCapacity
