SPECIFICATION HistorySpec
CONSTANTS
    Users = {u1, u2}
    Bots = {100}
    RoomIds = {1}
    Stamps = {0, 1, 2, 3, 4}
    Games = {1}
    MaxNumber = 1
    MaxUsers = 2
    Nothing = Nothing
    Tasks = {t1}
    Requests = {"create", "join", "leave", "socket", "ready", "unready", "bot", "start", "end", "crash"}
SYMMETRY Symmetry
INVARIANTS
    TypeOK
    RowsHaveRooms
PROPERTIES
    ImplementsMembership
    SweepSpares
    RoomsNotDeserted
