SPECIFICATION HistorySpec
CONSTANTS
    Users = {u1, u2}
    Sockets = {s1, s2, s3}
    Requests = {}
    Starter = Starter
    MaxEntries = 5
    Nothing = Nothing
SYMMETRY Symmetry
PROPERTIES
    ReachesSteady
    SendsOnce
CHECK_DEADLOCK FALSE
