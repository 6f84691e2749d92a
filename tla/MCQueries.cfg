SPECIFICATION HistorySpec
CONSTANTS
    Persons = {p1, p2, p3}
    RoomNames = {r1, r2}
    Queries = {q1}
    Nobody = Nobody
SYMMETRY Symmetry
INVARIANTS
    TypeOK
    StayersListed
    StayerFound
    StayerTold
