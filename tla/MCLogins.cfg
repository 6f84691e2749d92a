SPECIFICATION Spec
CONSTANTS
    Emails = {e1, e2}
    Ids = {1, 2, 3}
    Uids = {11, 12}
    BotUids = {99}
    Names = {}
    Characters = {c0}
    DefaultCharacter = c0
    MaxAttempts = 2
    Sessions = {s1, s2}
    Tasks = {t1, t2}
    Requests = {"login", "bot", "crash"}
    Nothing = Nothing
SYMMETRY Symmetry
INVARIANTS
    TypeOK
    UidsUnique
    AccountsBounded
    OwnToken
    TokenMeansRecorded
