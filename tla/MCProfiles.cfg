SPECIFICATION FairHistorySpec
CONSTANTS
    Emails = {e1}
    Ids = {1, 2}
    Uids = {11}
    BotUids = {}
    Names = {n1}
    Characters = {c0, c1}
    DefaultCharacter = c0
    MaxAttempts = 2
    Sessions = {s1}
    Tasks = {t1, t2}
    Requests = {"login", "nickname", "toggle", "current"}
    Nothing = Nothing
INVARIANTS
    CurrentWasOwned
PROPERTIES
    NicknameFinal
    LoginsFinish
