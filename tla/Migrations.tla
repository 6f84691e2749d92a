----------------------------- MODULE Migrations ------------------------------
(***************************************************************************)
(* The revisions of the schema (migrations/versions), and the commands of  *)
(* scripts/cli.py that apply them: "migrate" upgrades to the newest one in *)
(* a single transaction (migrations/env.py), "migrate-down" takes the last *)
(* one back, and "init-db" creates the tables of the models that are       *)
(* imported.  PostgreSQL rolls a failed command back whole.                *)
(*                                                                         *)
(* The newest revision of the repository grows by one at a time, and the   *)
(* program of each time, which is external here, serves a database of its  *)
(* own revision: people sign up, choose a character, take a seat and leave.*)
(* The columns a table is created with are the table; those that later     *)
(* revisions add, the indexes and the named constraints are its items.     *)
(***************************************************************************)
EXTENDS Naturals

CONSTANTS
    Users,      \* who may sign up
    Default,    \* the character c0
    Added,      \* the characters c1 to c5
    NoCode      \* there is no such column yet

ASSUME MigrationAssumption ==
    /\ Default \notin Added
    /\ NoCode \notin Added \cup {Default}

VARIABLES
    db,         \* the database
    version,    \* how many revisions are applied: alembic_version
    newest,     \* how many there are in the repository
    last        \* the command that ran last, and how it ended

vars == <<db, version, newest, last>>

-----------------------------------------------------------------------------
Codes == Added \cup {Default}
Tables == {"user", "room", "roomuser", "character", "usercharacter"}

(* rows: the users and the seats, by person, with their character_code.    *)
Empty == [tables |-> {}, items |-> {}, codes |-> {}, owned |-> {},
          rows |-> [t \in {"user", "roomuser"} |-> [u \in {} |-> NoCode]],
          ok |-> TRUE]

TypeOK ==
    /\ db.tables \subseteq Tables
    /\ db.codes \subseteq Codes
    /\ db.owned \subseteq Users \X Codes
    /\ \A t \in DOMAIN db.rows :
         /\ DOMAIN db.rows[t] \subseteq Users
         /\ \A u \in DOMAIN db.rows[t] : db.rows[t][u] \in Codes \cup {NoCode}
    /\ db.ok
    /\ newest \in 1 .. 7 /\ version \in 0 .. newest

-----------------------------------------------------------------------------
(* One statement, an operation of alembic: what it does to d if it can, and*)
(* otherwise d is not ok, and the statements after it are not run.         *)
Op(name, table, item) == [op |-> name, table |-> table, item |-> item]

References(t) == CASE t = "room" -> {"user"}
                   [] t = "roomuser" -> {"user", "room"}
                   [] t = "usercharacter" -> {"user", "character"}
                   [] OTHER -> {}

(* The codes that a foreign key holds fast in d.                           *)
InUse(d) ==
    {p[2] : p \in d.owned} \cup
    UNION {{d.rows[t][u] : u \in DOMAIN d.rows[t]} :
              t \in {t \in DOMAIN d.rows : <<t, "fk_character">> \in d.items}}

Can(d, s) ==
    CASE s.op = "create_table" ->
            s.table \notin d.tables /\ References(s.table) \subseteq d.tables
      [] s.op = "drop_table" ->
            /\ s.table \in d.tables
            /\ \A t \in d.tables : s.table \notin References(t)
      [] s.op = "add" ->
            s.table \in d.tables /\ <<s.table, s.item>> \notin d.items
      [] s.op = "add_required" ->
            /\ s.table \in d.tables /\ <<s.table, s.item>> \notin d.items
            /\ DOMAIN d.rows[s.table] = {}
      [] s.op = "refer_character" ->
            \A u \in DOMAIN d.rows[s.table] : d.rows[s.table][u] \in d.codes
      [] s.op = "drop" -> <<s.table, s.item>> \in d.items
      [] s.op = "drop_unnamed" -> FALSE
      [] s.op = "seed" -> s.item \cap d.codes = {}
      [] s.op = "delete_codes" -> s.item \cap InUse(d) = {}
      [] s.op \in {"own", "disown"} -> "usercharacter" \in d.tables

Filled(d, table, code) == [u \in DOMAIN d.rows[table] |-> code]

Effect(d, s) ==
    CASE s.op = "create_table" -> [d EXCEPT !.tables = @ \cup {s.table}]
      [] s.op = "drop_table" ->
            [d EXCEPT !.tables = @ \ {s.table},
                      !.items = {i \in @ : i[1] # s.table},
                      !.rows = [t \in DOMAIN @ |-> IF t = s.table
                                THEN Empty.rows[t] ELSE @[t]]]
      [] s.op \in {"add", "add_required"} /\ s.item # "character_code" ->
            [d EXCEPT !.items = @ \cup {<<s.table, s.item>>}]
      [] s.op = "add" /\ s.item = "character_code" ->
            [d EXCEPT !.items = @ \cup {<<s.table, s.item>>},
                      !.rows[s.table] = Filled(d, s.table, Default)]
      [] s.op = "refer_character" ->
            [d EXCEPT !.items = @ \cup {<<s.table, "fk_character">>}]
      [] s.op = "drop" -> [d EXCEPT !.items = @ \ {<<s.table, s.item>>}]
      [] s.op = "seed" -> [d EXCEPT !.codes = @ \cup s.item]
      [] s.op = "delete_codes" -> [d EXCEPT !.codes = @ \ s.item]
      [] s.op = "own" ->
            [d EXCEPT !.owned = @ \cup ((DOMAIN d.rows["user"]) \X {Default})]
      [] s.op = "disown" ->
            [d EXCEPT !.owned = {p \in @ : p[2] \notin s.item}]

Statement(d, s) ==
    IF d.ok /\ Can(d, s) THEN Effect(d, s) ELSE [d EXCEPT !.ok = FALSE]
d ++ s == Statement(d, s)

-----------------------------------------------------------------------------
(* The revisions, oldest first: what upgrade() and downgrade() make of a   *)
(* database, statement by statement.                                       *)
UpInit(d) ==
    d ++ Op("create_table", "user", "") ++ Op("create_table", "room", "")
      ++ Op("add", "room", "ix_room_number")
      ++ Op("create_table", "roomuser", "")
DownInit(d) ==
    d ++ Op("drop_table", "roomuser", "")
      ++ Op("drop", "room", "ix_room_number")
      ++ Op("drop_table", "room", "") ++ Op("drop_table", "user", "")

UpUidAndNickname(d) ==
    d ++ Op("add_required", "roomuser", "user_uid")
      ++ Op("add_required", "roomuser", "user_nickname")
      ++ Op("add", "roomuser", "fk_user_uid")
DownUidAndNickname(d) ==
    d ++ Op("drop", "roomuser", "fk_user_uid")
      ++ Op("drop", "roomuser", "user_nickname")
      ++ Op("drop", "roomuser", "user_uid")

UpSlotIndex(d) ==
    d ++ Op("add_required", "roomuser", "slot_index")
      ++ Op("drop", "roomuser", "fk_user_uid")
DownSlotIndex(d) ==
    d ++ Op("add", "roomuser", "fk_user_uid")
      ++ Op("drop", "roomuser", "slot_index")

(* The mutants of UpCharacter: the foreign keys before the seed, no foreign*)
(* key of the user table, and no characters for the users there are.       *)
CharacterTable(d) ==
    d ++ Op("create_table", "character", "")
      ++ Op("add", "character", "ix_code")
SeedDefault == Op("seed", "character", {Default})
OwnerTable == Op("create_table", "usercharacter", "")
CharacterColumn(t) == Op("add", t, "character_code")
CharacterIndex(t) == Op("add", t, "ix_character_code")
CharacterKey(t) == Op("refer_character", t, "")
OwnDefault == Op("own", "usercharacter", "")

UpSeedLast(d) ==
    CharacterTable(d) ++ OwnerTable
      ++ CharacterColumn("roomuser") ++ CharacterIndex("roomuser")
      ++ CharacterKey("roomuser")
      ++ CharacterColumn("user") ++ CharacterIndex("user")
      ++ CharacterKey("user") ++ SeedDefault ++ OwnDefault
UpUnreferenced(d) ==
    CharacterTable(d) ++ SeedDefault ++ OwnerTable
      ++ CharacterColumn("roomuser") ++ CharacterIndex("roomuser")
      ++ CharacterKey("roomuser")
      ++ CharacterColumn("user") ++ CharacterIndex("user") ++ OwnDefault
UpUnowned(d) ==
    CharacterTable(d) ++ SeedDefault ++ OwnerTable
      ++ CharacterColumn("roomuser") ++ CharacterIndex("roomuser")
      ++ CharacterKey("roomuser")
      ++ CharacterColumn("user") ++ CharacterIndex("user")
      ++ CharacterKey("user")
UpCharacter(d) ==
    CharacterTable(d) ++ SeedDefault ++ OwnerTable
      ++ CharacterColumn("roomuser") ++ CharacterIndex("roomuser")
      ++ CharacterKey("roomuser")
      ++ CharacterColumn("user") ++ CharacterIndex("user")
      ++ CharacterKey("user") ++ OwnDefault
DownCharacter(d) ==
    d ++ Op("disown", "usercharacter", {Default})
      ++ Op("delete_codes", "character", {Default})
      ++ Op("drop_unnamed", "user", "")
      ++ Op("drop", "user", "ix_character_code")
      ++ Op("drop", "user", "character_code")
      ++ Op("drop_unnamed", "roomuser", "")
      ++ Op("drop", "roomuser", "ix_character_code")
      ++ Op("drop", "roomuser", "character_code")
      ++ Op("drop_table", "usercharacter", "")
      ++ Op("drop", "character", "ix_code")
      ++ Op("drop_table", "character", "")

UpSeedAdded(d) == d ++ Op("seed", "character", Added)
DownAddedAndOwners(d) ==   \* mutant of DownSeedAdded: like DownCharacter
    d ++ Op("disown", "usercharacter", Added)
      ++ Op("delete_codes", "character", Added)
DownSeedAdded(d) == d ++ Op("delete_codes", "character", Added)

UpIsBot(d) == d ++ Op("add", "roomuser", "is_bot")
DownNothing(d) == d     \* mutant of DownIsBot
DownIsBot(d) == d ++ Op("drop", "roomuser", "is_bot")

UpGameId(d) ==
    d ++ Op("add", "room", "game_id") ++ Op("add", "room", "ix_game_id")
DownGameId(d) ==
    d ++ Op("drop", "room", "ix_game_id") ++ Op("drop", "room", "game_id")

Upgrade(n, d) ==
    CASE n = 1 -> UpInit(d) [] n = 2 -> UpUidAndNickname(d)
      [] n = 3 -> UpSlotIndex(d) [] n = 4 -> UpCharacter(d)
      [] n = 5 -> UpSeedAdded(d) [] n = 6 -> UpIsBot(d) [] n = 7 -> UpGameId(d)
Downgrade(n, d) ==
    CASE n = 1 -> DownInit(d) [] n = 2 -> DownUidAndNickname(d)
      [] n = 3 -> DownSlotIndex(d) [] n = 4 -> DownCharacter(d)
      [] n = 5 -> DownSeedAdded(d) [] n = 6 -> DownIsBot(d)
      [] n = 7 -> DownGameId(d)

(* The upgrades behind revision m up to revision n, one after the other.   *)
Due(i, m, n, d) == IF m < i /\ i <= n THEN Upgrade(i, d) ELSE d
Upgraded(d, m, n) ==
    Due(7, m, n, Due(6, m, n, Due(5, m, n, Due(4, m, n,
        Due(3, m, n, Due(2, m, n, Due(1, m, n, d)))))))

-----------------------------------------------------------------------------
(* The models that scripts/cli.py has imported when it runs init_db: none, *)
(* for app.db.session imports none.                                        *)
Imported == {}

Init ==
    /\ db = Empty /\ version = 0
    /\ newest = 1
    /\ last = "none"

InitializeDb ==
    /\ db' = [db EXCEPT !.tables = @ \cup Imported]
    /\ last' = "initialised"
    /\ UNCHANGED <<version, newest>>

(* The transaction around all revisions of a command: d is what they have  *)
(* made of the database.  The mutant commits every statement.              *)
Kept(d) == d
Committed(d) == IF d.ok THEN d ELSE db

RunMigrations ==
    LET d == Upgraded(db, version, newest) IN
    /\ db' = Committed(d)
    /\ \/ d.ok /\ version' = newest /\ last' = "upgraded"
       \/ ~ d.ok /\ last' = "upgrade failed" /\ UNCHANGED version
    /\ UNCHANGED newest

(* With no revision to take back, alembic raises.                          *)
RollbackMigration ==
    LET d == IF version = 0 THEN [db EXCEPT !.ok = FALSE]
             ELSE Downgrade(version, db)
    IN
    /\ db' = Committed(d)
    /\ \/ d.ok /\ version' = version - 1 /\ last' = "rolled back"
       \/ ~ d.ok /\ last' = "rollback failed" /\ UNCHANGED version
    /\ UNCHANGED newest

(* A commit of the repository adds the next revision.                      *)
NextRevision ==
    /\ newest < 7 /\ newest' = newest + 1
    /\ UNCHANGED <<db, version, last>>

-----------------------------------------------------------------------------
(* The program at work on a database of its revision.                      *)
WithRow(d, t, u, code) ==
    [d EXCEPT !.rows[t] =
        [x \in DOMAIN @ \cup {u} |-> IF x = u THEN code ELSE @[x]]]
HasCharacters == version >= 4

SignUp(u) ==
    /\ u \notin DOMAIN db.rows["user"]
    /\ db' = IF HasCharacters
             THEN [WithRow(db, "user", u, Default) EXCEPT
                      !.owned = @ \cup {<<u, Default>>}]
             ELSE WithRow(db, "user", u, NoCode)

Choose(u, code) ==
    /\ HasCharacters /\ u \in DOMAIN db.rows["user"] /\ code \in db.codes
    /\ db' = [WithRow(db, "user", u, code) EXCEPT
                 !.owned = @ \cup {<<u, code>>}]

(* The current character may be given up: see Accounts.                    *)
GiveUp(u, code) ==
    /\ <<u, code>> \in db.owned
    /\ db' = [db EXCEPT !.owned = @ \ {<<u, code>>}]

Sit(u) ==
    /\ u \in DOMAIN db.rows["user"] \ DOMAIN db.rows["roomuser"]
    /\ db' = WithRow(db, "roomuser", u, db.rows["user"][u])

Leave(u) ==
    /\ u \in DOMAIN db.rows["roomuser"]
    /\ db' = [db EXCEPT !.rows["roomuser"] = [x \in DOMAIN @ \ {u} |-> @[x]]]

Serve(u) ==
    /\ version = newest
    /\ \/ SignUp(u) \/ Sit(u) \/ Leave(u)
       \/ \E code \in Codes : Choose(u, code) \/ GiveUp(u, code)
    /\ UNCHANGED <<version, newest, last>>

Next ==
    \/ InitializeDb \/ RunMigrations \/ RollbackMigration \/ NextRevision
    \/ \E u \in Users : Serve(u)

Spec == Init /\ [][Next]_vars

=============================================================================
