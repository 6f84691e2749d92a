--------------------------- MODULE MigrationProofs ---------------------------
(***************************************************************************)
(* That every revision is one schema, whichever way a database has come to *)
(* it, and what migrations leave of the people in it: for any number of    *)
(* users and of added characters.                                          *)
(***************************************************************************)
EXTENDS MigrationProperties, TLAPS

USE MigrationAssumption

(* A database that no statement has failed on, and one that has stopped.   *)
Holds(d, T, I, C, O, R) ==
    /\ DOMAIN d = {"tables", "items", "codes", "owned", "rows", "ok"}
    /\ d.tables = T /\ d.items = I /\ d.codes = C /\ d.owned = O
    /\ d.rows = R /\ d.ok = TRUE
Failed(d) == "ok" \in DOMAIN d /\ d.ok = FALSE

-----------------------------------------------------------------------------
(* Statements.  Each operation of alembic that a revision uses, on a       *)
(* database that lets it; and what becomes of one that does not.           *)
LEMMA ThenIs == ASSUME NEW d, NEW s PROVE d ++ s = Statement(d, s)
BY DEF ++

LEMMA Runs ==
  ASSUME NEW d, NEW s, d.ok = TRUE, Can(d, s)
  PROVE  d ++ s = Effect(d, s)
<1>1. Statement(d, s) = Effect(d, s)
  BY DEF Statement
<1> QED
  BY <1>1, ThenIs

LEMMA Refuses ==
  ASSUME NEW d, NEW s, "ok" \in DOMAIN d, ~ Can(d, s)
  PROVE  Failed(d ++ s)
<1>1. Statement(d, s) = [d EXCEPT !.ok = FALSE]
  BY DEF Statement
<1> QED
  BY <1>1, ThenIs DEF Failed

LEMMA Stops ==
  ASSUME NEW d, NEW s, Failed(d) PROVE Failed(d ++ s)
<1>1. Statement(d, s) = [d EXCEPT !.ok = FALSE]
  BY DEF Statement, Failed
<1> QED
  BY <1>1, ThenIs DEF Failed

LEMMA MoreTables ==
  ASSUME NEW d, NEW T, NEW I, NEW C, NEW O, NEW R, NEW X,
         Holds(d, T, I, C, O, R)
  PROVE  Holds([d EXCEPT !.tables = X], X, I, C, O, R)
BY DEF Holds

LEMMA Creates ==
  ASSUME NEW d, NEW T, NEW I, NEW C, NEW O, NEW R, NEW t,
         Holds(d, T, I, C, O, R), t \notin T, \A x \in References(t) : x \in T
  PROVE  Holds(d ++ Op("create_table", t, ""),
                T \cup {t}, I, C, O, R)
<1> DEFINE s == Op("create_table", t, "")
<1>1. Can(d, s)
  BY DEF Can, Op, Holds
<1>2. Effect(d, s) = [d EXCEPT !.tables = T \cup {t}]
  BY DEF Effect, Op, Holds
<1>3. d ++ s = Effect(d, s)
  BY <1>1, Runs DEF Holds
<1> HIDE DEF s
<1>4. d ++ s = [d EXCEPT !.tables = T \cup {t}]
  BY <1>2, <1>3
<1>5. Holds(d ++ s, T \cup {t}, I, C, O, R)
  BY <1>4, MoreTables
<1> QED
  BY <1>5 DEF s

Without(R, t) == [x \in DOMAIN R |-> IF x = t THEN Empty.rows[x] ELSE R[x]]
LEMMA DropsTable ==
  ASSUME NEW d, NEW T, NEW I, NEW C, NEW O, NEW R, NEW t,
         Holds(d, T, I, C, O, R), t \in T, \A x \in T : t \notin References(x)
  PROVE  Holds(d ++ Op("drop_table", t, ""),
                T \ {t}, {i \in I : i[1] # t}, C, O, Without(R, t))
<1> DEFINE s == Op("drop_table", t, "")
<1>1. Can(d, s)
  BY DEF Can, Op, Holds
<1>2. Effect(d, s) =
        [d EXCEPT !.tables = @ \ {t},
                  !.items = {i \in @ : i[1] # t},
                  !.rows = [x \in DOMAIN @ |-> IF x = t
                            THEN Empty.rows[x] ELSE @[x]]]
  BY DEF Effect, Op, Holds
<1>3. d ++ s = Effect(d, s)
  BY <1>1, Runs DEF Holds
<1> HIDE DEF s
<1> QED
  BY <1>2, <1>3 DEF s, Holds, Without

LEMMA Adds ==
  ASSUME NEW d, NEW T, NEW I, NEW C, NEW O, NEW R, NEW t, NEW i,
         Holds(d, T, I, C, O, R), t \in T,
         <<t, i>> \notin I, i # "character_code"
  PROVE  Holds(d ++ Op("add", t, i),
                T, I \cup {<<t, i>>}, C, O, R)
<1> DEFINE s == Op("add", t, i)
<1>1. Can(d, s)
  BY DEF Can, Op, Holds
<1>2. Effect(d, s) = [d EXCEPT !.items = @ \cup {<<t, i>>}]
  BY DEF Effect, Op, Holds
<1>3. d ++ s = Effect(d, s)
  BY <1>1, Runs DEF Holds
<1> HIDE DEF s
<1> QED
  BY <1>2, <1>3 DEF s, Holds

LEMMA AddsRequired ==
  ASSUME NEW d, NEW T, NEW I, NEW C, NEW O, NEW R, NEW t, NEW i,
         Holds(d, T, I, C, O, R), t \in T, DOMAIN R[t] = {},
         <<t, i>> \notin I, i # "character_code"
  PROVE  Holds(d ++ Op("add_required", t, i),
                T, I \cup {<<t, i>>}, C, O, R)
<1> DEFINE s == Op("add_required", t, i)
<1>1. Can(d, s)
  BY DEF Can, Op, Holds
<1>2. Effect(d, s) = [d EXCEPT !.items = @ \cup {<<t, i>>}]
  BY DEF Effect, Op, Holds
<1>3. d ++ s = Effect(d, s)
  BY <1>1, Runs DEF Holds
<1> HIDE DEF s
<1> QED
  BY <1>2, <1>3 DEF s, Holds

Given(R, t) == [R EXCEPT ![t] = [u \in DOMAIN R[t] |-> Default]]
LEMMA AddsColumn ==
  ASSUME NEW d, NEW T, NEW I, NEW C, NEW O, NEW R, NEW t,
         Holds(d, T, I, C, O, R), t \in T, <<t, "character_code">> \notin I
  PROVE  Holds(d ++ CharacterColumn(t),
                T, I \cup {<<t, "character_code">>}, C, O, Given(R, t))
<1> DEFINE s == CharacterColumn(t)
<1>1. Can(d, s)
  BY DEF Can, Op, CharacterColumn, Holds
<1>2. Effect(d, s) =
        [d EXCEPT !.items = @ \cup {<<t, "character_code">>},
                  !.rows[t] = Filled(d, t, Default)]
  BY DEF Effect, Op, CharacterColumn, Holds
<1>3. d ++ s = Effect(d, s)
  BY <1>1, Runs DEF Holds
<1> HIDE DEF s
<1> QED
  BY <1>2, <1>3 DEF s, Holds, Given, Filled

LEMMA Refers ==
  ASSUME NEW d, NEW T, NEW I, NEW C, NEW O, NEW R, NEW t,
         Holds(d, T, I, C, O, R), \A u \in DOMAIN R[t] : R[t][u] \in C
  PROVE  Holds(d ++ CharacterKey(t),
                T, I \cup {<<t, "fk_character">>}, C, O, R)
<1> DEFINE s == CharacterKey(t)
<1>1. Can(d, s)
  BY DEF Can, Op, CharacterKey, Holds
<1>2. Effect(d, s) = [d EXCEPT !.items = @ \cup {<<t, "fk_character">>}]
  BY DEF Effect, Op, CharacterKey, Holds
<1>3. d ++ s = Effect(d, s)
  BY <1>1, Runs DEF Holds
<1> HIDE DEF s
<1> QED
  BY <1>2, <1>3 DEF s, Holds

LEMMA Drops ==
  ASSUME NEW d, NEW T, NEW I, NEW C, NEW O, NEW R, NEW t, NEW i,
         Holds(d, T, I, C, O, R), <<t, i>> \in I
  PROVE  Holds(d ++ Op("drop", t, i),
                T, I \ {<<t, i>>}, C, O, R)
<1> DEFINE s == Op("drop", t, i)
<1>1. Can(d, s)
  BY DEF Can, Op, Holds
<1>2. Effect(d, s) = [d EXCEPT !.items = @ \ {<<t, i>>}]
  BY DEF Effect, Op, Holds
<1>3. d ++ s = Effect(d, s)
  BY <1>1, Runs DEF Holds
<1> HIDE DEF s
<1> QED
  BY <1>2, <1>3 DEF s, Holds

LEMMA Seeds ==
  ASSUME NEW d, NEW T, NEW I, NEW C, NEW O, NEW R, NEW t, NEW new,
         Holds(d, T, I, C, O, R), new \cap C = {}
  PROVE  Holds(d ++ Op("seed", t, new),
                T, I, C \cup new, O, R)
<1> DEFINE s == Op("seed", t, new)
<1>1. Can(d, s)
  BY DEF Can, Op, Holds
<1>2. Effect(d, s) = [d EXCEPT !.codes = @ \cup new]
  BY DEF Effect, Op, Holds
<1>3. d ++ s = Effect(d, s)
  BY <1>1, Runs DEF Holds
<1> HIDE DEF s
<1> QED
  BY <1>2, <1>3 DEF s, Holds

LEMMA Owns ==
  ASSUME NEW d, NEW T, NEW I, NEW C, NEW O, NEW R,
         Holds(d, T, I, C, O, R), "usercharacter" \in T
  PROVE  Holds(d ++ OwnDefault,
                T, I, C, O \cup ((DOMAIN R["user"]) \X {Default}), R)
<1> DEFINE s == OwnDefault
<1>1. Can(d, s)
  BY DEF Can, Op, OwnDefault, Holds
<1>2. Effect(d, s) =
        [d EXCEPT !.owned = @ \cup ((DOMAIN d.rows["user"]) \X {Default})]
  BY DEF Effect, Op, OwnDefault, Holds
<1>3. d ++ s = Effect(d, s)
  BY <1>1, Runs DEF Holds
<1> HIDE DEF s
<1> QED
  BY <1>2, <1>3 DEF s, Holds

LEMMA Disowns ==
  ASSUME NEW d, NEW T, NEW I, NEW C, NEW O, NEW R, NEW gone,
         Holds(d, T, I, C, O, R), "usercharacter" \in T
  PROVE  Holds(d ++ Op("disown", "usercharacter", gone),
                T, I, C, {p \in O : p[2] \notin gone}, R)
<1> DEFINE s == Op("disown", "usercharacter", gone)
<1>1. Can(d, s)
  BY DEF Can, Op, Holds
<1>2. Effect(d, s) = [d EXCEPT !.owned = {p \in @ : p[2] \notin gone}]
  BY DEF Effect, Op, Holds
<1>3. d ++ s = Effect(d, s)
  BY <1>1, Runs DEF Holds
<1> HIDE DEF s
<1> QED
  BY <1>2, <1>3 DEF s, Holds

LEMMA DeletesCodes ==
  ASSUME NEW d, NEW T, NEW I, NEW C, NEW O, NEW R, NEW t, NEW gone,
         Holds(d, T, I, C, O, R)
  PROVE  LET s == Op("delete_codes", t, gone) IN
         \/ gone \cap InUse(d) # {} /\ Failed(d ++ s)
         \/ gone \cap InUse(d) = {} /\ Holds(d ++ s, T, I, C \ gone, O, R)
<1> DEFINE s == Op("delete_codes", t, gone)
<1>1. Can(d, s) <=> gone \cap InUse(d) = {}
  BY DEF Can, Op
<1>2. Effect(d, s) = [d EXCEPT !.codes = @ \ gone]
  BY DEF Effect, Op, Holds
<1>3. "ok" \in DOMAIN d /\ d.ok = TRUE
  BY DEF Holds
<1> HIDE DEF s
<1>4. CASE Can(d, s)
  <2>1. d ++ s = [d EXCEPT !.codes = @ \ gone]
    BY <1>2, <1>3, <1>4, Runs
  <2>2. Holds(d ++ s, T, I, C \ gone, O, R)
    BY <2>1 DEF Holds
  <2> QED
    BY <1>1, <1>4, <2>2 DEF s
<1>5. CASE ~ Can(d, s)
  BY <1>1, <1>3, <1>5, Refuses DEF s
<1> QED
  BY <1>4, <1>5

LEMMA NeverUnnamed ==
  ASSUME NEW d, NEW t, NEW i, "ok" \in DOMAIN d
  PROVE  Failed(d ++ Op("drop_unnamed", t, i))
BY Refuses DEF Can, Op

LEMMA NeedsNoRows ==
  ASSUME NEW d, NEW T, NEW I, NEW C, NEW O, NEW R, NEW t, NEW i,
         Holds(d, T, I, C, O, R), DOMAIN R[t] # {}
  PROVE  Failed(d ++ Op("add_required", t, i))
<1> DEFINE s == Op("add_required", t, i)
<1>1. ~ Can(d, s)
  BY DEF Can, Op, Holds
<1>2. "ok" \in DOMAIN d
  BY DEF Holds
<1> QED
  BY <1>1, <1>2, Refuses

-----------------------------------------------------------------------------
(* Schemas.  What a database of revision n is, in the order of revisions.  *)
TablesOf(n) ==
    IF n = 0 THEN {} ELSE IF n < 4 THEN {"user", "room", "roomuser"}
    ELSE {"user", "room", "roomuser", "character", "usercharacter"}
CodesOf(n) == IF n < 4 THEN {} ELSE IF n = 4 THEN {Default} ELSE Codes

CharacterItems(t) ==
    {<<t, "character_code">>, <<t, "ix_character_code">>,
     <<t, "fk_character">>}
SeatItems(n) ==
    CASE n < 2 -> {}
      [] n = 2 -> {<<"roomuser", "user_uid">>, <<"roomuser", "user_nickname">>,
                   <<"roomuser", "fk_user_uid">>}
      [] n > 2 -> {<<"roomuser", "user_uid">>, <<"roomuser", "user_nickname">>,
                   <<"roomuser", "slot_index">>}
ItemsOf(n) ==
    (IF n = 0 THEN {} ELSE {<<"room", "ix_room_number">>}) \cup SeatItems(n)
    \cup (IF n < 4 THEN {}
          ELSE {<<"character", "ix_code">>} \cup CharacterItems("roomuser")
                 \cup CharacterItems("user"))
    \cup (IF n < 6 THEN {} ELSE {<<"roomuser", "is_bot">>})
    \cup (IF n < 7 THEN {}
          ELSE {<<"room", "game_id">>, <<"room", "ix_game_id">>})

(* The people in it refer to characters that are there, once there are any.*)
ColumnOf(n) == IF n < 4 THEN {NoCode} ELSE CodesOf(n)
RowsFit(R, V) ==
    /\ DOMAIN R = {"user", "roomuser"}
    /\ \A t \in {"user", "roomuser"} :
         /\ DOMAIN R[t] \subseteq Users
         /\ \A u \in DOMAIN R[t] : R[t][u] \in V

Good(d, n) ==
    /\ Holds(d, TablesOf(n), ItemsOf(n), CodesOf(n), d.owned, d.rows)
    /\ d.owned \subseteq Users \X CodesOf(n)
    /\ RowsFit(d.rows, ColumnOf(n))
SamePeople(d, e) == e.owned = d.owned /\ e.rows = d.rows

LEMMA GoodAgain ==
  ASSUME NEW d, NEW e, NEW m, NEW n, Good(d, m),
         Holds(e, TablesOf(n), ItemsOf(n), CodesOf(n), d.owned, d.rows),
         CodesOf(m) \subseteq CodesOf(n), ColumnOf(m) \subseteq ColumnOf(n)
  PROVE  Good(e, n) /\ SamePeople(d, e)
<1>1. e.owned = d.owned /\ e.rows = d.rows
  BY DEF Holds
<1> QED
  BY <1>1 DEF Good, SamePeople, RowsFit

(* The revisions, one by one.                                              *)
LEMMA InitUp ==
  ASSUME NEW d, Good(d, 0) PROVE Good(UpInit(d), 1) /\ SamePeople(d, UpInit(d))
<1> DEFINE O == d.owned
           R == d.rows
           a == d ++ Op("create_table", "user", "")
           b == a ++ Op("create_table", "room", "")
           c == b ++ Op("add", "room", "ix_room_number")
           e == c ++ Op("create_table", "roomuser", "")
<1>0. Holds(d, {}, {}, {}, O, R)
  BY DEF Good, TablesOf, ItemsOf, CodesOf, SeatItems
<1>e. UpInit(d) = e
  BY DEF UpInit
<1> HIDE DEF O, R, a, b, c, e
<1>1. Holds(a, {} \cup {"user"}, {}, {}, O, R)
  BY <1>0, Creates DEF References, a
<1>2. Holds(b, {} \cup {"user"} \cup {"room"}, {}, {}, O, R)
  BY <1>1, Creates DEF References, b
<1>3. Holds(c, {} \cup {"user"} \cup {"room"},
            {} \cup {<<"room", "ix_room_number">>}, {}, O, R)
  BY <1>2, Adds DEF c
<1>4. Holds(e, {} \cup {"user"} \cup {"room"} \cup {"roomuser"},
            {} \cup {<<"room", "ix_room_number">>}, {}, O, R)
  BY <1>3, Creates DEF References, e
<1>5. {} \cup {"user"} \cup {"room"} \cup {"roomuser"} = TablesOf(1)
  BY DEF TablesOf
<1>6. {} \cup {<<"room", "ix_room_number">>} = ItemsOf(1)
  BY DEF ItemsOf, SeatItems
<1>7. CodesOf(0) = {} /\ CodesOf(1) = {} /\ ColumnOf(0) = ColumnOf(1)
  BY DEF CodesOf, ColumnOf
<1>8. Good(e, 1) /\ SamePeople(d, e)
  BY <1>4, <1>5, <1>6, <1>7, GoodAgain DEF O, R
<1> QED
  BY <1>e, <1>8

LEMMA UidAndNicknameUp ==
  ASSUME NEW d, Good(d, 1)
  PROVE  LET e == UpUidAndNickname(d) IN
         /\ DOMAIN d.rows["roomuser"] = {} => Good(e, 2) /\ SamePeople(d, e)
         /\ DOMAIN d.rows["roomuser"] # {} => Failed(e)
<1> DEFINE T == TablesOf(1)
           I == ItemsOf(1)
           O == d.owned
           R == d.rows
           a == d ++ Op("add_required", "roomuser", "user_uid")
           b == a ++ Op("add_required", "roomuser", "user_nickname")
           e == b ++ Op("add", "roomuser", "fk_user_uid")
<1>0. Holds(d, T, I, {}, O, R) /\ "roomuser" \in T
      /\ I = {<<"room", "ix_room_number">>}
  BY DEF Good, TablesOf, ItemsOf, CodesOf, SeatItems
<1>e. UpUidAndNickname(d) = e
  BY DEF UpUidAndNickname
<1> HIDE DEF T, I, O, R, a, b, e
<1>1. CASE DOMAIN R["roomuser"] = {}
  <2>1. Holds(a, T, I \cup {<<"roomuser", "user_uid">>}, {}, O, R)
    BY <1>0, <1>1, AddsRequired DEF a
  <2>2. Holds(b, T, I \cup {<<"roomuser", "user_uid">>}
                      \cup {<<"roomuser", "user_nickname">>}, {}, O, R)
    BY <1>0, <1>1, <2>1, AddsRequired DEF b
  <2>3. Holds(e, T, I \cup {<<"roomuser", "user_uid">>}
                      \cup {<<"roomuser", "user_nickname">>}
                      \cup {<<"roomuser", "fk_user_uid">>}, {}, O, R)
    BY <1>0, <2>2, Adds DEF e
  <2>4. I \cup {<<"roomuser", "user_uid">>}
          \cup {<<"roomuser", "user_nickname">>}
          \cup {<<"roomuser", "fk_user_uid">>} = ItemsOf(2)
    BY <1>0 DEF ItemsOf, SeatItems
  <2>5. T = TablesOf(2) /\ CodesOf(2) = {} /\ CodesOf(1) = {}
        /\ ColumnOf(1) = ColumnOf(2)
    BY DEF T, TablesOf, CodesOf, ColumnOf
  <2>6. Good(e, 2) /\ SamePeople(d, e)
    BY <2>3, <2>4, <2>5, GoodAgain DEF O, R
  <2> QED
    BY <1>1, <1>e, <2>6 DEF R
<1>2. CASE DOMAIN R["roomuser"] # {}
  <2>1. Failed(a)
    BY <1>0, <1>2, NeedsNoRows DEF a
  <2>2. Failed(e)
    BY <2>1, Stops DEF b, e
  <2> QED
    BY <1>2, <1>e, <2>2 DEF R
<1> QED
  BY <1>1, <1>2

LEMMA SlotIndexUp ==
  ASSUME NEW d, Good(d, 2)
  PROVE  LET e == UpSlotIndex(d) IN
         /\ DOMAIN d.rows["roomuser"] = {} => Good(e, 3) /\ SamePeople(d, e)
         /\ DOMAIN d.rows["roomuser"] # {} => Failed(e)
<1> DEFINE T == TablesOf(2)
           I == ItemsOf(2)
           O == d.owned
           R == d.rows
           a == d ++ Op("add_required", "roomuser", "slot_index")
           e == a ++ Op("drop", "roomuser", "fk_user_uid")
<1>0. /\ Holds(d, T, I, {}, O, R) /\ "roomuser" \in T
      /\ <<"roomuser", "slot_index">> \notin I
      /\ <<"roomuser", "fk_user_uid">> \in I
  BY DEF Good, TablesOf, ItemsOf, CodesOf, SeatItems
<1>e. UpSlotIndex(d) = e
  BY DEF UpSlotIndex
<1> HIDE DEF T, I, O, R, a, e
<1>1. CASE DOMAIN R["roomuser"] = {}
  <2>1. Holds(a, T, I \cup {<<"roomuser", "slot_index">>}, {}, O, R)
    BY <1>0, <1>1, AddsRequired DEF a
  <2>2. Holds(e, T, (I \cup {<<"roomuser", "slot_index">>})
                      \ {<<"roomuser", "fk_user_uid">>}, {}, O, R)
    BY <1>0, <2>1, Drops DEF e
  <2>3. (I \cup {<<"roomuser", "slot_index">>})
          \ {<<"roomuser", "fk_user_uid">>} = ItemsOf(3)
    BY DEF I, ItemsOf, SeatItems
  <2>4. T = TablesOf(3) /\ CodesOf(3) = {} /\ CodesOf(2) = {}
        /\ ColumnOf(2) = ColumnOf(3)
    BY DEF T, TablesOf, CodesOf, ColumnOf
  <2>5. Good(e, 3) /\ SamePeople(d, e)
    BY <2>2, <2>3, <2>4, GoodAgain DEF O, R
  <2> QED
    BY <1>1, <1>e, <2>5 DEF R
<1>2. CASE DOMAIN R["roomuser"] # {}
  <2>1. Failed(e)
    BY <1>0, <1>2, NeedsNoRows, Stops DEF a, e
  <2> QED
    BY <1>2, <1>e, <2>1 DEF R
<1> QED
  BY <1>1, <1>2

LEMMA CharacterTableUp ==
  ASSUME NEW d, NEW O, NEW R,
         Holds(d, TablesOf(3), ItemsOf(3), {}, O, R)
  PROVE  Holds(CharacterTable(d) ++ SeedDefault ++ OwnerTable,
               TablesOf(4), ItemsOf(3) \cup {<<"character", "ix_code">>},
               {Default}, O, R)
<1> DEFINE T == TablesOf(3)
           I == ItemsOf(3)
           a == d ++ Op("create_table", "character", "")
           b == a ++ Op("add", "character", "ix_code")
           c == b ++ SeedDefault
           e == c ++ OwnerTable
<1>0. /\ "character" \notin T /\ "usercharacter" \notin T /\ "user" \in T
      /\ <<"character", "ix_code">> \notin I
  BY DEF TablesOf, ItemsOf, SeatItems
<1>e. CharacterTable(d) ++ SeedDefault ++ OwnerTable = e
  BY DEF CharacterTable
<1> HIDE DEF T, I, a, b, c, e
<1>1. Holds(a, T \cup {"character"}, I, {}, O, R)
  BY <1>0, Creates DEF References, a, T, I
<1>2. Holds(b, T \cup {"character"}, I \cup {<<"character", "ix_code">>},
            {}, O, R)
  BY <1>0, <1>1, Adds DEF b
<1>3. Holds(c, T \cup {"character"}, I \cup {<<"character", "ix_code">>},
            {} \cup {Default}, O, R)
  BY <1>2, Seeds DEF c, SeedDefault
<1>4. Holds(e, T \cup {"character"} \cup {"usercharacter"},
            I \cup {<<"character", "ix_code">>}, {} \cup {Default}, O, R)
  BY <1>0, <1>3, Creates DEF e, OwnerTable, References
<1>5. T \cup {"character"} \cup {"usercharacter"} = TablesOf(4)
  BY DEF T, TablesOf
<1> QED
  BY <1>e, <1>4, <1>5 DEF I

LEMMA ColumnUp ==
  ASSUME NEW d, NEW T, NEW I, NEW O, NEW R, NEW t,
         Holds(d, T, I, {Default}, O, R), t \in T, t \in DOMAIN R,
         <<t, "character_code">> \notin I, <<t, "ix_character_code">> \notin I
  PROVE  Holds(d ++ CharacterColumn(t) ++ CharacterIndex(t) ++ CharacterKey(t),
               T, I \cup CharacterItems(t), {Default}, O, Given(R, t))
<1> DEFINE a == d ++ CharacterColumn(t)
           b == a ++ CharacterIndex(t)
           c == b ++ CharacterKey(t)
           G == Given(R, t)
<1>0. \A u \in DOMAIN G[t] : G[t][u] \in {Default}
  BY DEF Given
<1>e. d ++ CharacterColumn(t) ++ CharacterIndex(t) ++ CharacterKey(t) = c
  OBVIOUS
<1> HIDE DEF a, b, c, G
<1>1. Holds(a, T, I \cup {<<t, "character_code">>}, {Default}, O, G)
  BY AddsColumn DEF a, G
<1>2. Holds(b, T, I \cup {<<t, "character_code">>}
                  \cup {<<t, "ix_character_code">>}, {Default}, O, G)
  BY <1>1, Adds DEF b, CharacterIndex
<1>3. Holds(c, T, I \cup {<<t, "character_code">>}
                  \cup {<<t, "ix_character_code">>}
                  \cup {<<t, "fk_character">>}, {Default}, O, G)
  BY <1>0, <1>2, Refers DEF c
<1>4. I \cup {<<t, "character_code">>} \cup {<<t, "ix_character_code">>}
        \cup {<<t, "fk_character">>} = I \cup CharacterItems(t)
  BY DEF CharacterItems
<1> QED
  BY <1>e, <1>3, <1>4 DEF G

GivenToAll(R) == Given(Given(R, "roomuser"), "user")
LEMMA CharacterUp ==
  ASSUME NEW d, Good(d, 3)
  PROVE  LET e == UpCharacter(d) IN
         /\ Good(e, 4)
         /\ e.rows = GivenToAll(d.rows)
         /\ e.owned = d.owned \cup ((DOMAIN d.rows["user"]) \X {Default})
<1> DEFINE T == TablesOf(4)
           I == ItemsOf(3) \cup {<<"character", "ix_code">>}
           J == I \cup CharacterItems("roomuser")
           O == d.owned
           R == d.rows
           S == Given(R, "roomuser")
           a == CharacterTable(d) ++ SeedDefault ++ OwnerTable
           b == a ++ CharacterColumn("roomuser") ++ CharacterIndex("roomuser")
                  ++ CharacterKey("roomuser")
           c == b ++ CharacterColumn("user") ++ CharacterIndex("user")
                  ++ CharacterKey("user")
           e == c ++ OwnDefault
           P == O \cup ((DOMAIN R["user"]) \X {Default})
<1>0. Holds(d, TablesOf(3), ItemsOf(3), {}, O, R)
  BY DEF Good, CodesOf
<1>1. /\ DOMAIN R = {"user", "roomuser"} /\ DOMAIN S = DOMAIN R
      /\ O = {}
  BY DEF Good, RowsFit, CodesOf, Given
<1>2. /\ "user" \in T /\ "roomuser" \in T /\ "usercharacter" \in T
  BY DEF TablesOf
<1>3. /\ <<"roomuser", "character_code">> \notin I
      /\ <<"roomuser", "ix_character_code">> \notin I
  BY DEF ItemsOf, SeatItems
<1>4. /\ <<"user", "character_code">> \notin J
      /\ <<"user", "ix_character_code">> \notin J
  BY DEF ItemsOf, SeatItems, CharacterItems
<1>e. UpCharacter(d) = e
  BY DEF UpCharacter
<1>5. J \cup CharacterItems("user") = ItemsOf(4)
  BY DEF ItemsOf, SeatItems
<1>6. Holds(a, T, I, {Default}, O, R)
  BY <1>0, CharacterTableUp
<1> HIDE DEF T, I, J, a, b, c, e, R, O, S, P
<1>7. Holds(b, T, J, {Default}, O, S)
  BY <1>1, <1>2, <1>3, <1>6, ColumnUp DEF b, J, S
<1>8. Holds(c, T, ItemsOf(4), {Default}, O, GivenToAll(R))
  BY <1>1, <1>2, <1>4, <1>5, <1>7, ColumnUp DEF c, S, GivenToAll
<1>9. DOMAIN GivenToAll(R)["user"] = DOMAIN R["user"]
  BY <1>1 DEF GivenToAll, Given
<1>10. Holds(e, T, ItemsOf(4), {Default}, P, GivenToAll(R))
  BY <1>2, <1>8, <1>9, Owns DEF e, P
<1>11. RowsFit(GivenToAll(R), {Default})
  <2>1. RowsFit(R, {NoCode})
    BY DEF Good, ColumnOf, R
  <2>2. DOMAIN GivenToAll(R) = DOMAIN R
    BY DEF GivenToAll, Given
  <2>3. ASSUME NEW t \in {"user", "roomuser"}
        PROVE  GivenToAll(R)[t] = [u \in DOMAIN R[t] |-> Default]
    BY <1>1 DEF GivenToAll, Given
  <2> QED
    BY <2>1, <2>2, <2>3 DEF RowsFit
<1>12. P \subseteq Users \X {Default}
  BY <1>1 DEF P, Good, RowsFit, R
<1>13. e.rows = GivenToAll(R) /\ e.owned = P
  BY <1>10 DEF Holds
<1>14. CodesOf(4) = {Default} /\ ColumnOf(4) = {Default}
  BY DEF CodesOf, ColumnOf
<1>15. Good(e, 4)
  BY <1>10, <1>11, <1>12, <1>13, <1>14 DEF Good, T
<1> QED
  BY <1>e, <1>13, <1>15 DEF R, O, P

LEMMA SeedAddedUp ==
  ASSUME NEW d, Good(d, 4)
  PROVE  Good(UpSeedAdded(d), 5) /\ SamePeople(d, UpSeedAdded(d))
<1>1. Holds(d, TablesOf(4), ItemsOf(4), CodesOf(4), d.owned, d.rows)
  BY DEF Good
<1>2. Added \cap CodesOf(4) = {} /\ CodesOf(4) \cup Added = CodesOf(5)
      /\ ColumnOf(4) \subseteq ColumnOf(5) /\ CodesOf(4) \subseteq CodesOf(5)
  BY DEF CodesOf, ColumnOf, Codes, MigrationAssumption
<1>3. Holds(UpSeedAdded(d), TablesOf(4), ItemsOf(4), CodesOf(4) \cup Added,
            d.owned, d.rows)
  BY <1>1, <1>2, Seeds DEF UpSeedAdded
<1>4. TablesOf(4) = TablesOf(5) /\ ItemsOf(4) = ItemsOf(5)
  BY DEF TablesOf, ItemsOf, SeatItems
<1> QED
  BY <1>2, <1>3, <1>4, GoodAgain

LEMMA IsBotUp ==
  ASSUME NEW d, Good(d, 5)
  PROVE  Good(UpIsBot(d), 6) /\ SamePeople(d, UpIsBot(d))
<1>1. Holds(d, TablesOf(5), ItemsOf(5), CodesOf(5), d.owned, d.rows)
  BY DEF Good
<1>2. /\ "roomuser" \in TablesOf(5)
      /\ <<"roomuser", "is_bot">> \notin ItemsOf(5)
      /\ ItemsOf(5) \cup {<<"roomuser", "is_bot">>} = ItemsOf(6)
  BY DEF TablesOf, ItemsOf, SeatItems, CharacterItems
<1>3. Holds(UpIsBot(d), TablesOf(5),
            ItemsOf(5) \cup {<<"roomuser", "is_bot">>},
            CodesOf(5), d.owned, d.rows)
  BY <1>1, <1>2, Adds DEF UpIsBot
<1>4. TablesOf(5) = TablesOf(6) /\ CodesOf(5) = CodesOf(6)
      /\ ColumnOf(5) = ColumnOf(6)
  BY DEF TablesOf, CodesOf, ColumnOf
<1> QED
  BY <1>2, <1>3, <1>4, GoodAgain

LEMMA GameIdUp ==
  ASSUME NEW d, Good(d, 6)
  PROVE  Good(UpGameId(d), 7) /\ SamePeople(d, UpGameId(d))
<1> DEFINE a == d ++ Op("add", "room", "game_id")
<1>1. Holds(d, TablesOf(6), ItemsOf(6), CodesOf(6), d.owned, d.rows)
  BY DEF Good
<1>2. /\ "room" \in TablesOf(6)
      /\ <<"room", "game_id">> \notin ItemsOf(6)
      /\ <<"room", "ix_game_id">> \notin ItemsOf(6)
      /\ ItemsOf(6) \cup {<<"room", "game_id">>}
           \cup {<<"room", "ix_game_id">>} = ItemsOf(7)
  BY DEF TablesOf, ItemsOf, SeatItems, CharacterItems
<1>e. UpGameId(d) = a ++ Op("add", "room", "ix_game_id")
  BY DEF UpGameId
<1> HIDE DEF a
<1>3. Holds(a, TablesOf(6), ItemsOf(6) \cup {<<"room", "game_id">>},
            CodesOf(6), d.owned, d.rows)
  BY <1>1, <1>2, Adds DEF a
<1>4. Holds(UpGameId(d), TablesOf(6),
            ItemsOf(6) \cup {<<"room", "game_id">>}
              \cup {<<"room", "ix_game_id">>},
            CodesOf(6), d.owned, d.rows)
  BY <1>2, <1>3, <1>e, Adds
<1>5. TablesOf(6) = TablesOf(7) /\ CodesOf(6) = CodesOf(7)
      /\ ColumnOf(6) = ColumnOf(7)
  BY DEF TablesOf, CodesOf, ColumnOf
<1> QED
  BY <1>2, <1>4, <1>5, GoodAgain

-----------------------------------------------------------------------------
(* Upgrading.  All revisions behind m up to n succeed, or one of the two   *)
(* that need a table without rows has stopped.                             *)
SameRows(d, e) ==
    \A t \in {"user", "roomuser"} : DOMAIN e.rows[t] = DOMAIN d.rows[t]
AllDefault(d, e) ==
    \A u \in DOMAIN d.rows["user"] :
        e.rows["user"][u] = Default /\ <<u, Default>> \in e.owned
NobodySits(d) == DOMAIN d.rows["roomuser"] = {}
Done(d, e, m, n) ==
    /\ Good(e, n) /\ SameRows(d, e)
    /\ m < 4 /\ 4 <= n => AllDefault(d, e)
Reached(d, e, m, n) == Done(d, e, m, n) \/ (Failed(e) /\ ~ NobodySits(d))

LEMMA UpgradeIs ==
  ASSUME NEW d
  PROVE  /\ Upgrade(1, d) = UpInit(d) /\ Upgrade(2, d) = UpUidAndNickname(d)
         /\ Upgrade(3, d) = UpSlotIndex(d) /\ Upgrade(4, d) = UpCharacter(d)
         /\ Upgrade(5, d) = UpSeedAdded(d) /\ Upgrade(6, d) = UpIsBot(d)
         /\ Upgrade(7, d) = UpGameId(d)
<1>1. Upgrade(1, d) = UpInit(d)
  BY DEF Upgrade
<1>2. Upgrade(2, d) = UpUidAndNickname(d)
  BY DEF Upgrade
<1>3. Upgrade(3, d) = UpSlotIndex(d)
  BY DEF Upgrade
<1>4. Upgrade(4, d) = UpCharacter(d)
  BY DEF Upgrade
<1>5. Upgrade(5, d) = UpSeedAdded(d)
  BY DEF Upgrade
<1>6. Upgrade(6, d) = UpIsBot(d)
  BY DEF Upgrade
<1>7. Upgrade(7, d) = UpGameId(d)
  BY DEF Upgrade
<1> QED
  BY <1>1, <1>2, <1>3, <1>4, <1>5, <1>6, <1>7

LEMMA UpgradeStops ==
  ASSUME NEW d, NEW n \in 1 .. 7, Failed(d) PROVE Failed(Upgrade(n, d))
<1>1. Failed(UpInit(d))
  BY Stops DEF UpInit
<1>2. Failed(UpUidAndNickname(d))
  BY Stops DEF UpUidAndNickname
<1>3. Failed(UpSlotIndex(d))
  BY Stops DEF UpSlotIndex
<1>4. Failed(UpCharacter(d))
  BY Stops DEF UpCharacter, CharacterTable
<1>5. Failed(UpSeedAdded(d))
  BY Stops DEF UpSeedAdded
<1>6. Failed(UpIsBot(d))
  BY Stops DEF UpIsBot
<1>7. Failed(UpGameId(d))
  BY Stops DEF UpGameId
<1> QED
  BY <1>1, <1>2, <1>3, <1>4, <1>5, <1>6, <1>7, UpgradeIs

LEMMA UpgradeGoesOn ==
  ASSUME NEW d, NEW e, NEW m \in 0 .. 7, NEW n \in 1 .. 7, m < n,
         Reached(d, e, m, n - 1)
  PROVE  Reached(d, Upgrade(n, e), m, n)
<1>1. CASE Failed(e)
  <2>1. ~ NobodySits(d)
    BY <1>1 DEF Reached, Done, Good, Holds, Failed
  <2>2. Failed(Upgrade(n, e))
    BY <1>1, UpgradeStops
  <2> QED
    BY <2>1, <2>2 DEF Reached
<1> SUFFICES ASSUME Done(d, e, m, n - 1)
             PROVE  Reached(d, Upgrade(n, e), m, n)
  BY <1>1 DEF Reached
<1>2. Good(e, n - 1) /\ SameRows(d, e)
  BY DEF Done
<1>3. ASSUME NEW f, Good(f, n), SamePeople(e, f), n # 4
      PROVE  Done(d, f, m, n)
  BY <1>2, <1>3 DEF Done, SameRows, AllDefault, SamePeople
<1>4. NobodySits(e) <=> NobodySits(d)
  BY <1>2 DEF NobodySits, SameRows
<1>5. ASSUME NEW f, n # 4,
             \/ SamePeople(e, f) /\ Good(f, n)
             \/ Failed(f) /\ ~ NobodySits(e)
      PROVE  Reached(d, f, m, n)
  BY <1>3, <1>4, <1>5 DEF Reached
<1>6. CASE n = 1
  <2>1. Good(UpInit(e), 1) /\ SamePeople(e, UpInit(e))
    BY <1>2, <1>6, InitUp
  <2> QED
    BY <1>5, <1>6, <2>1, UpgradeIs
<1>7. CASE n = 2
  <2> DEFINE f == UpUidAndNickname(e)
  <2>1. \/ SamePeople(e, f) /\ Good(f, 2)
        \/ Failed(f) /\ ~ NobodySits(e)
    BY <1>2, <1>7, UidAndNicknameUp DEF NobodySits
  <2> QED
    BY <1>5, <1>7, <2>1, UpgradeIs
<1>8. CASE n = 3
  <2> DEFINE f == UpSlotIndex(e)
  <2>1. \/ SamePeople(e, f) /\ Good(f, 3)
        \/ Failed(f) /\ ~ NobodySits(e)
    BY <1>2, <1>8, SlotIndexUp DEF NobodySits
  <2> QED
    BY <1>5, <1>8, <2>1, UpgradeIs
<1>9. CASE n = 4
  <2> DEFINE f == UpCharacter(e)
  <2>1. /\ Good(f, 4) /\ f.rows = GivenToAll(e.rows)
        /\ f.owned = e.owned \cup ((DOMAIN e.rows["user"]) \X {Default})
    BY <1>2, <1>9, CharacterUp
  <2>2. /\ DOMAIN e.rows = {"user", "roomuser"}
    BY <1>2 DEF Good, RowsFit
  <2> HIDE DEF f
  <2>3. /\ DOMAIN f.rows["roomuser"] = DOMAIN e.rows["roomuser"]
        /\ f.rows["user"] = [u \in DOMAIN e.rows["user"] |-> Default]
    BY <2>1, <2>2 DEF GivenToAll, Given
  <2>4. Done(d, f, m, 4)
    BY <1>2, <2>1, <2>3 DEF Done, SameRows, AllDefault
  <2>5. Upgrade(n, e) = f
    BY <1>9, UpgradeIs DEF f
  <2> QED
    BY <1>9, <2>4, <2>5 DEF Reached
<1>10. CASE n = 5
  <2>1. Good(UpSeedAdded(e), 5) /\ SamePeople(e, UpSeedAdded(e))
    BY <1>2, <1>10, SeedAddedUp
  <2> QED
    BY <1>5, <1>10, <2>1, UpgradeIs
<1>11. CASE n = 6
  <2>1. Good(UpIsBot(e), 6) /\ SamePeople(e, UpIsBot(e))
    BY <1>2, <1>11, IsBotUp
  <2> QED
    BY <1>5, <1>11, <2>1, UpgradeIs
<1>12. CASE n = 7
  <2>1. Good(UpGameId(e), 7) /\ SamePeople(e, UpGameId(e))
    BY <1>2, <1>12, GameIdUp
  <2> QED
    BY <1>5, <1>12, <2>1, UpgradeIs
<1> QED
  BY <1>6, <1>7, <1>8, <1>9, <1>10, <1>11, <1>12

At(m, n, i) == IF i <= m THEN m ELSE IF i <= n THEN i ELSE n
LEMMA DueOrNot ==
  ASSUME NEW d, NEW e, NEW m \in 0 .. 7, NEW n \in 0 .. 7, m <= n,
         NEW i \in 1 .. 7, Reached(d, e, m, At(m, n, i - 1))
  PROVE  Reached(d, Due(i, m, n, e), m, At(m, n, i))
<1>1. CASE m < i /\ i <= n
  <2>1. At(m, n, i - 1) = i - 1 /\ At(m, n, i) = i
    BY <1>1 DEF At
  <2>2. Due(i, m, n, e) = Upgrade(i, e)
    BY <1>1 DEF Due
  <2> QED
    BY <1>1, <2>1, <2>2, UpgradeGoesOn
<1>2. CASE ~ (m < i /\ i <= n)
  <2>1. At(m, n, i - 1) = At(m, n, i)
    BY <1>2 DEF At
  <2>2. Due(i, m, n, e) = e
    BY <1>2 DEF Due
  <2> QED
    BY <2>1, <2>2
<1> QED
  BY <1>1, <1>2

LEMMA UpgradedReaches ==
  ASSUME NEW d, NEW m \in 0 .. 7, NEW n \in 0 .. 7, m <= n, Good(d, m)
  PROVE  Reached(d, Upgraded(d, m, n), m, n)
<1> DEFINE a == Due(1, m, n, d)
           b == Due(2, m, n, a)
           c == Due(3, m, n, b)
           e == Due(4, m, n, c)
           f == Due(5, m, n, e)
           g == Due(6, m, n, f)
           h == Due(7, m, n, g)
<1>e. Upgraded(d, m, n) = h
  BY DEF Upgraded
<1>0. Reached(d, d, m, At(m, n, 0))
  BY DEF At, Reached, Done, SameRows
<1> HIDE DEF a, b, c, e, f, g, h
<1>1. Reached(d, a, m, At(m, n, 1))
  BY <1>0, DueOrNot DEF a
<1>2. Reached(d, b, m, At(m, n, 2))
  BY <1>1, DueOrNot DEF b
<1>3. Reached(d, c, m, At(m, n, 3))
  BY <1>2, DueOrNot DEF c
<1>4. Reached(d, e, m, At(m, n, 4))
  BY <1>3, DueOrNot DEF e
<1>5. Reached(d, f, m, At(m, n, 5))
  BY <1>4, DueOrNot DEF f
<1>6. Reached(d, g, m, At(m, n, 6))
  BY <1>5, DueOrNot DEF g
<1>7. Reached(d, h, m, At(m, n, 7))
  BY <1>6, DueOrNot DEF h
<1>8. At(m, n, 7) = n
  BY DEF At
<1> QED
  BY <1>e, <1>7, <1>8

LEMMA EmptyGood == Good(Empty, 0) /\ NobodySits(Empty)
<1>1. Holds(Empty, {}, {}, {}, {}, Empty.rows) /\ Empty.owned = {}
  BY DEF Empty, Holds
<1>2. TablesOf(0) = {} /\ ItemsOf(0) = {} /\ CodesOf(0) = {}
  BY DEF TablesOf, ItemsOf, CodesOf, SeatItems
<1>3. /\ DOMAIN Empty.rows = {"user", "roomuser"}
      /\ \A t \in {"user", "roomuser"} : DOMAIN Empty.rows[t] = {}
  BY DEF Empty
<1> QED
  BY <1>1, <1>2, <1>3 DEF Good, RowsFit, NobodySits

LEMMA SchemasAre ==
  ASSUME NEW n \in 0 .. 7
  PROVE  SchemaOf(n).tables = TablesOf(n) /\ SchemaOf(n).items = ItemsOf(n)
<1>1. Reached(Empty, SchemaOf(n), 0, n)
  BY EmptyGood, UpgradedReaches DEF SchemaOf
<1> QED
  BY <1>1, EmptyGood DEF Reached, Done, Good, Holds

-----------------------------------------------------------------------------
(* Rolling back.                                                           *)
LEMMA InitDown ==
  ASSUME NEW d, Good(d, 1) PROVE Good(DownInit(d), 0)
<1> DEFINE O == d.owned
           R == d.rows
           I == {<<"room", "ix_room_number">>}
           a == d ++ Op("drop_table", "roomuser", "")
           b == a ++ Op("drop", "room", "ix_room_number")
           c == b ++ Op("drop_table", "room", "")
           e == c ++ Op("drop_table", "user", "")
           S == Without(Without(Without(R, "roomuser"), "room"), "user")
<1>0. Holds(d, {"user", "room", "roomuser"}, I, {}, O, R)
  <2>1. ItemsOf(1) = I
    BY DEF ItemsOf, SeatItems
  <2>2. TablesOf(1) = {"user", "room", "roomuser"} /\ CodesOf(1) = {}
    BY DEF TablesOf, CodesOf
  <2> QED
    BY <2>1, <2>2 DEF Good
<1>e. DownInit(d) = e
  BY DEF DownInit
<1> HIDE DEF O, R, a, b, c, e
<1>1. Holds(a, {"user", "room"}, I, {}, O, Without(R, "roomuser"))
  <2>1. \A x \in {"user", "room", "roomuser"} : "roomuser" \notin References(x)
    BY DEF References
  <2>2. Holds(a, {"user", "room", "roomuser"} \ {"roomuser"},
              {i \in I : i[1] # "roomuser"}, {}, O, Without(R, "roomuser"))
    BY <1>0, <2>1, DropsTable DEF a
  <2>3. /\ {"user", "room", "roomuser"} \ {"roomuser"} = {"user", "room"}
        /\ {i \in I : i[1] # "roomuser"} = I
    OBVIOUS
  <2> QED
    BY <2>2, <2>3
<1>2. Holds(b, {"user", "room"}, {}, {}, O, Without(R, "roomuser"))
  <2>1. Holds(b, {"user", "room"}, I \ {<<"room", "ix_room_number">>}, {}, O,
              Without(R, "roomuser"))
    BY <1>1, Drops DEF b
  <2>2. I \ {<<"room", "ix_room_number">>} = {}
    OBVIOUS
  <2> QED
    BY <2>1, <2>2
<1>3. Holds(c, {"user"}, {}, {}, O, Without(Without(R, "roomuser"), "room"))
  <2>1. \A x \in {"user", "room"} : "room" \notin References(x)
    BY DEF References
  <2>2. Holds(c, {"user", "room"} \ {"room"}, {i \in {} : i[1] # "room"}, {},
              O, Without(Without(R, "roomuser"), "room"))
    BY <1>2, <2>1, DropsTable DEF c
  <2>3. /\ {"user", "room"} \ {"room"} = {"user"}
        /\ {i \in {} : i[1] # "room"} = {}
    OBVIOUS
  <2> QED
    BY <2>2, <2>3
<1>4. Holds(e, {}, {}, {}, O, S)
  <2>1. \A x \in {"user"} : "user" \notin References(x)
    BY DEF References
  <2>2. Holds(e, {"user"} \ {"user"}, {i \in {} : i[1] # "user"}, {}, O, S)
    BY <1>3, <2>1, DropsTable DEF e
  <2>3. /\ {"user"} \ {"user"} = {}
        /\ {i \in {} : i[1] # "user"} = {}
    OBVIOUS
  <2> QED
    BY <2>2, <2>3
<1>5. RowsFit(S, {NoCode})
  <2>1. DOMAIN S = {"user", "roomuser"}
    BY DEF Without, Good, RowsFit, R
  <2>2. /\ S["user"] = Empty.rows["user"]
        /\ S["roomuser"] = Empty.rows["roomuser"]
    BY DEF Without, Good, RowsFit, R
  <2>3. DOMAIN Empty.rows["user"] = {} /\ DOMAIN Empty.rows["roomuser"] = {}
    BY DEF Empty
  <2> QED
    BY <2>1, <2>2, <2>3 DEF RowsFit
<1>6. TablesOf(0) = {} /\ ItemsOf(0) = {} /\ CodesOf(0) = {}
      /\ CodesOf(1) = {} /\ ColumnOf(0) = {NoCode}
  BY DEF TablesOf, ItemsOf, CodesOf, ColumnOf, SeatItems
<1>7. O = {} /\ e.owned = O /\ e.rows = S
  BY <1>4, <1>6 DEF Good, O, Holds
<1> QED
  BY <1>e, <1>4, <1>5, <1>6, <1>7 DEF Good

LEMMA UidAndNicknameDown ==
  ASSUME NEW d, Good(d, 2)
  PROVE  LET e == DownUidAndNickname(d) IN Good(e, 1) /\ SamePeople(d, e)
<1> DEFINE I == ItemsOf(2)
           J == I \ {<<"roomuser", "fk_user_uid">>}
           K == J \ {<<"roomuser", "user_nickname">>}
           a == d ++ Op("drop", "roomuser", "fk_user_uid")
           b == a ++ Op("drop", "roomuser", "user_nickname")
           e == b ++ Op("drop", "roomuser", "user_uid")
<1>0. Holds(d, TablesOf(2), I, CodesOf(2), d.owned, d.rows)
  BY DEF Good
<1>1. /\ <<"roomuser", "fk_user_uid">> \in I
      /\ <<"roomuser", "user_nickname">> \in J
      /\ <<"roomuser", "user_uid">> \in K
      /\ K \ {<<"roomuser", "user_uid">>} = ItemsOf(1)
  BY DEF ItemsOf, SeatItems
<1>e. DownUidAndNickname(d) = e
  BY DEF DownUidAndNickname
<1> HIDE DEF I, J, K, a, b, e
<1>2. Holds(a, TablesOf(2), J, CodesOf(2), d.owned, d.rows)
  BY <1>0, <1>1, Drops DEF a, J
<1>3. Holds(b, TablesOf(2), K, CodesOf(2), d.owned, d.rows)
  BY <1>1, <1>2, Drops DEF b, K
<1>4. Holds(e, TablesOf(2), ItemsOf(1), CodesOf(2), d.owned, d.rows)
  BY <1>1, <1>3, Drops DEF e
<1>5. TablesOf(1) = TablesOf(2) /\ CodesOf(1) = CodesOf(2)
      /\ ColumnOf(1) = ColumnOf(2)
  BY DEF TablesOf, CodesOf, ColumnOf
<1> QED
  BY <1>e, <1>4, <1>5, GoodAgain

LEMMA SlotIndexDown ==
  ASSUME NEW d, Good(d, 3)
  PROVE  LET e == DownSlotIndex(d) IN Good(e, 2) /\ SamePeople(d, e)
<1> DEFINE I == ItemsOf(3)
           a == d ++ Op("add", "roomuser", "fk_user_uid")
           e == a ++ Op("drop", "roomuser", "slot_index")
<1>0. Holds(d, TablesOf(3), I, CodesOf(3), d.owned, d.rows)
  BY DEF Good
<1>1. /\ <<"roomuser", "fk_user_uid">> \notin I
      /\ <<"roomuser", "slot_index">> \in
           I \cup {<<"roomuser", "fk_user_uid">>}
      /\ (I \cup {<<"roomuser", "fk_user_uid">>})
           \ {<<"roomuser", "slot_index">>} = ItemsOf(2)
  BY DEF ItemsOf, SeatItems
<1>2. "roomuser" \in TablesOf(3)
  BY DEF TablesOf
<1>e. DownSlotIndex(d) = e
  BY DEF DownSlotIndex
<1> HIDE DEF I, a, e
<1>3. Holds(a, TablesOf(3), I \cup {<<"roomuser", "fk_user_uid">>}, CodesOf(3),
            d.owned, d.rows)
  BY <1>0, <1>1, <1>2, Adds DEF a
<1>4. Holds(e, TablesOf(3), ItemsOf(2), CodesOf(3), d.owned, d.rows)
  BY <1>1, <1>3, Drops DEF e
<1>5. TablesOf(3) = TablesOf(2) /\ CodesOf(3) = CodesOf(2)
      /\ ColumnOf(3) = ColumnOf(2)
  BY DEF TablesOf, CodesOf, ColumnOf
<1> QED
  BY <1>e, <1>4, <1>5, GoodAgain

(* The rollback of the characters stops at a constraint without a name.    *)
LEMMA CharacterDown ==
  ASSUME NEW d, Good(d, 4) PROVE Failed(DownCharacter(d))
<1> DEFINE a == d ++ Op("disown", "usercharacter", {Default})
           b == a ++ Op("delete_codes", "character", {Default})
           c == b ++ Op("drop_unnamed", "user", "")
           O == {p \in d.owned : p[2] \notin {Default}}
<1>1. "usercharacter" \in TablesOf(4)
  BY DEF TablesOf
<1>2. Holds(a, TablesOf(4), ItemsOf(4), CodesOf(4), O, d.rows)
  BY <1>1, Disowns DEF Good
<1> HIDE DEF a, O
<1>3. "ok" \in DOMAIN b
  <2>1. \/ Failed(b)
        \/ Holds(b, TablesOf(4), ItemsOf(4), CodesOf(4) \ {Default}, O, d.rows)
    BY <1>2, DeletesCodes
  <2> HIDE DEF b
  <2> QED
    BY <2>1 DEF Holds, Failed
<1> HIDE DEF b
<1>4. Failed(c)
  BY <1>3, NeverUnnamed
<1>5. DownCharacter(d) =
        c ++ Op("drop", "user", "ix_character_code")
          ++ Op("drop", "user", "character_code")
          ++ Op("drop_unnamed", "roomuser", "")
          ++ Op("drop", "roomuser", "ix_character_code")
          ++ Op("drop", "roomuser", "character_code")
          ++ Op("drop_table", "usercharacter", "")
          ++ Op("drop", "character", "ix_code")
          ++ Op("drop_table", "character", "")
  BY DEF DownCharacter, a, b
<1> HIDE DEF c
<1> QED
  BY <1>4, <1>5, Stops

(* That of the added ones stops if somebody uses or owns one of them.      *)
LEMMA SeedAddedDown ==
  ASSUME NEW d, Good(d, 5)
  PROVE  LET e == DownSeedAdded(d) IN
         Failed(e) \/ (Good(e, 4) /\ SamePeople(d, e))
<1> DEFINE e == DownSeedAdded(d)
<1>0. Holds(d, TablesOf(5), ItemsOf(5), CodesOf(5), d.owned, d.rows)
  BY DEF Good
<1>1. \/ Failed(e)
      \/ /\ Added \cap InUse(d) = {}
         /\ Holds(e, TablesOf(5), ItemsOf(5), CodesOf(5) \ Added,
                  d.owned, d.rows)
  BY <1>0, DeletesCodes DEF DownSeedAdded
<1> SUFFICES ASSUME Added \cap InUse(d) = {},
                    Holds(e, TablesOf(5), ItemsOf(5), CodesOf(5) \ Added,
                          d.owned, d.rows)
             PROVE  Good(e, 4) /\ SamePeople(d, e)
  BY <1>1
<1> HIDE DEF e
<1>2. TablesOf(5) = TablesOf(4) /\ ItemsOf(5) = ItemsOf(4)
  BY DEF TablesOf, ItemsOf, SeatItems
<1>3. /\ CodesOf(5) \ Added = CodesOf(4) /\ CodesOf(5) = CodesOf(4) \cup Added
      /\ ColumnOf(5) = CodesOf(5) /\ ColumnOf(4) = CodesOf(4)
  BY DEF CodesOf, ColumnOf, Codes, MigrationAssumption
<1>4. \A p \in d.owned : p[2] \notin Added
  BY DEF InUse
<1>5. ASSUME NEW t \in {"user", "roomuser"}, NEW u \in DOMAIN d.rows[t]
      PROVE  d.rows[t][u] \notin Added
  <2>1. t \in DOMAIN d.rows
    BY DEF Good, RowsFit
  <2>2. <<t, "fk_character">> \in d.items
    BY <1>0 DEF Holds, ItemsOf, CharacterItems
  <2>3. d.rows[t][u] \in InUse(d)
    BY <2>1, <2>2 DEF InUse
  <2> QED
    BY <2>3
<1>6. d.owned \subseteq Users \X CodesOf(4)
  BY <1>3, <1>4 DEF Good
<1>7. RowsFit(d.rows, CodesOf(4))
  BY <1>3, <1>5 DEF Good, RowsFit
<1>8. e.owned = d.owned /\ e.rows = d.rows
  BY DEF Holds
<1> QED
  BY <1>2, <1>3, <1>6, <1>7, <1>8 DEF Good, SamePeople

LEMMA IsBotDown ==
  ASSUME NEW d, Good(d, 6)
  PROVE  LET e == DownIsBot(d) IN Good(e, 5) /\ SamePeople(d, e)
<1>0. Holds(d, TablesOf(6), ItemsOf(6), CodesOf(6), d.owned, d.rows)
  BY DEF Good
<1>1. /\ <<"roomuser", "is_bot">> \in ItemsOf(6)
      /\ ItemsOf(6) \ {<<"roomuser", "is_bot">>} = ItemsOf(5)
  BY DEF ItemsOf, SeatItems, CharacterItems
<1>2. Holds(DownIsBot(d), TablesOf(6), ItemsOf(5), CodesOf(6), d.owned, d.rows)
  BY <1>0, <1>1, Drops DEF DownIsBot
<1>3. TablesOf(6) = TablesOf(5) /\ CodesOf(6) = CodesOf(5)
      /\ ColumnOf(6) = ColumnOf(5)
  BY DEF TablesOf, CodesOf, ColumnOf
<1> QED
  BY <1>2, <1>3, GoodAgain

LEMMA GameIdDown ==
  ASSUME NEW d, Good(d, 7)
  PROVE  LET e == DownGameId(d) IN Good(e, 6) /\ SamePeople(d, e)
<1> DEFINE a == d ++ Op("drop", "room", "ix_game_id")
           e == a ++ Op("drop", "room", "game_id")
<1>0. Holds(d, TablesOf(7), ItemsOf(7), CodesOf(7), d.owned, d.rows)
  BY DEF Good
<1>1. /\ <<"room", "ix_game_id">> \in ItemsOf(7)
      /\ <<"room", "game_id">> \in ItemsOf(7) \ {<<"room", "ix_game_id">>}
      /\ (ItemsOf(7) \ {<<"room", "ix_game_id">>}) \ {<<"room", "game_id">>}
           = ItemsOf(6)
  BY DEF ItemsOf, SeatItems, CharacterItems
<1>e. DownGameId(d) = e
  BY DEF DownGameId
<1> HIDE DEF a, e
<1>2. Holds(a, TablesOf(7), ItemsOf(7) \ {<<"room", "ix_game_id">>},
            CodesOf(7), d.owned, d.rows)
  BY <1>0, <1>1, Drops DEF a
<1>3. Holds(e, TablesOf(7), ItemsOf(6), CodesOf(7), d.owned, d.rows)
  BY <1>1, <1>2, Drops DEF e
<1>4. TablesOf(7) = TablesOf(6) /\ CodesOf(7) = CodesOf(6)
      /\ ColumnOf(7) = ColumnOf(6)
  BY DEF TablesOf, CodesOf, ColumnOf
<1> QED
  BY <1>e, <1>3, <1>4, GoodAgain

LEMMA DowngradeIs ==
  ASSUME NEW d
  PROVE  /\ Downgrade(1, d) = DownInit(d)
         /\ Downgrade(2, d) = DownUidAndNickname(d)
         /\ Downgrade(3, d) = DownSlotIndex(d)
         /\ Downgrade(4, d) = DownCharacter(d)
         /\ Downgrade(5, d) = DownSeedAdded(d)
         /\ Downgrade(6, d) = DownIsBot(d) /\ Downgrade(7, d) = DownGameId(d)
<1>1. Downgrade(1, d) = DownInit(d)
  BY DEF Downgrade
<1>2. Downgrade(2, d) = DownUidAndNickname(d)
  BY DEF Downgrade
<1>3. Downgrade(3, d) = DownSlotIndex(d)
  BY DEF Downgrade
<1>4. Downgrade(4, d) = DownCharacter(d)
  BY DEF Downgrade
<1>5. Downgrade(5, d) = DownSeedAdded(d)
  BY DEF Downgrade
<1>6. Downgrade(6, d) = DownIsBot(d)
  BY DEF Downgrade
<1>7. Downgrade(7, d) = DownGameId(d)
  BY DEF Downgrade
<1> QED
  BY <1>1, <1>2, <1>3, <1>4, <1>5, <1>6, <1>7

LEMMA DowngradeReaches ==
  ASSUME NEW d, NEW n \in 1 .. 7, Good(d, n)
  PROVE  LET e == Downgrade(n, d) IN
         \/ Failed(e)
         \/ Good(e, n - 1) /\ (n > 1 => SamePeople(d, e))
<1> DEFINE e == Downgrade(n, d)
           Fine == Good(e, n - 1) /\ (n > 1 => SamePeople(d, e))
<1>1. CASE n = 1
  <2>1. Good(DownInit(d), 0) /\ e = DownInit(d)
    BY <1>1, InitDown, DowngradeIs
  <2> QED
    BY <1>1, <2>1
<1>2. CASE n = 2
  <2>1. /\ Good(DownUidAndNickname(d), 1)
        /\ SamePeople(d, DownUidAndNickname(d))
        /\ e = DownUidAndNickname(d)
    BY <1>2, UidAndNicknameDown, DowngradeIs
  <2> QED
    BY <1>2, <2>1
<1>3. CASE n = 3
  <2>1. /\ Good(DownSlotIndex(d), 2) /\ SamePeople(d, DownSlotIndex(d))
        /\ e = DownSlotIndex(d)
    BY <1>3, SlotIndexDown, DowngradeIs
  <2> QED
    BY <1>3, <2>1
<1>4. CASE n = 4
  BY <1>4, CharacterDown, DowngradeIs
<1>5. CASE n = 5
  <2>1. /\ \/ Failed(DownSeedAdded(d))
           \/ Good(DownSeedAdded(d), 4) /\ SamePeople(d, DownSeedAdded(d))
        /\ e = DownSeedAdded(d)
    BY <1>5, SeedAddedDown, DowngradeIs
  <2> QED
    BY <1>5, <2>1
<1>6. CASE n = 6
  <2>1. /\ Good(DownIsBot(d), 5) /\ SamePeople(d, DownIsBot(d))
        /\ e = DownIsBot(d)
    BY <1>6, IsBotDown, DowngradeIs
  <2> QED
    BY <1>6, <2>1
<1>7. CASE n = 7
  <2>1. /\ Good(DownGameId(d), 6) /\ SamePeople(d, DownGameId(d))
        /\ e = DownGameId(d)
    BY <1>7, GameIdDown, DowngradeIs
  <2> QED
    BY <1>7, <2>1
<1> QED
  BY <1>1, <1>2, <1>3, <1>4, <1>5, <1>6, <1>7

-----------------------------------------------------------------------------
(* The database at work: what a person does, and the commands.             *)
IInv ==
    /\ newest \in 1 .. 7 /\ version \in 0 .. newest
    /\ Good(db, version)

LEMMA RowsChange ==
  ASSUME NEW d, NEW n, Good(d, n), NEW e, NEW O, NEW R,
         Holds(e, d.tables, d.items, d.codes, O, R),
         O \subseteq Users \X CodesOf(n), RowsFit(R, ColumnOf(n))
  PROVE  Good(e, n)
BY DEF Good, Holds

LEMMA RowsAdded ==
  ASSUME NEW d, NEW n, Good(d, n), NEW t \in {"user", "roomuser"},
         NEW u \in Users, NEW code \in ColumnOf(n)
  PROVE  LET e == WithRow(d, t, u, code) IN
         /\ Good(e, n) /\ e.owned = d.owned
         /\ Holds(e, d.tables, d.items, d.codes, d.owned, e.rows)
         /\ RowsFit(e.rows, ColumnOf(n))
<1> DEFINE e == WithRow(d, t, u, code)
           new == [x \in DOMAIN d.rows[t] \cup {u} |->
                     IF x = u THEN code ELSE d.rows[t][x]]
           R == [d.rows EXCEPT ![t] = new]
<1>1. e = [d EXCEPT !.rows = R]
  BY DEF WithRow
<1> HIDE DEF e
<1>2. Holds(e, d.tables, d.items, d.codes, d.owned, R)
  BY <1>1 DEF Good, Holds
<1>3. RowsFit(R, ColumnOf(n))
  <2>1. DOMAIN R = {"user", "roomuser"}
    BY DEF Good, RowsFit
  <2>2. ASSUME NEW s \in {"user", "roomuser"}
        PROVE  /\ DOMAIN R[s] \subseteq Users
               /\ \A x \in DOMAIN R[s] : R[s][x] \in ColumnOf(n)
    <3>1. CASE s = t
      <4>1. R[s] = new
        BY <3>1 DEF Good, RowsFit
      <4> QED
        BY <3>1, <4>1 DEF Good, RowsFit
    <3>2. CASE s # t
      <4>1. R[s] = d.rows[s]
        BY <3>2 DEF Good, RowsFit
      <4> QED
        BY <4>1 DEF Good, RowsFit
    <3> QED
      BY <3>1, <3>2
  <2> QED
    BY <2>1, <2>2 DEF RowsFit
<1>4. e.rows = R /\ e.owned = d.owned
  BY <1>2 DEF Holds
<1>5. d.owned \subseteq Users \X CodesOf(n)
  BY DEF Good
<1>6. Good(e, n)
  BY <1>2, <1>3, <1>5, RowsChange
<1> QED
  BY <1>2, <1>3, <1>4, <1>6 DEF e

LEMMA OwnedChange ==
  ASSUME NEW d, NEW n, Good(d, n), NEW O, O \subseteq Users \X CodesOf(n)
  PROVE  Good([d EXCEPT !.owned = O], n)
<1> DEFINE e == [d EXCEPT !.owned = O]
<1>1. Holds(e, d.tables, d.items, d.codes, O, d.rows)
  BY DEF Good, Holds
<1>2. RowsFit(d.rows, ColumnOf(n))
  BY DEF Good
<1> HIDE DEF e
<1>3. Good(e, n)
  BY <1>1, <1>2, RowsChange
<1> QED
  BY <1>3 DEF e

LEMMA ServesWell ==
  ASSUME IInv, NEW u \in Users, Serve(u) PROVE Good(db', version)
<1> USE DEF IInv
<1>1. Good(db, version) /\ version \in 0 .. 7
  OBVIOUS
<1>2. CASE SignUp(u)
  <2>1. CASE HasCharacters
    <3> DEFINE e == WithRow(db, "user", u, Default)
    <3>1. Default \in ColumnOf(version) /\ Default \in CodesOf(version)
      BY <1>1, <2>1 DEF HasCharacters, ColumnOf, CodesOf, Codes
    <3>2. Good(e, version) /\ e.owned = db.owned
      BY <1>1, <3>1, RowsAdded
    <3>3. db' = [e EXCEPT !.owned = e.owned \cup {<<u, Default>>}]
      BY <1>2, <2>1 DEF SignUp
    <3> HIDE DEF e
    <3>4. e.owned \cup {<<u, Default>>} \subseteq Users \X CodesOf(version)
      BY <3>1, <3>2 DEF Good
    <3> QED
      BY <3>2, <3>3, <3>4, OwnedChange
  <2>2. CASE ~ HasCharacters
    <3>1. NoCode \in ColumnOf(version)
      BY <1>1, <2>2 DEF HasCharacters, ColumnOf
    <3>2. db' = WithRow(db, "user", u, NoCode)
      BY <1>2, <2>2 DEF SignUp
    <3> QED
      BY <1>1, <3>1, <3>2, RowsAdded
  <2> QED
    BY <2>1, <2>2
<1>3. ASSUME NEW code \in Codes, Choose(u, code) PROVE Good(db', version)
  <2> DEFINE e == WithRow(db, "user", u, code)
  <2>1. code \in ColumnOf(version) /\ code \in CodesOf(version)
    BY <1>1, <1>3 DEF Choose, HasCharacters, ColumnOf, Good, Holds
  <2>2. Good(e, version) /\ e.owned = db.owned
    BY <1>1, <2>1, RowsAdded
  <2>3. db' = [e EXCEPT !.owned = e.owned \cup {<<u, code>>}]
    BY <1>3 DEF Choose
  <2> HIDE DEF e
  <2>4. e.owned \cup {<<u, code>>} \subseteq Users \X CodesOf(version)
    BY <2>1, <2>2 DEF Good
  <2> QED
    BY <2>2, <2>3, <2>4, OwnedChange
<1>4. ASSUME NEW code \in Codes, GiveUp(u, code) PROVE Good(db', version)
  <2>1. db' = [db EXCEPT !.owned = db.owned \ {<<u, code>>}]
    BY <1>4 DEF GiveUp
  <2>2. db.owned \ {<<u, code>>} \subseteq Users \X CodesOf(version)
    BY <1>1 DEF Good
  <2> QED
    BY <1>1, <2>1, <2>2, OwnedChange
<1>5. CASE Sit(u)
  <2>1. db.rows["user"][u] \in ColumnOf(version)
    BY <1>1, <1>5 DEF Sit, Good, RowsFit
  <2> QED
    BY <1>1, <1>5, <2>1, RowsAdded DEF Sit
<1>6. CASE Leave(u)
  <2> DEFINE new == [x \in DOMAIN db.rows["roomuser"] \ {u} |->
                       db.rows["roomuser"][x]]
             R == [db.rows EXCEPT !["roomuser"] = new]
             e == [db EXCEPT !.rows = R]
  <2>1. db' = e
    BY <1>6 DEF Leave
  <2>2. Holds(e, db.tables, db.items, db.codes, db.owned, R)
    BY <1>1 DEF Good, Holds
  <2>3. RowsFit(R, ColumnOf(version))
    <3>1. RowsFit(db.rows, ColumnOf(version))
      BY <1>1 DEF Good
    <3>2. DOMAIN R = {"user", "roomuser"} /\ R["user"] = db.rows["user"]
          /\ R["roomuser"] = new
      BY <3>1 DEF RowsFit
    <3> HIDE DEF R
    <3> QED
      BY <3>1, <3>2 DEF RowsFit
  <2>4. db.owned \subseteq Users \X CodesOf(version)
    BY <1>1 DEF Good
  <2> HIDE DEF e, R
  <2> QED
    BY <1>1, <2>1, <2>2, <2>3, <2>4, RowsChange
<1> QED
  BY <1>2, <1>3, <1>4, <1>5, <1>6 DEF Serve

LEMMA Migrates ==
  ASSUME IInv, RunMigrations
  PROVE  LET d == Upgraded(db, version, newest) IN
         \/ /\ db' = d /\ version' = newest /\ last' = "upgraded"
            /\ Done(db, d, version, newest)
         \/ /\ db' = db /\ version' = version /\ ~ NobodySits(db)
<1> DEFINE d == Upgraded(db, version, newest)
<1>1. Reached(db, d, version, newest)
  BY UpgradedReaches DEF IInv
<1>2. /\ db' = Committed(d)
      /\ \/ d.ok /\ version' = newest /\ last' = "upgraded"
         \/ ~ d.ok /\ UNCHANGED version
  BY DEF RunMigrations
<1> HIDE DEF d
<1>3. CASE Done(db, d, version, newest)
  <2>1. d.ok = TRUE
    BY <1>3 DEF Done, Good, Holds
  <2> QED
    BY <1>2, <1>3, <2>1 DEF Committed, d
<1>4. CASE Failed(d) /\ ~ NobodySits(db)
  <2>1. d.ok = FALSE
    BY <1>4 DEF Failed
  <2> QED
    BY <1>2, <1>4, <2>1 DEF Committed
<1> QED
  BY <1>1, <1>3, <1>4 DEF Reached

LEMMA RollsBack ==
  ASSUME IInv, RollbackMigration
  PROVE  \/ db' = db /\ version' = version
         \/ /\ version > 0 /\ version' = version - 1 /\ Good(db', version - 1)
            /\ version > 1 => SamePeople(db, db')
<1>1. CASE version = 0
  <2> DEFINE d == [db EXCEPT !.ok = FALSE]
  <2>1. d.ok = FALSE
    BY DEF IInv, Good, Holds
  <2>2. /\ db' = Committed(d)
        /\ d.ok \/ UNCHANGED version
    BY <1>1 DEF RollbackMigration
  <2> HIDE DEF d
  <2> QED
    BY <2>1, <2>2 DEF Committed
<1>2. CASE version # 0
  <2> DEFINE d == Downgrade(version, db)
  <2>1. version \in 1 .. 7
    BY <1>2 DEF IInv
  <2>2. \/ Failed(d)
        \/ Good(d, version - 1) /\ (version > 1 => SamePeople(db, d))
    BY <2>1, DowngradeReaches DEF IInv
  <2>3. /\ db' = Committed(d)
        /\ \/ d.ok /\ version' = version - 1
           \/ ~ d.ok /\ UNCHANGED version
    BY <1>2 DEF RollbackMigration
  <2> HIDE DEF d
  <2>4. CASE Failed(d)
    <3>1. d.ok = FALSE
      BY <2>4 DEF Failed
    <3> QED
      BY <2>3, <3>1 DEF Committed
  <2>5. CASE Good(d, version - 1) /\ (version > 1 => SamePeople(db, d))
    <3>1. d.ok = TRUE
      BY <2>5 DEF Good, Holds
    <3>2. db' = d /\ version' = version - 1
      BY <2>3, <3>1 DEF Committed
    <3> QED
      BY <2>1, <2>5, <3>2
  <2> QED
    BY <2>2, <2>4, <2>5
<1> QED
  BY <1>1, <1>2

LEMMA IInvInit == Init => IInv
BY EmptyGood DEF Init, IInv

LEMMA IInvStep == IInv /\ [Next]_vars => IInv'
<1> SUFFICES ASSUME IInv, [Next]_vars PROVE IInv'
  OBVIOUS
<1>1. CASE InitializeDb
  <2>1. db' = [db EXCEPT !.tables = db.tables] /\ version' = version
        /\ newest' = newest
    BY <1>1 DEF InitializeDb, Imported
  <2>2. Good(db', version)
    BY <2>1 DEF IInv, Good, Holds
  <2> QED
    BY <2>1, <2>2 DEF IInv
<1>2. CASE RunMigrations
  <2>1. newest' = newest
    BY <1>2 DEF RunMigrations
  <2> QED
    BY <1>2, <2>1, Migrates DEF IInv, Done
<1>3. CASE RollbackMigration
  <2>1. newest' = newest
    BY <1>3 DEF RollbackMigration
  <2> QED
    BY <1>3, <2>1, RollsBack DEF IInv
<1>4. CASE NextRevision
  BY <1>4 DEF NextRevision, IInv
<1>5. ASSUME NEW u \in Users, Serve(u) PROVE IInv'
  <2>1. version' = version /\ newest' = newest
    BY <1>5 DEF Serve
  <2> QED
    BY <1>5, <2>1, ServesWell DEF IInv
<1>6. CASE UNCHANGED vars
  BY <1>6 DEF vars, IInv
<1> QED
  BY <1>1, <1>2, <1>3, <1>4, <1>5, <1>6 DEF Next

LEMMA Invariant == Spec => []IInv
BY IInvInit, IInvStep, PTL DEF Spec

-----------------------------------------------------------------------------
(* Whatever is upgraded, rolled back, refused and done by people, the rows *)
(* of the tables that stay refer to users and characters or to none, and a *)
(* transaction that failed leaves nothing behind.                          *)
THEOREM MigrationsTyped == Spec => []TypeOK
<1>1. IInv => TypeOK
  <2> SUFFICES ASSUME IInv PROVE TypeOK
    OBVIOUS
  <2>1. /\ Good(db, version) /\ newest \in 1 .. 7 /\ version \in 0 .. newest
        /\ version \in 0 .. 7
    BY DEF IInv
  <2>2. db.tables \subseteq Tables /\ db.codes \subseteq Codes /\ db.ok
    BY <2>1 DEF Good, Holds, TablesOf, CodesOf, Tables, Codes
  <2>3. CodesOf(version) \subseteq Codes
        /\ ColumnOf(version) \subseteq Codes \cup {NoCode}
    BY <2>1 DEF CodesOf, ColumnOf, Codes
  <2>4. db.owned \subseteq Users \X Codes
    BY <2>1, <2>3 DEF Good
  <2> QED
    BY <2>1, <2>2, <2>3, <2>4 DEF TypeOK, Good, RowsFit
<1> QED
  BY <1>1, Invariant, PTL

(* A revision is one schema: any way of upgrades and rollbacks that leads  *)
(* to it leads to what an empty database gets.                             *)
THEOREM SchemaIsOfVersion == Spec => []SchemaOfVersion
<1>1. IInv => SchemaOfVersion
  <2> SUFFICES ASSUME IInv PROVE SchemaOfVersion
    OBVIOUS
  <2>1. Good(db, version) /\ version \in 0 .. 7
    BY DEF IInv
  <2>2. /\ SchemaOf(version).tables = TablesOf(version)
        /\ SchemaOf(version).items = ItemsOf(version)
    BY <2>1, SchemasAre
  <2> QED
    BY <2>1, <2>2 DEF SchemaOfVersion, Good, Holds
<1> QED
  BY <1>1, Invariant, PTL

(* Nobody plays or owns a character that a rollback has taken away.        *)
THEOREM CharactersAreThere == Spec => []CharactersThere
<1>1. IInv => CharactersThere
  <2> SUFFICES ASSUME IInv, HasCharacters PROVE CharactersThere
    BY DEF CharactersThere
  <2>1. Good(db, version) /\ version \in 4 .. 7
    BY DEF IInv, HasCharacters
  <2>2. ColumnOf(version) = db.codes /\ CodesOf(version) = db.codes
    BY <2>1 DEF Good, Holds, ColumnOf
  <2> QED
    BY <2>1, <2>2 DEF CharactersThere, Good, RowsFit
<1> QED
  BY <1>1, Invariant, PTL

(* The upgrade to characters gives all the people there are the default.   *)
THEOREM DefaultIsGiven == Spec => DefaultGiven
<1> DEFINE Gives ==
      RunMigrations /\ ~ HasCharacters /\ HasCharacters' =>
          \A u \in DOMAIN db.rows["user"] :
              /\ db'.rows["user"][u] = Default
              /\ <<u, Default>> \in db'.owned
<1>1. IInv /\ [Next]_vars => [Gives]_vars
  <2> SUFFICES ASSUME IInv, RunMigrations, ~ HasCharacters, HasCharacters'
               PROVE  Gives
    OBVIOUS
  <2>1. version < 4 /\ version' >= 4
    BY DEF HasCharacters, IInv
  <2>2. AllDefault(db, db')
    BY <2>1, Migrates DEF Done, IInv
  <2> QED
    BY <2>2 DEF AllDefault
<1> QED
  BY <1>1, Invariant, PTL DEF Spec, DefaultGiven

(* Nothing but a taken seat stops an upgrade, from whichever revision, and *)
(* however the database came to be there.                                  *)
THEOREM SeatsAloneBlock == Spec => OnlySeatsBlock
<1> DEFINE Upgrades ==
      RunMigrations /\ DOMAIN db.rows["roomuser"] = {} => version' = newest
<1>1. IInv /\ [Next]_vars => [Upgrades]_vars
  BY Migrates DEF NobodySits
<1> QED
  BY <1>1, Invariant, PTL DEF Spec, OnlySeatsBlock

(* A rollback keeps what people have chosen and own, or fails.             *)
THEOREM RollbacksKeepProfiles == Spec => ProfilesKept
<1> DEFINE Keeps ==
      RollbackMigration /\ version > 1 =>
          /\ db'.rows["user"] = db.rows["user"]
          /\ db'.owned = db.owned
<1>1. IInv /\ [Next]_vars => [Keeps]_vars
  BY RollsBack DEF SamePeople, IInv
<1> QED
  BY <1>1, Invariant, PTL DEF Spec, ProfilesKept

=============================================================================
