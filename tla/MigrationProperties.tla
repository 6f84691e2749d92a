------------------------ MODULE MigrationProperties --------------------------
(***************************************************************************)
(* What must be true of a database that is migrated up and down.           *)
(***************************************************************************)
EXTENDS Migrations

(* A database of some revision has the tables and items that an empty one  *)
(* gets by upgrading to it, whatever upgrades, rollbacks and failures lie  *)
(* between: the next upgrade() meets what it was written for.              *)
SchemaOf(n) == Upgraded(Empty, 0, n)
SchemaOfVersion ==
    /\ db.tables = SchemaOf(version).tables
    /\ db.items = SchemaOf(version).items

(* With characters in the schema, every user, seat and owner refers to one *)
(* that is there, so that loading it (selectinload, ru.character.name)     *)
(* finds it: rollbacks do not take away characters that are in use.        *)
CharactersThere == HasCharacters =>
    /\ \A t \in DOMAIN db.rows, u \in Users :
          u \in DOMAIN db.rows[t] => db.rows[t][u] \in db.codes
    /\ \A p \in db.owned : p[2] \in db.codes

(* The people of a database without characters get the default one, and    *)
(* own it, with the upgrade that brings characters.                        *)
DefaultGiven ==
    [][RunMigrations /\ ~ HasCharacters /\ HasCharacters' =>
          \A u \in DOMAIN db.rows["user"] :
              /\ db'.rows["user"][u] = Default
              /\ <<u, Default>> \in db'.owned]_vars

(* An upgrade fails only because of the seats that are taken, never because*)
(* of the users there are, of rollbacks before it or of init-db.           *)
OnlySeatsBlock ==
    [][RunMigrations /\ DOMAIN db.rows["roomuser"] = {} =>
          version' = newest]_vars

(* No rollback but that of the first revision loses a user, the character  *)
(* they have chosen or one they own.                                       *)
ProfilesKept ==
    [][RollbackMigration /\ version > 1 =>
          /\ db'.rows["user"] = db.rows["user"]
          /\ db'.owned = db.owned]_vars

=============================================================================
