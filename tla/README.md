# A model of the MCR Masters lobby

These TLA+ modules model the server in `src/app` and the migrations of its
database: the lobby in which people create rooms, join and leave them, connect
a WebSocket, get ready, add bots and start a game; what the people in a room
are sent; the requests that read the lobby; accounts and the login; and the
revisions of the schema. TLC checks the models on small instances, and TLAPS
proves 34 theorems about them for any number of users, rooms, games, sockets,
accounts and requests. Every invariant and every action property that a
passing run checks is also a theorem; only liveness is left to TLC.

## The system

| Component | State | Operations | Hard behaviour |
|---|---|---|---|
| Tables (`app/models`, `app/repositories`, `app/db/session.py`) | `room`, `room_user` in PostgreSQL | select, insert, update, delete; unique `room_number`, unique `user_id`, foreign key `room_id` | constraints are checked when a transaction writes, long after the code's own checks |
| `RoomConnectionManager` (`app/core`) | for each room a dictionary from user to socket; in memory | `connect`, `disconnect`, `get_room_users`, broadcasts | one entry per user and room, whichever socket made it; iterated while it changes; lost with the process |
| `RoomService` and its endpoints | a database session per request | `create_room`, `join_room`, `leave_room`, `start_game`, `end_game` | every `await` lets other requests in; the session answers with the first copy it loaded |
| `RoomWebSocketHandler` | its `Room` and `RoomUser` for as long as the socket is open | opening, `ready`, `add_bot`, `leave`, disconnection, errors | copies grow stale for hours; a closed socket can run `leave_room` twice |
| `cleanup_rooms` (GET `/room`, GET `/watch`) | the rooms it read, the rows it has deleted | removes rows without a socket, then rooms without rows | interleaves with everything, commits once |
| GET `/room`, `/room/{n}/users`, `/room/me`, `/user/me/is-playing` | what the SELECTs so far have said | several SELECTs each | every SELECT sees another state of the lobby |
| `UserService` and `/user/me` | `user`, `user_character`; a session per request with a copy of the account | first login, bots, nickname, characters | check-then-act races, duplicate accounts, UPDATEs from stale copies |
| Google login (`endpoints/auth.py`, `services/auth/google.py`) | `session_tokens`, in memory | session id, callback, status | repeated callbacks, lost answers, restarts |
| Migrations (`migrations`, `scripts/cli.py`) | the schema and what is seeded | upgrade, downgrade, `init-db` | order of statements, data that is there already, failure in the middle |
| Game server, agent server, Google | external | start a game, connect a bot, name a user | a call may fail after another has had its effect |
| JWTs, validators, schemas, configuration, errors | none | pure functions, declarations | - |

Requests and sockets are coroutines of one event loop. They share the
registry and the mailbox in memory, and the database; they never wait for one
another except inside the database.

What would make a component correct; what the code keeps of it when requests
overlap is under "The runs", and what it does not under "Where code and promise
part":

- tables: a user has at most one row, a row has a room, numbers are unique;
- service: rooms do not exceed `max_users`, slots are unique, the host has a
  row, a room never consists of bots only, an empty room goes away, a game
  starts with a full, ready room and is started once;
- sessions: a copy may be old, but acting on it must not undo what others did;
- cleanup: it takes no row of a user who is connected, none of a room in play;
- sockets: who is connected is registered, and gets every broadcast once;
- answers: whoever does not move meanwhile is shown where they are;
- accounts: a token is of somebody who came back from Google with the client's
  session id, a nickname is final, a person's accounts are few;
- migrations: a revision is the same schema on whichever way it was reached,
  and a rollback does not take what people have;
- every request is answered.

## The modules

| Module | Models |
|---|---|
| `RoomStore` | the two tables of the lobby, their constraints, selects, inserts and deletes |
| `RoomConnections` | the registry, as the lobby sees it: who is in it |
| `RoomService` | `RoomService` with the endpoints of `room.py` and `game_server.py`; the tasks |
| `RoomSocket` | `RoomWebSocketHandler`, with `update_user_ready_status` and `add_bot_to_slot`: what a socket does to the lobby |
| `RoomCleanup` | `cleanup_rooms` |
| `Lobby` | the composition of these five: clients, generated keys, restarts, fairness |
| `LobbyProperties` | its properties |
| `LobbyHistory` | the lobby with a history variable, the rooms in which claims on a seat have overlapped, and what holds of the others |
| `Membership` | what the lobby promises: people, rooms and games, each step atomic |
| `LobbyMembership` | the refinement mapping from `Lobby` to `Membership` |
| `CleanupHistory` | the lobby with a history variable for the cleanup's property |
| `RoomBroadcast`, `BroadcastProperties` | the sockets of one room, the dictionary and its iterators, the handlers as senders |
| `BroadcastHistory` | the same with what each broadcast has sent and owes |
| `RoomQueries` | the four requests that read, over `Membership` |
| `QueryHistory` | the same with what has been so since a request began, and the properties |
| `Accounts` | `UserService` with the endpoints of `user.py` |
| `Login` | `Accounts` with the callback, the mailbox, clients and restarts |
| `AccountProperties`, `AccountHistory` | properties; a history of the characters owned |
| `Migrations`, `MigrationProperties` | revisions as sequences of operations, the commands of `cli.py`, the program at work |
| `MCLobby`, `MCHistory`, `MCCleanup`, `MCBroadcasts`, `MCQueries`, `MCAccounts`, `MCMigrations` | symmetry sets for TLC |
| `LobbyTypeProofs`, `LobbyProofs`, `RaceProofs`, `MembershipProofs` | theorems about the lobby, each with its proof |
| `BroadcastProofs`, `QueryProofs`, `AccountProofs`, `MigrationProofs` | theorems about the sockets of a room, the requests that read, the accounts, and the migrations |

### The lobby

- `rooms`, `roomUsers`: functions from the keys in use to rows. A key of
  `roomUsers` is the pair of the person and a stamp, because a user who leaves
  and joins again gets a new uuid and old uuids are still held by sessions.
- `active`: the pairs (room, user) of `active_connections`. `user_rooms` is
  written and never read by the code, so it is left out.
- `task[t]`: one coroutine with its session. `pc` is the await it is in, `seen`
  the session's copies of rooms, the other fields are the local variables the
  code uses after an await. A socket's task stays at `ws_open` between
  messages.
- `sweep`: the locals of one running `cleanup_rooms`.

An action is what a coroutine does from one await that matters to the next: a
SELECT with the branch that is taken on it, or the writes of a transaction.
Writes that are flushed are invisible to other sessions before the commit
(PostgreSQL's read committed), so they are one action with it, and the
constraints are evaluated there.

SQLAlchemy's identity map is part of the model: `expire_on_commit` is off, so a
`Room` that a session has loaded and still refers to keeps its attributes
through all later SELECTs (`Load`, `Seen`); only whether the row still exists
is read afresh. The exception is `refresh` after an update (`LeaveHost`,
`ReadyWrite`). The session's `RoomUser` of a socket is kept in the same way
(`mine`, `ready`).

SELECTs merged into one action, and why that loses nothing:

- `CreateRoom`: the caller's row and the highest number. The number is checked
  by `CreateInsert` as it is then, and so is the row, so an earlier or a later
  answer of the first SELECT reaches no other state.
- `Join`, `Leave`, `Start`, `Open`: the room by its number and the checks of
  the same room, from one copy. In `Open` the row is selected after the room;
  a room that goes in between takes its rows with it, and the open is refused
  in both orders.
- `JoinOwn`: the caller's row and the room that `leave_room` is called with.
  Were the room gone by then, so would be the row.
- `LeaveCheck`: that the room still exists is implied by the row in it.
- `LeaveDelete`, `LeaveBots`: the repository's `delete` selects by the key and
  deletes what it found; `Delete` of a key that is gone changes nothing.
- `End`: the room by its game and its rows.
- `SweepCommit`: the deletes of a cleanup are flushed one by one and committed
  together. In PostgreSQL an insert into a room whose delete is flushed waits
  for that commit and then fails; in the model it may also go first, and the
  cleanup fails. Row locks, and the deadlocks of two transactions that delete
  the same rows in another order, are left out: the database aborts one of the
  two, whose writes are lost as in the failing branches of the model.
- `cleanup_rooms` first deletes rows without a room; the foreign key
  (`RowsHaveRooms`, proved) leaves it none.

Errors. A domain error in an HTTP request answers it (`Finish`). In a socket's
handler it closes the socket without `disconnect`, so that the registry entry
stays; a database error does the same, because the session refuses the
SELECT of the `handle_disconnection` that follows. Only `handle_disconnection`
itself catches a domain error (`Raised`). After `handle_leave` the message loop
reads from the socket that was just closed; the exception runs
`handle_disconnection` again, with `disconnect_only` (`Drop`, `Disconnected`).
Before `disconnect`, both handlers tell those who remain, and a broadcast can
raise (`Tell`, `TellFails`; why it does is in `RoomBroadcast`): `handle_leave`
then ends in `handle_disconnection` too, and `handle_disconnection` ends with
the entry still registered. `AfterLeave` is where each of them goes. A bot that
is asked for can find no uid, which is answered, lose the uid it drew to another
account, or find the room gone, which end the handler (`BotFails`).

Crashes. `Crash` empties the registry and ends all tasks and the cleanup; the
tables stay as they are, which may be between two commits of `leave_room`.

Clients. `Requests` names the kinds of request that an instance's clients
make. Users are authenticated; which user asks for what is free. `Next` has
everything; `RequestsNext` is without the list of rooms, and so without a
cleanup.

### Sockets and broadcasts

`RoomBroadcast` has one room. `dict` is the room's dictionary as Python keeps
it: the entries in the order of insertion with holes where one was deleted,
and `era`, which tells a dictionary from the one that is made when the room's
key is inserted anew. `job[s]` is the handler of socket `s`, with the iterator
of the broadcast it is in: the position, the number of entries it began with
and how many it has left. `Breaks` is the `RuntimeError` of a dictionary that
has changed its size, or whose keys have. `state[s]` distinguishes a client
that has gone from a server that knows it, because `broadcast` skips only the
sockets whose `client_state` says so, and a send to the others may raise or
not. An error in a handler runs `handle_disconnection` (`Raised`), and a second
one ends it. `GameStarted` is the one sender that is not a handler: a broadcast
that stops at the first send that raises.

Two things stay in the dictionary of the model as they do in the code: the
entry of a socket that a domain error has closed, and that of a handler whose
`handle_disconnection` raised before it came to `disconnect`. What the service
and the database answer is free here; what they do is `Lobby`. A dictionary
that Python rebuilds after many insertions moves its entries together and keeps
their order; `MaxEntries` bounds the insertions so that it is never rebuilt.

### Requests that read

`RoomQueries` runs over `Membership` and not over `Lobby`: that the lobby's
tables are one behaviour of `Membership` is what `LobbyImplementsMembership`
proves, so what holds of every query over `Membership` holds of queries over
the lobby. Each action is one SELECT. `host.nickname` and the users of the
answer are never missing, because accounts are not deleted.

### Accounts and logins

`users` is the user table, with `user_character` as the column `owned`. A task
is a request with a session: `get_current_user` loads the account with what it
owns, and every later select of it by the same session returns that copy
(`CopyOf`). SQLAlchemy's UPDATE names the columns that differ from the copy
(`WriteChange`), so a stale session does not take back other columns.
`generate_unique_uid` is a draw and a count for each try. A nickname is a name,
empty, of blanks, or too long; `Strips` is the test of the code. `mailbox` is
`session_tokens`; a token is the account it names. `/login/google` keeps
nothing: `session_id` is made up and put into the link. So the callback of the
model takes any session id as its state, and Google names any person: nothing
in `auth.py` relates the code to the state, or either to a browser. `signed` and
`held` are outside of the program: the people that Google has named, and the
tokens that clients have got, for each session id. `OwnToken` is what holds of
them: who asks for a token with a session id gets one of a person who has come
back with it, and no other. It does not say that this is the person who asks.

`NicknameFinal` is about an account whose nickname is set while no request that
looked before it was set has still to write one (`NicknameSettled`). Whatever
then runs, on whichever stale copies, the nickname stays. Nothing is assumed of
clients. Two nickname requests that overlap are outside of it; see "Where code
and promise part".

### Migrations

A revision's `upgrade` and `downgrade` are sequences of alembic operations:
`d ++ s` is the database after one more. `Can` and `Effect` say when PostgreSQL
executes one and what it does to the schema and to the people in it; once one
has failed the database is not `ok`, and nothing more is done. `Due` and
`Upgraded` run the revisions that are not applied, and `Committed` is the transaction around all
revisions of a command. The repository grows by a revision at a time
(`NextRevision`), and between the commands the program of the time is at work
(`Serve`). The foreign keys of a table that name users and rooms come and go
with the table, and only those to `character` are looked into.

## The runs

| Run | Instance | Shows |
|---|---|---|
| `references` | 2 users, a bot, a game, 1 room, 1 task and a cleanup; everything | types; no row without a room, whichever of leave, end and cleanup deletes the room; the lobby implements `Membership`; a cleanup spares who was connected throughout, and rooms that were playing; only a restart, a cleanup or a late bot leaves a room to nobody |
| `seats` | 3 users, 1 room of 2 seats, 2 tasks; create, join, leave, restart | one row per user; a slot is shared by, and a room is overfilled by, at most as many as are served at once, and only if they overlap; leaves that overlap leave no empty room behind |
| `games` | 2 users, a bot, 2 games, a room of 1 seat, 2 tasks; all but list | a copy of a room is late but never ahead; nothing but deletion ends a game; a game is fixed once the starts that overlapped are over |
| `liveness` | 1 user, a bot, a game, 1 room of 1 seat, 2 tasks; all requests and messages but list and restart; fair | every request and message is answered, a socket that is left or lost is given up, no empty room stays |
| `capacity` (violation) | 3 users, 1 room, 2 tasks | two joins of the last seat |
| `ending` (violation) | 1 user, a game, 1 room of 1 seat, 2 tasks | the end of a game deletes the room that a test expects back |
| `queries` | 3 people, 2 rooms, 1 request | who stays put is listed, finds the own room and is told whether it plays |
| `sockets` | 2 sockets of 1 or 2 users, all messages, fair | a user's only socket stays registered while it is served; the handler of a client that has gone ends |
| `broadcasts` | 3 sockets of 1 or 2 users, opening and closing, and a game-start | a broadcast that ends has reached whoever was there all along, and nobody twice |
| `logins` | 2 people, 2 sessions, 3 accounts, 2 uids, 2 tasks; logins, bots, restarts | uids are unique, accounts few, a token is of somebody who signed in with the session id and whose login is recorded |
| `profiles` | 1 person, 2 tasks; logins, nicknames, toggles, choices; fair | the current character was owned, a settled nickname is final, every login ends |
| `migrations` | 2 people, c0 and two of c1 to c5 | a revision is one schema, characters in use stay, only taken seats block an upgrade |

The checks of the service decide rightly when nothing else runs, and the awaits
between a check and its write break most of them; `capacity` shows it for the
one that a test of the repository names. The other properties of the lobby say
what is left, whatever interleaves, and none of them assumes that requests are
served one by one:

- how far it goes: a slot has at most as many rows, and claims on it, as there
  are tasks (`SlotSharingBounded`), and a room at most one more person than seats
  for every other task (`OverbookingBounded`);
- what it takes: a room is overfilled, or a slot given twice, only after two
  claims that overlapped (`UncontestedRoomsFit`), one game replaces another only
  while a start of the room is still being served (`GameIsFixed`), and a room is
  left to nobody only by a restart, the commit of a cleanup or a bot that is
  seated last (`RoomsNotDeserted`);
- what never happens: `OneRoomPerUser`, `RowsHaveRooms`, `PlayingIsFinal`,
  `CopiesLag`, and all that `Membership` excludes.

`RoomNumbersUnique` is in no run: it is proved, and the instances have one room.

### Bounds

- `Users`, `Bots`, `RoomIds`, `Stamps`, `Games`, `MaxNumber` are finite sets or
  limits that stand for unbounded supplies. A generated key is the least one
  that no row, copy or snapshot mentions (`NewRooms`, `NewRows`, `NewBots`,
  `NewGames`): a uuid is always fresh, and which one it is tells nothing, so
  the least stands for any. Keys that nothing mentions any more are used again,
  so that an unbounded run has finitely many states.
- `RoomsLeft` and `BotsLeft` let no client ask for a room or a bot when all keys
  are in use. `MaxNumber` equals the number of rooms; a freed number is given
  again only when it is above all others, as in the code, and a request whose
  number would exceed the bound is not made. Five stamps for each user are
  more than the rows that two tasks and a cleanup can remember.
- `MaxUsers` is 1 or 2 in place of 4. It stands for `max_users` and for the 4 of
  `start_game`, which the code keeps equal. Two seats are enough for a race for
  the last seat, for a second row, a host to leave and an heir; in `games` one
  is enough, because what is asked there is what two sessions do to one room.
- One cleanup at a time. Two of them delete the same rows; the second finds
  less.
- Two tasks: all checks are between one task's two steps and another's.
- `references` has one task: a request, a cleanup and a restart at once. What
  two requests do to `RowsHaveRooms` and `ImplementsMembership` is proved.
- Two or three sockets and five entries: a sender, somebody who goes and
  somebody who comes while it sends, the two that together hide a change of
  size. `broadcasts` leaves messages out, which are the same loop again, and
  `sockets` the third socket and the game-start, which disturb no handler.
- `Ids`, `Sessions`, `Uids`: `IdsLeft` lets nobody begin a login that could need
  a key that is not there. In `profiles` one uid is enough for a second login
  to use up its attempts, `MaxAttempts`, which stands for 10.
- Two characters: the one an account begins with and another.
- Two of the five seeded characters: they are inserted and deleted together.

The sets of users, tasks, sockets, sessions, people, rooms and queries that
`MC*` modules name are symmetric: no definition tells their members apart. The
runs with liveness have none.

Deadlock is checked where the clients can always go on. In `liveness` and
`ending` the registry entry of a socket that a domain error has closed keeps the
key of the only room in use, and clients that have used up the keys may stop;
in `sockets` and `broadcasts` all sockets may have come and gone.

### Fairness

Weak fairness is asked of the steps of a task or of a handler that has
something to do (`Continue`), and of nothing else. The event loop runs every
coroutine that is ready; each waits only for the database, a send or a server
that is called with a timeout; an awaited query is answered. Clients are under
no fairness: they may stop at any time, and a client that has gone is noticed
because the socket's `receive` raises.

`liveness` has one user with two sessions, each of which may be a socket or a
request of any kind, and reaches every await of the program: `leave_host` when
the other session has joined again before a leave looks at what remains,
`leave_bots` and `bot_insert` with the bot. What could keep a task from its end
is a way back (`JoinOwn`, which leaves and goes on to join; `AfterLeave`, which sends a leave to a
disconnection) or an await that is never answered. Neither asks who the other
session belongs to.

`liveness` has no crash: a crash within `leave_room` leaves an empty room until
the next cleanup. There is no cleanup in it either, because with one
`EmptyRoomIsDropped` is false of the code: a cleanup that has deleted the rows
of offline users and not yet committed lets a user who leaves hand the room over
to one of these rows, and its commit then leaves a room without rows until
somebody asks for the list again. `RoomsNotDeserted` says that these are the
ways, with one more: a bot that is seated when the last person has gone. There the bot's row
keeps the room, so that it is not an empty one.

## Where code and promise part

Two runs are findings of the project. `capacity`: joins of the last seat that
overlap. `ending`: `test_end_game_success`
(`src/tests/unit/services/test_room_service.py:232-269`) expects of `end_game` the
room with its game over and rows that are updated; the code deletes the rows and
the room, as the comment above it has it until users come back to the room.
`PlayingIsFinal` is the code's side of that disagreement: a game ends with the
room, and in no other way.

The following were seen while modelling; each has a model in which it can
happen, and no run of its own:

- Two game-start requests of one room pass the check of `is_playing` before
  either writes it; the game server starts two games and one is lost.
- A host can have no row even if requests come one at a time: a socket that was
  opened before a handover has the former host in its copy, so that the new host
  who leaves by it hands over to nobody (`HandsOver` looks at the copy).
- A game can start without a full, ready room: `start_game` reads the rows and
  then awaits the game server and the agents, while people leave and join.
- A host who has left and handed over adds bots through an old socket:
  `add_bot_to_slot` looks at the copy of the room that the socket loaded.
- A second login of a new user, while the first is between its select and its
  insert, makes a second account with the same email; later logins take either.
- `update_nickname` looks before it writes, so of two nickname requests of an
  account that overlap the second changes what the first has set, whereas
  `user_service.py:85` answers "Nickname already set and cannot be changed".
  `NicknameFinal` is what is left of it.
- The callback of the login takes code and state as they come. Two people who
  come back with one session id are not told apart: the client gets the token of
  the one whose callback was last before it asked.
- A nickname of blanks can be stored, because the table model runs no
  validators, and is then taken for none.
- The current character can be given up: `toggle_owned_character` does not look
  at it.
- `downgrade` of `a651a745199f` drops constraints without a name, which alembic
  refuses: the fourth revision cannot be rolled back.
- `init-db` imports no model, so that `create_all` creates no table.
- A user with two sockets in a room loses the entry of the second when the
  first closes.
- A failed agent server leaves a game that the game server has started.

## The proofs

The lobby, for every value of the constants that satisfies `StoreAssumption`
(keys are naturals or people, people are two disjoint sets, a room has a seat,
`None` is no key) and `TasksAssumption` (finitely many requests are served at a
time; only the two bounds on seats need it):

| Theorem | Says |
|---|---|
| `TypeCorrect` | `Spec => []TypeOK` |
| `ReferencesHold` | `Spec => []RowsHaveRooms` |
| `UsersHaveOneRoom` | `Spec => []OneRoomPerUser` |
| `NumbersAreUnique` | `Spec => []RoomNumbersUnique` |
| `PlayingStays` | `Spec => PlayingIsFinal` |
| `CopiesOnlyLag` | `Spec => []CopiesLag` |
| `RoomsOverbookedBoundedly` | `Spec => []OverbookingBounded` |
| `SlotsSharedBoundedly` | `Spec => []SlotSharingBounded` |
| `LobbyImplementsMembership` | `Spec => ImplementsMembership` |
| `CleanupSpares` | `HistorySpec => SweepSpares` |
| `GameStays` | `Spec => GameIsFixed` |
| `SomeLeaveIsLast` | `Spec => RoomsNotDeserted` |
| `RoomsFitUncontested` | `HistorySpec => []UncontestedRoomsFit` |

All of them rest on the inductive invariant `TypedStore`, the conjunction of
`TypeOK` and `RowsHaveRooms`. Neither is inductive without the other:
`JoinOwn` copies the room that a row refers to, and the copy has a type only if
that room exists; and the foreign key is kept only because rows have rooms as
references. `TypeOK` contains `TasksEquipped`: a task before a write has the
user, the number or the heir that it is about to write.

`RowSteps` and `RoomSteps` say what a step of the lobby can do to a table at
all (keep the rows, add one whose owner has none, remove some; likewise for
rooms), and the theorems about tables follow from them. `CopySteps` says where
the copies of a session come from: kept, dropped, or taken just before or just
after the step. `CopiesOnlyLag` follows from it, from `PlayingStep` and from
the freshness of a new room's key, which no session's map has.

The two bounds on seats are inductive themselves, given `TypedStore` and that
there are finitely many rows (`SeatInv`), because they count the claims with the
rows. A step that inserts a row uses up the claim it was inserted for, and makes
no other. A step that makes a claim reads the rows in the same statement
(`ClaimSteps`): `JoinCheck` has counted fewer rows than seats, and then
`new_slot_index` is a slot that nobody has (`SeatMeansSlot`: with all slots
taken there would be as many rows as seats); an added bot has found a free slot.
So whatever others have claimed, the sum is no more than the people there plus
one for each task. A new room has a key that no claim names.

`LobbyImplementsMembership` shows of every action which step of `Membership`
its effect on the tables is: `CreateInsert` is `Found`, the inserts are `Enter`,
what deletes is `Depart` of the rows and rooms that go, the commit of a start is
`Begin`, and all others stutter. That a room goes only with nobody in it is the
foreign key; that nobody enters a second room is the unique one.

`CleanupSpares` rests on what the cleanup's locals have in common with the
history (`SweepInv`): while it looks at a room's rows, whoever has been connected
there since it began is in `online`; and a row that is marked and still there is
in no room that played, and of nobody who has been connected to its room. It is inductive because a marked row cannot come back: the key
of a row that is inserted is one that the cleanup does not remember
(`NewRowsUnknown`), which is what a fresh uuid gives the code.

What overlapping requests can do (`RaceProofs`). `Arrivals` says which actions
bring a task to an await before it writes a game or deletes rows. `GameStays`
needs no more than that: only the last statement of a start writes a game, and
nobody begins to start a room that plays (`StartsBegin`).

`SomeLeaveIsLast` looks at the step after which a room is deserted, and shows that
it was deserted before (`DesertStep`). Its invariant is `TargetsMatch`: the rows
that a task is about to delete are rows of the room it works on, for as long as
they are there, and bots in `leave_bots`. So a person's row that goes, goes by a
leave of the room that has yet to look at what remains (`Clears`), with the room
at the end of a game, or by the commit of a cleanup. A leave that has looked and
goes on without dropping the room has seen a person's row (`LastLooks`).

`RoomsFitUncontested` has the inductive invariant `FitInv`: in a room without an
overlap of claims so far, the slots of the rows differ, and the slot that the one
open claim names is free. A step that makes a claim selects the slot from the
rows of that moment (`ClaimSteps`), the step that inserts a row uses the claim
up, and everything else takes rows away or makes the room contested. That there
are at most `MaxUsers` rows follows, because there are no more slots.

Sockets (`RoomBroadcast`, for any number of users, sockets and entries):

| Theorem | Says |
|---|---|
| `RoomTyped` | `Spec => []TypeOK` |
| `LoneSocketIsRegistered` | `Spec => []LoneSocketStays` |
| `BroadcastReaches` | `HistorySpec => ReachesSteady` |
| `BroadcastSendsOnce` | `HistorySpec => SendsOnce` |

The first two have one invariant (`RegistryInv`): the types, that a user has one
entry in the dictionary (`OnePerUser`, a part of `TypeOK`), and that a socket that is registered or
has a handler at work is not one that nobody has opened yet (`Opened`). A closing socket takes its user's entry
out, which is another's only if the user has opened another.

The other two are about an iteration over a sequence that changes meanwhile.
No induction over the sequence is needed, because the invariant follows the
iterator (`HistoryInv`): whoever has been there all along and whose entry lies
before its position has been told (`OwedAhead`), and nobody who has been told
has an entry at or after it (`ToldBehind`). A deletion leaves a hole and an
insertion is at the end, so that positions do not move; a dictionary that is made
anew has another `era`, and the iterator of the old one raises. What a step does to
an iterator is to begin, to go on or to end (`Moves`), and at its end there is no entry
left in front of it (`Exhausted`).

Queries (`QueryAssumption`): `QueryTypes`, `EveryStayerListed`,
`EveryStayerFound`, `EveryStayerTold`. For each SELECT that is still to come
the invariants say what of the history is already in the answer: a room that
has waited all along is shown or still in `left`; a person who has stayed has
been found in the room that `found` names.

Accounts (`AccountsAssumption`):

| Theorem | Says |
|---|---|
| `AccountTypes` | `Spec => []TypeOK` |
| `UidsAreUnique` | `Spec => []UidsUnique` |
| `TokensAreOwn` | `Spec => []OwnToken` |
| `TokensAreRecorded` | `Spec => []TokenMeansRecorded` |
| `NicknamesAreFinal` | `Spec => NicknameFinal` |
| `AccountsAreBounded` | `Spec => []AccountsBounded` |
| `CurrentWereOwned` | `HistorySpec => []CurrentWasOwned` |

The inductive invariant `IInv` adds two things to the types. `Fit`: a task has
before each await what it uses after it, an account it works on is there and is
of a person whom Google has named for its session id. `TokensGood`: what is in a
mailbox or in a client's hands names an account of such a person, with its login
recorded. It is inductive because accounts are never deleted and never change
their email (`Grows`). The last three theorems rest on `StepKind`, which says
what one step does to the accounts (nothing but owned characters or the record,
one nickname, one current character, or one new account) and what became of the
task that did it. `AccountsBounded` is inductive itself: whoever starts to make
an account has found none, so that all there is to count are the makers.
`NicknamesAreFinal` follows from it directly: the one step that writes a nickname
belongs to a request that `NicknameSettled` excludes, and a new one is refused
for as long as the nickname is set.

Migrations (`MigrationAssumption`: the characters are distinct), for any number
of users and of added characters:

| Theorem | Says |
|---|---|
| `MigrationsTyped` | `Spec => []TypeOK` |
| `SchemaIsOfVersion` | `Spec => []SchemaOfVersion` |
| `CharactersAreThere` | `Spec => []CharactersThere` |
| `DefaultIsGiven` | `Spec => DefaultGiven` |
| `SeatsAloneBlock` | `Spec => OnlySeatsBlock` |
| `RollbacksKeepProfiles` | `Spec => ProfilesKept` |

The inductive invariant is that the database is `Good` for its revision: it has
the tables, items and characters that `TablesOf`, `ItemsOf` and `CodesOf` give
for the revision, and what people refer to is among them. For each operation a
lemma says what it makes of a database (`Creates`, `Adds`, `Drops`, ...), for
each revision one follows its statements from `Good` of the revision before to
`Good` of its own, or to the statement that stops it. Going up, only the second
and the third may stop, at a seat (`NeedsNoRows`). Going down, the fourth always
stops (`CharacterDown`), and the fifth if an added character is in use. A command
of several revisions is the seven of them in a row, each run or not (`Due`);
`Reached` is what they keep: the revision reached so far, the same people, and
the default character for all of them once the fourth is among those run.

Only model-checked: liveness (`EmptyRoomIsDropped`, `RequestsFinish`,
`HandlersEnd`, `LoginsFinish`), which is beyond the proof system, and the two
counterexamples of `capacity` and `ending`.

## What is not modelled

- The game server's own view: games that were started and forgotten.
- The signature and the expiry of tokens: a library's work. A token names an
  account and nothing else is read from it; one that has expired is as good as
  none.
- Validators, schemas, configuration, errors: pure functions and declarations
  without state. That the validators are not run by the table models is in
  `Accounts`, where their nicknames are accepted.
- `send_personal_message`, and `authenticate_and_validate_connection`, which
  nobody calls: the one is a send, the other selects.
- The list of games that GET `/watch` passes through.
- Names, time stamps, ping messages, wording of answers: no branch that is
  modelled reads them.
- Room numbers in requests: a request of the model names the room. A number
  that was given again names another room, which is as good as a request for
  that one.
- Locks of PostgreSQL, and the deadlocks it breaks by aborting a transaction.

## Plan

Of what the runs check only liveness is not proved, and cannot be here. What
could be proved next is not in a run yet: that `RoomBroadcast`'s registry is
`RoomConnections`' for its room, so that the lobby's `active` is what the sockets
make of it.
