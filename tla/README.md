# A formal model of backend-norbarkan

This directory holds TLA+ modules that model the Go backend in `src/`, the TLC
configurations that check them on small instances, and proofs that the TLA+
proof system (TLAPS) checks for every instance. Lines below are those of `src/`.

## 1. Inventory

| Component | Source | State | Operations | Status |
|---|---|---|---|---|
| Websocket hub | `internal/websocket/hub.go` | rooms → user → socket, player states, four channels | `Run` and its four cases, `Register`, `Unregister`, `IsCurrent`, `RoomClients`, `BroadcastToRoom`, `SendToUser`, `SetPlayerState`, `GetPlayerState` | `Hub` |
| Websocket endpoint | `internal/handler/ws_handler.go` | one `Client` per connection, two goroutines each | `Serve`, `readPump`, `writePump`, the handlers of six families of events | `WSHandler`; what the events carry: `PlayerSync`, `Chat`; rows of members: `RoomService` |
| Rooms and members | `internal/service/room_service.go`, `internal/repository/room_repo.go` | rows of `rooms` and `room_members` | create, join, leave, close, delete, update, kick, mute, and two writes of the websocket endpoint | `RoomService` |
| Authentication | `internal/service/auth_service.go`, `internal/repository/token_repo.go`, `internal/pkg/jwt/jwt.go` | rows of `refresh_tokens` | register, login, refresh, logout | `Auth` |
| User accounts | `internal/service/user_service.go`, `internal/repository/user_repo.go` | row of `users` | update profile, change password | `Auth` |
| Movies | `internal/service/movie_service.go`, `internal/handler/media_source_provider.go` | rows of `movies` | create, update, delete, keep the stream address in `OriginalPath` | `Movies` |
| Stream proxy | `internal/handler/proxy_handler.go` | what it last saw of the cache's sizes; the file of a movie, which the sidecar writes | stream of a movie in bounded ranges, or from its source; cache status | `StreamProxy`, `BoundedRange` |
| Sidecar | `sidecar/main.py`, `internal/service/sidecar_client.go` | registry of downloads in memory, files in a volume, a pool of threads | extract, stream, formats, download and its status | calls and their time: `Sidecar`; downloads: `Download` |
| Migrations | `cmd/migrate/main.go` | the schema, `schema_migrations`, an advisory lock | lock, baseline, apply, record | `Migration` |
| Chat | in `room_service.go`, `ws_handler.go`, `repository/chat_repo.go` | rows of `chats` | send by socket or REST, page through the history | `Chat` |
| Server, router, config, middleware, health, seeder | `cmd/server`, `internal/router`, ... | none | wiring | not modelled: no state |

How they interact. The REST handlers call the services, which call the
repositories; each request is a goroutine and no operation uses a transaction, so
the tables are shared state that requests interleave on, statement by statement.
A `Join` answers with a token that opens a socket; `WSHandler.Serve` upserts the
member's row once more, registers the socket with the hub and starts its two
goroutines. They talk to the hub through channels (`register` and `unregister`
unbuffered, `broadcast` and `targeted` with 256 places) and to each other through
`Client.Send` (256 places), which the hub closes, and `Client.Conn`, which either
pump closes. Player events write the room's row and the hub's player state, and
are broadcast. The movie and proxy
handlers call the sidecar over HTTP, with a limit of 120 s; the sidecar runs yt-dlp with
limits of its own. Its downloads write to a volume that the proxy reads: the two share
the file of a movie and nothing else.

What is hard here:

* the hub releases a caller of `Register`/`Unregister` as soon as it has received
  the value, so the goroutines of a socket run ahead of the map they rely on;
* a channel with several senders (the loop, `Serve`, `readPump`) that one of them
  closes; an eviction under the *read* lock;
* goroutines that block on full queues whose consumer they help to drain;
* reconnection: two sockets of one user, the old one torn down at any time;
* rows that are read, changed and saved whole, by requests that run at once;
* a file that two processes share by its path: it grows in place, is removed, and is
  taken for whole by whoever finds it;
* limits of time inside limits of time, and a client that gives up while its thread goes on;
* pages over a table that grows at the front, in an order of whole seconds;
* check-then-act (capacity), two-step creation, upserts.

What makes the components correct. *Hub and endpoint*: no send on or close of a closed
channel in the loop; every registered socket will be unregistered; a stale socket takes
nothing from the newer one; presence converges; a leave is only told of a socket that is
out; blocked goroutines are released, closed connections torn down; a player state does
not outlive its audience. *Rooms*: the columns of a row agree; an ended or deleted room
stays so; a mute outlives the membership; a room takes `max_members` and at most as many
more as joins run at once. *Player*: every viewer converges on the current event, events
do not overtake each other, and the row keeps up with what viewers are shown. *Accounts*:
a refresh token is exchanged once, a spent one stays spent, a password that was replaced
stays replaced. *Migrations*: the table is a prefix of the migrations and tells of what
has run, and none is run twice. *Movies*: the address a stream request got is there for
the next one, a deleted movie and a replaced title do not come back. *Stream proxy*: a
reply carries the bytes its header selects, and all of those it promised; downloads leave
a whole movie or none, but for what was given up. *Sidecar*: a call ends, in the time its
attempts allow; an address that was found is answered, a refusal is the end of all
attempts. *Chat*: a walk through the history shows all that was there, what came meanwhile
is on the socket, and what a socket showed is in the history.

The hazards, each at its line, are listed in `PROJECT.json` under `hazards`, with
the properties that cover them.

## 2. Modules

```
SocketRegistry        what the hub promises about sockets (abstract)
Hub                   the loop, its maps and channels
  WSHandler           EXTENDS Hub: Serve, readPump, writePump around it; implements SocketRegistry
    MCWSHandler       instances for TLC
    WSHandlerProofs   theorems
RoomService           the rows of one room and the requests on them
  MCRoomService       instances for TLC
  RoomServiceProofs   theorems
PlayerSync            the position of the player: row, hub, queues, viewers
  MCPlayerSync        instance for TLC
Chat                  messages, the table, the socket, and a reader of the history
  MCChat              instance for TLC
EventProofs           EXTENDS PlayerSync and Chat: theorems of both
Auth                  one account: its row, its refresh tokens, the requests on them
  MCAuth              instance for TLC
  AuthProofs          theorems
Deployment            what the migration command promises about a database (abstract)
Migration             the migration command: processes, lock, schema, table; implements Deployment
  MCMigration         instance for TLC
  MigrationProofs     theorems
Movies                one movie: its row, the sidecar's answers, the requests
  MCMovies            instances for TLC
  MoviesProofs        theorems
Download              the sidecar's downloads of one movie
BoundedRange          the Range header of a request and the range of its reply
  StreamProxy         EXTENDS both: requests for a file that downloads are writing
    MCStreamProxy     instance for TLC
    StreamProxyProofs theorems
Sidecar               the calls to the sidecar: attempts, threads, limits of time
  MCSidecar           instance for TLC
  SidecarProofs       theorems
```

### Hub

`rooms` is `Hub.rooms`, with `NoClient` where a map has no entry (the code never
keeps an empty inner map that matters: a room without entries and a room that is
not there behave alike, except that the player state is deleted only by an
unregistration that empties the room, which `HandleUnregister` does). `broadcast`
and `targeted` are the buffered channels. `work` is what the loop has received and
not finished: a registration, or the deliveries of one message that are left, in
whatever order Go ranges over the map. `queued[c]` counts the messages in
`Client.Send`; `roster[c]` is what a browser shows as online after it has read
them all; `sendState[c]` says whether `Send` is open and who closed it.

A step is one of: a caller puts a value into a channel (`Register`, `Unregister`,
`BroadcastToRoom`, `SendToUser`, which WSHandler's actions call), the loop takes one
(`ReceiveBroadcast`, `ReceiveTargeted`), the loop applies one (`HandleRegister`,
`HandleUnregister`, `HandleUnregisterStale`, `Deliver`, `EvictSlow`). A send on a
closed channel, or a delete under the read lock while another goroutine reads the
map, sets `crashed` (for the second, the runtime *may* notice).

### WSHandler

`serve[c]`, `reader[c]` and `writer[c]` are the program counters of `Serve`,
`readPump` and `writePump` for socket `c`, cut where the code calls the hub, sends
on a channel or reads the socket. A `Client` exists only once the checks of `Serve`
have passed; what a refused request does is in RoomService. The deferred function of
`readPump` is `Check` (`IsCurrent`), `ReaderUnregister`, `Leave`, `CloseConn`. A panic
in `readPump` runs it too and then ends the process; a panic in `Serve` is recovered
by gin (`router.go:21`) and leaves the pumps unstarted. Events are abstracted to
their effect on the hub: `chat` (and the moderation events) broadcasts to everyone,
`startStop` to everyone else, `webrtc` sends to one user, `sync` sets the player state
and broadcasts, `request` sends a snapshot to a member or refreshes the host's state.

### SocketRegistry

A socket is `new`, then `current` for its user, then `superseded` by a newer socket
of that user or `gone`, and never returns. `WSHandler` maps onto it: `SocketStatus`
reads the status of a socket off the map, the channel's state and the loop's hands.

### RoomService

One room, its members, and request slots. A request goes through its statements one
by one (`req[r].pc`) and carries the rows it read. `Save` writes back the whole row
that `FindRoom` read, with the columns the operation sets (`Changed`), and inserts it
when it is not there: that is what GORM's `Save` does. `UpsertFind`/`UpsertWrite` are
the two halves of `UpsertActive`. Any statement may fail (`Fail`). The columns kept
are `status`, `is_playing`, `max_members` (the others travel in the same `Save`),
`left_at` as `active`, and `is_muted`. `tokens` are the users who got a socket token
from `Join`; player events and `Serve` need one. The mute and kick of the websocket
endpoint run the same statements as those of REST.

### PlayerSync

Where Hub and WSHandler keep only that there *is* a player state, PlayerSync keeps which
change it stems from, an event of the host or a Close. A player event goes from the host's
tab into the row (`SaveRow`, which may fail and is then only logged), into
`Hub.playerStates` (`SetState`) and into the queue (`EmitSync`); `Deliver` hands it to a
viewer's `Send` or evicts the viewer; `Follow` is the browser. A snapshot, for a viewer
who joins or asks, is read from the hub or else the row (`SnapshotHub`, `SnapshotRow`) and
queued in a later step (`SnapshotQueue`); when the hub has no state and the row cannot be
read, nothing is sent. The host's own request reads, advances and writes the hub's state
(`RefreshRead`, `RefreshWrite`). `UpdateFind`/`UpdateSave` is a PATCH of the room, which
saves the player's columns as it read them. `Close` stops the player in the row and ends
the room, in one statement, and leaves the hub's state alone: events that had passed the
check of the status still go through, and their `Save` reopens the room (which is why
`closes` remembers which rows are closed ones). A Delete needs no action: what follows it
is a row that no reading finds, which both readings allow for at any time, and a `Save`
under way inserts the row again. `Restart` empties everything but the row. Three history
variables name the cases in which the code does not keep its promise, so that the
properties say exactly when it does: `late` (the viewer's last snapshot was read before an
event and queued after it, or there was none for want of a row; the next delivery or good
snapshot mends it), `crossed` (two tabs of the host in a handler at once, or the room
emptied under one), `unsaved` (the latest event was not saved, or a stale row was saved
over it; the next good `Save` mends it). Where the hub has no state and the row is closed
or stale (`OnlyTheRowKnows`), newcomers follow the row and those who are there were not
told: `ViewersConverge` says nothing of them. `Line` is what a viewer shows and will be
sent.

### Auth

A JWT is signed over the user and times in whole seconds, so the refresh token of an
account *is* the second it was issued in, and two of one second are one token under a
UNIQUE key. `Generate` is that conversion. Each request goes through its statements
(`req[r].pc`): Register and Login (`FindEmail`, `CreateUser`), `Issue` and `StoreToken`
for `issueTokens`, Refresh (`FindToken`, `FindUser`, `DeleteToken`, then `issueTokens`),
Logout (`DeleteToken`), UpdateProfile and ChangePassword (`FindUser`, `SaveUser`: the
whole row). Deleting no row is no error. `heirs[t]` is what `t` was exchanged for;
`shared` are the tokens that two refreshes were at work on at once, for which the code
gives no guarantee.

### Migration

Processes of any version (each ships a prefix of the migrations) start, stop at any
statement and lose their lock: `GET_LOCK` belongs to a connection, and the pool
replaces a connection that breaks (`ConnectionLost`). A migration is several statements
that commit one by one, so `ApplyInPart` may leave it half done. `disturbed` collects
what the table cannot show: a process that stopped within a migration or between it
and its row, a baseline of a schema of another version, a lock that was lost.
`baselined` are the rows that a baseline wrote.

### Deployment

The same database without processes, lock and table statements: one deployer runs the first
migration that has no row (`Run`) and then writes its row (`Record`), or takes a schema over
row by row before it has run anything (`Adopt`). `trusted` is lost by what the table cannot
show (`Disturb`); from then on it only promises that rows come in order and, but for adopted
ones, after their migrations. `Migration` maps onto it with `Present`, the migrations that are
in the schema, as `ran`, and with its history variables as they are. That a migration is
run again on a schema that has it is a stutter here, so `NeverRunTwice` stays a property of
its own.

### Movies

The row of one movie, and the requests on it: stream requests (`GetOriginalPath`),
updates and deletions. A stream request reads the row (`Find`), waits for the sidecar
(`Answer`, `NoAnswer`, or `AnswerPanics`, where a nil pointer is read and gin
recovers: the row stays as it is) and saves the whole
row if the address is new (`Save`, `SaveFails`). Addresses are numbers that the sidecar
gives out in turn; it may give an old one again. `newest` is what the last stream
request got; `stale` and `crossed` name the requests that overlapped.

### Download, BoundedRange, StreamProxy

`Download` is what `start_download` and its thread `_do_download` do with the one path of
a movie. A file is known by the task whose yt-dlp created it, and `pieces` says how much
of it there is: with `--no-part` it grows under its final name, and a file that was
removed lives on for who has it open. `status` is the registry, `worker` the thread, cut
at each call. An exception in the loop over yt-dlp's output fails the task and leaves
yt-dlp running (`ReadingFails`, `orphans`). yt-dlp itself is external (`YtdlpSkips`,
`YtdlpCreates`, `YtdlpAppends`, `YtdlpCompletes`, `YtdlpFails`), as is `Restart` of the
container, which forgets the tasks and keeps the volume. That yt-dlp looks for the file
and creates it in one step is an assumption about it: two that looked before either
created would truncate each other's file, and `PromiseKept` rests on files that only grow.
`BoundedRange` is `parseBoundedRange` with its forms of header; `Selected` is the
reference it is held against, RFC 9110's meaning of the header, lists and numbers of any
size included. Those the code refuses although they select something are named (`Unread`):
a list, another unit (which the RFC has ignored), a number past int64. `StreamProxy`
composes the two: `ExternalProxy` and `tryServeBounded`, one system call a step, so that a
download may do anything between the `Stat` of the path, the `Open`, the `Stat` of the
open file and the copying of its bytes.

### Sidecar

A call of `/extract`, `/stream` or `/formats` waits for a thread (`Take`), and then goes
through ladders of attempts, each a `subprocess.run` with a limit of 30 s: five ways to
find the address, three to find the metadata, two for the formats. An attempt ends by
`Succeeds`, `Fails` (the next way), `TimesOut` or `Breaks` (the end of the ladder), or
`Misprints`: what it printed was read and makes no response, a 500. The metadata of a
stream is optional, `found` says that the address is not: the ends of the metadata's
ladder are caught, a response that cannot be made of it is not, and loses the address
(`FoundIsKept` names that one case). `GiveUp` is the
client's `Timeout`; the thread goes on without it. `Tick` lets time pass for all, and
never past a limit that has to be acted on.

### Chat

A message is made (which fixes its second: `created_at` is a `DATETIME`), stored, and, if
it came over a socket, put into the hub's channel and delivered (`Make`, `Store`,
`StoreFails`, `Broadcast`, `DeliverChat`). The reader connects or not, and walks through the
history, by cursor or by page number: `Count` and `Find` are the two statements of
`ListByRoom`; `NextPage` and `NextCursor` are what the reader asks for after a page. Rows of one
second come in any order, and in another one on each query. What this module shares a name
for with `PlayerSync` (`ChatInit`, `ChatNext`, `ChatSpec`, `ChatTypeOK`) has its own, because
`EventProofs` extends both.

## 3. What TLC checks

| Run | Instance | Question | Distinct states |
|---|---|---|---|
| `ws_events` | host and member, all events, member's connection may break, 2 events | channels stay usable, what can crash | 0.7 M |
| `ws_reconnect` | host with two sockets, the first may break, a member, 1 player event | teardown, presence, player state and its audience, refinement of `SocketRegistry` | 2.0 M |
| `ws_liveness` | host and member, chat and snapshot requests, `FairSpec` | blocked goroutines, teardown | 43 k |
| `ws_stale_leave` | two sockets of one member | **violated**: the finding of section 4 | |
| `room_lifecycle` | host and two users, 2 slots, 5 requests, all operations, limits of 1 and 2 | columns agree, the end is final for later requests and for newcomers, mutes, overshoot | 0.4 M |
| `player_sync` | two tabs, a viewer, 2 events or Closes, a restart, a PATCH | convergence, the row keeps up, what may come out of order | 5.9 M |
| `auth_account` | 2 slots, 6 requests of all kinds, 2 passwords, 4 seconds | rotation, spent tokens, replaced passwords | 0.9 M |
| `migrate_runs` | 2 processes at once, 4 in all, 3 migrations, 1 lost lock | order and truth of the table, nothing twice, refinement of `Deployment` | 0.1 M |
| `movie_row` | 3 slots, 5 requests, 3 titles, 3 addresses | fallback address, titles, deletion | 0.5 M |
| `stream_proxy` | three downloads, a movie of 3 pieces, replies of at most 2, restarts, a request with any of 21 headers | ranges, promised bytes, what downloads leave | 6.6 M |
| `sidecar_calls` | 2 calls, 1 thread, `FairSpec` | who waits how long, what is answered, every call ends | 0.5 M |
| `chat_history` | 3 messages in 3 seconds, pages of 1 and 2, a reader | nothing is skipped or lost between history and socket | 3.6 M |

No run checks a type invariant: in every module it is a theorem (`TypeCorrect`,
`ChatTypeCorrect`), which says more than a run.

Bounds. All channels have capacity 1 instead of 256: the behaviours at a limit are those
of a full and of a non-full queue, and with 1 a queue is full after one message.
`MaxEvents` bounds what browsers send, `Fragile` names the connections that may break;
`MaxRequests` and `MaxRuns` bound what is started (`Served`, `Deployed` are the stutter
past it). Two sockets of one user and one of another make every case of reconnection; two
requests make every pair of a reader and a writer of a row, a third slot a stream request
between two others. A limit of one or two members and three users make a full room, one
that a PATCH narrows, and an overshoot. Six requests are enough for a registration, a
login, a change and three that cross them. A movie of three pieces, of which a reply
carries two, has a header on both sides of each boundary (an end past the file, a start at
its end, a suffix longer than the file or of nothing, a range over the chunk, numbers past
`MaxInt`, a list); one request at a time is enough, as requests share nothing but the
file; three downloads are one that writes, one that finds its file and one that removes
it. `Sidecar` counts time in units of 15 s, in which the code's limits are 2 for an
attempt and 8 for a call: its eight attempts may take 16, and two calls for one thread
make one wait for the other. In these units eight attempts of one unit are as long as the
client waits, so `InTimeUnlessSlow` says nothing of `/stream` in the run; for `/extract`
and `/formats` it does, and the theorem `InTime` has it for any limits. Three messages
over three seconds make a second that a page cuts and one that it does not; `Asked` has
the default (0), a size over the maximum and one within it. Tokens last 3 seconds, so that
one expires within the bound; a migration of the three may be run again without failing
(`Rerunnable`). `Halt` stutters in a crashed or quiet system, so that deadlock stays
checked everywhere: a blocked hub would be reported. Request slots, processes and the
members other than the host are symmetric; the runs with liveness or refinement use no
symmetry.

Fairness of `WSHandler` (`Fairness`). `HubProgress`: the loop's
goroutine is scheduled and only blocks in its `select`. `ServeProgress`,
`ReaderProgress`: a goroutine that is not blocked is scheduled. `PumpProgress`: a write
to a socket returns, or the read deadline of 70 s (line 173) ends `readPump`, whose
`Close` makes the write return; a closed connection is noticed by both pumps. Nothing
is assumed of browsers: neither that they send, nor that they read, nor that they go
away. `select` in Go is fair between ready cases only with probability 1, and no more
than progress of the loop as a whole is assumed.

Fairness of `Sidecar` (`FairSpec`): time goes on (`Tick`); `subprocess.run` and the
`http.Client` act on their limits (`TimesOut`, `GiveUp`); a thread that is free takes a
waiting call, strongly fair because the pool serves calls in their order, so that none is
passed over whenever a thread is free. Nothing is assumed of yt-dlp: neither that it
succeeds nor that it ends. `Download` has no fairness: its wait for yt-dlp has no limit, so
a task may stay in `downloading` for ever (see section 4).

## 4. Findings

`ws_handler.go:180`: `IsCurrent`, `Unregister` and the broadcast of `member:leave` are not
atomic: a reconnection in between is announced as a leave, against the comment of line 183
(`ws_stale_leave`).

The exceptions that the passing properties make are behaviours of the models, too, and
a reader should know of them:

* a `Save` of a stale row re-inserts a deleted room, revives a deleted movie or its old
  title (a stream GET does so), and restores an old password (a profile update);
* the capacity check of `Join` is not atomic with the insertion: `OvershootBounded` is as
  much as can be said; a socket token outlives a kick, and `Serve` makes its holder a
  member again (`ws_handler.go:116`): `ClosedToNewcomers` is about everyone else;
* of a movie that was created while the sidecar had no address `OriginalPath` is nil, and
  `media_source_provider.go:49` reads it: the stream request panics;
* a logout beside a refresh of the same token leaves the session with a new token
  (`auth_service.go:126`: deleting no row is no error);
* a baseline records all that the process ships, also what the schema does not have yet
  (`cmd/migrate/main.go:75`); the command parses no `-direction` flag, so
  `make migrate-down` runs what is pending (`README.md:160`); a table that was made by
  `internal/migration/runner.go` lists versions without `.up.sql`, and the command does
  not recognise them (`cmd/migrate/main.go:94`);
* downloads of one movie share its path: a failure removes what another has finished, a
  task that finds a file reports it `done` while it is still being written, and after a
  restart the proxy serves the part that was there as the whole (`WholeOrNone` and
  `LostOnlyToFailure` say when not);
* `_do_download` waits for yt-dlp without a limit (`main.py:487`): `DOWNLOAD_TIMEOUT` (line
  19) is only used by `run_ytdlp_download`, which nothing calls;
* `/stream` answers with the last line that `yt-dlp -g` printed (`main.py:210` on), which
  for separate formats is the audio's address;
* the client's 120 s may end before the attempts of `/stream`, whose thread then works on
  for nobody: `InTimeUnlessSlow` says what it takes;
* a viewer that gets its snapshot while older events are still in the hub's queue is shown
  the current state, then those, and then the current one again (`ws_handler.go:388`);
  `OnlySnapshotsOvertake` says that nothing else does this;
* `SendChat` looks up the author after the message is stored (`room_service.go:388`): an
  error there is a 500 for a message that is in the history; messages sent by REST are
  not broadcast; of a second that a page cuts, the cursor skips the rest; `per_page` over
  100 is clamped in the query and reported as it was asked; live messages come in the
  order of the channel, the history in that of `created_at`.

## 5. What is proved

Each theorem holds for every set of rooms, users, sockets, slots or processes and for
every bound that the module's named assumption allows.

`WSHandlerProofs` (`HubAssumption`, `WSHandlerAssumption`: sockets have a user and a room,
capacities are positive):

* `TypeCorrect`, `HubNeverPanics`, `NoSocketLeaks`, `NoOtherCrash`, `LeaveFollowsRemoval`:
  `TypeOK`, `RegisteredOpen`, `NoOrphan`, `CrashOnlyAfterEviction`, `LeaveAfterRemoval`.
  They follow from one inductive invariant, `IInv`. None of the properties is inductive
  alone: that a registered socket is open needs `PlaceOK` (an entry is under its own
  user and room, so that no other unregistration removes or closes it) and `LifeOK`
  (which program counters allow a registration or an unregistration under way: each
  socket is registered once); that a leave follows the removal needs `LeaveOK` (a
  leave in a queue is of a socket whose unregistration the loop has received, and
  the loop finishes that before it receives anything else); that deliveries go to
  open sockets needs `WorkOK` (work is one registration, or deliveries to distinct
  registered sockets).
* `AudienceStays`: `PlayerStateHasAudience`, from `AudienceInv`: a socket that got to the hub is
  in the map, was closed, or gave way to a rival (`Accounted`), and only a host's handler
  writes a player state, before its socket is unregistered;
* `PresenceGetsComplete`: `PresenceComplete`. That everyone is on the roster says nothing of how they
  get there, so the inductive `PresenceInv` is about what is still to come: a socket shows another
  that it has to show (`Owed`), or it will (`ToLearn`), because the other's `member:join` is yet to
  be queued, is in the queue or is being delivered, or because it is yet to ask who is there
  while the other is in the map, or has asked and has the other on its list. It holds because
  `Serve` hands over the registration first, then reads who is there, and queues the join
  last: a socket that comes into the map after the list was read is one whose own join is
  still ahead. It needs `IInv` for what the loop has in hand, and that a join leaves out its
  own user only;
* `HubImplementsRegistry`: `Spec => RegistrySpec`. Each step of the loop maps to
  `Attach`, `Detach` or a stutter under `SocketStatus`; everything else stutters. The
  same `IInv` supplies that a socket about to be registered was never current.

`RoomServiceProofs` (`RoomAssumption`, `NoRowAssumption`):

* `TypeCorrect`, `StatusAgrees`: from `IInv`, that the rows on their way to a `Save`
  agree too (`RowsAgree`) and that a request is where its operation leads (`RequestOK`);
* `OverStaysOver`, `MuteOutlivesMembership`, `NewcomersStayOut`: action properties, each
  from `IInv` and a lemma per effect of a step;
* `OvershootIsBounded` (finitely many users and slots): who came in through `Join` was
  counted by it, and between the count and the insertion every other slot adds at most
  one member; the invariant counts the two together.

`EventProofs` (`PlayerSyncAssumption`, `ChatAssumption`), of `PlayerSync`:

* `TypeCorrect`, `ViewersDoConverge`, `RowDoesKeepUp`, `ShownIsSaved`, from `IInv`. As long as
  nothing crossed, one tab is in a handler at a time and what it carries is what it wrote
  (`HandlerOK`); the row gets an event before the hub, the queue and the viewers do
  (`RowOK`, `SavedOK`). Convergence is not inductive in what a viewer shows: `ConvergeOK` is
  about the last thing it *will* have been told, the newest in the hub's queue, else the
  newest in its `Send`, else what it shows, and that only an event changes, or a Close when the hub is empty.
* `EventsKeepTheirOrder`: an action property, `OnlySnapshotsOvertake`. What a viewer shows, has in its
  `Send` and would be sent of the hub's queue is one line (`Line`), which ascends (`InParts`) until a
  snapshot gets into it. Nothing on its way is newer than the newest change (`Behind`); `OrderInv` adds
  to `IInv` that a tab in a handler carries the newest event, after which only Closes came (`NewestOK`).

And of `Chat`, from `ChatInv` (finitely many messages, page sizes that are positive):

* `ChatTypeCorrect`, `ShownIsInHistory`, `NothingFallsBetween`: a message is a row from its insertion on,
  only what came over a socket gets further (`MessagesOK`), and whose socket was registered when the
  walk began was so ever since (`WalkOK`);
* `HistoryIsComplete`: what a walk has missed so far is older than its cursor (`CursorOK`) or, by
  numbers, has as many newer rows as the pages behind it hold (`PagesOK`), however many rows came
  meanwhile. That a page then reaches it is a count: the rows of a second take the positions
  behind all newer ones (`RanksOfSecond`, `RanksInOrder`), so a page that begins before them and ends
  after has one of them (`PageReaches`), a first page with a row has all newer ones
  (`PageIsNewest`), and only the page of an empty query is empty (`EmptyPage`, which needs a newest
  row: the strict subsets of a finite set are well-founded).

`AuthProofs` (`AuthAssumption`):

* `TypeCorrect`, with what is stored or known issued by now;
* `SpentForGood`: a token enters the table only from a request that carries it, and a
  request carries only what it was given at the clock's time, so a token whose second
  is over and that no request is about to store cannot return (lemma `StepEffect`);
* `ReplacedForGood`: the same for passwords, which are chosen once;
* `HeirsAreSingle`: needs `HInv`: of a token that is not shared, at most one refresh has
  passed `FindToken`, and it is out of the table once an heir was issued.

`MigrationProofs` (`MigrationAssumption`):

* `TypeCorrect`, `RecordsInOrder`, `RecordsTellTheTruth`: from `Inv`, which adds what each
  process knows (`Knows`: all before its next migration is recorded). The schema and the
  table only grow, so what a process knows stays true while others run: no lock needed;
* `RunOnce`: here the lock is what matters. `CalmInv` says that, as long as nothing
  disturbed the schema, a process is past the lock exactly when it holds it (`Local`),
  so what it loaded from the table is still all that the schema has when it acts;
* `ActsAsOneDeployer`: `Spec => DeploymentSpec`, step by step: `Apply` is `Run`, `Record` is `Record`,
  `Baseline` is `Adopt`, what disturbs is `Disturb`, and everything else stutters. It takes
  `FaithfulInv`: as long as nothing was disturbed, what is recorded is in the schema, and a process
  that is about to take a schema over (`TakesOver`) found a table that had no rows but those it
  writes, and a schema that has all that it ships.

`MoviesProofs` (`MoviesAssumption`):

* `TypeCorrect`: a movie that had an address has one, in the row and in every copy that
  may be saved;
* `DeletedForGood`, `TitlesForGood`: from the effect of a step on the row and the copies;
* `AddressIsKept`: needs `FreshInv`: a copy that is not stale has the row's address.

`StreamProxyProofs` (`DownloadAssumption`, `MaxChunkAssumption`, `ProxyAssumption`):

* `RangeAnswers`: for every header and size, `parseBoundedRange` answers with the first
  bytes of those that the header selects, and refuses only when there are none, or a
  header that it does not read (`Unread`);
* `TypeCorrect`, `RangesAreServed`;
* `PromisesAreKept`: a file only grows, and who has it open keeps it: what `Stat` said of it
  stays there, whatever the path shows meanwhile;
* `WholeOrNothing`, `LostToFailures`: unless something was spoilt, a file at the path that is
  not whole has a task that is still writing it or is on its way to remove it, or had one that
  gave up on its yt-dlp.

`SidecarProofs` (`SidecarAssumption`), all from one invariant about each call alone:

* `TypeCorrect`, `ThreadsAreFreed`, `InTime`: the time on a thread is at most that of the
  attempts behind it, each as slow as the slowest, and of the present one (`Times`);
* `AddressIsAnswered`, `RefusalIsFinal`.

Only model-checked is liveness, which is out of the prover's reach: `ClosedSocketTornDown` and
`BlockedSenderReleased` of `WSHandler`, and `CallEnds` of `Sidecar`. Every safety property that a
passing run checks, invariant, action property or refinement, is a theorem.

## 6. Not modelled

The contents of messages, the wording of responses, the listing of rooms and movies,
the authors and texts of chats and that a room's deletion takes its chats along,
checksums that differ (a process stops then), what formats are sorted by. yt-dlp, the
database and the browsers are external: what they do is what the code in `src/` must reckon
with. `ExternalProgress`, `/status`, `/health`, `/extractors` only read; so does
`ExternalCacheStatus`, but for its call of `GetOriginalPath` (`proxy_handler.go:240`), which is
that of a stream request in `Movies` and may save the row;
`stream_handler.go` serves files from a directory that nothing in `src/` writes.
`CountRoomMembers`, `RoomEvent`, `UpdatePartial`, `DeleteByUserID`,
`SidecarClient.StartDownload`, `run_ytdlp_download`, `middleware/ratelimit.go` and
`internal/migration` are not called by the program. Database errors are `Fail`; a lost
database connection in the middle of a statement is told apart from one before it only
in a migration. The server, router, configuration, middleware and seeder have no state
of their own.

## 7. Plan

Done: all components that keep state. What could still be added, in this order:

1. Abstract specifications for accounts (a session and its tokens) and for downloads (a
   movie's file), and the proofs that `Auth` and `StreamProxy` implement them.
2. Composition: the player events of `PlayerSync` in the loop of `Hub`, so that the
   snapshot of a viewer and its registration are checked against the same queues.
3. The choice of a room code (`room_service.go:479`), which is random and left to the
   UNIQUE key of the table.
