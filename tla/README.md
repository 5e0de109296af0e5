# A TLA+ verification of origingame

origingame is a Go game server built on the `origin/v2` framework. A *node* is a
process and runs several *services*. Each service is one goroutine with a queue
of events: RPC requests, callbacks of its own asynchronous calls, timers. The
handlers of one service never interleave with each other. Everything hard about
this system happens *between* events and between services: a client leaves while
its login waits for the database, a notice overtakes nothing but may be lost, a
timeout fires for a call that was executed.

This directory holds TLA+ modules translated from the source, TLC configurations
that check them on small instances, and TLAPS proofs.

## 1. The system

| component | state | operations | talks to |
|---|---|---|---|
| `CenterService` | `mapUserInfo` (user -> status, GameService), `mapLogining`, `mapOuting` (timers), `mapBalance` + `priorityQueue` (loads), counters, area lists | `RPC_Login`, `RPC_UpdateStatus`, `RPC_UpdateBalance`, `RPC_UpdateUserList`, `CheckLoginTimeout` (1 min), `SyncAreaBalance`, queries | gates (login), GameServices (status, load, list), DBService |
| `GateService` / `MsgRouter` | connections (network module), `mapRouterCache` (client -> GameService, status) | `RouterMessage`, `login` -> `loginToCenter` -> `loginToDB` -> `loginToGs` -> `loginOk`, `OnDisconnected`, `RPC_GSLoginRet`, `RawCloseClient`, `RawRpcDispatch` | clients, DBService, CenterService, GameServices |
| `GameService` with `ObjectFactoryModule` | `mapPlayer` (user -> Player, taken from a pool), `mapClientPlayer` (client -> Player), load | `RPC_Login`, `RpcOnCloseCallBack`, `RpcOnRecvCallBack`, `CloseClient`, `DestroyPlayer`, `timerUpdateBalance` (10 s), `asyncPlayerListTimer` (once) | gates, CenterService |
| `Player`, `PlayerDB`, `collect` | client, session, last ping, loaded collections, load progress | load, save, ping timeout, release | DBService |
| `DBService` | one request queue per worker goroutine, row cache (`FCMap`) per collection, MongoDB, Redis | find, insert, update, upsert, delete, number add, Redis calls | everyone |
| `FCMap` | map + list in order of use, capacity, expiry | `UpsertData`, `FindData`, `RemoveCache` | DBService |
| `HttpGateService`, `LoginModule` | area list as JSON, cool-downs | HTTP login, area loading and reloading | AuthService, DBService |
| `AuthService`, `HotLoadService`, `BotService` | none, configuration tables, test clients | | |
| `common/util` | none | cool-down, game time, ids, tokens, choice of a node | |

A login runs through the whole system: the client gets a token over HTTP, sends
LoginReq to a gate, the gate asks the database for the user id, CenterService
for a GameService, and that GameService to attach the client; the GameService
reports the user to CenterService and sends the result to the gate, on another
way than the answer of the gate's call. A client or a message can be lost at
each of these points.

What makes the components correct:

- **CenterService**: an unconfirmed login always has a timer and is freed by it;
  the balance queue and the balance table agree; a registered user is sent back
  to the GameService that has it.
- **Gate and GameService**: each client that a GameService has attached is routed to
  it, or the gate's close notice is on its way; no connection points to a Player
  that is released or that another client has taken over; every login is
  answered; a Player whose client is gone is released even when the notice
  was lost.
- **DBService, FCMap**: to a player the service is one row that its requests read and
  change in the order they came in; the cache, the goroutines and their panics do not
  show; the cache's map and list hold the same keys and at most the capacity.
- **Player, PlayerDB**: an object of the pool serves one user at a time and a late answer
  never reaches its next life; a load ends with its last answer; what a user did is in the
  Player, in the row or on its way there.
- **HttpGateService, CenterService's counters**: whoever can log in is given areas; a
  reload shows the last edit; no change of an area's number of characters is forgotten between
  CenterService and the database, unless its message is lost.
- **common/util**: a refresh point is neither missed nor used twice; a cool-down bounds
  every stretch of its length; a draw without repetition can find every value left.

`PROJECT.json` lists the hazards at their lines, with the properties that cover
them.

## 2. Modules

    Center ------------ CenterProofs            (TLAPS)
      |   \------------ MCCenter                (TLC)
      | INSTANCE
    LoginSystem ------- LoginProofs             (TLAPS; INSTANCE CenterProofs)
      |     \---------- MCLogin                 (TLC)
      |  EXTENDS
    Gate, GameService
      |  EXTENDS
    LoginNet

    FCMap ------------- FCMapProofs             (TLAPS)
      |   \------------ MCFCMap                 (TLC)
      | INSTANCE ... WITH
    Cache                                       (abstract specification)

    DBService --------- DBProofs                (TLAPS)
      |     \---------- MCDBService             (TLC; its cache is Cache)
      | INSTANCE ... WITH, one for each row
    RowService                                  (abstract specification)

    RowService
      | INSTANCE ... WITH, one for each user
    PlayerRows -------- PlayerDBProofs          (TLAPS)
      |  EXTENDS
    PlayerDB ---------- MCPlayerDB              (TLC)
    Areas ------------- AreasProofs             (TLAPS)
            \---------- MCAreas                 (TLC)
    Util -------------- UtilProofs, ChoiceProofs (TLAPS)
            \---------- MCUtil                  (TLC)

### Center (service/centerservice/CenterService.go)

One action per handler: `RPC_Login` (split into `LoginKnown` and `LoginNew`),
`RPC_UpdateStatus`, `RPC_UpdateBalance`, `RPC_UpdateUserList`, and
`CheckLoginTimeout`, which runs both loops of the ticker as one step. Variables
carry the names of the fields. What is abstracted:

- *Time.* The code compares ages with limits and does nothing else with them, so
  an entry is "fresh" or "expired" ("stale" for loads). `LoginingExpires`,
  `OutingExpires` and `BalanceExpires` are the clock.
- *The heap.* `priorityQueue` is the set of GameServices whose item is in it. Which
  of several items of the same priority comes up first depends on the heap's
  history; `getBestGameServiceNodeId` allows every answer of highest priority
  and every set of unusable items that can lie before it.
- *The cluster.* `reachable` is what `IsNodeConnected` and `IsNodeRetire` say
  together; it changes freely.

`Reports` is the set of statuses the GameServices send. The handler accepts three;
GameService sends only `Logined`. Which properties depend on it is said with them.

### LoginNet, Gate, GameService, LoginSystem

`LoginNet` holds the messages and the channels. The framework sends one-way calls
and requests over one connection per pair of nodes, hence FIFO queues
(`toGS`, `toGate`, `toCenter`); the answer of an asynchronous call comes back
through the framework's call table and is ordered with nothing (`rpc`). The
framework is not part of the repository; this is how the code uses it.

`Gate` follows `MsgRouter.go` and `GateService.go`. A login attempt is one record of
`loginReq`: what the closures of the callbacks hold, and the answer they wait
for. `answered` has the attempts that got a LoginRes: each LoginRes is counted for the attempt
whose callback or result sends it. `DBAnswers`, `CenterAnswers` and `GSAnswers` are the callbacks, and
`CallFails` is the same callbacks with an error, which may come whether the call
was executed or not. `loginOk` enters the route *before* the GameService is
called and leaves it there when the call fails, as the code does. `conn` is "open",
"closed" (the peer or the gate has closed, the disconnect event has not been
handled) or "gone"; a callback may find any of them.

`GameService` follows `GameService.go`, `GameServiceRpc.go`, `MsgReceiver.go`,
`Player.go`, `PlayerData.go` and `ObjectFactoryModule.go`. A Player keeps its
`client` when that client is detached, because the code does, and the ping timeout
later closes whatever that id then stands for. Sessions are the ids of the logins
that created them. `checkPingTimeout` is the 30-second ticker; `PingGetsOld` is
the clock. A load may end, fail or never end. `asyncPlayerListTimer` sends the list, or, when the
node is being retired, the load alone.

`LoginSystem` puts them together with `Center` itself (`CenterService == INSTANCE
Center`): CenterService's actions are called with arguments taken from the
channels. It adds loss of one-way messages (`Lose`) and the restart of a
GameService node (`RestartNode`).

What a client can do is free: log in as any user with any session of `Presented`,
at any time, several times at once on one connection, send messages before or
after its login (`Talking`), send a LoginReq that is not accepted, and leave.

### FCMap, Cache

`FCMap` follows `UpsertData`, `FindData` and `RemoveCache`; each holds the map's lock, so
it is one action. The intrusive ring is a sequence of elements, front first. An
element has an identity of its own: it comes from a pool that all maps share, keeps its
old value there, and may come back for another key, which is what makes a forgotten
map entry dangerous (the mutant `Mut_Evict` shows one key reading another's row). `UpsertData` builds the list, the entries and the map as they are
after insertion and then lets the first `n` elements go; `Leave` says which `n` the two
eviction rules of the code come to. `Tick` is the clock in seconds; it does not run
backwards. A capacity or an expiration of 0, with which the code does nothing, is
excluded, and so is the row's version, which nothing reads.

`Cache` is what `DBService` may expect: a lookup shows the row written last or
nothing, a write is visible when it returns and may make the cache forget any other
row. The refinement mapping sends each key to the row of its element.

### DBService, RowService

`DBService` follows `RPC_DBRequest`, `RPC_RedisRequest` and `ExecuteOptData`. A request goes into
the channel of the goroutine its key selects (`WorkerOf`), or is refused when the channel is
full. A goroutine takes it (`Take`) and goes through the steps between which others can
come in: `field` (an entry was read, the changed one is not yet put back), `write` and
`read` (the call to MongoDB), `fill` (rows read and not yet in the cache). `noCacheKey` are the rows
a `findMany` did not find in the cache when it looked. A row is the
value of one field. That is what the operations differ in: `$set` and `$inc` change it, an
upsert replaces it, `$setOnInsert` leaves it, a row of an older version has not got it
(`NoField`), which is the case `findUpdateField` treats specially. `Keys` are rows of the
tables with a cache, requested as the rules at the top of `dbutil.go` say: with a cacheId
and never deleted. `PlainKeys` are all others. The FCMap of a table is taken by its specification:
an insertion may make it forget any other rows (`Inserted`).

Failures are a write that does not reach the database, one that does and whose answer is
lost, a read that fails, a request that makes the goroutine panic (`Panics`: `update` and
`updateMany` index `RawData` unseen), a restart of the process (`Restart`) and another
DBService node that writes the same rows (`OtherNodeWrites`: the choice of a node by key
changes with the list of nodes).

`RowService` is what a player may expect about one row: its requests take effect in the
order they were accepted, a find answers with the row, every request may fail. The order is
kept by tickets: a request draws a higher number than those that wait, and the lowest is
served next. The numbers need not be consecutive, so `DBService` may take the request ids, which are
given in order of arrival to all requests, those about other rows included. Three events
make it unsure what a find answers until the next start: a write of the row that failed
(the cache has it and the database has not), another node's write, and a
fill by a goroutine that does not serve the row's key (`findMany`, or a find keyed
otherwise), which a write may have overtaken. These are the code's real
gaps, and the variable `suspect` records them; everything else is proved absent by
the refinement. The mapping takes the database as the row, and as the ticket of a request its id
(`About`).

### PlayerDB, PlayerRows

The Players of one GameService as objects of a pool: `RPC_Login` takes one, whose last life
may still have calls under way, and asks for each table (`LoadFromDB`); `CallBack` is
`dbLoadCallBack` and `dbMultiLoadCallBack` with every outcome, a call's error, an
undecodable row, success, and with `AsyncCallNode`'s test of the session key; `Destroy` is
the ping timeout's or a logout's way back to the pool, with two saves of the document;
a failed load goes back without one. A document is its owner, the number of its last
change and whether it has a NickName. Failing sends and a restart of the GameService (which saves nobody) are actions.

What DBService does is written as steps of `PlayerDB`, on a queue for each user: `DBExecutes` takes the request in front,
`DBLoses` is a request that fails, `DBRestarts` empties the queues, and `Disturb` is another node that writes the row, as
happens when the choice of a node by key changes (`ExecDB`), or a cache that was filled with a row meanwhile written. Once
a user's save has failed or its row was disturbed, a find may answer with any document that the user has had (`MayAnswer`).

That these steps are all that DBService can do about a user is the matter of `PlayerRows`. It has the same Players, but it is
`RowService`, one for each user, that decides which request is served and how: a user's queue with the tickets
drawn (`Pending`) is the mapping. Each of its steps is one of `PlayerDB` (`ImplementsPlayerDB`). Two saves that a
release sends are two requests of one step, with two tickets. `RowService` itself lets finds answer with any row when they
are unsure; that it is one of the user's own is added here, since a cache entry is of the row's key and has been stored.

### Areas

Two services over the account database. HttpGateService loads the area list in two queries
(`RealAnswers`, `ShowIsRead`), joins them (`Join`) and starts the web server with the first
list; loads overlap when `RPC_ReLoadAreaInfo` comes, and operators edit the tables at any
moment (`Edit`). The login of `LoginModule` waits for the database and then hands out the
list as it is. CenterService has the characters of its area counted once (`CountUserInfoBy`), adds those
reported since (`RPC_CreateCharacterInfo`, which nobody calls today) and sends the sum to DBService one-way.
Neither the number that the database counts nor the reports are tied to anything: the gate that enters a new user
tells CenterService nothing (section 6). On its way a sum may be stored (`CountIsStored`), also before an
older one when the choice of the DBService node has changed, or be refused, fail or be lost (`CountIsLost`); `CenterRestarts`
loses the counters. Each service's state only meets the other's in the row of the area, which a stored count
creates without gates when there was none.

### Util

The algorithms of `common/util` that have boundaries, each driven by the smallest
program that uses it; the first state chooses which. `Refresh` is a program that
asks `CheckCanRefreshByHours` (or the form for weeks or months) at any time; `TestCoolDown` is a
program that calls as often as it likes; `Draw` takes values off a weight list;
`PickSlice` runs once. An instant is half an hour, so that "the hour of the refresh point" is more than the point. Dates
are modelled as `time.Date` and `AddDate` work on a calendar that is given by the first days of its
months (`FirstOf`); days of a month that not every month has (`EveryDay`) are left out, and with them the
days that `AddDate` carries over into the next month.

## 3. Runs

| run | instance | question |
|---|---|---|
| `center_safety` | 2 users, 2 nodes, one of them with two GameServices, player limit 1, reports Logined and LoginOuted | invariants and `AssignmentSticky` of CenterService under every order of handlers |
| `center_live` | 1 user, 1 node with 2 GameServices, all three reports, fair | `StuckOnlyByRetry` |
| `login_takeover` | 2 clients on 2 gates, 2 logins, 2 GameServices, every session | connections against Players and routes while one client takes over from the other, or has two logins in flight that CenterService sends to different GameServices |
| `login_faulty` | 1 client, 2 logins, lossy, talking, fair | no dangling connection, abandoned Players are released, CenterService's specification is respected |
| `login_live` | 1 client, 2 logins, one restart, fair | every login attempt is answered |
| `login_release` | 1 client, 1 login | violated: what the comment of `RPC_UpdateStatus` says (section 6) |
| `fcmap` | 4 keys, capacity 3, 2 rows, 3 clock values, checks of 2 removals | map, list, order and size agree; eviction; `FCMap` implements `Cache` |
| `db` | 2 cached rows on 2 goroutines, 1 uncached row, a third goroutine for requests without key; 3 requests of every kind, channels of 1 | the cache is coherent; each row implements `RowService`; channels drain |
| `player_db` | 2 users, 2 pooled objects, 2 tables, 2 lives, 2 changes | pool and map, late callbacks, lost updates, ends of loads |
| `areas` | 2 real and 2 shown areas in every initial state, 1 edit, 2 loads, 1 login, up to 1 character counted and 1 reported, 2 counts on their way | area list and counters |
| `util` | days of two hours, months of 8 and 9 days, 72 instants; cool-down of 2 calls in 2 instants; lists of up to 3 weights; slices of up to 4 | refresh points, cool-down, draws, choice |
| `cooldown` | as `util`, cool-down of 1 call in 2 instants | violated: what the comment of `TestCoolDown` says (section 6) |

`login_faulty` checks `ImplementsCenter`: the composed system, with its channels,
is an implementation of `Center!Spec`, whose callers are arbitrary. What is checked
or proved of `Center` for `Reports = {"Logined"}` therefore holds in the composition.

### Properties

*CenterService.* `LoginingIsTimed`: a user in status Logining has a timer.
`TimerHasUser`: a timer has a user (false with LoginOuting reports, which
leave a user without a login timer for the outing loop to delete). `QueueIsBalance`.
`AssignmentSticky`: when a step changes the GameService of a user who stays
registered, a report did it and not a login. `StuckOnlyByRetry`: a user who stays in
Logining for ever logs in again and again.

*Login.* `ClientPlayerLive`: an entry of `mapClientPlayer` points to a live Player
whose client it is. `AttachedIsRouted`: an attached client is routed there or its
close notice is in the channel. It holds without loss only; `OrphanReleased` is
what remains with loss. `LoginAnswered`: each LoginReq is answered by a LoginRes of its own, the result or
an error, unless the client leaves; the answer to one attempt does not count for another on the same connection. It needs delivery too: the success of a login
is told by one one-way message.

*FCMap.* `MapIsList`: the map and the list hold the same entries, each once.
`SizeBounded`, `OrderedByUse` (the list is in the order of last use), `EvictsOldest` (a row
evicted was used no later than any row that stays), `CheckIsThorough` (a check that
stops before its limit leaves no expired row, although it only looks at the front) and
`ImplementsCache`.

*DBService.* `CacheCoherent`: an entry of the cache is the row of the table unless a write of
that row is between the two, or the row is suspect (see above). `ImplementsRowService`: the
node is a `RowService` for each of its rows. `EveryRequestEnds`: between bursts no request
is left in a channel, also behind one that panicked.

*PlayerDB.* `MapIsPool`: the map and the objects in use agree. `ProgressIsOwn`: progress made and
answers outstanding never exceed the tables: no late or doubled answer counts.
`NoLostUpdate`: documents stay with their owner, and a user's last change is in the loaded
Player or will be in the row before a later load. `excused` are the users for whom the code
does lose it: a save without a node, a failed write, a GameService or DBService that ended, a row that another
node writes or that reached the cache late, and a user without a NickName, whose data `SaveToDB`
discards. `LoadIsAnswered`: a load that was sent ends. `LoadingEnds`: a
Player whose load was given up is released unless its client pings for ever.

*Areas.* `LoginHasAreas`: the web server has a list once it runs, and no login is answered
without. `KeepsTrying`: until then a load or its timer is under way, unless a load found
nothing. `ReloadTakesEffect`: a list installed by a load begun after the last edit is the join of
the tables. `CountIsSynced`: once the database has counted, the row has the sum that CenterService knows, or the
last count under way is that sum, or a change of it is still to be sent. Excused is a last count that was not sent, was lost, or
was overtaken by an older one (`countLost`): the code does not repeat it.

*Util.* `RefreshIsDue`: at every instant the program may refresh if and only if a point has
passed since it last did, and the date functions agree with each other. `CoolDownHolds`: a
refusal has more than countLimit calls before it, and no stretch of timeCycle lets through more than
2 * countLimit + 1. This is what is left of `CoolDownLimit`, the comment's promise of countLimit calls in
timeCycle, which the run `cooldown` refutes. `ChoiceIsComplete`: a draw from what is left always finds something and
can find everything, `PickSlice` keeps exactly the elements chosen, each as often as it was there.

### Bounds, and why they are enough

- `PriorityBound` (MCCenter) limits priorities to `-MaxDrift..MaxDrift`, that is -1..1.
  Priorities drift: a report that moves a user between GameServices, or enters one that
  was never charged, changes the load of neither or of one. Three distinct priorities give
  every order that two or three GameServices can be in.
- `Logins` limits login attempts: two is the least number with a takeover, a repeated
  login, and two in flight on one connection.
- `MaxQueue` limits only the messages of talking clients (`Talkative`). All other
  channels are bounded by the number of logins, clients and restarts.
- `MaxRestarts` limits restarts of GameService nodes.
- A load report is sent only while it would have an effect on CenterService
  (`GSReports`); a repeated one refreshes a time stamp that does not age here. Its ageing,
  retired nodes and logouts are in Center's own runs.
- `MaxTime` stops the clock of `fcmap`: from `StartTime` = 2 there are three times, enough for
  entries of three ages and for two checks. With capacity 3 and four keys one call can remove
  an entry in excess and then as many expired ones as a check may.
- `MaxReq` = 3 requests in `db`: a write, a find and a third that comes in between is what
  each hazard of the cache takes, and a restart forgets the requests but not their number.
  `MaxPlain` = 1 of them is about the uncached row, which has no state but its own.
  `ChannelNum` = 1 makes channels full. The reads of k2 belong to `findMany` only: the rows
  are alike, so one of them gets all operations of a player and the other is
  there to be met by another goroutine.
- `MaxLives` = 2: the second life is the one late answers of the first can reach.
  `MaxChanges` = 2: an old and a new change that can be told apart from no change.
- `MaxLoads` = 2 overlapping loads; `MaxEdits` = 1, but the tables start in every state that
  earlier edits can have left; `MaxUnstored` = 2 counts on their way, an old one and a new one; `MaxCharacters` = 1,
  counted or reported, makes three sums. `CountsOrLoads` has reported characters and a second count only before the
  first load begins: loads and counts meet only in the row that a count makes, which one count and one load show.
- `OneOfEither` in `login_takeover`: two clients with one GameService that CenterService knows, or one client with two.
  Each half shows a hazard of its own; both together are what `LoginProofs` is for.
- The calendar of `util` has every combination of weekday, hour, beginning and rest of an hour
  and end of month; `Horizon` covers eighteen days, with
  starts anywhere in the first seven: two points of each kind follow every start but those of a month,
  of which one does.
- No deadlock is checked where clients and logins are finite: the system then really
  comes to rest. In the Center, `db` and `player_db` runs deadlock is checked.
- Symmetry: users in `center_safety`; in `login_takeover` both clients together with their
  gates, logins, and the GameServices of the node; shown areas in `areas`; keys, elements and rows in `fcmap`. No symmetry where liveness is checked.

### Fairness, and why the code justifies it

Services run and their queues are read, so handlers of messages that have arrived are
weakly fair, and so are the disconnect event and the tickers. The framework ends every
asynchronous call, by its answer or by a timeout: `CallFails` is weakly fair, which says
only that a call does not stay open for ever. Time passes (`PingGetsOld`,
`LoginingExpires`, `OutingExpires`). Nothing is assumed of clients, of losses, of
restarts, of the database's answer or of the load of a Player.

In `db` each goroutine is weakly fair: it recovers from a panic and calls itself again, and
each call to MongoDB has a deadline (`GetDefaultContext`). In `player_db` the callbacks of a
load are weakly fair, since a call without an answer runs into its timeout, and so are the
clock of a silent client and the 30-second ticker; DBService is not assumed to do anything.

## 4. Proofs

`CenterProofs` proves, for every set of users, nodes and GameServices, every player
limit and every set of reported loads, from `CenterAssumption` alone:

- `TypeCorrect`: `Spec => []TypeOK`. `FreedType` and `RefreshType` carry the
  arithmetic: what deleting a set of users gives back is a natural number because the set
  of users is finite.
- `LoginsAreTimed`: `Spec => []LoginingIsTimed`. Inductive together with `TypeOK`: a
  step that leaves a user in Logining either starts the timer or leaves both alone;
  the ticker takes away expired timers only of users that it deletes or that
  are Logined.
- `QueueCorrect`: `Spec => []QueueIsBalance`. The invariant is inductive with `TypeOK`;
  the work is in the items popped on the way to the answer.
- `TimersHaveUsers`: `Spec => []TimerHasUser`, assuming `"LoginOuting" \notin Reports`. It is
  not inductive: the second loop of the ticker could delete a user with a fresh login
  timer. The strengthening (`NoOuting`) says that no logout timer runs, which is true when no
  GameService reports a logout.
- `LoginsAreSticky`: `Spec => AssignmentSticky`, from `TypeOK`, by cases on the actions.

`FCMapProofs` proves every property of the `fcmap` run, for every set of keys, rows and
elements, every capacity and expiration above 0, and every check interval and length, from
`FCMapAssumption`. `Inv`, the conjunction of `TypeOK`, `MapIsList`, `SizeBounded` and
`OrderedByUse`, is inductive, and none of the last three is without `TypeOK` and
`MapIsList`. The argument goes through a pair of a list and a map that belong together
(`Linked`, `Ordered`) and three lemmas: removing an element with its key
(`WithoutLinked`), appending one for a key without an entry (`AppendLinked`), and dropping
a prefix (`EvictLinked`). An upsert and a hit of a lookup are the first two in a row, an
eviction is the third. `WrittenStays` shows that the element just written never leaves: it
is the last, and it is neither in excess nor expired. `EvictsOldest`, `CheckIsThorough` and
`ImplementsCache` follow by cases on what an eviction keeps (`EvictedAndKept`); the number
of rows evicted is the length of the prefix by a bijection (`EvictedCount`).

`AreasProofs` proves every property of the `areas` run, for any set of areas and logins and
any number of edits, loads and characters, from `AreasAssumption`:

- `TypeCorrect`: inductive; `CountTaken` says what is left of the counts on their way when one is taken out.
- `LoginsHaveAreas`: inductive with `ServedLater` (nobody logs in before the web
  server runs). `AlwaysTrying` is inductive alone: every failure starts the timer again.
- `ReloadsTakeEffect`: the list that is installed is that of the load that ends, so the
  strengthening (`ReadIsFresh`) speaks of loads in flight: what one begun after the last
  edit has read is what the tables have. An upsert that makes the row of the area counts as an
  edit; one that finds the row leaves the tables alone.
- `CountsAreSynced`: inductive with `TypeOK`; a count that is stored or lost leaves the last one on its way as it is,
  or was the last: then it is the row's number, or it is excused.

`LoginProofs` proves the safety of the composed login system, for any number of clients, gates,
GameServices, users, sessions and logins. Its assumptions are those of the modules (that GameServices report `Logined`, and
that their load is a number of users, of which there are finitely many), and `CenterExpects`: the constants of the system satisfy
`CenterAssumption`.

- `TypeCorrect` and `ClientsHavePlayers`: `ClientPlayerLive` is inductive with `TypeOK`. What makes it
  so is that every way in which a Player loses its client, a takeover, a close, the ping
  timeout, a failed load, also takes the client out of `mapClientPlayer` in the same step.
- `AttachedAreRouted`: `~Lossy /\ Spec => []AttachedIsRouted`. The hypothesis is that of the property: the
  runs with loss show that it fails there. The property speaks of routes and close notices only,
  and says nothing of a login that has not reached the GameService yet. The strengthening
  (`RouteInv`) says that what comes from a gate is about its own clients (`OwnGate`), and that a login request in the
  channel to a GameService has its route there already (the
  gate enters it *before* the call) or a close notice behind it (`LoginIsRouted`). So whatever the
  GameService attaches is routed, or will be detached.
- `CenterIsImplemented`: each step of the system is a step of `Center` or leaves its variables alone. What
  has to be proved is that the messages which arrive are inputs that `Center` allows: a call that waits there is that
  of a login, and a message in a channel is one it accepts (`CenterInv`).
- `CenterStaysSound`, `SystemTimersHaveUsers`, `SystemLoginsAreSticky`: what `CenterProofs` shows of `Center` on its own
  holds of it in the system, whatever gates and GameServices do and the network loses. They are the theorems of
  `CenterProofs` instantiated with the system's variables (`Proved == INSTANCE CenterProofs`), `CenterIsImplemented`, and
  `CenterExpects` for their assumption. The lemmas between say that the two instances of `Center`, the
  system's own and the one of the theorems, have the same operators.

`DBProofs` proves the safety of `DBService` for any number of rows, goroutines, requests and any
depth of the channels. `CacheIsCoherent` and `RowServiceIsImplemented` assume `CacheCompress`, which is
what the repository's configuration sets
(`src/bin/config/dev/cluster/service/dbservice.yml:9`); without compression both are false, by the flaw of
`findUpdateField` in section 6.

- `TypeCorrect` with `QueueInv`: a goroutine has exactly the requests before it that `WorkerOf` sends to it,
  oldest first, is at a step that its request goes through, and ids are given in order of arrival.
- `CacheIsCoherent`: the strengthening (`AllCoherent`) says of each row that is not suspect what the row's own goroutine
  (`Server`) may have changed in the cache and not yet in the database, or the other way round, at each of
  its steps. Only that goroutine can be between the two, since all requests that write the row go to it;
  a goroutine that fills the cache with somebody else's row makes it suspect. `Exists` says that whatever waits, is cached
  or has been read is about a row that exists, `HeldBefore` that what a step leaves behind is about rows that existed before it.
- `RowServiceIsImplemented`: by cases on the steps. A step about another row is a stutter, or takes nothing from the
  row's tickets; a goroutine that takes a request from its channel or
  passes from step to step changes nothing in the mapping. That the row's request with the lowest id is the one
  served is `QueueInv`: all of them are with one goroutine, and its channel is in the order of ids. `CacheIsCoherent`
  gives the answers of finds.
- `CacheIsUsedAsSpecified`: a step of `DBService` leaves the cache of a table alone, removes an entry, or puts entries in one
  after the other as `Cache` has it (`Put`). An insertion of several rows (`Inserted`) reaches exactly the caches
  that such puts reach in some order (`InsertedIsPuts`), so `DBService` assumes of the map neither more nor less than what
  `FCMapImplementsCache` proves of `FCMap`. It assumes that the rows of the tables are finitely many.

`PlayerDBProofs` proves the safety of `PlayerDB` for any number of users, pooled objects, tables, lives and
changes, from `PlayerDBAssumption` alone. The properties are not inductive one by one; `PlayerInv` is
their conjunction with
- `Keys`: no object and none of the finitely many calls under way has a session key that has not been given out, and an
  object in use has its user and no more errors than answers. A key is of one life only.
- `Finds`: a find that waits at DBService has a key that was given out, and an object with that key is the user's.
- `Answers`: an answer on its way to the life that asked for it has the last change of its user.
- `Loads`: an object that has asked for every table, had no error and whose document is not on its way any more
  has the last change.
- `Rows`: rows and saves are of their user, and when the user is not loaded, its row has the last change or
  the last save that waits does (`Stored`).
- `FindIsLast`: no save waits behind the find of a Player that is in use, since a Player saves only what it has loaded.

All that speaks of the last change excepts the users in `excused`.
`NoUpdateIsLost` then follows from `Loads`, for a loaded Player, and from `Rows`. What the queue of a user will have made of
its row (`Value`) is the last save in it; that a nonempty set of places has a last one is `LastPlace`, by well-foundedness of `Nat`.

`PlayersFitRowService` proves `ImplementsPlayerDB` of `PlayerRows`, for tickets that are natural numbers. Its invariant
(`RowsInv`) adds to `PlayerInv` that the tickets of a queue go up and that whoever's finds are unsure is excused. That they go
up makes the lowest ticket, the one `RowService` serves, that of the request in front (`HeadIsServed`), and a step that
draws tickets continues them (`DrawnGoUp`). `NoUpdateIsLostOverRows` follows: with `RowServiceIsImplemented`, what
`NoLostUpdate` promises is carried by DBService as it is modelled, and not by what `PlayerDB` takes it to be.

`UtilProofs` proves, for every calendar, cycle and limit, from `UtilAssumption`:

- `RefreshesAreDue`: the invariant (`RefreshInv`) says that `passed` is true exactly if there is a point after the last
  refresh and not after now. The rest is arithmetic: `AtOrder` turns comparisons of instants into
  comparisons of days and hours, and `NextDay`, `NextWeek`, `NextMonday` and `NextMonth` show that each
  function returns a point, a later one, and passes none over (`IsNext`).
- `CoolDownAlwaysHolds`: the property speaks of every stretch of a cycle, the code only of the present period. The invariant
  numbers the calls let through: the present period began with the last but `Count`, the one before it at most
  `countLimit + 1` calls earlier and more than a cycle ago (`Periods`); hence of any
  `2 * countLimit + 2` calls the first and the last are more than a cycle apart (`Spread`), and counting is a
  matter of intervals (`FewInACycle`, `RefusedAfterMany`).

`ChoiceProofs` proves `ChoiceIsAlwaysComplete`, for every list of positive weights and every slice, from the same assumption.
It is about sums over every order of a list and about what a recursion over a slice leaves, for data of any length. An
induction is done on a set of numbers: were there a counterexample, there would be a smallest
one (`Smallest`). A fold and a recursive function are CHOOSEn, so each is first shown to exist, by extending it one step
at a time (`FoldUpTo`, `PickUpTo`), and hence to satisfy its equation.

- Draws: a sum over a set does not depend on the order in which it is taken (`SumAny`), so every order of the list adds up to
  `sum`, which a draw keeps right (`DrawInv`). A number below `sum` thus lies in the stretch of some value
  of any order (`EveryOrderHits`), and of each value that is left when it comes first (`EachIsHit`).
- Choice: in each step of the two pointers what is left of `leftPos` is chosen (`TakenBefore`), and a swap keeps how often each
  element is there (`SwapCounts`); when they meet, the chosen are the prefix (`CutPicks`).

Only model-checked is all liveness (`StuckOnlyByRetry`, `LoginAnswered`, `OrphanReleased`, `ReleaseIsReported`,
`EveryRequestEnds`, `LoadIsAnswered`, `LoadingEnds`): it rests on fairness, whose ENABLED the prover does not handle.

`PlayerRows` and the use of `Cache` have theorems and no run. What is left to the reader's comparison is that the requests
`PlayerDB` makes are among those `DBService` accepts, a find of one row and a replacement of it, and that the network
between them keeps the requests of one GameService in order.

## 5. Not modelled

About half of the implementation's lines are data or generated: the keyword list (4151
lines), the protobuf files (about 5100) and the tables. Of the rest the following is left out.

- *Queries and statistics*: the area lists and administrators' queries of CenterService (lists
  that each answer replaces as a whole), message and database statistics, the analyzers. They change
  no state that anything else depends on.
- *HotLoadService, BotService, AuthService*: file reading and a pointer swap; a test tool;
  a stateless check that no caller reaches (section 6).
- *Code without a caller*: the edits of multi-row collections in PlayerDB (`InsertMultiRow`,
  `RemoveMultiRow`, `ApplyMultiRow`), `DoSetOnInsertFind`, the Redis commands, `RemoveCache` of
  DBService, `checkLoginCd`, most of `FCMap`'s list. `RPC_CreateCharacterInfo` has none either, but is small enough to be
  kept as an action of `Areas`. `bCloseStatus` is never set, so the refusal of
  logins during a shutdown cannot happen.
- *DBService*: creation of indexes at the start, configuration, the compression of entries (its
  outcome for entries that cannot be changed is), selection of fields.
- *common/util*: geometry, formatting, bit operations, tokens, encryption, record files: one-line
  functions and calls into libraries.
- Restart of a gate or of CenterService within the login system. A deleted row of a cached table (`dbutil.go` 10 rules it out and
  `DoDelOne` does not drop the entry).

## 6. What the code does and its text does not say

`PROJECT.json` has each with its lines. Two have a run. In `login_release`, the comment of `RPC_UpdateStatus` says
it is called when a Player is released; nothing calls it then, and the user keeps its
place in the registry. In `cooldown`, the comment of `TestCoolDown` promises countLimit calls within timeCycle;
the call that begins a period is not counted, so countLimit + 1 pass in one period, and more across two. The others are visible in the model as the behaviour of an action:

- *CenterService*: the ticker keeps a user whose logout timed out and calls the state
  impossible that `RPC_UpdateStatus` has just created; `SyncAreaBalance` dereferences a nil error
  when its send fails; the query for the shown areas names a field that is stored otherwise;
  characters created after the start are never counted, since the gate that creates them (`loginToDB`) does not call
  `RPC_CreateCharacterInfo`.
- *GameService*: a message of an unknown client should close it, but the nil test never
  fires, because `GetClientPlayer` wraps a nil pointer in an interface; a Player's session is overwritten
  with the empty one of the request before it is sent, so no client can ever resume one.
- *DBService*: a Redis request is never executed and never answered; without compression
  `findUpdateField` spoils an entry that it cannot change.
- *LoginModule*: the login of a platform account calls a method of AuthService that does not exist.
- *common/util*: `GetNextWeekDay` answers
  with Monday on Sundays; `SetGameTimeSec` divides by 24 instead of 3600;
  `RandomMultiValueByFixedWeight` with repetition shrinks the total weight.

Three more states that the code calls impossible or excluded are reachable in the model
and are listed as hazards: a report of a user CenterService does not know
(CenterService.go:399), a report of another GameService than the stored one (406), and a
route entered for a client that has gone (MsgRouter.go:410).

## 7. Plan

1. *(done)* `Center`, `CenterProofs`.
2. *(done)* `LoginNet`, `Gate`, `GameService`, `LoginSystem`.
3. *(done)* `FCMap`, `Cache`, `FCMapProofs`.
4. *(done)* `DBService` with `RowService`; `PlayerDB` over it; `Areas`, `AreasProofs`; `Util`.
5. *(done)* `LoginProofs`, `DBProofs`, `PlayerDBProofs`, `UtilProofs`, `ChoiceProofs`: each safety property that a passing
   run checks is a theorem.
6. *(done)* The theorems of `CenterProofs` for the composition.
7. *(done)* The seams: `DBService` uses the cache of a table as `Cache` allows, and `PlayerDB` over `RowService` (`PlayerRows`).
8. Restart of gates and CenterService in `LoginSystem`.
