# Formal models of mathplat

mathplat is a NestJS backend for learning mathematics: Google sign-in, a curriculum tree, problems
with automatic grading, progress, experience points and achievements, and Socket.io rooms. MySQL
holds the data (through Prisma), Redis caches it, and PM2 runs one Node process per core
(`ecosystem.config.js:13`, cluster mode). Every handler is an `async` function; between two of its
awaits any other handler, in the same process or another, may run. No handler opens a database
transaction. That is where the difficult behaviour lies, and what these modules are about.

## Inventory

| Component | State | Operations | Hard part |
|---|---|---|---|
| `AuthService`, guard, controllers (`src/auth`) | user and session rows, `session_invalid`, `user_info` keys, tokens | login, refresh, validate, logout, dev signup and login | concurrent logins and refreshes, logout racing refresh, lost answers |
| User accounts (`src/user`) | `deletedAt`, `user_info` | profile, update, soft delete, restore | a login racing a deletion, a profile cached after it |
| Attempt submission (`src/attempt`) | attempt rows | `submit` | six updates after the insert, none atomic |
| Progress (`src/progress`) | one row per user and topic, its cache key | `updateProgress`, reads | read, compute, upsert |
| Achievements, stats (`src/achievement`) | stats row, earned achievements, cache keys | stats update, `checkAchievements`, reads that create | read through a cache, then written back |
| Problems (`src/problem`) | problem rows, cache key | CRUD, solve statistics | stale fills, stale counts |
| `CacheService` (`src/core/cache`) | Redis, `stats.connected` per process | get, set, del, keys, incr, expire | every error is swallowed |
| Curriculum (`src/curriculum`) | five tables, a key per tree and per list | CRUD on each level, tree and list reads | invalidation along ancestors that may be deleted, reads in five statements |
| Soft delete, `DeleteMigrationService` | `deletedAt` | the nightly job of every process | foreign keys, an error per table |
| `SocketGateway`, `RoomManagerService` | four maps per process | connect, join, leave, chat, disconnect, notify | every way out must leave every map |
| `RateLimitMiddleware` | one counter per address and path | `use` | increment and expiry are two calls |
| Setup wizard, bootstrap | `.env`, the databases, one wizard per process | forms, skip, test, shutdown, connect | what is written before it has been tested |

Not in the table because they keep no state the rest relies on: the cache interceptor and the
WebSocket guard (nothing uses them), logging and its backup, health checks, encryption and hashing
helpers, time zones, the exception filter, response wrappers, DTOs, decorators, and the WebSocket
documentation generator.

### How they interact

- The guards call `AuthService.validateSession` before every protected handler; the gateway has an
  adapter of its own (`socket-auth.adapter.ts`).
- `UserService` and `AuthService` share the user rows and the `user_info` keys; the soft-delete
  middleware hides a deleted row from every read that does not ask for it.
- `AttemptService.submit` calls, in this order, `ProblemService.findById`, its own repository,
  `ProblemService.updateStats`, `ProgressService.updateProgress`,
  `AchievementService.updateStatsAfterAttempt` and `AchievementService.checkAchievements`.
- All services share `CacheService`, which turns every Redis error into a miss or a no-op.
- `DeleteMigrationService` removes, over raw SQL, rows the services have soft-deleted a month before.
- The middleware runs before the guards, for HTTP only; the gateway has no limit.
- The processes of the cluster share MySQL, Redis and `.env`, and nothing else: sockets and rooms
  are those of one process.

### What makes each component correct

| Component | Correctness |
|---|---|
| AuthService | a closed session never opens again; hashes and tokens agree; the overrun of the device limit is bounded; a token is never lost to everybody |
| User accounts | a login that meets a deleted account opens nothing; the composition still implements the session table; a deleted profile leaves the cache |
| Submission | derived figures never exceed the attempts behind them and are exact when requests do not overlap; achievements only for what was done; numbers follow the order of attempts; the calls of a request run out |
| Read-through caches | what is served was once true of that row; a stale copy has a cause, and its end |
| Curriculum | a cached tree or list that is out of date has a cause, deleted ancestors included |
| Delete migration | the order of the tables is enough for one night |
| Gateway and rooms | the four maps agree with each other and with Socket.io; default rooms cannot be left |
| Rate limit | at most twice the limit in any minute, but for requests no counter knows of; a counter that does not expire has a cause |
| Setup wizard | no process serves from a database without tables unless a form has failed; every form ends |

## Modules

| Module | Role |
|---|---|
| `AuthService` | the login, refresh, validation and logout handlers, await by await |
| `SessionLifecycle` | abstract specification of the session table |
| `AccountLifecycle` | `UserController` and `UserService`, composed with `AuthService`; both implement `SessionLifecycle` |
| `Submission` | `POST /attempts` and `GET /stats/me`, await by await |
| `ReadThrough` | problems, progress and lists of achievements read and written through `CacheService` |
| `Curriculum` | the curriculum routes, tree and list caches |
| `DeleteMigration` | extends `Curriculum` with rows that expire and the nightly jobs |
| `SocketGateway`, `Presence` | the gateway of every process, and the one table it implements |
| `RateLimit` | the middleware and the three cache calls it makes |
| `SetupWizard` | from the start of a process to its database connection |
| `*Proofs` | theorems for every value of the constants: one module for each model, those of `AccountLifecycle` and of `DeleteMigration` with what they extend |
| `Sums` | lemmas about sums over finite sets, for the proofs |
| `MC*` | the definitions the configurations give to constants, and symmetry sets |

The services are modelled in one way. A request in flight is a record `req[r]` (`call[c]`,
`post[r]`) whose `pc` names the await it is suspended at; an action performs that database or cache
call and all the code up to the next await; local variables that survive the await are fields of the
record. MySQL statements are atomic one by one, since no handler opens a transaction. Operators
introduced by a comment "Faulty variant" are not part of any specification: each is a plausible
defect of the definition that follows it, and substituting it makes some checked property fail.

### AuthService

| State | Code |
|---|---|
| `account`, `deleted` | `User` rows: how the row was made, whether `deletedAt` is set |
| `owner`, `valid`, `hash`, `expired` | `UserSession` rows: `userId`, `isValid`, `refreshToken`, `expiresAt` in the past |
| `issuedFor`, `held` | the session id in a signed refresh token; the tokens clients have received |
| `marked`, `info` | `session_invalid:{sid}` and `user_info:{uid}` |

`GoogleLogin` to `Respond` are `handleGoogleLogin` with `invalidateExistingSessions` and
`createSession`; `DevSignup`, `DevLogin`, `InvalidateOwned`, `CreateHashed` are the development
routes; `RefreshTokens`, `Rotate`, `ExpireRow`, `FindAll`, `InvalidateAll` are `refreshTokens` with
its reuse alarm; `Logout`, `CheckMark`, `ReadInfo`, `ReadRow`, `CacheValidated`, `InvalidateOne`,
`ClearInfo` are the two logout routes behind the guard. `Die` ends a request at any await, which is
also how an answer is lost.

As the program ships, nothing calls `setCacheService`, so `CacheAttached` is FALSE there
(`auth_db`); `auth_cache` and `accounts` set it to TRUE to cover the branches that are written for it. With a cache the guard's `user_info` lookup (`auth.service.ts:352`) accepts any session of a
user whose key is present, and only `session_invalid` keeps a closed session out;
`ARCHITECTURE.md:729-731` describes the lookup as part of validating a session.

### AccountLifecycle

Extends `AuthService` with `call[c]`, one record per `UserController` request, and writes `deleted`
and `info`, which the handlers of `AuthService` read: `DeleteRow` and `RestoreRow` are the two
updates of `deletedAt`; `GetInfo`, `FindRow`, `SetInfo` are `findById` with its cache;
`FindLive` is the look-up before `update` and `softDelete`, and `UpdateRow` names the row by id
alone, so a row deleted in between is written all the same. `InvalidateUserSessions` deletes
`user_session` and `session:*` keys, which no code writes, and therefore changes nothing. `barred` is
history: logins that began on a deleted account which has not been restored since.

### Submission

| State | Code |
|---|---|
| `number` | `UserProblemAttempt` rows: `attemptNumber` |
| `solve` | `Problem.solveCount` and the count of right answers behind `correctRate` |
| `progress` | `UserProgress` rows: `problemsSolved` and the count behind `masteryLevel` |
| `stats`, `earned` | `UserStats` and `UserAchievement` rows |
| `cached` | the `user_stats` key |
| `today` | the calendar day of the server |
| `progressed`, `countedOn` | history: which requests have written the progress and the stats |

`Submit` to `UpdateProblemStats` are `AttemptService.submit` up to the problem's statistics, then
come `ReadProgress` and `UpsertProgress` (`updateProgress`), `GetStats` to `FillStats`
(`findStatsByUserId`, shared by three callers), `UpsertStats` and `DelStats`
(`updateStatsAfterAttempt`), `FindEarned` to `DelRewarded` (`checkAchievements`). The two counts of
`getProblemStats`, and the two reads of `checkAchievements`, are issued together by `Promise.all` and
may happen in either order here. `ungraded` is the verdict of a problem that is not marked
automatically: the attempt is counted, but not as progress and without XP.

### ReadThrough

| State | Code |
|---|---|
| `row`, `live` | an entry's row in MySQL (its contents: how often it was written), and whether a read finds it |
| `copy` | what Redis holds under the entry's key, with or without a TTL |
| `connected` | `stats.connected` of each process: set at start, by one attempt to reach Redis |
| `spoilt` | history: copies filled after a write their reader had not seen, or whose delete was lost |

One entry stands for one problem, one user's progress on one topic, or one user's achievements. A
read is `get`, `find`, `set`; a write looks for the row (problems), writes it and deletes the copy;
`UpdateStats`, `UpdateProgress` and `GrantAchievement` are the writes `submit` makes, with the
invalidation each of them does. A process that starts without Redis skips every call
(`cache.service.ts:68-129`), and any call may fail and be swallowed.

### Curriculum and DeleteMigration

| State | Code |
|---|---|
| `row`, `ver` | a row's place in its life (absent, live, deleted, expired, purged) and how often it was written |
| `tree`, `list` | the cached trees (`curriculum:{id}`) and lists (`curriculum_list:{grade}:{semester}`) |
| `lateTrees`, `lateLists` | history: copies that were out of date when they were stored |
| `done`, `due` | how far tonight's job of a process is; history: the rows it has promised to remove |

The seventeen routes of `CurriculumController` become one action each, which names the row that is
looked for first, the row that is written, and the ancestors that are read again on the way to the
root (`invalidateTopicParentCache` and its copies). `Find`, `Write`, `Climb`, `DelTree`, `ScanKeys`
and `DelList` are the awaits they share. `ReadLevel` is one of the five statements behind the nested
`include`. A soft delete leaves the children live, so a tree is what can be reached from a live root.
`Expire` is thirty days passing over a deleted row; it waits until requests, copies and jobs of those
days are gone, since they live for hours at most. `MigrateModel` is one raw `DELETE` with the
`catch` around it: it removes all expired rows of a table or none.

### SocketGateway and Presence

`place` and `data` are a socket's connection and `socket.data.userId`, `adapter` what Socket.io's
in-memory adapter keeps; `connectedClients`, `userSockets` and `roomMembers` are the maps of
`SocketGateway` and `RoomManagerService`, one set per process. All awaits in these handlers settle
without I/O, so a handler is one step; clients, processes and lost connections interleave. `Presence`
is what the rest may rely on: a socket is absent, or present as one user and hearing a set of rooms
that always holds the user's own and the broadcast room. `SocketGateway` implements it with
`who <- data` and `hears` read off `roomMembers`. `ForceLogoutUser` changes nothing: it throws before it
disconnects anybody (see below).

### RateLimit

`count` and `life` are the counter and its remaining TTL in ticks, `Forever` without one; `connected`
as in `ReadThrough`; `call[r]` is a request whose `INCR` is under way, whose `EXPIRE` is, or that knows
its number. A command that fails may have been executed all the same: `IncrUnanswered` and
`ExpireUnanswered` are Redis doing its part and the answer getting lost, after which ioredis sends the
command again (`Incr`, `Expire` once more) or gives it up (`IncrFails`, where `CacheService.incr`
answers 0, and `ExpireFails`). So a second `INCR` may answer 2 to the request that made the counter, and
its `EXPIRE` is never sent. `UseUnconnected` is a request to a process without Redis. `recent` is
history, all requests let through in each tick of the last window; `free` those of them that no counter
knows of; `orphaned` the counters that have lost the `EXPIRE` of their first request.

### SetupWizard

`env` is the contents of `.env`, `db` the state of each database a form may name (absent, empty, with
tables), `phase`, `seen` and `using` what each process does, the `.env` it found at its start
(`ConfigModule.forRoot` reads it on import) and the database it serves from; `post[r]` a `POST /setup`
between its steps; `leaving` the processes whose shutdown timer is armed. `failed` is history.

## Runs

Every run checks deadlock: a client may always send one more request, time may pass, or a process
may be started.

| Run | Bounds | What it shows |
|---|---|---|
| `auth_db` | 1 user, 3 sessions, 4 tokens, 2 requests in flight, dev routes, requests may die | types; hashes and tokens agree; sessions that a request closed stay closed; the overrun of the device limit is bounded |
| `auth_cache` | 2 users, 2 sessions, 3 tokens, 2 requests in flight, cache attached and failing | no valid session is marked invalid; the stored token is with somebody; `SessionLifecycle` is implemented |
| `accounts` | 1 user, 2 sessions, 2 tokens, 1 request and 1 account call in flight, cache attached, requests and calls may die | accounts deleted and restored beside logins: a deleted account opens no session; every request and call ends; the profile of a deleted account leaves the cache |
| `auth_rotation_race` | 1 user, 1 session, 3 tokens, 2 requests | violated: one token presented twice at once is exchanged twice |
| `submit_overlap` | 1 user, 1 problem, 3 requests of which 2 in flight, 1 achievement | no figure exceeds what is behind it; numbers follow the order |
| `submit_failures` | 1 user, 2 overlapping requests, 2 days, 2 achievements, cache failing, requests may die | types; achievements are deserved; streaks are bounded by the days; the calls of a request run out |
| `submit_alone` | 2 users, 2 problems, 3 requests one after the other, 2 days, 2 achievements | every derived figure is exact between requests |
| `caches` | a problem, two users' progress on one topic, a list; 2 processes, 2 requests, 2 writes, Redis failing | what is served was true of that row; a stale copy has a cause; every copy becomes current |
| `content` | a seeded branch of five levels and room for one more row on each, 2 requests, 2 writes, 1 job | a stale tree or list has a cause; one night is enough |
| `sockets` | 4 sockets, 2 users, 2 processes, 1 group, 1 malformed room id | the maps agree; default rooms are kept; `Presence` is implemented |
| `limits` | 2 processes, 1 key, 2 requests in flight and one uncounted a tick, limit 2, 3 ticks a window, Redis failing, processes dying | bursts are bounded; a counter that is stuck has a cause; a block ends |
| `startup` | 2 processes, 1 installed and 1 new database, 2 forms, everything may fail | a database without tables is served only after a form that failed or is on its way; every form ends |

Why these bounds are enough. Nearly every hazard in the list needs two requests that overlap; a third
matters when it starts after the overlap and reads what it left (a login after two that missed each
other, a submission that counts two attempts with one number), which is why `auth_db` has three
sessions and `submit_overlap` three requests. Identifiers are a bound of the model only: a request
starts when those it may need are left, so no request stops because they run out. Users, problems
and entries interact only through tables and keys indexed by them, so more than one of each is
needed only where a property compares them (`auth_cache`, `submit_alone`, `caches`, `sockets`).
`MaxWrites` bounds the writes of `caches` and `content`: two are what a race of writers needs, and a
reader takes the third slot of such a race in time rather than in `Reqs`, since its awaits may span
both writes. In `content` a new row may appear next to each seeded one, so a write can hang under an
ancestor that is being deleted, at every level. In `limits` any number of requests arrive, two at a
time: while one is between `INCR` and `EXPIRE` others use up the limit. `MaxFree` bounds the uncounted
requests of a tick that enter the histories; further ones are alike and would add the same to both sides
of `BurstBounded`. One key is enough there because no action looks at two. In `submit_failures` two right
answers meet both achievements at once, so the lists of two requests hold the same two, in any order: the
loop goes round a second time, and a grant may fail in its first or its second round. The theorems below carry
most of these properties to every size.

Symmetry is used for model values that the specification treats alike, and in no run that checks
liveness.

Fairness. Each `FairSpec` asks weak fairness of the steps of requests in flight, because Node resumes
a function when what it awaits settles, and the MySQL and Redis clients settle every call with an
answer or an error; no handler takes a lock or waits for another request, so a step that has become
possible stays possible. In `limits` ioredis retries a command a limited
number of times, so each is answered or given up (`Answered`). Where a property is about the end of a copy
or of a counter, Redis's clock is fair as well (`InfoFades`, `Fade`, `Tick`): keys are stored with a TTL. In `startup` the steps of
`POST /setup` all have a timeout (`connectTimeout`, that of `execSync`), and the shutdown timer runs
out. Clients, failures, restarts and other processes' starts are never fair.

## Proofs

`tlapm` checks `Sums` and the seven proof modules without further options. Assumed are only the named
assumptions of the modules: `null` is none of the identifiers and no set of achievements, the sets of requests and of achievements
are finite (`ReqsFinite`, `AchievementsFinite`), constants have their types, room names do not collide,
and the curriculum's tables refer to each other as the schema says. Every invariant and action property
of a passing run is a theorem; the liveness properties are not (see below).

`Sums`. XP and bursts are sums over a set, and the community modules define one by a recursive function
that takes the elements in the order of a `CHOOSE`. That the function exists, that any element may be
taken first, and that a sum is monotone and additive would be inductions over finite sets; each is
proved by taking a smallest subset that violates it (`Smallest`), which exists because proper inclusion
on the finite subsets is well-founded.

`AuthServiceProofs`. `IInv` adds to the checked invariants what a request carries across its awaits: the
session it works on belongs to its user, the sessions it is about to mark are closed, the token it
answers with belongs to a session whose hash has been stored. Without it none of them is inductive:
`MarkedStaysOut`, for instance, depends on the loop's remaining sessions. From `IInv` follow the types,
`TokensConsistent`, `Displaced` and `MarkedStaysOut`. `Refinement` shows that each action opens one
session, closes sessions of one user, or leaves the table alone, and from the abstract module it follows
that no session is ever reopened (`ClosedStaysClosed`). `CurrentTokenStaysReachable` needs
`~RequestsMayDie`: a request that has rotated a hash and dies takes the only copy of its token along.

`OverrunsAreBounded` is about how many logins can overlap: a user never has `MaxDevices` plus the number
of requests valid sessions, or more. A request looks at the sessions once and closes what is too many
for what it saw, so no count of sessions is inductive. `LimitInv` says that the user's sessions can be
explained (`Explained`): fewer than `MaxDevices` of them (`K`) are what one look left, and each of the
others was opened by a request of its own. What a request that still has to open its session has seen
and will keep (`E`) grows with the time of its look, so of two such views one contains the other, and
when the request opens its session either its view becomes the new `K` or the session is charged to it.

The account calls need no invariant of their own kind. A call of `UserController` changes `deleted` and
`info` alone, and no conjunct of `IInv` speaks of either but for types: so each step of the composition
is a step of `AuthService` under `Barring`, or leaves the session table as it is (`AccountInvariance`,
`AccountRefinement`, `AccountOverrunsAreBounded`). `DeletedStayOut` is the one with an argument of its
own: a barred login has no session yet, and the await at which it would get one finds the account
hidden.

`SubmissionProofs`. The checked bounds compare tables with attempts, but the tables are written from
copies read several awaits earlier, or from the cache; so `IInv` bounds every copy as well, by the
number of requests whose stats (`Counted`) or progress (`Progressed`) have been written, and by the XP
of the first (`CountedXp`). Two facts carry the proof. Those sets only grow (`Persists`, `Grows`), so
the bound of a stale copy stays true for as long as somebody holds it; and a request that adds to a
figure joins the set behind it in that very step, having not been in it before (`OneMore`). Rewards take
one step more: an achievement is in the table before its XP is in the stats, and a second request may
read in between. So XP is bounded by the achievements *paid* for (`Paid`), those granted whose reward no
request is still about to write (`Owes`); the unique column makes each grant owed by one request at
most, and paying it is the step that lets it count. One lemma per action shows which bound the action
can disturb; `Quiet`, `Moves` and `TablesKeep` deal with the rest. From `IInv` follow the types,
`CountsNeverOvercount`, `StreaksBounded`, `StatsNeverOvercount` and the same of the cached copies
(`CopiesHold`), `EarnedDeserved`, and, with one more look at the step that counts, `NumbersFollowOrder`.

`ExactHolds` turns the bounds into equalities, under the conditions of `submit_alone` and for any number
of users, problems, achievements and submissions: `MaxInFlight = 1`, no call fails, no request dies.
`EInv` says for each await what the one request in flight has read that is still what is stored
(`Fresh`), what it has written so far (`Written`), and that every table is exact but for the one it is
about to bring up to date. That a grant finds no row, so that no submission fails at the unique column,
and that a request about to pay finds a stats row, come out of it on the way.

`CallsRunOutHolds` is about the end of a request. `CallsLeft` bounds the calls it can still make, by the
await it is at and the achievements left on its list; each call lowers it, a grant that fails to 0. With
`Looping` (a request at a grant has something to grant, and only `checkAchievements` evaluates) beside
`IInv`, that is shown for each action. No request waits for another and MySQL and Redis settle every
call, so it follows that submissions end; that last step is an argument about the runtime and not a
theorem. TLC is asked the same question as an action property, since the liveness graph of two
overlapping submissions is out of its reach here.

`ReadThroughProofs`. `CInv` adds that a reader's value is one its row has had, that a row that can be
found was written, and that two creations never meet in one entry (`OneCreator`). Keys are told apart by
`EntryIdentity` (`KeysDiffer`), which is where a key without the user would fail. For `StaleHasCause` a
writer passes from its write to its delete in the same step that makes the copy stale, and a fill that
is late is entered in `spoilt` when it happens.

`CurriculumProofs`. Three invariants. `TInv`: only a write to a curriculum makes a list stale, and such
a write climbs nowhere, so no deleted ancestor can stop it before it has dropped the lists. With the
types of the calls that gives `StaleListHasCause`. `ClimbInv` does the same for trees,
where a deleted ancestor may stop a climb: whoever deleted it climbs the rest of the same way, so of the
writes that made a tree stale one still has a clear way to the root (`StaleTreesHaveCause`). The
ancestors of a row are a recursive function; a row is at most five levels deep, so its values are
written out level by level (`LineStep`, `LineShape`). `MInv` adds the nights: what is due keeps its
children due, because a new child needs a parent that was live when the request looked, and no row
expires while a request or a night is under way; statement `i` then finds the children purged by
statement `i - 1` (`ChildIndex`). That is `OneNightSuffices`, for any tree of rows, number of jobs and
requests.

`SocketGatewayProofs`. `GInv` is the conjunction of the checked invariants, inductive as it stands once
all four are taken together: a handler decides by one map and writes the others, so none of them is
inductive alone. From it follows `GatewayRefinement`, one abstract step for each handler; a process that
stops and a disconnect are the same abstract step with other sets of sockets.

`RateLimitProofs`. `StuckHasCause` is inductive together with the types and with `TtlOfKey` (only a
counter that exists has a TTL): `INCR` makes a counter without TTL in the step that puts its request
before `EXPIRE`, or, when the answer is lost, in the step that enters the key in `orphaned`; a failed
`EXPIRE` and a death enter it there as well. For `BurstsAreBounded` the requests of the last window that
were counted are split in two (`Split`): those the counter that is now in Redis has let through, as many
as it has counted and no more than the limit, and those of the counter before it, no more than the limit
either and so old that they leave the window before the present counter expires. When it does, the new
ones become the old ones; so no third counter ever adds to a window. The uncounted ones are `free`,
which is entered tick by tick beside them. `BurstsAreTwiceTheLimit` is what this comes to when commands
do not fail, since no process is then without a cache and nothing is ever entered in `free`.

`SetupWizardProofs`. `WInv` covers each settings that `.env`, a process's memory of it or its connection
may hold: its tables are there, or a form has failed or is on its way. `UnpreparedHasCause` is the part
of it about processes that serve.

Model-checked only are the liveness properties `AllFinish`, `DeletedProfileFades`,
`CopiesBecomeCurrent`, `BlockIsTemporary` and `FormsSettle`: the provers have no rule for fairness,
which is about `ENABLED`. Run `auth_rotation_race` is a counterexample, not a theorem.

## Where code and documents disagree

`auth_rotation_race` is kept as a run: `ARCHITECTURE.md:751-756` has a refresh token exchanged once.
The update names the row by id only, so two overlapping refreshes both succeed, and the pair given to
the first is dead on arrival.

Seven more properties are stated in the modules next to those that hold. No run checks them, because
the code does not satisfy them; adding one to the configuration named shows how.

| Property | Add to | What it says, and what happens |
|---|---|---|
| `DeviceLimit` | `auth_db.cfg` | `ARCHITECTURE.md:763-764`, `docs/SYSTEM_ARCHITECTURE.md:513`: one device per account. Two overlapping logins read the sessions before either creates its own; what holds is `BoundedOverrun` |
| `StatsCountAttempts` | `submit_overlap.cfg` | `docs/SYSTEM_ARCHITECTURE.md:736`: `totalProblemsSolved++`. The code writes back a value computed from an earlier read, and one of two overlapping submissions is lost |
| `StreakExtends` | `submit_failures.cfg` with `CacheMayFail` and `RequestsMayDie` FALSE and `MaxInFlight` 1, three requests | `docs/SYSTEM_ARCHITECTURE.md:760`: the first problem of a day extends the streak. The day is that of `updatedAt`, which paying a reward after midnight moves as well |
| `SoftDeleteClosesSessions` | `accounts.cfg` | `user.service.ts:193`: all sessions of the user are invalidated. The code deletes cache keys nobody writes (line 306); the rows stay valid and refresh goes on working |
| `ListAnswersFilter` | `content.cfg` with `MCFilters == {None, 0}` | `?grade=0` and no filter share a key (`curriculum.service.ts:59`) |
| `NightRemovesExpired` | `content.cfg` | `delete-migration.service.ts:108`: expired rows are removed. One of them with a live child makes the statement for its table fail every night (line 149) |
| `NotificationReachesUser` | `sockets.cfg` | `socket.gateway.ts:376`: all the user's sockets are notified. Only those of the sending process are; the Redis adapter `README.md:36` names is not installed |

Seen on the way, without a property:

- Every handshake is refused: the adapter asks for a `sub` claim (`socket-auth.adapter.ts:83-86`) that
  `AuthService` does not put into a token (`auth.service.ts:614-632`). `TokensCarrySub` is TRUE in
  `sockets` to check what lies behind it. `forceLogoutUser`, `sendNotificationToUser` and
  `broadcastNotification` have no callers.
- `forceLogoutUser` would disconnect nobody. The gateway names a namespace (`socket.gateway.ts:79`), so
  `server` is a Namespace and its `sockets` already is the map of sockets; `server.sockets.sockets` at
  line 441 is undefined, and the first socket ends the call with a TypeError. The comment at line 423
  and `README.md:274` say the user is logged out; the end-to-end test calls a mock
  (`test/e2e/socket.e2e-spec.ts:365`).
- Controllers read `user.id`, while `JwtStrategy` provides `userId` (`attempt.controller.ts:69`,
  `jwt.strategy.ts:60-65`).
- `GET /users/me` fails on a cache hit: the cached dates are strings (`user.service.ts:291-292`).
- `findByEmail` encrypts the address with a random IV before it compares, so it never finds a row.
- The rate limit's window is fixed, not sliding (`rate-limit.middleware.ts:4` and `:59-60`,
  `ARCHITECTURE.md:655`): bursts reach twice the limit. A lost answer to the
  first `INCR` leaves a counter that never expires (`cache.service.ts:351-364`). The stricter limit for `/auth` never applies,
  all paths being mounted under `api/v1` (line 74), and the identifier is always the address, the
  middleware running before the guards.
- The wizard's choice page is never shown (`main.ts:42` passes `true`), and each process of the cluster
  waits for its own wizard on one port. `.env` is written before anything in it was tested
  (`setup.server.ts:324-325`), and two forms that find no database both create it (lines 81-85).
- The comments of `DeleteMigrationService` speak of a second database (lines 4-10); the code deletes
  the rows.
- Two overlapping attempts at one problem get the same `attemptNumber` (`attempt.service.ts:65`;
  `docs/SYSTEM_ARCHITECTURE.md:721`).
- `correctRate` can exceed 1 for a while, its two counts being taken at different moments
  (`attempt.repository.ts:109`).
- The upsert of default stats overwrites a row that another request created in between
  (`achievement.service.ts:103`, against the comment at line 86).
- The seeded badges use condition fields that `checkAchievements` does not know, so everybody meets
  them (`achievement.service.ts:213`; `prisma/seed.ts:232`, `:240`, `:248`).

## Abstractions and limits

- In `Submission` and `ReadThrough` the caller is identified, whatever the remark on `user.id` means
  for the program as it is. The answer's verdict is an input: grading compares strings. Study time
  accumulates as `totalXp` does and is dropped. Achievements are constants.
- A row's contents are the number of writes it has seen, wherever a property only asks whether a copy
  is current or was once true.
- When one of two reads issued by `Promise.all` fails, the request fails at once while the other read
  still runs; the model ends both. Neither writes anything but a cache fill or default stats, which
  other requests can do as well.
- Days are counted, so the effect of daylight-saving changes on the difference of two midnights is
  not in the model.
- `Curriculum` leaves out failing caches and dying processes, which `ReadThrough` has for the same
  pattern: a write that dies before its invalidation leaves a stale tree until the TTL ends.
- The nightly job names thirteen tables; the five of the curriculum are modelled, the others are
  leaves of the same kind or refer to them in the same way.
- In `RateLimit` a counter above `Limit + 1` is one value, and a minute is `Window` ticks.
- A gateway handler is one step; an event that arrives while Socket.io closes the connection is
  handled before or after it.

## Not modelled

| Part | Why |
|---|---|
| `CacheInterceptor`, `WsAuthGuard` | nothing uses them |
| Logging, log backup | file and object-store I/O whose state nothing reads |
| Health checks, response shapes, DTOs, decorators, exception filter | no state; each concerns one request |
| Encryption, hashing, time zones, text of `.env` | pure functions over strings; a hash is an identifier in `AuthService` |
| WebSocket documentation, setup pages (`setup.html.ts`), progress events of the wizard | rendering |
| `createAchievement`, an administrator's single insert | achievements are constants of `Submission` |
| `CacheService.mget`, `mset`, `decr`, `clear`, its hit counters | no caller whose state is modelled |
| Tests, seeds, deployment files | not part of the running program; the seed and the cluster's settings are initial states and fault assumptions here |

## Plan

What would come next, in this order:

1. An abstract gradebook that `Submission` implements: attempts are only added, figures lie between
   the last write and the attempts.
2. `ReadThrough` composed with `Submission`, so that the figures a client reads, and not only those
   stored, are bounded by its attempts.
3. The eight remaining tables of the nightly job, with sessions and attempts that refer to a purged
   user.
