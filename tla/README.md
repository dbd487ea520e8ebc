# service-user: specifications and proofs

TLA+ models of `service-user`, a gRPC service in Go that keeps user accounts,
their devices, PINs and files in PostgreSQL, their sessions, lockouts and rate
limits in Redis, and announces changes through RabbitMQ, HTTP or both. The
models are written from the source under `src/`; `PROJECT.json` names the
lines behind every definition.

## 1. Inventory of the system

| Part | State it keeps | Operations | Hard behaviour |
|---|---|---|---|
| **Session protocol** (`core/service/auth.go`, `RevokeDevice` in `user.go`, `token_whitelist.go`, `token_blacklist.go`, `jwt.go`, `user_device.go`, `device.go`) | Redis keys `token-whitelist:<user>:<sid>` (15 min) and `token-blacklist:<user>:<sid>` (24 h), `user_device.session_id`, `revoked_at`; the JWTs clients hold | Authenticate, HandleGoogleOAuth, RefreshToken, ValidateToken, RevokeToken, RevokeDevice | every call is several Redis commands and SQL statements; any other call can run between two of them; many errors are dropped; the Redis client re-sends commands whose reply is lost |
| **Account lockout** (`attempt_tracker_redis.go`, `attempt_tracker_memory.go`) | counter and lockout key per account, each with a TTL, or the same in a Go map | Track, IsLocked, Reset, cleanup | check, password comparison and count are separate steps; INCR, EXPIRE and SET are separate commands |
| **Rate limiter** (`rate_limiter_redis.go`, `rate_limiter_memory.go`) | sorted set or slice of timestamps per address | Acquire, Reset, Cleanup | timestamps are read before the Lua script runs; EXPIRE takes whole seconds |
| **Accounts** (`core/service/user.go`, `repository/user*.go`) | user, profile and PIN rows | Create, Update, Delete, ChangePassword, UpdateProfile, SetPin, VerifyPin | whole rows are read, changed and written back without a transaction; uniqueness is checked before the write |
| **Devices** (`core/service/device.go`) | device rows | List, Get, Delete | Delete checks for linked users first, in a separate statement |
| **User files** (`core/service/user_file.go`) | file rows | Add, Update, Delete, List | a failing event publication is returned after the change is committed |
| **Google OAuth** (`adapter/oauth/google.go`) | PKCE challenges in Redis (10 min) | GetAuthorizationURL, ExchangeCode, GetUserInfo | the single-use challenge is read and deleted in two commands |
| **Resolver cache** (`adapter/resolver`) | UID/ID pairs in Redis | IDsByUIDs, UIDsByIDs, Invalidate | a fill races with an invalidation |
| **Executor** (`adapter/executor/service.go`) | a wait group and running goroutines | Do, DoAsync, DoParallel, Close | tasks submitted while Close waits |
| **Broker** (`infra/rabbit.go`, `adapter/event/rabbit.go`) | the AMQP connection, its mutex, the reconnect signal | connect, monitor, Publish, PublishWithConfirm, Close | reconnection holds the mutex; confirms may be lost |
| **Event publishers** (`adapter/event`) | the list of publishers | Publish, Close | partial failure of a fan-out |
| **Start and shutdown** (`cmd/main.go`, `grpc/server.go`) | the order of deferred Close calls | main | each Close may wait for something an earlier one ended |
| **Lists** (`List` and `ListByUserID` of the repositories, `repository/helper.go`) | none | COUNT, SELECT with LIMIT and OFFSET | rows come, move and go between the statements and between the pages |
| handlers, validation, configuration, migrations | none | conversion, set-up | none |

How they interact: gRPC handlers call `authService` and `userService`, which
call the repositories (PostgreSQL), the token stores, trackers and resolvers
(Redis), and hand event publication to the executor, which calls the publishers.
Authenticate consults the rate limiter, then the account, then the lockout, then
starts the session protocol. RevokeDevice, in `userService`, reaches into the
whitelist that `authService` maintains. Delete and Update in `userService` change
the status that Authenticate and RefreshToken read, and touch nothing in Redis.

What makes each part correct:

* sessions: a session is handed out only when listed; a revocation is final and
  takes effect at once; a refresh keeps the old session listed until the new one is; a
  deleted user loses all of them in the end; a refresh token works once; revoking
  a device ends its sessions (the code breaks the last two, see section 5);
* lockout: guesses before a lockout are bounded however calls overlap; counters
  and lockouts end; nobody stays locked for ever;
* rate limiter: no window admits more than the limit, and a refusal is justified;
* accounts and profiles: two accounts get the same username or email only through two
  calls that race for it, and not at all with the two unique indexes; a deleted account
  stays deleted; a change is lost only to a call that overlaps another;
* PIN: a replaced PIN verifies no more;
* devices: no device is deleted from under a link, and Delete refuses only a device
  in use (the code breaks the second, see section 5);
* files: what is announced was stored, and who follows the events knows the rows, or a
  caller has been told of an error;
* Google login: a callback replayed after its challenge is gone gets nowhere, and a
  challenge is used once (the code breaks the second, see section 5);
* resolver cache: a key never leads to the wrong row, and answers are complete;
* lists: a walk through the pages misses no row that keeps its place, but for the two
  cases in which LIMIT and OFFSET must;
* broker: a publication that succeeds reached every backend; a connection that
  ends is replaced or is given up in one of two known ways; a publication that finds it
  closed triggers its replacement (the code breaks the last, see section 5);
* executor, shutdown: nobody finds the executor or the connection closed, nothing
  is left open, Close returns, and a signal ends the process.

## 2. Modules

| Module | Role |
|---|---|
| `Sessions` | the session protocol, one action per Redis command or SQL statement |
| `SessionLife` | what a session is promised, without saying how |
| `SessionsProofs` | theorems about `Sessions`, for any constants |
| `MCSessions` | the three instances of its run |
| `Lockout` | Authenticate against both AttemptTracker backends, with time |
| `LockoutProofs` | theorems about `Lockout` |
| `MCLockout` | the two instances of its run |
| `RateLimiter` | one address against both RateLimiter backends, with a clock |
| `RateLimiterProofs` | theorems about `RateLimiter` |
| `MCRateLimiter` | symmetry for its run |
| `Accounts` | the rows of table `user`: Create, Update, ChangePassword, Delete, the first Google login |
| `AccountsProofs` | theorems about `Accounts` |
| `Profiles` | the profile of an account: the last statement of Create, UpdateProfile |
| `Pins` | the PIN of an account: SetPin, VerifyPin |
| `Devices` | tables `device` and `user_device`: login, RevokeDevice, device deletion |
| `Files` | table `user_file` and the events about it |
| `Resolver` | the cache between UIDs and IDs, its fills and its invalidation |
| `OAuth` | the PKCE challenges of Google logins |
| `Listing` | the seven paginated lists and a client that walks through one |
| `MCStores` | the eight modules above side by side, for their runs |
| `RowsProofs` | theorems about `Pins`, `Profiles`, `Devices` and `Files` |
| `CachesProofs` | theorems about `Resolver` and `OAuth` |
| `ListingProofs` | theorems about `Listing`, and the types of all of `MCStores` |
| `Delivery` | what publishing an event promises |
| `Broker` | the RabbitMQ connection, its monitor, and the calls that publish |
| `Shutdown` | the process around `Broker`, from its start to its end; implements `Delivery` |
| `ShutdownProofs` | theorems about `Shutdown` and `Broker` |
| `MCShutdown` | the instance of its run |

### Sessions

`call[c]` is a slot for a gRPC call: the step it has reached (`at`) and the local
variables the next step needs: the user, the device, the session of the token it
was given (`old`) and the one it creates (`new`). Each step is one command at
Redis or PostgreSQL, which are atomic there, and anything may happen between two.

| Code | Actions |
|---|---|
| Authenticate | `StartLogin`, `FindDevice`, `CreateDevice`, `FindUserDevice`, `CreateUserDevice` or `UpdateSessionID`, then `AddNew` |
| HandleGoogleOAuth | `StartGoogleLogin`, `AddNew` |
| RefreshToken | `StartRefresh`, `RefreshUser`, perhaps `UpdateSessionID`, `AddNew`, `DropOld` |
| ValidateToken | `StartValidate`, `ValidateBlacklist` |
| RevokeToken | `StartRevoke`, `RevokeBlacklist` |
| RevokeDevice | `StartRevokeDevice`, `RevokeDeviceUnlist`, `RevokeDeviceMark` or `RevokeDeviceFails` |
| administrators, Redis and token expiry | `SetStatus`, `WhitelistExpires`, `BlacklistExpires`, `TokenExpires` |

`tokens` holds the pairs clients have; an access and a refresh token issued
together share user, session and device claims and are one element. `parent` in
an element, `revoked` and `listed` are history: nothing but the properties reads
them. `Phantom` is the UID of a device whose INSERT failed: `Create` returns its
argument with the error, the error is dropped, and the token names a device that
has no row. With `Faults` every command may fail; a SET may also be executed and
its reply lost (`AddReplyLost`), after which the client re-sends it or gives up.

Abstractions. The checks before `uidGen.New` in Authenticate that cannot be
seen here (rate limit, lockout, password) only decide whether a login goes on.
A call that fails before its first write leaves nothing and is a stuttering
step. Session identifiers are UUIDs; so that a few model values stand for
endlessly many, `Fresh` lets an identifier be drawn again once nothing refers to
it. The expiry of a whitelist entry may come at any time: nothing in the
protocol measures it. A pair of tokens expires only when no call is using it, and
a blacklist entry, which lasts a day, not between the two commands of one
ValidateToken. The database schema is not in the repository; one device row per
fingerprint and one `user_device` row per user and device are assumed, as the
queries for a single row assume them. Status `banned` behaves as `inactive` here.
The administrative deletion of a device row is left to the device module. A
command has its effect, if any, before the client gives up on it.

### SessionLife

A session goes from `none` to `live` or `ended`, from `live` to `ended`, never
back to `live`; only an ended one may be acknowledged as revoked; a ValidateToken
call asks about a session it saw live and says yes only while no revocation of it
has been acknowledged. `Sessions` implements it with a session being `live` when
it is issued and on the whitelist.

### Lockout

One account, because accounts share nothing. `count`, `countTTL` and `lock` are
the two Redis keys with the ticks they have left, or the three fields of the
memory tracker's entry, where a deadline that has passed stays as `Over` until
IsLocked, Track or the cleanup looks at it. `backend` is chosen initially, as
`newAttemptTracker` chooses. The count stops at `Threshold`: only whether it
has been reached is ever asked. `guesses` is history: the wrong passwords
compared since the tracker last forgot.

### RateLimiter

A request is named by the unique member it adds to the sorted set. `stamp` is the
score, read from the clock by `Send` before the script runs in `Acquire`; the
script is atomic, and `Script` is what it leaves behind, so that `ReplyLost` can
run it again with the same stamp and member. `expiry` is the TTL of the key, cut
to whole seconds as EXPIRE gets it. The memory backend reads the clock and decides
in one step, under its mutex (`MemoryAcquire`); its slice is in order of time, so
its binary search finds what `Recent` describes. `Delay` bounds how late a script
may be, as the client's timeouts and retries do. Nothing in the service calls
Reset or Cleanup; both are modelled. `took` is history: when each request was let
through.

### Accounts, Profiles, Pins

`call[c]`, `edit[c]` and `pinCall[c]` are slots for gRPC calls, as in `Sessions`, with
the row a call has read and changed (`row`), and the fields it was asked to change
(`asks`). No call uses a transaction, so every step is one SQL statement.

| Code | Actions |
|---|---|
| Update | `StartUpdate` (the read), `CheckUsername`, `CheckEmail`, `WriteRow` |
| ChangePassword | `StartChangePassword`, `WriteRow` |
| Delete | `StartDelete`, `DeleteRow` |
| Create | `StartCreate` (the email is looked up), `CreateCheckUsername`, `Insert`, then `CreateProfile` of `Profiles` |
| HandleGoogleOAuth, unknown email | `StartCreate`, `GenerateUsername`, `Insert` |
| UpdateProfile | `StartUpdateProfile`, `FindProfile`, perhaps `InsertProfile`, `WriteProfile` |
| SetPin | `StartSetPin`, `FindPin`, `InsertPin` or `UpdatePins` |
| VerifyPin | `StartVerify`, `Verify` |
| a statement that fails, a cancelled context | `Abandon` |

`WriteRow` writes every column, so it puts back what it read. That this loses the
changes of overlapping calls is how the code is written; `UndisturbedChangesLast`
says that it is the only way to lose one: a ban, a password, a name given by a call
nobody overlapped stays. `watched` is one field of one user, chosen at the start and
never changed; it keeps the history to one value. Of the three statuses two are
modelled: `inactive` differs from `banned` in no step.

The two unique indexes of `user` are named in `repository/helper.go`; the schema is
in no file of the repository. Where a property could depend on it, the schema is a
parameter (`Indexed`: the two indexes are there) or a choice at the start, and the
property must hold either way: `unique` and `single` (one PIN, one profile per user),
`schema` in `Devices` (unique fingerprints, a foreign key).

`DuplicatesNeedARace` is about what the services' own looks achieve. `Look` is a query
for a username or an email before the write; `Relies(d, f)` says that a call has
looked, or has read the value in its own row, and will write it without another look.
`raced` is history: the values of the watched field that were written while another
call relied on them for another account, or that `generateUsername` took without an
answer. Without the indexes two accounts may share such a value and no other. A
look that is left out, one that takes any answer for a good one, or a whole-row write
that brings a stale name back would give a duplicate without a race.

In `Profiles` the account is visible before it has a profile: `CreateProfile`, the last
statement of Create, may come between or after the statements of an UpdateProfile, whose
own `InsertProfile` may have been first. Where the table takes a second row this adds an
empty one beside the edited one, so an edit counts as undisturbed only once that insert is
done or cannot succeed. With a table that takes two PIN rows, both of two overlapping SetPin
calls may insert, and VerifyPin may take either until the next SetPin writes both.

### Devices, Files, OAuth

`Devices` has the statements of a login on tables `device` and `user_device`
(`FindDevice`, `CreateDevice`, `FindLink`, `InsertLink`), of RevokeDevice
(`StartRevokeDevice`, `RevokeLink`) and of device deletion (`StartDeleteDevice`,
`LookForLinks`, `Refuse` or `DropDevice`); what a login does after it has its link is in
`Sessions`. `LookForLinks` follows `userDeviceRepo.List`, which uses no filter.
`late` is history: the accounts linked to the device since a deletion looked.

`Files` gives each call its statement (`InsertFile`, `WriteFile`, `RemoveFile`) and then
its publication (`Publish`, `PublishFails`). The publisher here is whatever
`EventPublisher` is configured; `Broker` has the detail. `view` is what the last event
about a file says of it. `doubt` is history: the files of which the events may say
something else than the table, and the reason is not the order of the two steps alone: the
caller of the last change got an error, two changes were both made before either was
published, or an Update met no row. The next change to which nothing of this
happens takes its file out of `doubt`, and the view has to be right again.

`OAuth` has one Redis command or one request to Google a step. Google takes a code
once (RFC 6749; outside the repository). `gone` is history: the challenges whose DEL
was answered or whose TTL has passed.

### Resolver

`lookup[c]` is a call of IDsByUIDs or UIDsByIDs: `Ask` is the pipeline of GETs, and
`task[k]` the goroutine of a miss, with `Fetch` or `FetchFails` and then `Fill`.
`Write` is a statement of a service that calls Invalidate afterwards, `PurgeGet` and
`PurgeDel` the two commands of that. A row's UID and ID are one model value, since the pair
never changes; what could go wrong is that a key leads to another row, or to
none. The services resolve one key at a time or a list; both are a set here.

### Listing

A row is known by its place in the order asked for, whichever of the allowed columns that
is (`username` or `updated_at` as well as `created_at`) and in whichever direction. So
`AddRow` puts a row at any free place, before or after the others, and `UpdateRow` may
take one to another place or in or out of the filter; `MarkRow` is a deletion of a user
or a revocation of a link, `DropRow` a DELETE. A row that moves counts as one that left
and one that came. `UserList` to `UserFileList` are the WHERE clauses: three of the lists
ignore the filter they are given. `StartWalk`, `Count`, `Select` and `SelectCut` are a client
that asks for one page after the other until the last that the meta data announce.
`SelectCut` is a page that a broken connection cut short, and that passes for a
whole one because `rows.Err` is not read. `query.order` says what the ORDER BY column
does: tells the rows apart, leaves ties (whose order is then any), or does not exist.

`walk.wanted` and `walk.spoiled` are history (`Meanwhile`). Wanted are the rows that were on
the list at the beginning and have kept their place on it. Two changes spoil a walk: a
row leaves a page already asked for, and those behind it move up across the boundary; or
a row comes in before a wanted one between the COUNT and the SELECT of the last page, and
pushes it past the total. Anything else, an insertion before the rows still to come
for one, must not make the client miss a wanted row.

### MCStores

These eight modules share no variable. `MCStores` runs them side by side: `world`, chosen
at the start, is the one that moves while the others rest in their initial state.
So a property of one is checked over all states of that one, and one run has several;
`Worlds` says which components a run lets move. Accounts is extended, the others are instances; their sets lend each other
values, which keeps the symmetry group small.

### Delivery, Broker, Shutdown

| Code | Actions |
|---|---|
| `connect` | `Connected`, `DialFails`, `BackoffEnds`, `BackoffCancelled` |
| `monitorConnection` | `Wake`, `Leave` |
| `waitForClose` | `Register`, `Trigger` |
| `MultiEventPublisher.Publish`, `HTTPPublisher.Publish`, `RabbitmqPublisher.Publish` | `Publish` |
| `PublishWithConfirm` | `GetChannel`, `NoChannel`, `Send`, `SendFails`, `Confirmed`, `Unconfirmed`, `Retry`, `Expire` |
| broker, network, AMQP library | `Break`, `Return`, `Notice` |
| `main` | `Serve` or `Fatal`, `Signal`, `Stopped` (GracefulStop), `Drained` (`exc.Close`), `CloseConnection` |
| a request; a task of the executor | `Request`, `PublishDirectly`; `DoAsync` |

`monitor` in `dialing` or `backoff` holds `connMu` (`Locked`); `GetChannel` waits for it.
The connection is `silent` between its break and the moment the library notices.
`notices` are goroutines of `waitForClose` that have heard of the end of their connection
and are about to write to `reconnectChan`, which holds one trigger. `unheard` is
history: why nobody heard. A call has its event taken by the HTTP endpoint
or not, then publishes to RabbitMQ and waits for the confirmation; each attempt that
fails may have delivered the event all the same. `role` says whether a request or a
task of the executor publishes, which decides who waits for it at the end.

`Delivery` is the promise: a call that returns success has reached every backend; a
failed one may have reached some; no backend gets more copies than attempts.
`Shutdown` implements it with `copies` and `outcome` for its own.

Abstractions. The first connection is made by the same steps as later ones.
Timers may fire at any time, so backoffs and the confirmation's timeout are choices.
The HTTP publisher tries once. Redis and PostgreSQL are closed after
the last step of the model, when nothing runs that uses them. Channels are opened for
one attempt each, as the code does.

## 3. Runs

| Run | Bounds | Shows |
|---|---|---|
| `sessions` | 1 user, faults; 2 calls, 1 device and 2 session identifiers in use, or 2 calls, no device and 3 identifiers; or 1 call, no device and 3 identifiers, fairness | type invariant; tokens only for listed sessions; revoked sessions never return; revocation at once; a refresh keeps one session listed; `SessionLife` is implemented; a deleted user's sessions all end |
| `sessions_single_use` | 1 user, 3 identifiers, 2 calls, no faults | **violated**: one refresh token yields two sessions |
| `sessions_revoke_device` | 1 user, 1 device, 2 identifiers, 1 call, no faults | **violated**: a session outlives the revocation of its device |
| `lockout` | both backends, threshold 2, TTLs 2 and 3; 3 calls, no faults; or 2 calls, faults and crashes, fairness | guesses are bounded; the counter has its TTL; every lockout ends, with faults as well |
| `lockout_counter` | Redis, 2 calls, faults | **violated**: the counter is left without a TTL |
| `stores` | the two indexes; 2 users, 2 names, 2 emails, 1 password, 1 change a call, 2 calls (accounts, profiles, pins, devices, files); 2 devices, 2 fingerprints, 2 accounts; 1 file; 2 rows and 1 lookup (resolver), Redis faults; 2 logins, 3 callbacks (OAuth); 2 rows, pages of 1 (listing) | the types of the eight modules of `MCStores` and the properties of all but `Listing` |
| `tables` | accounts as in `stores`, without the indexes; `Listing`: 3 places, pages of 2, a list that filters and one that does not | a username or an email is shared only by two calls that raced for it; a walk misses no row that keeps its place |
| `device_delete` | devices as in `stores` | **violated**: Delete refuses a device nobody is linked to |
| `oauth_single_use` | OAuth as in `stores` | **violated**: two callbacks use one challenge |
| `shutdown` | 2 calls, one of them a task, no limit of attempts or 2, 2 retries, 1 outage, fairness | no trigger is lost, nobody is cut off, nothing stays open; `Delivery` is implemented; Close and shutdown end |
| `shutdown_trigger` | the same, no fairness needed | **violated**: a publication finds the connection closed and triggers nothing |
| `rate_limiter` | both backends, 4 requests, limit 2, window 5 ticks of half a second, delay 1, clock to 9, faults | no interval of `Span` ticks admits more than the limit; refusals have a cause |

Why the bounds are enough. Sessions interact through one user's keys only, so one
user suffices. Two calls give every pairwise race, and a slot can run any number
of calls one after the other. Two identifiers let a login or refresh race with
operations on another session; three let two refreshes of one session overlap.
Where liveness is checked three also let a session be refreshed for ever, which takes a
fresh identifier while a pair and its successor still exist; there one call is
enough, because what endangers the property is a chain of calls, not a race. The run
`sessions` has these three instances side by side (`scene` in `MCSessions`): identifiers
and calls are declared symmetric, but for those of the instance under fairness, which has
variables and model values of its own, so that no symmetry is applied where a liveness
property is checked. `MCLockout` has its two instances in the same way, without symmetry.
The theorems remove these bounds for the safety properties. For the lockout, the
threshold is below the number of calls, so that calls overlap before, at and after
the attempt that locks; the lockout is shorter than the counter's TTL, as in the
default configuration (15 and 30 minutes). Nothing else bounds these two models: all
counters saturate and the state spaces are finite. The rate limiter's window is two
and a half seconds, so that the key expires before the window is over, and the
clock runs almost two windows; twice the limit of requests fill it, wait and fill
it again. The session runs do not check
deadlock, because once every user is deleted nothing need happen any more.

In `stores` two calls give every pairwise race of a statement of one with the
statements of another, and a slot runs any number of calls one after the other, so a
third call matters only as something that happened before; `Pins`, where a PIN must
be told from its predecessor and from a rival, has three codes, and `OAuth`, where a third
callback can come after two that overlap, three callbacks. One Update changes at most
one field (`MaxChanges`); all columns are written back in any case, and the checks of
a username and of an email stand alone. There is one password, as a password
is treated like a status in every step; `OnlyOverlapsUndo` is for any number. One file suffices because files share nothing. One lookup of up to two
keys has two goroutines that race with each other, with an invalidation and with
expiry; two lookups share the cache entries only, whose value is determined. Deadlock
is not checked there, because a deleted user's row, a taken code or a full table may leave
nothing to do.

`tables` has the accounts of `stores` without the indexes, and `Listing`. Of the fields that may be
watched only username and email are, as the histories of the others do not depend on
an index. Two users and two calls are enough for two calls that race, and for one
that relies on a value while the other runs several times; `LooksKeepApart` is for any number.

Of its lists three places and pages of two give a full page, a page that is not, an
insertion before, between and after the others, and a row that moves from one page to
the other. In `stores` the lists only have their types checked, on two rows.

In `shutdown` one outage comes at any moment, in the middle of either call or of the
shutdown, and the broker may also be down from the beginning; two attempts and two
retries are the least that have a first and a last. One call publishes itself and the other leaves it
to a task, the two ways the code has. `ReconnectMaxAttempts` is 0, its default, or 2.
The process always reaches `ended`, `failed` or a state where something can still
happen; deadlock is checked.

Fairness. `Sessions` assumes that a call under way goes on (gRPC serves it, and
every command is answered or times out) and that Redis expires whitelist entries;
nobody has to start a call. `Lockout` assumes only that time passes. `Shutdown`
assumes that the Go scheduler runs every goroutine that can run, that timers fire and that
the AMQP library's heartbeat notices a broken connection. Strong fairness is
assumed of the cancelled monitor alone: a backoff selects between a context that is done
and a timer it has just set, and a select that has both a trigger and the end
picks at random. Nothing is assumed of the broker, the network, the clients or the
operator. `ShutdownEnds` needs the broker back for good, or a limit of the attempts:
without a limit, which is the default, requests and tasks wait in `getConnection` for
`connMu` while `connect` retries, and the Close that would cancel it waits for them,
so a service whose broker stays down does not stop on a signal. `CloseEnds` needs
neither.

The rate limiter has no liveness property and no fairness; its run does not check
deadlock because the clock and the requests are bounded.

## 4. Proofs

`SessionsProofs` proves, for any sets of users, devices, identifiers and calls,
with or without faults:

| Theorem | States |
|---|---|
| `TypeCorrect` | `Spec => []TypeOK` |
| `OnlyListedIsIssued` | `Spec => []IssuedWasListed` |
| `RevocationIsFinal` | `Spec => []RevokedNeverLive` |
| `RevocationTakesEffect` | `Spec => RevocationIsImmediate` |
| `RefreshIsSafeToInterrupt` | `Spec => RefreshKeepsOneAlive` |
| `SessionsImplementSessionLife` | `Spec => ImplementsSessionLife` |

The only assumption is `NoneAssumption`: `None` is none of the values it stands
beside, and `Phantom` is no fingerprint. The argument rests on one inductive
invariant, `Inv`. `RevokedNeverLive` alone is not inductive: an `AddNew` could
list a revoked session. So `Inv` adds that the session a call is creating is
known to no client and no other call (`NewIsUnborn`), while what is revoked has
been issued (`RevokedWasIssued`), that the session a call works on has been issued
(`OldIsIssued`), that each session has one pair of tokens, so that its expiry
forgets the session altogether (`OneTokenPerSession`), and that between the two
commands of RevokeToken the session stays off the whitelist (`BannedIsUnlisted`).
`BlacklistIsAhead` says that a validation past the whitelist check will find the
blacklist entry of any revocation that has returned; `DroppingIsListed` that a
refresh about to drop its old session has listed the new one. `CallsOK` fixes
which local variables are set at which step.

Most steps move one call and take at most something off the whitelist;
`QuietStep` handles them all at once, and the five that list, issue or
acknowledge something have a lemma or a case each. The refinement uses
`StepLists` (what a step does to the whitelist) and `StepVerdicts` (what it does
to a ValidateToken call).

| Theorem of `LockoutProofs` | States |
|---|---|
| `TypeCorrect` | `Spec => []TypeOK` |
| `GuessesBounded` | `Spec => [](~Faults \/ backend = "memory" => GuessesAreBounded)` |
| `CounterIsTimed` | `~Faults => (Spec => []CounterExpires)` |

A bound on `guesses` alone is not inductive. `GuessesCounted` says where every
guess went: while the account is not locked, each has been counted or belongs to a
call still on its way to the INCR or to the lockout (`Pending`); once it is locked,
only calls that were told otherwise (`Comparing`) can add one. A slot that takes
the count to the threshold cannot come back without setting the lockout, which is
why a slot is worth one guess. With faults the bound is false of Redis: a Track that
fails returns an error that Authenticate drops, and its guess is counted nowhere. The
memory tracker has no command that could fail and dies with the process, attempts
and calls together, so its bound needs no such condition. `CounterExpires` is inductive
beside the types: an INCR leaves its call on the way to the EXPIRE, and a
key whose TTL is over takes the count with it. With faults it is false (section 5).

| Theorem of `RateLimiterProofs` | States |
|---|---|
| `TypeCorrect` | `Spec => []TypeOK` |
| `LimitHolds` | `Spec => []NeverMoreThanLimit` |
| `RefusalsAreEarned` | `Spec => RefusalIsEarned` |

Here `Remembered` carries the argument: for `Span` ticks a request that was let
through is still in the log and the log's TTL is still to come. `Span` is the
shorter of the TTL in whole seconds and the window less the delay; TLC finds the
limit exceeded for one tick more, so the bound is exact, and in particular a Redis
limit whose window is no whole number of seconds holds for the whole seconds only.
The proofs assume finitely many requests and calls.

| Theorem of `AccountsProofs` | States |
|---|---|
| `TypeCorrect` | `Spec => []TypeOK` |
| `LooksKeepApart` | `Spec => []DuplicatesNeedARace` |
| `OnlyOverlapsUndo` | `Spec => []UndisturbedChangesLast` |
| `DeletionIsFinal` | `Spec => DeletedStaysGone` |

`UndisturbedChangesLast` speaks of the table and is undone by the copies that calls
hold, so `Inv` adds `CopiesAgree`: a call about to write a field it was not asked to
change has the settled value in its copy. That holds when the row is read, and a new
value is settled only when no other call has a copy. `CallsOK` says which local
variables are set at which step. `LooksKeepApart` rests on the looks, and holds with
`Indexed` either way: `LooksHold` says that the value a call relies on is held by no
other account unless it has been raced for, which is so right after the look (`LookInv`)
and stays so because a write of the same value is then a race (`WriteKeepsLooks`);
what is written is therefore held by nobody else (`WriteKeepsApart`).

| Theorem of `ShutdownProofs` | States |
|---|---|
| `TypeCorrect` | `Spec => []TypeOK` |
| `EndsAreHeard` | `Spec => []NoTriggerLost` |
| `CloseOrderIsSafe` | `Spec => []NothingCutOff` |
| `ProcessEndsClean` | `Spec => []NothingLeftOpen` |
| `ShutdownImplementsDelivery` | `Spec => Delivered` |

The proofs assume that the limits are numbers and that PublishWithConfirm tries at least
once (`BrokerAssumption`; the code replaces a count of 0 or less by 5). `WaitedFor` is the heart of the shutdown: a request runs only
while main serves or waits for requests, a task also while it waits for tasks; with
`ClosedLast` nobody is left to find the connection closed. `UsedIsWatched` says that a
connection in use has its `waitForClose`, which is why its end is heard. `Received` bounds
the copies of an event by the attempts made, and says that a call awaiting a
confirmation on a live channel has delivered. `OutagesCounted` and `DialsLeft` keep the
counters in their types. Steps of the connection leave the calls where they are
(`CallsRest`), and steps of a call leave the connection alone but for a trigger
(`CallLeavesConnection`), so the two halves of `Inv` are proved apart.

The theorems about the other components of `MCStores` are stated for `StoresSpec`. The
proofs use of it no more than that the component starts in its own `Init` and every
step is one of its own `Next` or leaves it alone (`PinsMoves` and its namesakes), so
that only one component moves at a time is no restriction.

| Theorem of `RowsProofs` | States |
|---|---|
| `ReplacedPinsDie` | `StoresSpec => []ReplacedPinIsDead` |
| `EditsLast` | `StoresSpec => []UndisturbedEditsLast` |
| `LinkedDevicesStay` | `StoresSpec => NoLinkedDeviceDeleted` |
| `AnnouncementsAreBacked` | `StoresSpec => []AnnouncedWasStored` |
| `FollowersAreRight` | `StoresSpec => []FollowersKnow` |

Each component has its invariant. In `PinsInv` a SetPin about to insert knows, as its
rivals, every PIN in the table: it found none, so they were written since. That
is what makes the table safe when it takes two rows. `ProfilesInv` is `CopiesAgree` of
the accounts again, and adds that nothing lasts in a profile while some call has
found none and is about to insert an empty row. In `DevicesInv` a Delete past its look
has seen every account linked since (`LinksKnown`); the action property follows from it
at `DropDevice`. `FilesInv` speaks of the calls about to publish as well as of the events
published (`Backed`), and keeps the identifiers of overlapping Adds apart.

| Theorem of `CachesProofs` | States |
|---|---|
| `CacheNeverLies` | `StoresSpec => []CacheIsTrue` |
| `AnswersAreComplete` | `StoresSpec => []AnswerIsComplete` |
| `ReplaysOverlap` | `StoresSpec => []ReplayNeedsOverlap` |

`LookupFits` says of every lookup that what a goroutine fetched and has not cached yet is a
row that exists, or did: rows are only marked deleted, which is why a late fill does no harm.
It also says that a key asked for is in the answer, lost, or still being fetched, so that
no order of the goroutines loses one. `OAuthInv` says that a challenge that is gone does
not come back, because its flow began before.

| Theorem of `ListingProofs` | States |
|---|---|
| `WalksMissNothing` | `StoresSpec => []WalkMissesNothing` |
| `StoresTypesHold` | `StoresSpec => []StoresTypeOK` |

`WalkMissesNothing` speaks of the end of a walk, `Progress` of its middle: every wanted row
whose rank is below the offset of the page to come has been seen, and once the COUNT says
that the page is the last, all ranks are below the total. A step takes at most one row
from its place (`OthersStay`). If that row was before a wanted one, the wanted one moves
up by one place at most, so no further than to where the other was, which is on a page
still to come unless the walk is spoiled; if not, no rank falls (`RankMoves`, `ChangeInv`).
Rows that come in raise ranks, which can only matter where the total is already counted.
At the last page `PagesCover`, the lemma about `calcTotalPages`, says that the
pages asked for hold all of the total. The pages may have any size, and the table any number of rows.

`StoresAssumption` is what these proofs, and TLC's runs, take for granted: the empty string is a
text, the values that say that a row is not there are no rows, the lists asked for
exist, the table is finite, and a page size is at least 1, as `request/common.go` validates.

Functions of two keys are functions of a pair here (`link[<<a, i>>]`), a form that the
proof system reads as well as TLC does.

Only model-checked: the liveness properties, which TLAPS does not handle under
fairness (`DeletedUserFadesOut`, `LockoutEnds`, `CloseEnds`, `ShutdownEnds`). Every other
property of a passing run has its theorem (`DeletionFadesOut` and `FaultyLockoutEnds` are the
names of the first two in the runs). Neither: `RefreshIsSingleUse`,
`RevokedDeviceHasNoSession`, `RefusedOnlyIfLinked`, `ChallengeIsSingleUse` and
`PublishTriggersReconnect`, which are false of the code, and `CounterExpires` with faults
(section 5).

## 5. Findings

* `sessions_single_use`: `auth.go:479` and `device_lifecycle_test.go:229` call
  refresh tokens single-use. The whitelist is checked at the start of RefreshToken
  and the entry removed at its end, so overlapping refreshes all succeed.
* `sessions_revoke_device`: `user.go:607` removes "the session" of a device, but a
  `user_device` row remembers only the latest login, so earlier sessions on the
  device survive its revocation, against `device_lifecycle_test.go:190`.
* `lockout_counter`: `attempt_tracker_redis.go:65` says the EXPIRE after INCR
  ensures that the counter expires; when EXPIRE fails nothing repairs it before
  the next failed attempt.
* `device_delete`: `core/service/device.go:73` looks for "active user devices linked to
  this device", but `userDeviceRepo.List` uses no part of the filter it is given, so that
  a single row of `user_device`, of whatever device and revoked or not, blocks the
  deletion of every device.
* `oauth_single_use`: `google.go:335` deletes the challenge "for one time use", and
  `google_test.go:786` calls it single-use. GET and DEL are two commands, so two callbacks
  that both come before the DEL go on with the same challenge; that Google takes a
  code once is what keeps one of them from logging in.
* `shutdown_trigger`: `rabbit.go:143` says that publish operations "also trigger
  reconnection on failure". With the connection closed they fail in `getConnection`,
  which triggers nothing, so a connection whose end nobody heard, or whose attempts
  are used up, stays closed however many events are published.

## 6. Plan

In this order; all are done.

1. `Sessions`, `SessionLife`, `SessionsProofs`.
2. `Lockout`, `LockoutProofs`.
3. `RateLimiter`, `RateLimiterProofs`.
4. `Broker`, `Delivery`, `Shutdown`.
5. `Accounts`, `Profiles`, `Pins`, `Resolver`, with `AccountsProofs`.
6. `Devices`, `Files`, `OAuth`, `Listing`, and `MCStores` over all.
7. `ShutdownProofs`.
8. `RowsProofs`, `CachesProofs`, `ListingProofs`, and the theorems of `LockoutProofs` about
   the counter and the memory tracker.

Not to be modelled: password hashing and JWT signatures (bytes), SQL text,
protobuf conversion and request validation (stateless), CloudEvents formatting,
configuration loading, tracing and logging; `executor.Do` (it calls its function in
place), and what has no caller in the service: `DoParallel`, `Rabbit.Publish` without
confirmation, `DeclareExchange`, the resolvers for a single key.

Some properties leave out a race or a fault, since the code has nothing against it and the
property would be false with it; `PROJECT.json` says so at each hazard. Overlapping
whole-row writes of an account or a profile do lose a change. A login may link a device
that is being deleted. A file that a Delete has removed is announced as updated by an
Update that overlapped it, and a retried Add inserts a second file. The cache may lead to
a row deleted meanwhile, until the TTL. A GET that fails inside a pipeline leaves its key out
of the answer. LIMIT and OFFSET pass over a row in the two cases above.

These hazards have no property. The memory rate limiter keeps every address it has
ever seen, as nothing calls Cleanup (`rate_limiter_memory.go:102`): that says only that
a call is missing, and `RateLimiter` has one address. A page that a broken connection
cuts short passes for a whole one (`repository/user_file.go:310` and the other
lists): `WalkMissesNothing` leaves such a walk out, and nothing weaker is worth saying of it.
The loser of two first logins from one device gets a token for a device without a row
(`auth.go:663`), a repeated INCR counts an attempt twice (`attempt_tracker_redis.go:56`), and
Update sets a status that `model.User.Activate` would refuse (`user.go:296`): the models have
these steps, and no check in the code that a property could rest on.
