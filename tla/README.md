# Verification of ScriptureForge AI

TLA+ models of the stateful parts of this repository, TLC configurations that
check them on small instances, and TLAPS proofs of their main properties for
every value of their constants. `PROJECT.json` lists components, runs, mutants,
findings, hazards and theorems, and maps every definition that models code to
the lines it models.

    tlc -workers 2 -config AuthSessions.cfg AuthSessions   # one run
    tlapm AuthSessions_proofs.tla                            # one proof module

## The system

The repository holds two back ends and two clients.

* **Production engine** (`cmd/platform-engine`, `internal/`): a Go HTTP server
  over PostgreSQL (pgxpool), Redis, a gRPC scripture service in Rust, an LLM
  API and Zoom.
* **Mock engine** (`services/platform-engine`): a Go server with in-memory
  maps, a write-ahead log, a hashing pool, a rate limiter and a limit on
  concurrent requests; the disaster-recovery exercises of `test-env/` and
  `scripts/` run against it.
* **Clients**: `web/` (Next.js) and `mobile/` (Expo).

| Component | State | Operations | Talks to | What is hard | What makes it correct |
|---|---|---|---|---|---|
| accounts and sessions, `ports/auth_http.go` | rows of `users`, `refresh_tokens` | register, login, refresh, logout, MFA enroll | PostgreSQL, RBAC middleware | overlapping requests at READ COMMITTED, lost replies, ignored errors | rotation is all or nothing, revocation is final, tenants do not mix, privileged claims need a second factor |
| JWT and RBAC, `domain/auth` | none (signed claims) | issue, check | every protected handler | claims outlive the role they state | claims are those of the account when issued |
| pool and shutdown, `cmd/platform-engine/main.go` | connections, waiting handlers | acquire, release, Shutdown | every handler | nested transactions, hang-ups, a deadline | no leak; only nested logins bring it to a standstill |
| rooms, `ports/rooms_http.go` | `live_rooms`, `room_participants`, Redis flags | create, list, poll | PostgreSQL, Redis | commit and Redis write are separate | members only; polls are up to date |
| room stream, `ports/driving_wss.go`, `domain/room/redis_lua.go` | socket, Redis sequence and latest event | upgrade, read loop, Lua scripts | Redis | concurrent sockets, repeated and abandoned scripts, key expiry, stale membership | acknowledged events numbered in order, number and event agree, every sender answered |
| Zoom client, `integration_zoom/zoom_client.go` | failure count, open-until time | create, terminate, status | Zoom | calls that report after the circuit opened, probes after the window | an outage costs little, it closes when Zoom is well |
| Zoom webhook | Redis active flag | started, ended | Redis | late, repeated, reordered deliveries | nothing reads the flag |
| map-reduce worker | results and errors by index | chunk, process | LLM client | goroutines finishing in any order, cancellation | order kept, all or nothing, chunks within bounds |
| AI endpoint, RAG, verifier, LLM client | audit rows | compile, complete, verify, log | gRPC engine, LLM, PostgreSQL | one chunk of several fails, retries, swallowed errors | no partial or unverified answer; a log that does not lie; bounded retries |
| journal endpoint, `ports/journal_http.go` | `journal_entries` (ciphertext) | create, list | PostgreSQL | - | own entries only, under the salt the row names |
| hashing pool, `auth_hashing.go` | queue, workers, result channels | submit, take, complete, time out | login, register of the mock engine | callers that give up, the full queue | bounded, no lost or mixed answers |
| write-ahead log, `services/platform-engine/main.go` | log file, maps, counter | append, recover, close | file system | crashes between steps, torn writes, signals | what was acknowledged comes back |
| rate limiter and lockout, `rate_limiter.go` | trackers by IP and e-mail | check, record, evict | login, register of the mock engine | trackers shared by pointer, logins under way while the lock is set, eviction races | guesses and requests bounded, locks deserved and kept |
| concurrency limit | counter | enter, leave | every mock handler | early returns at the limit | counter equals requests inside |
| scripture engine (Rust) | none | one query per call | PostgreSQL | - | - |
| clients | session, rooms, key, entries | fetch, derive, save, socket | production engine | results that arrive after the user moved on | a save uses the key and session on screen |
| backup and restore scripts | snapshot files | copy log | mock engine's log file | copying under a running process | a restored log replays |

Interactions: handlers share the pool (calls that wait), the rows of the
database (locks), Redis keys (scripts that run alone) and, in the mock engine,
mutexes and channels. The hashing pool is called by the login and register
handlers, behind the concurrency limit and the rate limiter, inside a two-second
context that begins after the body was read; the write-ahead log is called by every
handler that changes memory, and by `main` on a signal.

## Modules

| Module | Models | EXTENDS / INSTANCE |
|---|---|---|
| `AuthSessions`, `AuthSessions_proofs` | `internal/ports/auth_http.go` with the tables it uses and the claims RBAC lets through | FiniteSets |
| `RoomEvents`, `RoomEvents_proofs` | rooms: `rooms_http.go`, `driving_wss.go`, the scripts of `redis_lua.go` | Naturals |
| `Chunker` | `Chunk` of `domain/ai/mapreduce.go`, as operators | SequencesExt |
| `Curriculum`, `Curriculum_proofs`, `MCCurriculum` | the curriculum endpoint: `ai_http.go` with `rag.go`, `llm/client.go` and `verification.go` | EXTENDS `Chunker` |
| `LoginGuard`, `LoginGuard_proofs`, `MCLoginGuard` | `circuitBreakerMiddleware`, `rate_limiter.go` and the handlers of `auth_handler.go` | Integers, FiniteSets |
| `ZoomBreaker` | the circuit breaker of `zoom_client.go` | Integers |
| `ZoomRate` | the breaker beside the rule `SF-architecture.md` gives for it | EXTENDS `ZoomBreaker` |
| `JournalClient`, `JournalClient_proofs`, `MCJournalClient` | the journal editor, the session it depends on, `journal_http.go` | Naturals, FiniteSets |
| `ConnectionPool` | the pgxpool as the handlers use it, and `main`'s shutdown | SequencesExt |
| `Platform_proofs` | theorems about `ConnectionPool` and `ZoomBreaker`, which do not interact | EXTENDS both |
| `HashingService` | what the hashing pool promises | abstract |
| `HashingPool`, `HashingPool_proofs` | `auth_hashing.go` | INSTANCE `HashingService` |
| `TransactionLedger` | what the write-ahead log promises | abstract |
| `WriteAheadLog`, `WriteAheadLog_proofs` | `initWAL`, `appendWAL`, the three handlers, the signal path of `main` | INSTANCE `TransactionLedger` |

The modules take their parameters as CONSTANTS and the configurations give them
model values, so a run names the module itself, except where a set of inputs has to
be built (`MCCurriculum`: the topics) or symmetry is used (`MCLoginGuard`: the
requests; `MCJournalClient`: users, passphrases). The modules `*_proofs` EXTEND the
module they are about.

### AuthSessions

A member of `Requests` is one HTTP request and, as a token, secret or set of
claims, what that request issues. `users` and `tokens` are the committed rows;
uncommitted writes are where the handler's `pc` is, and the locks they hold are
derived from it (`RowLocked`, `AccountLocked`, `EmailLocked`). An action is one
SQL statement or the commit with the reply, because another request can run
between any two of them; at READ COMMITTED the UPDATE of a refresh re-evaluates
only `WHERE id = $1`, so `RefreshUpdate` does not look at `revoked` again.
`Fail(r)` is every error path: a failing statement, a cancelled context, a wrong
password; the deferred Rollback undoes what was not committed. `Committed(r)`
delivers the reply or loses it. Clients present only what a reply brought them
(`Held`), with any organization. Time (`ExpireRefresh`, `ExpireAccess`) and
role changes made directly in the database (`SetRole`; no handler changes a
role) are the environment. `LogoutNoEffect` is the 204 of a logout whose UPDATE
matched nothing or failed.

### ConnectionPool

`pc` says how many connections each handler holds (`Held`). A handler begins a
transaction and returns its connection by the commit or the deferred Rollback;
`GenerateCurriculumHandler` does so several times, one after another
(`EndTransaction`, `BeginAnother`), and holds nothing while it calls the model.
`LoginHandler` alone acquires a second connection, in `issueRefreshToken`, while
the first is still held. `Disconnect` cancels the request's context at any point.
`Holders(n)` are the requests that hold at least `n`; what is held is the members
of `Holders(1)` and of `Holders(2)` together. `Terminate`, `Exit` and
`ForcedExit` are the signal, the end of `server.Shutdown` and its ten-second
deadline followed by `log.Fatalf`. The deadline may come at any moment of a drain:
handlers blocked in a standstill miss it, and so may one that is still calling the
model.

### RoomEvents

A room is the row `CreateRoomHandler` commits with its host as only member
(`host`; no handler changes either afterwards) and the two Redis keys that the
script of `AppendRoomEvent` writes. A socket reads one message at a time:
`phase` is "sending" while its script is under way and "applied" once Redis ran
it and the reply is outstanding. Redis runs a script alone, so `Script` is one
step; all else interleaves. go-redis repeats a command after a broken or timed
out connection (`Repeat`), and what it stops waiting for may still arrive
(`StopWaiting`, `ExecuteLate`), also after a process ended (`Close`). `Answer`
ends an iteration of the loop: the event with its number, or "failed to persist
room event", which says nothing about whether it was stored. The keys expire
together after a day without a script; no request about a room takes a day
(`Quiet`). `RoomStateHandler` checks membership and then reads (`PollCheck`,
`PollRead`). `earlier`, `past` and `strayed` are history for the properties;
`number` is what the last awaited script of a message returned.

### Chunker and Curriculum

A text is a sequence of paragraphs, a paragraph a sequence of sentences, a
sentence its length. `Chunk` goes over them as the loops do, with the
`strings.Builder` as a record; a chunk is the places of its sentences and its
length. `Loop` is what the loops have in common, a recursive function of the number of
elements seen, so that the proofs can use induction. `TrimSpace`, which only
shortens the last chunk, is left out.

`Curriculum` is one run of `GenerateCurriculumHandler`: `Split`, and for each
chunk `Compile`, attempts to reach the model, `Verify` and `Log`. An error at any
step (`CompileFails`, `AttemptFails` on the last attempt, `Refused`, a failed
verification) ends the request after one more log transaction. `HangUp` cancels
the context that every call is given. A retry of `performRequest` passes the same
`http.Request` to `Do`; its body has been read, and whether net/http rewinds it,
fails, or sends it empty depends on the connection, so an attempt may have any
result. `WriteLog` commits the row with all its citations or nothing: a failed
statement aborts the transaction, and the errors are discarded. So rows may be
missing although `FUNCTIONALITY_AUDIT_BRIEFING.md` lists them as persisted; what is
stated is that those that exist are right. An answer is the set of its citations;
`Recognized` is what the two regular expressions see of them. Requests share
nothing but the pool, so one request is the instance.

### HashingPool

`tasks` is the buffered channel, `worker` what each goroutine does (`Looping`
back to the channel, `Parked` in the receive, or hashing a call), `resultCh` the
one-element channel of each call. Go's rules are the guards: a send succeeds if
the buffer has room or a receiver is parked, a parked receiver is preferred, and
`default` is taken otherwise. `HashingService` keeps only `caller` and the set
of unfinished calls.

### WriteAheadLog

`file` is the sequence of writes, each with its `extent`: part of the JSON text,
all of it but the newline, or the whole line. `Parseable` says what the scanner
of `initWAL` makes of them: a piece without a newline and the entry written after
it share a line and are lost together. `synced` is what survives a power loss;
of the rest a prefix does. `Die` is what every end of the process has in common.
`Faults` selects which failures an instance has. `harmed` is history: a write failed,
the power went or a signal came. `TransactionLedger` promises that clients are told
only of transactions that every later restart brings back for as long as it is
`sound`, which the log is until it is `harmed`; kills and failed syncs do it no
harm. `walMutex` is held from `Write` to
`Sync`. The three handlers differ only in the map they store into and are one
kind of request; a request stands for its identifier. A write that a kill
interrupts is taken as complete: the kernel finishes it.

### LoginGuard

One login or registration of the mock engine from the middleware to its reply.
`CheckIP`, `IsAccountLocked` and `RecordAccountAttempt` each load a tracker from a
`sync.Map` and lock it afterwards; between the two (`FindIP` and `CheckIP`,
`LoadAccount` and `IsAccountLocked`, `FindAccount` and `RecordAttempt`) the
eviction loop may delete the key, so requests that hold the old tracker and
requests that store a new one count apart. A tracker is therefore named by the
request that stored it, and the maps (`ipMap`, `accountMap`) hold such names. The
loop itself looks at a tracker under its lock (`Sweep`) and deletes the key
without it (`Evict`). `Counted` and `Failed` are the two counting rules.
`HashFails` is everything the hashing pool may answer but a hash; what it
promises is `HashingService`, so its queue and workers are not repeated here.
Between `CheckIP` and `Decode` a request waits for its body, which may take hours:
the server has no `ReadTimeout`, and the two-second context begins afterwards. So
the clock moves while requests are in "decoding", and an attempt counts at the time
`RecordAccountAttempt` records it (`recorded`), not when its request came. All else
that a request does, and a sweep, are far shorter than a tick. When a request
leaves, `req` and `forewarned`, which nothing reads any more, are forgotten to keep
states few.

### ZoomBreaker

The three operations ask `circuitOpen`, fetch a token, send a request and call
`recordResult`; nothing is locked between the first and the last, so calls
overlap in every order. `healthy` says whether Zoom answers in time, the
credentials are set, and callers are patient: the client does not tell these
failures apart. Failures are counted up to the threshold only, as more make no
difference. `sent` is history: requests sent in an outage since the circuit last
opened. `ZoomRate` adds the results of the last minute (`recent`), for the rule of
`SF-architecture.md` that the code does not follow.

### JournalClient

A key is what it was derived from (`Key`), an entry the user of its token, the
salt its body names and the key it was encrypted under. `KeyEffect` is the effect
on `[passphrase, userSalt]` with the cleanup of its last run: a derivation under
way becomes abandoned, and its result is dropped when it comes (`AbandonedEnds`);
the key in use stays until the new one is there (`Derived`), or is cleared when
there is nothing to derive. `Click` captures what the closure of
`handleSaveToNetwork` does, and the save goes on with it whatever changes
(`Encrypted`, `Insert`, `Saved`). Sign-ins, lists and saves are answered in any
order, fail, or lose their answer after the commit. `Select` may return a part of
the entries: the query has a LIMIT, and the handler does not ask `rows.Err`. The
module is about the web editor. Of the mobile client it has signing in again
without logging out (`Submit`); its journal container derives and saves in the
same order, but its cryptography is another (see Findings), so nothing here is said
of its entries.

## Runs

| Run | Checks | Shows |
|---|---|---|
| `auth_sessions` | RotationIsAtomic, RevocationRefusesLaterRefresh, TenantIsolation, EnrollmentStartsFromARefresh, RevocationIsFinal, EveryRequestIsAnswered | every interleaving of three requests that present either of two organizations: no half rotation, nothing leaves its tenant, no step undoes a revocation, row locks never block a handler for ever |
| `auth_mfa_claim` (violation) | PrivilegedClaimsNeedMFA | a refresh hands privileged claims to an account without a second factor |
| `pool_standstill` | ConnectionsAddUp, StandstillIsLogins, OnlyLoginsStarve | no leak on any path; only nested logins can bring the pool to a standstill, and whatever keeps a request waiting for ever is a pool full of them, even if no client ever hangs up |
| `room_events` | KeysAgree, AcknowledgedInOrder, PollsAreUpToDate, EveryEventIsAnswered | two sockets, two rooms and a poll, with scripts repeated, abandoned and executed late, and keys that expire |
| `curriculum` | ChunksKeepTheText, ChunksAreBounded, DeliveredIsGrounded, AuditIsTruthful, PromptsAreBounded, EveryRequestEnds | a failure possible at every call of one request: chunks lose nothing and stay bounded; answers, audit rows and prompts belong to their chunks |
| `hashing_pool` | EachCallIsHashedOnce, AnswerIsOwn, ServiceSpec, AcceptedWorkIsFinished, EveryCallerReturns | four callers, two workers, a queue of one: the pool implements the service; callers that time out do not clog it |
| `login_guard` | InsideIsCounted, GuessesAreBounded, LockIsDeserved, LockHolds, IpIsThrottled | four requests, two inside at a time, with bodies that take their time, evictions, and hours passing in between: the concurrency counter is exact, wrong passwords and requests are bounded, locks are deserved and hold until they are evicted |
| `zoom_breaker` | OutageTrafficIsBounded, Recovers | four callers while Zoom fails and recovers: an outage costs each caller one call per window, and the circuit closes for good afterwards |
| `zoom_rate_claim` (violation) | TripsBelowNinetyPercent | seven of ten calls of one minute fail and the circuit stays closed |
| `journal_client` | EntriesOpenWithWhatWasShown, ForeignEntriesStayClosed | derivations, sign-ins, saves and lists that overlap: an entry opens with what was on the screen, and entries of another account on the screen stay closed |
| `wal_faults` | StateHashAddsUp, OnlyTornLinesLose, LedgerSpec, EveryHandlerEnds | with every fault, the counter agrees with the maps, the log is a ledger until an event it does not outlive, only a torn line takes a synced entry away, and no failure leaves `walMutex` locked |
| `wal_torn_claim` (violation) | DurableSurvives | after a loss of power, a torn line swallows the next, fully synced entry |

Type invariants (`TypeOK`) are proved rather than run; that of `ConnectionPool` is
also a conjunct of ConnectionsAddUp.

**Bounds.** Each request happens once; the set of requests is the only bound of
`AuthSessions`, `HashingPool`, `ConnectionPool` and `WriteAheadLog`, and crashes,
role changes and expiries are not limited. Three requests on one account let a
token be issued, raced for by two requests, or used and used again; a second
organization is there because isolation is violated by one request presenting
another organization than its token's. That accounts do not mix either, and that
longer chains of rotations add nothing, is left to the theorems. A pool of two
with three logins and two other requests is on both sides of the standstill. Two
workers and a queue of one fill up and drain with four callers. For the log, an
entry is damaged by its neighbours only, so three entries show every combination
of two torn writes around a good one. For rooms, order and uniqueness are about
pairs of messages, so two suffice, from one socket or two, in one room or two;
one repeat lets a script run twice, and an abandoned one run last. For the
curriculum, empty, short and oversized sentences in one or two paragraphs reach
every branch of `Chunk`; three chunks put an accepted answer before and after any
other, and a verse the verifier sees and one it does not are all it can tell apart.
For the login guard, two of four requests inside at once exceed a lock after two
failures by exactly the one under way, and four requests fill one IP window twice.
All periods are one tick there and the clock ends at two, so that every window,
and the hour, can pass while a request waits for its body, and trackers of both
kinds are evicted under requests that hold them; addresses and accounts
share nothing, so one of each is enough, and the number of evictions is not
bounded. The limits are smaller than the code's (500, 5, 1000 and 5) but in the
same relation, and the theorems hold for all. For the breaker, four callers are one
more than the threshold of three, so a call is still under way when three others
have opened the circuit; callers repeat for ever. For the journal, properties are
about one entry and one key, so one save among two users and two passphrases
shows every mismatch; three sign-ins or lists under way and two abandoned
derivations overlap with all of it.

**Deadlock** is not checked where the system may stop: all requests were served
(`AuthSessions`, `HashingPool`, `RoomEvents`, `Curriculum`, `LoginGuard`) or the process ended (`ConnectionPool`). It is
checked in the runs of `WriteAheadLog`, which can always restart, of
`ZoomBreaker` and of `JournalClient`, whose users can always act.

**Fairness.** `AuthSessions`: weak fairness of each handler while it does not
wait for a lock (`Waits`), as statements complete or fail and the server runs
every goroutine; a wait is ended by the transaction that holds the lock, or not
at all. `ConnectionPool`: weak
fairness of handlers, of the pool's queue (first come, first served in pgxpool)
and of the end of a drain, by `Exit` or by its deadline; strong fairness of
`Finish`, since a handler has finitely many chunks and so comes to its last
transaction. Clients never have to hang up. `RoomEvents`: weak
fairness of each socket's call to Redis, which is answered, repeated or given up;
never of messages, polls, late scripts or expiry. `Curriculum`: weak fairness of
the handler; calls to the model have a timeout, and the scripture engine and the
database, whose calls have none, are assumed to answer or to fail; never of
`HangUp`. `HashingPool`: weak fairness of workers and of a caller
whose result is ready; never of `Cancel`. `WriteAheadLog`: weak fairness of
handlers; never of failures or restarts. `ZoomBreaker`: weak fairness of time and
of each call under way, as the HTTP client has a timeout; never of callers, nor of
Zoom's health. `LoginGuard` and `JournalClient` have safety properties only and no
fairness: nothing in them waits for anything but a timeout.

## Proofs

Every invariant and action property of every passing run, and both refinements, are
theorems, for every value of the constants. Each proof module has an inductive
invariant, one lemma per action, and theorems derived from it. Assumptions are those
of the modules (`NoneAssumption`, `PoolAssumption`, `WalAssumption`,
`RoomAssumption`, `CurriculumAssumption`, `TopicsAssumption`, `GuardAssumption`,
`BreakerAssumption`, `JournalAssumption`): finite sets where the definitions count,
markers that are no requests, limits that are positive, periods in ascending order,
topics that are texts without empty paragraphs, as the splitting leaves them.

* `AuthSessions_proofs`: TypeOK, RotationIsAtomic, RevocationRefusesLaterRefresh,
  TenantIsolation, EnrollmentStartsFromARefresh and RevocationIsFinal, for any
  requests, accounts and organizations. The properties say nothing of handlers
  between their statements, so the invariant adds what each `pc` implies about the
  rows read (`LocalInv`), what holds between rows (`TableInv`) and what an answered
  revocation leaves behind (`HistoryInv`). Where a second factor comes from needs
  more (`FactorInv`): no privileged login passes and no enrollment writes for an
  account before a refresh has issued privileged claims for it (`Bought`).
  OnlyRefreshesSkipTheSecondFactor says how far the finding of `auth_mfa_claim` goes:
  since secrets are replaced and never removed, a login that goes on with a
  privileged role has a second factor behind it for good. NoLostUpdate is about the time
  between an UPDATE and its commit: nobody else changes the row written, since
  whoever writes it takes the lock first (`OneWriterPerRow`). It is the part of
  EveryRequestIsAnswered that no fairness is needed for: one holder for each lock,
  and holders never wait.
* `Platform_proofs`, the pool: TypeOK, ConnectionsAddUp and StandstillIsLogins, for
  any requests and pool. The conservation law is inductive together with the points
  only a login reaches (`LoginPoints`); one lemma says what moving one handler does to
  the two cardinalities (`HoldersChange`), and three what joining, serving and
  leaving do to the queue. LargePoolsNeverStandStill draws the conclusion an operator
  needs: with more connections than concurrent logins some handler can always go on.
* `Platform_proofs`, the breaker: TypeOK and OutageTrafficIsBounded, for any callers,
  threshold and window. In an outage an idle caller has sent nothing since the
  circuit last opened, since each recorded failure opens it anew, and one that waits
  for its token has sent one request (`SentInv`).
* `HashingPool_proofs`: the safety properties and `Spec => ServiceSpec`.
  A call may only be accepted if it is nowhere in the pool, which needs that
  refused and new calls have no place (`CallsInv`) and accepted ones have one
  (`PlaceInv`). The refinement counts: an injective queue has as many members as
  its length, the busy calls are at most the occupied workers, and a parked
  worker leaves room for one more. WaitingCallersAreServed is the safety half of
  EveryCallerReturns: a waiting caller's call is in the pool or its result is there
  (`NothingIsLost`), and then some worker can move.
* `RoomEvents_proofs`: TypeOK and the three safety properties, for any rooms,
  sockets, messages and repeats. What a poll returns is not older than what it
  must not miss because numbers only grow while the keys exist: the invariant
  says that a number belongs to one message (`UniqueInv`), never exceeds the
  stored one (`MessageInv`), grows from a message to any read after its
  acknowledgement (`OrderInv`), and that the keys outlive the poll (`PollInv`).
* `Curriculum_proofs`: TypeOK and the five safety properties, for any topics, verses
  and retries. DeliveredIsGrounded, AuditIsTruthful and PromptsAreBounded compare
  sequences that grow at different steps, so the invariant says how long each is at
  every `pc` (`StepInv`), what is about to be logged (`DraftInv`), and that rows are
  about finished chunks (`RowInv`); they hold whatever `Chunk` returns.
  ChunksKeepTheText and ChunksAreBounded are about `Chunk` itself, for texts of any
  length. `Iteration` says of any loop that an invariant of its body is one of the
  loop; it is stated for tables of the loop's values and proved by taking the first
  round that breaks the invariant (WFMin of WellFoundedInduction), because
  the library's induction theorems take an operator, which the provers cannot
  instantiate. The invariant of the loops: what is closed and what is in the builder,
  put together, is the text so far (`BuiltKeeps`), and the builder's length is the
  sum of what it holds.
* `WriteAheadLog_proofs`: everything under every fault. TypeOK and StateHashAddsUp
  follow from the facts that a request writes at most once (`FileInv`) and that a
  dead process has no memory (`MemoryInv`). LedgerSpec (LogIsALedger): as long as the
  log is not harmed it is open whenever a handler runs and no write is torn, so what
  is acknowledged is in it. That promise ends for a reason: a signal or a failed
  write lets transactions be acknowledged that are nowhere on disk. OnlyTornLinesLose
  (OnlyATornLineLosesAnEntry) is how far the finding of `wal_torn_claim` goes: a
  durable entry is a whole line in the synced part of the file, so only a torn write
  right before it can take it away, and nothing appended later can; hence
  DurableSurvives when nothing tears a write (LogSurvives). MutexIsHeldByItsWriter is
  the safety half of EveryHandlerEnds.
* `LoginGuard_proofs`: TypeOK, InsideIsCounted, GuessesAreBounded, LockIsDeserved,
  LockHolds and IpIsThrottled, for any requests, addresses, accounts and limits. The
  counter counts the requests inside because none of them has been answered
  (`InsideInv`) and trackers in use exist (`RefInv`). `LockInv` says how far a
  request gets whose account was locked when it came. The count of a tracker is a
  lower bound for its wrong passwords recorded in so many hours (`FailureInv`), hence
  LockIsDeserved, and an upper bound for those of the last hour if no right one came
  (`GuessInv`). Once a tracker is locked only requests already past the check can add
  to it (`Pending`), of which there are fewer than `MaxConcurrent`; that guesses and
  pending requests together do not grow is the invariant behind GuessesAreBounded.
  IpIsThrottled is about any minute, and the code counts in windows: of a window that
  ended, the first request falls into no minute that reaches the next one, so
  `PerMinute - 1` of the old and `PerMinute` of the new are the most (`WindowInv`).
* `JournalClient_proofs`: TypeOK, EntriesOpenWithWhatWasShown and
  ForeignEntriesStayClosed, for any users and passphrases. The key that is up to
  date is the one of the passphrase and user shown (`KeyInv`), a click keeps that
  (`ClickInv`), and a row keeps its click (`RowInv`).

Only model-checked are the liveness properties (EveryRequestIsAnswered,
OnlyLoginsStarve, EveryRequestEnds, EveryEventIsAnswered, AcceptedWorkIsFinished,
EveryCallerReturns, EveryHandlerEnds and Recovers): fairness and ENABLED are out of
TLAPS's reach here.

## Findings

Each violation run is a disagreement between the code and its documents, which
`PROJECT.json` quotes:

* privileged claims without a second factor after a promotion (`auth_http.go:331`);
* a torn last line that destroys the entry after it (`services/platform-engine/main.go:72`).
  The document quoted is about a SIGKILL, after which the log does come back
  (`wal_faults`, LedgerSpec); the trace needs a loss of power;
* a Zoom breaker that counts a streak where `SF-architecture.md:218` wants a rate
  (`zoom_client.go:52`): it stays closed while seven of ten calls of a minute fail.

Met while modelling, and not a run:

* `security/compliance_mapping.md:4` says graceful shutdown prevents transaction
  truncation. A handler that has not finished ten seconds after the signal ends in
  `log.Fatalf` with its transaction open (`ForcedExit` of `ConnectionPool`): one that
  is slow, and every handler when as many concurrent logins as the pool has
  connections block each other, since each needs a second one (`auth_http.go:295`).
* `DISASTER_RECOVERY_METRICS.md:15` says transactions are persisted before memory
  changes. After a failed write, or when a signal has closed the log under a
  running handler (`main.go:157`), the error is logged and the transaction stored
  and acknowledged all the same (`WriteFail` of `WriteAheadLog`).
* `verification.go:19` says every citation exists in the permitted sources. The
  pattern does not see books whose name begins with a number, so such a citation is
  delivered beside a grounded one and is not in the audit trail (`Recognized` of
  `Curriculum`).
* Cancelled calls and answers 4xx count as failures of Zoom, and while the circuit is
  open `TerminateMeeting` answers success for a meeting that goes on.
* `mobile/src/lib/crypto.ts:33-46` encodes the text in base64 and ignores the key,
  and derives by SHA-256 where the web client uses PBKDF2: what is saved on the phone
  is not encrypted, as a comment there says, and the two clients' keys for one
  passphrase differ.
* `auth_handler.go:76` demands password recovery for a locked account; an hour
  later the lock is evicted (`rate_limiter.go:58`), so LockHolds is about the
  tracker. A failure recorded between the two halves of an eviction is lost.
* `SF-roadmap.md:170` says passphrases and plain text vanish when a session ends.
  Logout clears the key, but passphrase and text stay in the editor, and the next
  user's key is derived from the passphrase that is still there.
* While a new key is derived the old one stays in use: an entry saved then names
  the new user's salt but is under the old key and opens for nobody
  (`JournalEditor.tsx:72`; the entries that are not `Settled`).
* Stored room events never carry the number they were given (`driving_wss.go:105`
  serializes before `AppendRoomEvent` assigns it), so pollers cannot order what
  they read.

## Plan

What is left, most useful first:

1. For the findings that no run states, the exact condition under which the claim
   holds, as OnlyATornLineLosesAnEntry and OnlyRefreshesSkipTheSecondFactor give it
   for the two violations: which acknowledged transactions are in the log, and which
   entries of the editor are `Settled`.
2. Backup and restore in `WriteAheadLog`: the log copied and overwritten under a
   running process, and identifiers that are clock readings.
3. `MapReduce.Process` implementing an atomic ordered map. Only a unit test calls
   it today, so it waits until a handler does.
4. Rooms on the clients: lists and sockets that answer after the user moved on.
5. `LoginGuard` composed with `HashingPool` instead of the service it implements.

## Not modelled

Cryptography (Argon2id, HMAC, AES-GCM), the text of prompts, answers and
regular expressions, SQL ranking, JSON formatting, CORS, routing tables, the
Rust engine (stateless), the answer the LLM client invents under `GO_ENV=testing`, the Zoom webhook and the Redis flag it and room creation
set (nothing in the repository reads it), generated gRPC code, Terraform and CI. Row-level
security repeats the `organization_id` conditions that the queries carry and is
not modelled separately. Memory pressure, clock steps and partial network
failures inside one SQL statement are not modelled.
