# Verification of yolorouter

yolorouter is an LLM gateway: one Go process that accepts API calls, routes each to one of
several providers and one of the provider's keys, retries over keys and providers, charges the
caller's budget and records what happened. An administrative API edits the providers, keys and
models it routes over. This directory models the parts of it whose correctness depends on the
order in which concurrent requests, tests, sweeps and edits meet, checks them with TLC and proves
the central invariants with TLAPS.

Contents: 1 the system, 2 the modules, 3 the runs, 4 the proofs, 5 what the checks found,
6 what is not modelled, 7 the plan, 8 how to run it.

## 1. The system

### 1.1 Components with state that concurrent actors share

| component | code | state | operations | what makes it hard | what makes it correct |
|---|---|---|---|---|---|
| circuit breaker | `internal/gateway/circuit` | per provider: kind, failure and success counts, a half fault, two stamps, a generation, the destination | `Allow`, `StillAllowed`, `RecordSuccess`, `RecordFailure`, `RecordSoftFailure`, `IsOpen` | a result is booked minutes after its admission; other requests trip, probe and close in between; an operator moves the provider | late results are dropped, nobody holds a valid admission while it is open, it opens exactly at its threshold, it recovers |
| key pool | `internal/gateway/keypool.go`, called from `relay.go` | per key: a bench, four evidence stamps, the config version; per provider: a cursor | `walkOrder`, `coolKey`, `lengthenKeyBench`, `dropKey`, `clearKey` | the verdicts of overlapping attempts arrive in any order and are about a key that may have been replaced | the bench is what the newest evidence says, the ready keys take turns |
| key verification | `internal/service/provider`, `provider_repository.go`, `markProviderKeyForRetest` of `relay.go` | the key row: status, config version, test generation | claim, probe and commit of a test; replacement; failure marking | tests, replacements and rejections overlap; each writes what it learned some time ago | the status is about the credential in the row, decided by the latest test |
| sticky bindings | `internal/gateway/binding.go`, `reorderBalanced` and `relayCandidates` of `relay.go` | caller key x model -> candidate, with a use stamp; counts per model and provider; dead-end windows | `Route`, `Quarantine`, `Rebind`, eviction | counts kept beside what they count; a walk rebinds long after it routed | counts are exact, capacity holds, new bindings spread evenly, a rebinding yields to a newer one |
| video tasks | `internal/service/videotask`, `video_task_repository.go`, two repository functions for provider changes | task rows, the spend of the key, the projection on the request log | create, poll, settle, reap, retire | several polls and the reaper settle one task; the process stops between recording and charging; the budget gate reads twice | a delivered task is billed once, for what was delivered; a finished task stays finished; every task ends |
| rate limiter | `internal/capability/ratelimit` | per API key: concurrency, request and token windows | admit, release | releases run minutes after the admission, in another window | a refused admission takes nothing; a limit holds in every window |
| decision table | `internal/decision`, `internal/fact` | none | fold of facts, effects of a fact | facts are reported by capabilities in registration order | the verdict does not depend on the order |
| relay loop | `relay.go`, `attempt_outcome.go` | per request: attempt and probe budgets, the walk | candidate loop, key loop, attempt | uses all of the above in turn | bounded attempts, every outcome booked once |
| exchange conclusion | `conclude.go`, `log.go`, `extension.go` | per request: settlement, releases, log row | `conclude`, `finalize` | many paths end a request, panics included | one settlement, one release, one row |
| key auto-recovery | `internal/keyrecovery` | none (a sweep over failed keys) | list, probe | works for minutes from one list | retests only what still needs it |
| mapping probe queue | `modeladmin/probe_queue.go`, `model_service.go`, `model_repository.go` | a queue and the mapping rows | enqueue, probe, commit, recover, and the edits, switches and retests of administrators | probes run outside transactions, and commit by compare-and-set against edits | a disable stands, a verdict is of the target it was probed for, no debt is forgotten |
| idle reader, streaming delivery | `idle_reader.go`, `modality_text_stream.go`, `protocols/relay.go` | one reader goroutine with its timer, the consumer, the caller's connection | read, close, forward, translate, settle | a timer races a chunk, a caller's leaving races an end of the body | no chunk is lost, what is recorded is what happened, no goroutine leaks |
| protocol codecs | `protocols/chat`, `claude`, `gemini`, `responses`, `protocols/usage.go` | a decoder and an encoder per stream | decode a chunk, encode deltas, finish | four protocols order, group and count the same answer differently, and a body may end anywhere | the caller gets a well-formed answer that says and costs what the upstream's does |
| system settings cache | `service/systemsettings`, its handlers and rows | per family: rows with a shared version, a snapshot with its expiries, a single flight | cached read, write with its publication, refresh | a refresh overlaps a write, the database fails for a while, a committed write looks failed | a read is a whole snapshot no older than what was published when it began; a write reports what it replaced |
| authentication and users | `service/auth`, `service/user`, `service/oauth`, `middleware/auth.go` | accounts with failure counts and locks, sessions, providers, one-time states, identities | set up, sign in, change a password, edit an account, begin and complete a login through a provider | a hash or a provider takes its time between what is read and what is written; callbacks are replayed | sessions are of accounts as they last were, an administrator remains, a lock is earned, a person has one account |
| login and rate windows | `middleware/ratewindow.go`, `semaphore.go` | a common window, a map of client windows, slots | allow, acquire, free | a request reads the clock before it gets to the lock | bursts are bounded, the map keeps its cap, no slot is lost |
| API keys | `service/apikey`, `api_key_repository.go`, the allowlist step of `relay.go` | the key row, its allowlist | create, edit, revoke, charge, authenticate, delete a model | an edit decides on a row read before its transaction; a request puts together a row and a list of different moments | flags and allowlist agree, an edit replaces what it was made from, access was granted |
| models catalogue | `modeladmin/model_service.go`, `import_service.go`, `model_repository.go` | model rows, the vision fallback that names one | create, edit, switch, delete, import | every request reads a row in one statement and writes it in another | a column changes at the request of an edit of it |
| self-update | `internal/selfupdate`, the console endpoint, the command | the binary, the copy beside it, a lock file | look, fetch, install, restart | several updaters and an external installer share files, and may die anywhere | an updater replaces what it set out from, and the copy is the version still running |
| admin audit worker | `internal/audit` | a bounded queue | submit, drain, stop | stop races submit | every accepted event is written or counted |

### 1.2 How they interact

A request reads the model's chain of candidates, each with its provider row and keys, **once**.
From then on it acts on a snapshot. It is offered a first candidate by the bindings (`Route`),
asks the breaker of each candidate's provider (`Allow`), walks the provider's keys in the order
of the pool (`walkOrder`), asks `StillAllowed` before each key, and books the result of each
attempt three times over: on the breaker, on the key's record, and on the key's row if the
upstream rejected it. A candidate that failed for its provider's sake is quarantined, and a walk
that lost its bound candidate rebinds. Key tests and replacements, run by the administrative
service, write the same key rows and tell the same key pool. A provider edit gives the row a new
`destination_version`, which the breaker compares, and retires the provider's video tasks.
Deleting a model drags along what names it: its mappings, the allowlists of API keys, the vision
fallback among the settings.

The snapshots are why the parts are hard: every operation carries a witness of what it was
decided on (a generation, a destination, a config version, a dispatch time, a poll stamp, a run's token,
the `updated_at` of a row), and
the receiver compares it. The properties say what these comparisons must achieve.

### 1.3 Hazards

`PROJECT.json` lists them, each at its line. In short: results and verdicts that arrive late or
out of order (breaker, key pool, key rows, task rows, mapping rows); rows read before an edit and
used after it, by tests, probes, edits of administrators, sign-ins and key checks alike; counts kept
beside what they count; checks made in several statements (budget
gate, poll claim, three gates of an admission); a stop or a failing statement between recording
and charging; benches, breakers, tasks and debts of a probe that must end even when nobody comes
back for them; paths of one exchange that each try to answer, settle or blame; bodies that end,
break or fall silent between any two frames, in front of a caller who may leave; counts that two
protocols state in different conventions; one-time states that are played twice; clocks read
before a lock; caches refreshed while somebody writes; a binary replaced by two updaters.

## 2. The modules

| module | models | extends or instantiates |
|---|---|---|
| `CircuitRecord` | the record of one provider and each method on it | |
| `Circuit` | the requests, the operator and the clock around it | `CircuitRecord`, `BreakerEras` |
| `BreakerEras` | the abstract breaker | |
| `KeyRecord` | the pool's record of one key and each verdict on it | |
| `KeyPool` | attempts, tests and replacements of one key, with its row | `KeyRecord` |
| `HealthProofs` | theorems about `Circuit` and `KeyPool` | these |
| `KeyWalk` | the order of a walk over several keys | |
| `Binding` | the registry under requests that walk | |
| `RateLimit` | the windows of one API key under overlapping requests | |
| `Windows` | the windows and the semaphore in front of a login | |
| `Upgrade` | the files of one installation and those who replace them | |
| `AdmissionProofs` | theorems about `Binding`, `RateLimit`, `KeyWalk`, `Upgrade` | these |
| `VideoTask` | the tasks of one key: create, poll, reap, move, crash | |
| `VideoTaskProofs` | theorems about `VideoTask` | `VideoTask` |
| `Decision` | the decision table and the fold of facts | |
| `Delivery` | what a payload says became of an answer, and what the gateway makes of it | |
| `Relay` | one exchange, from the handler's entry to its last deferred call | `Decision`, `Delivery` |
| `MappingRow` | a mapping's row and every statement that writes it | |
| `Mapping` | the probe queue and the administrators around the row | `MappingRow` |
| `MappingProofs` | theorems about `Mapping` | `Mapping` |
| `BodyReader` | the idle reader: pump, timer, consumer | |
| `Stream` | the delivery of a streamed body | `BodyReader`, `Delivery` |
| `Usage` | token counts and their conventions | |
| `AnswerProofs` | theorems about `Usage` and `Stream` | these |
| `Decoders`, `Encoders` | the upstream and caller sides of the four codecs | `Usage` |
| `Wire` | the upstream and the client of each protocol (external) | `Encoders` |
| `Codec` | an answer translated frame by frame | `Wire` |
| `GatewayProofs` | theorems about `Relay` and the fold of `Decision`; lemmas about what a caller is shown of an answer | `Relay`, `Codec` |
| `CodecProofs` | theorems about `Codec` | `GatewayProofs` |
| `Accounts` | accounts, sessions and the requests that edit both | |
| `Federation` | logins through an identity provider | |
| `ApiKeys` | one API key, its owners' edits, the requests that present it | |
| `Catalogue` | the models and the vision fallback | |
| `Settings` | one family of global settings and its cache | |
| `ConsoleProofs` | theorems about `Accounts`, `Federation`, `ApiKeys`, `Catalogue`, `Settings`, `Windows` | these |
| `MCCircuit`, `MCKeyPool`, `MCVideoTask` | symmetry sets, constant functions and small sets for TLC | the module they are named for |
| `MCGateway` | the same; an exchange, or the translation of an answer | `Relay`, `Codec` |
| `MCMapping` | three lives of a mapping, and a view | `Mapping` |
| `MCAdmission` | the same; one of six parts | `Binding`, `RateLimit`, `KeyWalk`, `Windows`, `Upgrade` |
| `MCConsole` | the same; one of five parts | `Accounts`, `Federation`, `ApiKeys`, `Catalogue`, `Settings` |

`MCGateway`, `MCAdmission` and `MCConsole` check modules that share no state in one run: a behaviour
chooses its part at the start, and the other parts rest. That only saves runs. A part's own specification is what
the theorems are about.

A definition whose comment starts with *Bug* or *Mutant* is no part of any specification: it is
how the definition after it would look with a plausible mistake in the code, and is used to see
that a property notices the mistake.

### 2.1 Circuit

One provider: records of different providers never meet. A method of `Breaker` takes the mutex,
touches one record and returns, so it is one operator in `CircuitRecord`, and a call of it is one
action. The code's two time stamps are modelled by the time since them, stopped at `OpenTimeout`,
which is the longest duration they are compared with.

| action | code |
|---|---|
| `LoadProvider(r)` | the request loads the model's candidates with their providers |
| `Admitted(r)`, `Refused(r)` | `Allow` with the destination loaded |
| `EnterKey(r)` | `tryKeys` enters a key: `StillAllowed` holds |
| `Book(r, effect)` | `executeCircuit` for the effect the decision table chose |
| `Leave(r)` | no further key, admission revoked, response written |
| `Repair` | an operator changes the base URL |
| `CircuitTick` | time |

`weight`, `sinceTrip` and `overtaken` are history: nothing but properties reads them. `overtaken`
says of an admission, without looking at generations, that the breaker opened, closed or started
over since; `GenerationsNameEras`, which is proved and not run, says that the generations know
exactly that.

`BreakerEras` is what the breaker promises: a kind and the set of admissions in force. Opening
and closing end all of them, only an admission in force may open or close it. The mapping takes
for `live` the requests in flight whose generation is the record's.

### 2.2 KeyPool, KeyRecord, KeyWalk

One key. `KeyRecord` has one operator per method of `keyPool`; times are readings of its clock and
0 is Go's zero time. In `KeyPool` an attempt goes `Load` (row snapshot) -> `Walk` -> `Dispatch`
(stamp) -> `NoWord`, `Accepted`, `Unauthorized` or `Limited(d)`; a 429 is benched from its headers
and then its body is read (`Exhausted`, or `Learn(d)`); a rejection is stamped, written (`Mark`, or
`MarkLost` when the row has changed or the database fails) and then told to the pool (`Drop`). A
test is `Claim` or `Swap` -> `Probe` -> `Commit(verdict)` or `NoVerdict` -> `Note`. `Mark` and
`Commit` are single updates guarded in SQL, so they are single actions. `heard` and `decided` are
history: the newest evidence the pool was told, per credential, and the evidence behind the row's
status.

`KeyWalk` has several keys and nothing of their credentials: `Walk(offered)` is `walkOrder` with
any subset of the keys, `Bench` and `Release` stand for whatever `KeyPool` does to a key.

### 2.3 Binding

All of `BindingRegistry`, with the requests that call it. `Route` is `Hit`, `Assign` (release of a
stale binding, eviction, choice on the counts that remain, assignment) or `Blackout`; it also
forgets the dead-end windows it finds over, for the providers it asks about. `DeadEnd` is
`skipDeadEndCandidate`, `Served` the end of a walk with `Rebind` when the bound candidate was a
dead end. Which of several equally old bindings an eviction takes is up to Go's map order, and
nondeterministic here. Whether a provider's breaker is open is an input that changes by itself.
A candidate is its place in the chain; a mapping that is deleted and made again is a new one.
`steady` is history: every key so far met its whole chain and kept its place, which is when the
spread of the bindings has to be even.

### 2.4 VideoTask

One API key and one provider. Every statement on the database is an action, and what a call read
before is in the call's record, so any two statements of different calls interleave, any of them
may fail and `Crash` may come between any two. Create is `Accepted` (routed and accepted
upstream) -> `ReadKey` -> `Gate` -> `Insert`. A poll is `Read`, then `Stored`, `ExpireOnSight` or
`Claim`, then `Observe` or `Unanswered`, then `Settle` or `SettleFails`; a poll that read a
completed and unbilled row goes to `Settle` at once. The flight mutex of a task is held from
`Claim` to the end of the settlement (`FlightFree`). The reaper is `SweepExpire` -> `SweepList` ->
`SweepSettle`. `Move` and `LastKeyDeleted` are the provider changes that retire tasks. A charge is
one transaction on the row and the key; the projection on the request log follows it, or does
not (`digest`). Money is counted, not named: a unit price times seconds.

### 2.5 RateLimit

One API key, whose limiter holds a count of requests in flight and two one-minute windows. An
admission is three critical sections of the key's mutex with a clock reading before two of them,
and a release is two; each is an action (`Acquire`, `ReadClock`, `CheckTPM`, `CheckRPM`,
`GiveBack`, `Release`, `AddTokens`), so other requests run between any two. A request keeps the
limits it read on arrival; an edit gives the next one others. The clock counts minutes.

### 2.6 Decision, Delivery, Relay

`Decision` is the table of `internal/decision` row by row, and the fold of a batch. A fact's words
are numbers, because the fold only orders them. `VerdictOf` defines the same verdict without an
order, and `VerdictIsOfTheFacts` compares the two. `Delivery` is what a payload says became of a
2xx answer, how that is held against what the connection shows was written, and which ends each
payload kind can come to (`Ends`).

`Relay` is one exchange. Its control points follow the handler: arrival and its admissions, the
pricing admissions, the chain of candidates (`EnterCandidate`, `SkipCandidate`, `LeaveCandidate`),
the keys of one (`EnterKey`, `Unsent`, `Dispatch`), the answer (`Hear`, `Judge`, `ActOn`,
`Deliver`), `Conclude`, `Release`, `Record`. The breaker and the pool answer as they like; what is
booked against them is on record. `HangUp`, `Expire` and `Panic` may come at any point where the
code can meet them. A payload kind is one of nine: the delivering functions of the modalities,
with one that breaks the contract (`careless`).

### 2.7 MappingRow, Mapping

One mapping of a model to a name at a provider. `MappingRow` has one operator per UPDATE of
`model_repository.go`; a stamp is a number no two operations share, because the code only asks
whether two are equal. `Mapping` has the queue's workers, the reruns, the retry timers, the
recovery sweep and the crash beside the administrators' requests (`Disable`, `Enable`, `Reprice`,
`Delete`, `Requeue`, `Retest`, `Edit`, `EnqueueImported`). Every run reads, probes and commits in
separate steps; a commit may land, miss its guard, fail, or land without its acknowledgment
(`CommitUnheard`), after which it is tried again, misses, and the code reads back whether the row
carries its token. Nothing makes requests wait for one another: edits overlap as they do in
`UpdateModelCandidate`, which takes no lock.

Four variables are history. `off` and `earned` are an administrator's last word on whether the
mapping serves, and the name its verification was obtained for. `strayed` and `relanded` are what
goes wrong in the code itself (section 5): an edit that kept the name it read has written it over
another's, and a run whose verdict landed unheard has landed it again. The properties exempt
these two events by name, and the run `mapping` has both happen.

### 2.8 BodyReader, Stream

`BodyReader` is `IdleReadCloser`: the pump goroutine that is one chunk ahead, the channel of one,
the timer, the context, `done`, and each branch of the consumer's `select`. `Stream` forwards the
frames it returns as they are (`chat`), with a decoder beside (`decoded`), or through a codec
(`translated`), until the body ends, fails or falls silent, or the caller leaves; the end it
comes to is one of `Delivery`. A frame is a unit: line lengths and the buffer of the preamble are
left out. Only the translating relay watches the caller's connection; for the other two a
departed caller shows as a write that fails. The JSON-lines relay settles like the SSE one.

### 2.9 Usage, Decoders, Encoders, Wire, Codec

`Usage` is the record of token counts, with the convention its decoder believed and what each
consumer makes of it. `Decoders` and `Encoders` are the answer side of the four codecs: chunk by
chunk, and a whole body at once. `Wire` is outside the gateway: an answer is a plan (what is said
in which order, why it stops, what it costs, where the counts are put, how it ends), `Frames` and
`Body` put it on the wire of a protocol, and `Client` is what a client of the protocol makes of
what it gets. `Codec` reads the frames one at a time and may be cut off after any of them.
Texts are sequences of pieces, a call's id and name are one value, and an empty arguments object
is the same as none.

### 2.10 Accounts, Federation

`Accounts` has the accounts by name, their sessions and the requests in flight. A sign-in is
`PostLogin`, which reads the row and knows whether the password is right, then `LoginFails`
(counting on the row as it is, `RecordLoginFailure`), `LoginSucceeds` or `LoginRefused`; between
them any edit may run. `PutPassword`, `PostUserPasswordReset`, `PatchUserStatus` and
`PatchUserRole` read, decide and write in steps of their own (`ReadTarget`, `CountAdmins`,
`WriteTarget`), the deletion of the account's sessions being part of the write's transaction. A
session carries the number of edits its owner had seen when it was minted: history, and what
"as they last were" means. A lock ends by itself, but not within one sign-in, which takes no
fifteen minutes.

`Federation` has the providers, the one-time states, the cookies of browsers, the identities and
the callbacks in flight: `PostOAuthState` -> `BeginLogin`, then `GetOAuthCallback` (with any state
ever issued, in any browser) -> `FindProvider` -> `ConsumeAuthState` -> `FetchUserinfo` or
`ExchangeFails` -> `Register` -> `IssueSession`, while administrators create, patch and delete
providers. The provider's answer is an input. `issued` and `people` are history: who began a
login, for which provider row, how often it was spent; and for whom an account was made.

Comments of the code and what the model makes of them: the count of remaining administrators in
`user_service.go` never decides anything, because the bootstrap administrator can be neither
demoted nor disabled. The comment on `SetUserStatus` that the guard on the insert of a session
"cannot fully close" its window is pessimistic, the insert being one statement that asks. A
sign-in that compared the password before a reset may still end in a session issued after it,
which `SessionsAreOwed` does not forbid: the session is of the account as it is then. And
`oauth_provider_service.go:457` says identities survive the deletion of a provider, where
the repository deletes them.

### 2.11 ApiKeys, Catalogue

`ApiKeys` is one key. An edit reads the row and checks the models it names (`PatchAPIKey`), then
decides and writes in one transaction on the row as it has become (`UpdateAPIKey`), comparing
`updated_at` if the caller named one. `DeleteModel` takes a model from the list. A request
reads the row as it comes (`APIKeyAuth`) and the list a moment later (`Admit`). Every write has
an instant of its own, its `updated_at`; that includes the charge for a video (`ChargeVideo`),
which goes through `Update`, where the relay's own charge is an `UpdateColumn` and leaves the
stamp. Remarks, limits, expiry and the rules for members are left out. `granted` is
history: the key has permitted the request's model at some moment since it came. The converse is
not promised: a torn read can refuse a request that was permitted before and after.

`Catalogue` is the `models` table and the setting that names one of its rows. `CreateModel`,
`CreateModelsBatch`, `UpdateModel`, `SetModelStatus`, `DeleteModelCascade`, `SaveFallback` and
`ImportProviderModels` each follow a read in a step before. `stale` is history: the row changed
since the request read it, and the property exempts what such a request writes, because READ
COMMITTED does not keep it from writing it. The comments that say otherwise are in section 5. On
SQLite, whose pool is a single connection (`database.go`), transactions follow each other and only
the requests that use none can overlap.

### 2.12 Settings

One family: its one or two rows with their shared version, the cache entry, the single flight and
the console's writes. A read that the cache cannot answer is `readCached` -> `JoinRefresh` or
`LeadRefresh`, then the flight's `RefreshReads` -> `refreshEntry`, and `FailOpen` or `ServedZero`
when the database fails. A write first reads what it will report to have replaced (`Put...`, one
per family), then writes under the version it names (`UpdateSetting`, which may commit and still
look failed) and publishes (`PublishPut`). `FallbackFollows` is the model rename
or deletion that rewrites the vision fallback and leaves the cache alone. The rows start as a migration or somebody's hand
may have left them. What a refresh publishes and what it reads again afterwards is one step. The
typed getters and the GET handlers only wrap these reads. `chronicle` is history: what the rows
held under each version.

### 2.13 Windows, Upgrade

`Windows` is what `PostOAuthState` passes: the common window (`Allow`), the client's
(`AllowClient`, with the map that is swept when it is full) and the semaphore (`TryAcquire`,
`FreeSlot`). A request reads the clock first (`Ask`) and reaches the first lock at most `MaxWait`
later, so a window may be told of an earlier time than the last. That a request is never later than
a window is long is an assumption: the code bounds it nowhere, and a goroutine that waits a
minute for a mutex would be needed to break it. A request the client's window then refuses has
been counted by the common one.

`Upgrade` is one installation: `exe`, the copy `bak`, the lock file, the server with the gate of
its endpoint, and updaters that may die. An updater is `PostUpdate` or the command, then
`BeginApply`, `Lookup`, `Fetched`, `Confirm`, `AcquireLock`, `Recheck`, `BackUp`, `RecheckCopied`,
`Rename` and `Applied`; `Install` is a package manager, which takes no lock. What it does between
the last look and the rename is out of the code's reach (`overtaken`).

## 3. The runs

All instances are checked exhaustively. Symmetry is used only for safety. Two runs have a view:
`admission` leaves out what an idle request last held and the parts that rest, and `mapping` numbers
stamps by where they stand, which is sound because the code and the properties only ask whether
two are equal. A property that
joins several is written with its parts, each of which has its own name and comment.

| run | instance | properties |
|---|---|---|
| `circuit` | 2 requests, thresholds 2 and 2, timeout 2, 2 destinations, 4 faults, fair | `OpensAtThreshold`, `Recovers`, `RefinesEras` |
| `keypool` | 2 attempts, 2 tests, 1 replacement, 3 claims, 2 instants | `BenchesAreHonest` (`BenchIsEarned`, `NewestLimitHolds`, `RecordIsOfNewest`), `BenchIsNotCutShort`, `VerdictsAreCurrent` (`TestsDecideInOrder`, `OvertakenFailsNothing`) |
| `admission` | one of: 3 caller keys x 2 models, 2 providers, room for 2, 1 request that walks; the same keys on 1 model, 2 requests, a mapping made again; 3 requests, edited limits, one minute's end, absurd counts; 3 keys, 6 walks; 2 clients, 2 requests, clock to three windows; 2 console updates, 1 command, 3 releases | `BindingsAreBalanced`, `RebindMovesOnlyTheDeadEnd`; `WindowsAreExact` (`SlotsAreInFlight`, `WindowCountsItsMinute`, `TallyIsWhatWasUsed`); `TurnsAreFair`; `BurstsAreBounded`; `UpdatesAreReversible` |
| `video` | 1 task, 1 create, 2 polls, 2 provider versions, prices 0 and 1, deliveries shorter and longer than asked, fair | `SpentIsBilled`, `RowsAreKept` (`BillIsOfTheDelivery`, `TerminalIsFinal`, `PollsArePaced`), `EveryTaskSettles` |
| `mapping` | 2 names, 2 workers, one of: 2 requests, 1 outage, lost acknowledgment or crash; 3 imports and edits; 2 retests, a retarget there and back, a disable, 1 lost acknowledgment | `DisableStands`, `VerdictIsOfTarget`, `QueueIsSound` (`OneJobAtATime`, `DebtsAreHeld`) |
| `stream` | bodies of up to 3 frames, three ways of forwarding, fair | `DeliveryIsHonest` (`CallerHoldsThePrefix`, `ReadIsHonest`), `OutcomeIsPromised`, `EveryStreamEnds` |
| `gateway` | one of: an exchange with 3 attempts, 2 probes, 5 candidates of 2 keys, 1 + 1 admissions, 9 payload kinds; answers of up to 5 utterances, 12 pairs of protocols | `WalkIsBounded`, `AnswerIsOfItsFacts` (`AnswerIsOfTheLastAttempt`, `VerdictIsOfTheFacts`), `BlameIsFair`, `EndsOnce`; `CallerWireIsWellFormed`, `CallerHearsTheUpstream`, `AnswersAgree` (`CountsAgree`, `StreamedIsWhole`) |
| `console` | one of: 2 users, 2 requests, threshold 2; 2 provider names, 2 browsers, 1 person, 2 logins; 1 key, 2 models, 2 edits, 1 request; 2 models, 2 requests; 8 families, 2 reads, 2 writes | `AccountsAreSound` (`SessionsAreOwed`, `AnAdminRemains`), `LocksAreEarned`; `LoginsAreSound` (`StatesAreSpentOnce`, `OneAccountPerIdentity`); `KeysAreKept` (`KeysAreCoherent`, `AccessWasGranted`), `EditsReplaceWhatTheyRead`; `EditsChangeWhatTheyAsk`; `SettingsAreHonest` (`ReadsAreCurrent`, `WritesAreReported`) |
| `video_skew` | 2 tasks, 1 create, 1 poll, room for one task | a violation, section 5 |
| `gateway_blame` | 1 payload kind, 2 candidates of 1 key | a violation, section 5 |
| `keys_allowlist` | the keys of `console` | a violation, section 5 |
| `catalogue_flip` | 1 model, 2 names, 2 requests | a violation, section 5 |

### 3.1 Why the bounds are enough

* *Breaker.* A record is moved by an admission and a result. Two requests let a result arrive
  after another's trip, and a probe and a closing come between. Threshold 2 separates a first
  fault from the last and a half fault from a whole one; four faults trip twice. The proofs hold
  for every number of all of these.
* *Key pool.* The comparisons are between pairs of stamps. Two attempts and a test give three
  kinds of evidence in every order; two instants after the start separate before, at and after.
  The replacement comes between any two.
* *Walk.* Six walks go twice around three ready keys, or around any two sets of them.
* *Bindings.* One request at a time, of three keys on two models that share both providers: six
  pairs compete for two places, and counts of one model must not answer for the other. Two
  requests at a time, on one model with the breakers closed, where a third candidate is the first
  mapping made again: one of them may bind the key while the other walks, to the candidate that
  is dead for it, to the same provider's new one, or elsewhere, and lose it to an eviction; so
  the rebinding yields (`Yields`) in some cases and not in others.
* *Rate limits.* Three requests let one be refused while another is released in the next minute
  and a third stands between its gates. The proofs hold for any number and any limits.
* *Windows.* Two requests at a time and a limit of 2, over two windows and more, so that a
  request reads its time in one window and is counted in the next; the map of clients holds
  one of the two. Two requests with a limit of 2 cannot get much beyond twice the limit; the
  threefold bound is reached only in the proof's general case.
* *Updates.* Two requests of the console and a command, three releases, three replacements of the
  binary: a first update, one beside it, and an installer's.
* *Tasks.* Two polls and the reaper are the three parties that may settle one task. The clock goes
  past the horizon of every task that is created (`ReadKey` waits for nothing later), so that the
  reaper's duty is seen.
* *Exchange.* Five candidates exceed both budgets together, so that either runs out first or the
  chain ends before both. Two keys separate a rotation from a failover. Facts of a batch come in
  pairs and in both orders.
* *Mappings.* A behaviour lives one of three lives. In `any`, two requests of any kind and the
  queue are three runs that read before one another's commit, with a trouble; edits overlap. In
  `edits`, three imports and edits of the name are what it takes for an overlapping edit to lose
  a first probe. In `relands`, five requests are what it takes for a verdict that lands twice to
  undo a disable. One trouble at a time: the code's answer to a second one is its answer to the
  first. The proofs (4.7) hold for any requests and troubles.
* *Streams.* Three frames: a chunk read ahead, one in the channel, one with the consumer.
* *Codec.* Five utterances give two interleaved calls with arguments, or thinking, text and a
  call with arguments. How counts are stated varies on answers of up to two utterances.
* *Console.* Every race of these modules is between a request that has read and another that
  writes, so two requests at a time; a third actor (a gateway request, a deletion, the expiry of
  a state or a lock) is a step of its own. Threshold 2 separates a first wrong password from
  the one that locks. Two tokens are a login and its replay in another tab. One family of
  settings, of two rows, is written twice in a row, the others once.

`MaxFaults`, `MaxTime`, `MaxConfig`, `MaxGeneration`, `MaxWalks`, `MaxTicks`, `MaxMinute`,
`WindowClock`, `MaxVersion`, `MaxRequests`, `MaxTroubles`, `MaxFrames`, `MaxSaid`, `MaxRelease`,
`MaxInstalls`, `MaxEdits`, `MaxId`, `MaxToken`, `MaxPeople` and `MaxInstant` are the bounds, each
named so in its module. `Destinations` and `ModelIds` are sets that the instances make small.

### 3.2 Fairness

* *Breaker.* `CircuitTick`: time passes. `Step(r)`: a request that can go on does. Strong fairness
  of `EnterKey(r)` and `Book(r, "reset")`: a request that is admitted again and again is not each
  time skipped before it is sent (no usable key, cancelled client), and does not each time end
  without a verdict. This is the assumption "the provider has recovered and is still used"; the
  faults are bounded for the same reason. Without callers a breaker stays as it is, and the
  code means it to.
* *Tasks.* `Tick`, `SweepExpire`: the reaper's loop has a ticker and its expiry is one statement.
  Strong fairness of `SweepList` and of `SweepSettle(t)`: the process does not crash, and the
  database does not fail, in every single sweep; both are enabled again and again, not always.
  Nothing is assumed of polls: `EveryTaskSettles` holds when nobody ever polls.
* *Streams.* Weak fairness of the two goroutines' own steps and of the timer. Nothing is assumed
  of the upstream, which may stay silent for ever, nor of the caller.

The other specifications state safety only. Deadlock is checked where the system cannot stop
(breaker, tasks) and off where it may finish or a bound stops the actors.

## 4. The proofs

TLAPS checks every proof to the last leaf. The only assumptions are the named `ASSUME`s on the
constants. They say that thresholds, timeouts, capacities, budgets and window lengths are positive
numbers and limits natural ones; that the sets of caller keys, tasks, users, clients, workers and
requests that something counts are finite; that destinations and ids are numbers and updaters are
neither lock words nor both kinds at once; that a rate-limit usage is integers whose total fits
an int; that a pool's keys are finitely many, with a place each of its own, and are benched until
some instant; that a stream is forwarded in one of the three ways there are; that the length of an answer is a
natural number. Three say something of the code that a reader may want to look up: the one observer of
failures that is registered reports refusals only (`BatchAssumption`, from
`capability/contentinspect`), the payload kinds are those of `Delivery` (`PayloadAssumption`),
and a request is not late for its window's lock by a whole window (`WindowsAssumption`, 2.13).

### 4.1 HealthProofs: the breaker

`CircuitTypeCorrect`, `GenerationsSound`, `OpenIsSealed`, `LateResultsDropped`, `ThresholdExact` and
`Refinement` prove every safety property of the breaker's runs for any number of requests, any
thresholds and any timeout. First come lemmas on `CircuitRecord`: what each operator does to the
type, the kind, the generation and the counts. Then the inductive invariant

    IndInv == CircuitTypeOK /\ Untouched /\ (\A r \in Requests : Holds(r)) /\ Counted

`Untouched`: before the first `Allow` nothing is in flight, because a booking on a record never
seen creates it, with generation 0. `Holds(r)`: an admission is no newer than the record, equal
to it exactly when it is not overtaken, and then the breaker is not open. Neither half is
inductive alone: that a trip overtakes everybody needs that generations only grow, and that
nobody is current while it is open needs that `Allow` hands out the generation of an open record
only by making it half-open. `Counted`: the history sum is two per failure and one for the half
fault while the breaker is closed.

The refinement maps every step of `Circuit` to one of `BreakerEras` or to a stutter, under
`IndInv`.

### 4.2 AdmissionProofs

*Bindings*: `BindingTypeCorrect`, `CountsExact`, `Bounded`, `Balanced`, `RebindMoves`. The code keeps
counts beside the bindings and repairs nothing, so the invariant has to be about the registry at
every point of an operation and not only between operations: `Sound(r)` says of a registry that
it has its type, each count is the number of bindings under it, and there are at most
`Capacity`. Lemmas show that releasing keeps it and, if something was released, leaves one
binding fewer; that an eviction leaves a registry with room; that an assignment to a registry
with room, of a pair without a binding, keeps it. `Route` and `Rebind` are compositions of the
three. The floor at zero in `releaseLocked` is never reached, which is part of the argument. For
the spread, `BalanceInv` adds that while nothing disturbed the registry every two providers that
carry a whole model differ by one at most (`Even`), which the choice of a least-bound provider
keeps, and that a walk that rebinds has left the candidate it was bound to (`DeadEndsAreLeft`).

*Limits*: `LimitTypeCorrect`, `SlotsExact`, `WindowExact`, `TallyExact` and their conjunction
`WindowsExact`, for any number of requests, any limits and any usage, the absurd included. The
slot count is the cardinality of a set of requests that changes by one element; the inductive
invariant says besides what a request between two gates has read and taken, that no request holds
a minute later than the clock, and that a debt is capped as the tally is.

*Walks*: `TurnsFair`, for any finite set of keys and any benches. The invariant, `TurnInv`, says
what the remembered first places are: `InTurn`, the i-th from the end is the ready key i places
before the one the cursor pointed at, modulo how many are ready. The lemmas are arithmetic (a
remainder is unique, one more advances it or returns it to 0, places fewer than n apart differ in
a turn of n) and the sort: `InOrder` proves that a finite set with a strict total order can be
listed in it, by giving each member the number of those before it as its place, so that the
`CHOOSE` in `Sorted` has something to choose. The cursor may be any number and no bound on walks
or on the clock is used.

*Updates*: `UpdatesReversible`, for any numbers of updaters, releases and replacements. The
invariant says who holds the lock file (`LocksAreHeld`: one updater, or nobody alive); that what
an updater saw of the binary is no newer than the binary (`SightsAreOld`), so equal ids mean that
nothing happened in between; that an updater past its copy which still sees its file has the
copy of that file (`CopiesAreOfIt`); that the gate lets one request of the console in
(`GateLetsOneIn`); and that while nobody but the console touched the files, an installed release
belongs to a request that has not restarted the server yet (`ConsoleAlone`).

### 4.3 VideoTaskProofs

`TypeCorrect`, `BillsAreDue`, `FinalStays`, `AnswersAreOnRecord`, `PollsPaced`, `RowsKept`, which
is the run's `RowsAreKept`, and `SpentBilled`, for any number of tasks, calls and polls, from

    IInv == TypeOK /\ RowsOK /\ CreatesOK /\ PollsOK /\ LogsOK /\ ToldIsOnRecord

A settlement computes the bill from the row it *holds*, so `BillIsOfTheDelivery` needs that
whoever is about to charge holds a row that agrees with the database on everything the bill is
made of (`PollsOK`), that what a create call holds and a row says of a price is fit to bill with
(`CreatesOK`, `RowsOK`), and that what is in the day's log was charged (`LogsOK`).

`SpentBilled` is about a sum over all tasks. The library defines it by a fold: a function on sets
of tasks, chosen to equal its own unfolding. That there is such a function (`SumExists`), and that
rows which differ in one task's charge have totals which differ by as much (`ChargedStep`), is
shown on a smallest set of tasks that would be an exception (`Smallest`): induction without the
theorems that take an operator. Given `IInv`, every step either charges nobody (`SameCharges`) or
adds to the key what it writes to a row that was charged nothing (`OneCharged`).

### 4.4 HealthProofs: the key pool

`TypeCorrect`, `BenchEarned`, `NewestLimitHeld`, `RecordOfNewest`, `BenchesHonest`,
`BenchNotCutShort`, `StatusOfThisSecret`, `TestsInOrder`, `OvertakenFailNothing` and
`VerdictsCurrent` prove every property of the run `keypool`, for any number of attempts, tests, credentials and instants
and any set of windows, from

    IInv == TypeOK /\ AttemptsOK /\ TestsOK /\ DecidedOK /\ PoolOK

`AttemptsOK` and `TestsOK`: what anybody holds is the row as it is or as it was, and an attempt
that was overtaken holds an older generation. `DecidedOK`: the evidence behind the status is of
the credential in the row, and not of a later generation. `PoolOK` is `Agrees`: the record is of
the newest credential anything was told about, `Knows` the newest verdicts on it, and, if that
credential is in use, `Keeps` the bench of the newest 429. `BenchIsEarned` is not inductive by
itself: that a success releases exactly the benches it refutes needs that the record remembers the
newest success and rejection even when they released nothing, and that a 429 never books a bench
at an instant before its own dispatch, which is the part of `Knows` no property mentions.
`Agrees` is over explicit arguments, so that each method of the pool (`coolKey`,
`lengthenKeyBench`, `dropKey`, `clearKey`, pruning) is proved once, with no state in sight, to
take an agreeing record and history to an agreeing pair; the steps that call it cite that.

### 4.5 ConsoleProofs

Every property of the run `console`, and `BurstsAreBounded` of `admission`, for any numbers of
users, requests, providers, models and versions. Each component has one inductive invariant.

* *Windows* (`BurstsBounded`). Each request let through took a number of its own in a window
  of its own (`TicketsAreOwn`), so counting admissions is counting pairs, and no more than two
  windows reach into a span shorter by `MaxWait`, or three into a whole one, because starts of
  windows are a window apart and a time is behind by less than a window (`LateByLess`). The rest
  are counts: the map within its cap (`MapIsBounded`), slots free or at work (`SlotsAreKept`).
* *Accounts* (`AccountsSound`, `LocksEarned`). A row without a lock counts no more failures than
  there were wrong passwords since its last lock or sign-in, and the bootstrap account is an
  enabled administrator (`RowIsSound`); with any account there is that one, and no second
  (`OneBootstrap`); nobody is about to disable or demote it (`CallIsGrounded`). `AnAdminRemains` follows from the bootstrap account alone, without the count
  of administrators: that is how the count turned out to be moot.
* *Federation* (`LoginsSound`). A state that can still be spent has not been, and a cookie names a
  state its browser began (`TokensAreSound`); ids of providers are handed out once, and while one
  is stored whoever registered through it has an identity (`PeopleAreSound`); what a callback
  holds is of its state, its browser and a provider row already created (`VisitIsSound`).
* *ApiKeys* (`KeysKept`, `EditsReplace`). An edit in flight that names the key's present instant
  read its present revision (`EditsAreOfRows`), and whatever a request in flight holds of the
  key, or would find in its list now, has been permitted since it came (`Vouched`).
* *Settings* (`SettingsHonest`). Whatever is cached, read or in flight is a snapshot of a version
  that all rows of the family have reached (`Past(v)`), and the chronicle of such a version
  stays as it is. A refresh may be overtaken, which is why the invariant is about versions and
  not about the rows as they are.
* *Catalogue* (`EditsAsked`). A request that nothing overtook still agrees with the row it read
  (`SaveIsSound`), so what it writes back unasked is what is there.

### 4.6 GatewayProofs

`FoldIsVerdict`, `WalksBounded`, `ExchangesEndOnce`, `BlamesFair` and `AnswersOfFacts` prove the four
properties of the exchange, for any budgets, statuses, admissions and batches. The invariant is

    RelayInv == ShapeInv /\ TicketsInv /\ WalkInv /\ SettleInv /\ JudgedInv /\ BlameInv /\ QuoteInv

`WalkInv`: every candidate entered has been paid for, by an attempt or a probe, by the time the
next is, which makes the sum of the two budgets a bound that neither loop states. `TicketsInv`:
what was released is the newest tickets, newest first. `SettleInv`: nothing is settled while the
request is handled, and whatever settles it is billable one way. `JudgedInv`: the verdict acted
on is `VerdictOf` of what was told, and what was told is what the status in hand may be judged
by. `BlameInv`: whose doing the last thing heard was, and that a penalty is booked for the
upstream's, or for the caller's only by a payload of `NeverAsking` (the finding `gateway_blame`).
`QuoteInv`: a held verdict's status is that of the last attempt. `FoldIsVerdict` says that the fold
of `Select` over any batch, in any order, is the choice by precedence and kind; the code folds from
the left, so the proof is about the least index at which the fold stands, a well-founded
argument over one given sequence. `EndsAreFair` goes through every end of every payload kind.

The second half of the module is the caller's side of the codecs, on which 4.9 rests.

### 4.7 MappingProofs

`OneJob`, `DisablesStand`, `VerdictsOfTarget` and `QueueSound`, for any numbers of workers,
administrators, requests, names and failures. The parts of

    MappingInv == /\ ShapeInv /\ QueueInv /\ StampsInv /\ LandedInv /\ OwnInv
                  /\ OffInv /\ VerdictIsOfTarget /\ DebtInv

hold with edits overlapping and acknowledgments lost. `QueueInv` says of the queue alone that the
mapping waits or runs, and to run again only while it runs: `OneJob` needs nothing else.
`StampsInv`: the token and the time a run has still to write are nowhere to be read, neither in the
row nor in anybody's hands, as long as its verdict has not landed. `LandedInv`: a run whose
verdict landed unheard commits over no promise, for whoever promised since has requeued the row,
and the run sees that from the token or the test time. From these follows what a run may still write onto the row it read (`OwnInv`): over a promise
only a run made for it commits, a run that read the row without a promise would notice one, and
one that a disable overruled no longer has the row's token, unless a verdict landed twice. So a
mapping that is promised to be on was not told to be off, and one that is on was not either, with
that exception (`OffInv`), which is more than `DisableStands`. `VerdictIsOfTarget` is inductive as
it stands. `DebtInv`: no job is past its read over a promise still open, and one past its read of a
waiting row knows that row, unless somebody else is expected or an edit strayed; so whoever drops
the debt is not the last to know of it.

The exemptions are what the code leaves, not hypotheses: without `strayed` and `relanded` the
properties fail (section 5). `relanded` ends with the next disable, and `strayed` with the next
conclusive verdict, retargeting or requeue, so that each property is claimed again from there on.

### 4.8 AnswerProofs

*Counts*. `Usage` has no state: the theorems are about its operators, for all counts. `CacheIsBilledOnce`:
net prompt, cache reads and cache writes add up to the gross prompt, whichever convention a record
is in. `GrossDialectIsBelieved` and `NetDialectIsSeen`: when a record of either convention is taken
for what it is. `ClaudeCarriesTheCost`, `OpenAICarriesTheCost` and `GeminiCarriesTheCost`: what an
encoder puts on the wire costs, read back by the decoder of the same protocol, what the record
cost (for Gemini: when a completion is stated or no reasoning is). `AVerdictStays`: a record
judged impossible stays so whatever is merged into it. `AFrameTakesNothingAway`: merging a
coherent frame lowers no count. `NoCountIsNegative`: what is billable has no negative part.

*Streams*: `DeliveriesHonest` and `OutcomesPromised`, for bodies of any length, any way of cutting them
into chunks, and any of the three ways of forwarding. The invariant, `StreamInv`, has two halves.
`ReaderInv` is about the idle reader. `ChainSound`: the frames on their way, from what the pump
is about to send over the channel and the leftover to what the last Read returned and the lines
not yet looked at, are consecutive positions of the body up to the last one taken (`Run`), so
nothing is lost, doubled or reordered however a chunk was split. `BlameSound`: no error names the
caller before he has left. `PumpInv` is about the loop that forwards. `ForwardSound` and
`TranslateSound` relate what was sent to what was looked at, `Rising` says that it is in order,
`Announced` that a loop that thinks it has seen the end has looked at a frame which is one, and
`CompleteSound` that only that makes a delivery complete. `OutcomesPromised` then goes through
every step that ends a delivery: its outcome is one of `Delivery`'s `Ends`.

### 4.9 CodecProofs

`CallerWireHolds` and `CallerHearingHolds` prove `CallerWireIsWellFormed` and `CallerHearsTheUpstream`
of every translated answer: for the twelve pairs of protocols, every plan of an answer and
every place where it may be cut off, however many utterances it is made of. Of `MaxSaid` they
assume that it is a natural number, and no more. The invariant,

    CodecInv == /\ pair \in Pairs
                /\ ending = "open" => \E x, z : Reading(x, z)
                /\ Owed(down, World, listener, source, stated, ending)

says what a caller is owed, and of a relay that still reads that it has come to an agreement `x`,
from which the unread frames lead to another, `z`, at the answer's end. What the two sides agree on is a *story*: what was thought, said and
called so far, whether it ended and why. It is a witness, not a variable.

* *The upstream's half* (`Agrees(w, x)`, in this module). The decoder's deltas have told the story,
  and a client of the upstream's own protocol has made the same of the same frames. `Leads(w, x, s, z)`:
  the frames `s` lead from `x` to `z`, each keeping the agreement. It is shown once per protocol
  from the plan of an answer, utterance by utterance, then for what may follow the utterances: an
  end, counts, an error after it, nothing. Calls are where it is hard: chat and Claude go by
  an index, Responses by an output index and an item, Gemini by nothing, and arguments may come for
  a call that is not the last.
* *The caller's half* (`Holds(q, loose, h, e, c)`, of the parts `GatewayProofs` has). What encoder `e` of protocol
  `q` wrote has let client `c` hear the story `h`, and `e` keeps open exactly what `c` takes for
  open. A delta that the story can take (`Tells`) leads to such a state again; the end closes it.
  `loose` says that calls are interleaved, and for a Claude caller `Holds` then promises only the
  words (`Misfiled`, section 5). For Gemini the calls it promises are those whose arguments are
  complete. For Responses `Shelf` relates what the encoder has open, and in which order it will close
  it, to the items the client has.

The codecs are folds over frames, chunks and parts, and the library's theorems about folds take
the folded operator as a parameter. Each fold here has a trace instead: the sequence of its
intermediate results, of which the fold is the last, and a property goes along a trace by the
least place where it would fail (`Least`, `UpTo`).

### 4.10 What is only model-checked

* Liveness under fairness, and what is enabled, is out of the prover's reach: `Recovers`,
  `EveryTaskSettles`, `EveryStreamEnds`.
* `AnswersAgree` compares the streamed decoding with the decoding of a whole body, and the counts
  of both with what the plan says they cost. That needs, beside the story, an account of the
  counts through every merge of partial statements, in two conventions, with a verdict that
  depends on which of them came first; what `AnswerProofs` says of the operators on counts is the
  part of it that is proved.

## 5. What the checks found

Four runs end in a counterexample to a sentence of the code.

* `video_skew` (`videotask/service.go:276`). The gate reads the spend, then the sum of the tasks in
  flight. A settlement between the two is in neither: not yet charged at the first, no longer in
  flight at the second. The create call is admitted past the limit, which the comment at
  `video_task_repository.go:172` says must not happen.
* `gateway_blame` (`modality_text.go:473`). The translated non-stream delivery calls every failed
  read of the upstream's body the upstream's fault, also when the read failed because the caller
  hung up. `relay.go:1355` says that the caller's own faults book nothing against the provider, and
  the passthrough sibling asks whether the caller is gone. `NeverAsking` names the payload kinds
  that do the same.
* `keys_allowlist` (`api_key_repository.go:351`). The comment says that a custom key's list is
  kept non-empty. Deleting the last model on it (`DeleteModelCascade`) leaves a key for some models
  that can call none.
* `catalogue_flip` (`model_service.go:2283`). A status flip writes back the name it read: a rename
  in between is undone, and the vision fallback, which followed the rename, names no model. The
  comment at line 2187 says a concurrent flip cannot slip in.

Disagreements that have no run of their own:

* *Breaker.* `Allow` resets the record whenever the destination it is given *differs*; it does not
  ask which is older. A request that loaded the provider before a repair and calls `Allow` after
  the repaired destination has tripped wipes the open record, and the next request of the new
  destination is admitted inside the open window (`circuit.go:38`). `OpenWindowHolds` of `Circuit`
  states the promise; as an invariant of `Circuit.cfg` it fails. `Allow` also turns an open
  breaker half-open without a new generation, where `circuit.go:61` speaks of every transition.
* *Key rows.* The commit of a retest compares config version and test generation. A rejection
  that was dispatched with the claimed row and marks the key failed while the retest probes
  changes neither, so the pass is committed over it; the comment at `provider_service.go:1448`
  says that state recorded during the probe must not be overridden. The bench of a 429 that was
  dispatched after a rejection had arrived survives `dropKey`, where `keypool.go:58` reads as if
  any rejection ended it.
* *Tasks.* Two create calls at a time both pass the gate (`videotask/service.go:212` admits as
  much). A poll past the horizon answers *expired* although another poll has meanwhile recorded a
  completion (`service.go:310`: the update's result is not looked at), which is why
  `TerminalIsFinal` leaves that answer out.
* *Mappings.* All three happen in the run `mapping`, whose properties leave them out by name.
  `strayed`, first: an edit that keeps the name it read writes it back (`model_repository.go:419` is
  an update by id, without a lock before it) after another edit has retargeted the mapping and its probe
  has passed, and the pass is then about another name (`VerdictIsOfName` fails);
  `model_repository.go:390` says it cannot. `strayed`, again: one edit reads *a*, a second
  retargets the mapping to *b*, an import requeues it, the job probes *b*, and the first edit
  writes *a* back. The job's commit misses, and its second read takes the row for another's and
  drops it: the row waits for a first probe that nobody holds until the next start of the process.
  `relanded`: a run whose commit landed and whose acknowledgment was lost commits again with the
  same token and time (`recommitDiscardedVerdict`, `model_service.go:1460`). If the mapping was
  retargeted and back and disabled in the meantime, and a retest had read the row after the first
  landing, that retest still finds its token, and turns the mapping on over the disable; the
  comments at 1353 and 1384 call the token unique. It takes five requests.
* *Settings.* A reader that found the snapshot expired, and gets to the failure window after
  somebody else's refresh failed, is answered the zero value though a snapshot is there
  (`ServedZero`; `system_settings_service.go:201`), against invariant 3 of `settingEntry` (line 98).
* *Models.* A PATCH with nothing but `image_input` writes `supports_image_input` beside a declared
  `input_modalities` that stays (`model_repository.go:69` says the pair cannot drift). An import's
  fill may overwrite what a PATCH declared after the import's read: the comment that the pair
  cannot change between the check and the write holds only where transactions follow each
  other. `EditsChangeWhatTheyAsk` exempts it (`Late`).
* *Windows.* `PostOAuthState` asks the common window before the client's, so one client can use it
  up alone, which the comment of `PerClientRateWindow` says it exists to prevent. Requests that
  are late for the lock let three windows reach into one span, beyond "2x limit across one
  boundary".
* *Installation* (read, not modelled, but for the last): the rotation of database copies may delete
  the copy a rolled-back upgrade needs (`migrate_with_backup.go`); `stop` during another server's
  start may signal a stale pid (`stop.go:42`); `db:migrate` takes no instance lock; and an update
  by the command, then one by the console before a restart, leaves in `.bak` the new binary, which
  `RollbackStands` exempts by `alone`.
* *Deliveries.* A Kling error settles 502 and returns an undelivered 502, which the check against
  the connection turns into a contradiction although `modality_image.go:587` means it to be
  plain. `contradiction` and `commit_failed` leave a caller who was sent nothing with an implicit
  empty 200 (the guard at `log.go:484` is for an invalid delivery only).
* *Codecs.* The Claude encoder files the arguments of interleaved parallel calls under the block
  opened last (`Misfiled` names the answers), the Gemini encoder drops a call that never gets an
  argument delta (`CallsHeard`), the Responses encoder gives a text that follows a reasoning
  without its end the same output index, and an answer with nothing in it gets
  `response.completed` without `response.created`. A chat upstream without a chunk id, or with
  nothing but `[DONE]`, gives a Claude client no `message_start`. Counts of the net convention
  whose cache exceeds the prompt, when split over frames, are judged impossible and go unbilled.

## 6. What is not modelled

Inside the modelled components: contexts and deadlines of single calls (an abandoned call is one
that fails), the vendors' wire formats, log texts, the pages of listings; the request that
submits upstream before `Accepted`, of which only its success matters here; several API keys,
whose tasks share nothing but the reaper's page.

Between the models: `Relay` lets the breaker, the pool and the bindings answer as they like, so what
they promise each other is stated at each one's own boundary and no run composes them. The
recovery middleware's answer after a panic is outside `Relay`; sub-calls of the vision fallback
are not separate exchanges; a key's budget is read at arrival and charged at settlement, which
bounds nothing in between and is not stated.

Of the console: profiles, directories and listings, the discovery of a provider's endpoints,
remarks, limits and expiry of keys, prices, test runs. The rules of what a member may do are
checks on one row at one moment, and no interleaving touches them.

Whole components, with the reasons in `PROJECT.json`: compression and price lookup are pure data;
analytics only reads; retention and backfills are one actor each; the frontend is presentation.
One hazard has no property: the sweep of key auto-recovery probes from a list that may be
minutes old.

## 7. The plan

What is left, in the order of its worth: the counts of `Codec` (`AnswersAgree`) in proof; the request
side of the codecs; key auto-recovery over the tests of `KeyPool`; the audit worker; a composition of `Relay` with
`Circuit` and `KeyPool`.

## 8. Running it

    tlc -workers 2 -config Circuit.cfg MCCircuit
    tlapm HealthProofs.tla

`PROJECT.json` names the module and configuration of every run, the source lines of every
definition, and the mutants: for each property, a change to one definition that the property
must detect under the same configuration.
