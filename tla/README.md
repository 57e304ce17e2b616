# TLA+ verification of tccelta

tccelta records the OBD-II data of a car in a dongle (ESP32 firmware), carries
it over BLE to a phone (Flutter app) and posts it to a server (Go, PostgreSQL),
which turns it into trips. Every block of data has a sequence number (`seq`).
The central claim of the system is about these numbers: **a seq names one block
for ever, and every seq is in the end either stored by the server or accounted
for** - as a boot gap (`BOOT`, never used), a loss (`LOSS`, unreadable) or an
overflow (`OVERFLOW`, discarded because the flash was full). On top of it the
server claims that **a trip that it calls final was calculated from everything
the dongle recorded**, and around it keys, tokens and credentials change while
requests are under way.

This project models that path from the block writer to the trip and the
services around it. Paths below are relative to `src/`; `fw/` is
`esp32-firmware/src/`, `be/` is `backend/internal/`, `app/` is
`mobile-app/lib/src/`.

## 1. Inventory

| Component | State it keeps | Operations | Talks to | Hard behaviour |
|---|---|---|---|---|
| **Block log** `fw/storage/LittleFsBlockStore`, `fw/collector/SegmentFormat` | segment files; RAM index, block count, `overflowUpTo`, `forceNew` | append, read, nextStoredSeq, deleteUpTo, begin (mount and rescan), discardOldest | called by the Flush and the Sync task under one mutex | torn append, power loss, bit rot, full flash, full index |
| **Writer** `fw/collector/BlockWriter`, `SeqReserve`, `MarkerBlock` | next seq, reserve (RAM and NVS), pending BOOT | write, writeBootMarker, commit, recover | log, NVS, signer | order of NVS and flash, retry of a failed append, gaps of a boot |
| **NVS and start-up** `fw/storage/NvsStore`, `fw/app/CollectorApp` | `seq_rsv`, `last_seq` (legacy), `last_cs`, configuration | startCollector, migration | writer, sync engine | a commit that fails half-way, interrupted migration |
| **Sync engine** `fw/sync/SyncEngine`, `fw/tasks/SyncTask` | session, ackLocal, cursor, batch, challenge counter, notice flags | challenge, ACK, batch request, app error, connect, disconnect, subscribe, send next block, overflow check | log; the app over BLE | interleaved with the writer's appends and discards; late and repeated messages |
| **Server handshake** `be/usecase/handshake`, `be/domain/handshake` | `last_cs`, challenges, `contiguous_seq`, `head_seq`, `c_conf`, generation, anchors | issue challenge, accept response, confirm | PostgreSQL, KMS, app | reads before its transaction, single use, expiry, limit of pending challenges |
| **Server ingestion** `be/usecase/ingestion`, `be/domain/ingestion` | raw blocks, gaps, rows of boot, `contiguous_seq` | receive batch: snapshot, parse, apply and store under the row lock | PostgreSQL, app | overlapping and repeated POSTs, wrap of `boot_id` and `t_ms`, refused and damaged blocks |
| **Adapters** `be/adapter/postgres`, `be/adapter/memory`, `be/database` | the tables; the maps the tests use | one method per query | every use case | the two must agree |
| **Boot time** `be/usecase/boottime`, `be/domain/timeline`, `be/worker/worker.go` | line, groups and pending mark of each boot | take a pending boot, compute, mark neighbours | rows of ingestion and handshake | two transactions, several workers, late anchors |
| **Trips** `be/worker/trip.go`, `be/usecase/tripcalc`, `be/usecase/trip` | `gold.trip` and its child tables, jobs channel, in-flight set | evaluate, calculate, recalculate, provisional tick | every table above | a statement sees what is committed then; jobs lost in a crash; marks |
| **Reprocess** `be/usecase/reprocess` | the rows derived from a block | decode again, replace, mark trips | readings, trips | marks against a calculation in progress |
| **KMS path** `be/platform/breaker`, `be/adapter/kmsclient`, `be/kms/vault/client.go` | two breakers, semaphores, Vault token, ready flag | call, login, keepAlive | API, KMS service, Vault | time limits in series, cancelled requests, half-open probe |
| **Token keys** `be/kms/vault/rotation.go`, `be/adapter/jwt` | versions, `min_decryption_version`, the API's copy of the keys | rotate, purge, sign, reload, validate | Vault, KMS, API | several rotators, clocks, reloads that overlap |
| **Client credentials** `be/kms/provisioning/clients.go`, `be/kms/vault/clients.go`, `be/adapter/authblock`, `be/usecase/clienttoken` | record in Vault; counters in Redis and in memory | create, rotate, revoke, verify, count, block | Vault, Redis | concurrent commands, requests under way, lost answers of Redis |
| App `app/application/sync`, `app/domain/sync` | session, buffer, last read, last ack, back-off | handshake runner, POST pipeline, resync | dongle, server | retries, POSTs in flight over a change of session |
| BLE link, fragmenter, assembler, pairing | MTU, queues, window, bonds | notify, write, assemble, bond | sync engine, app | full queue, actions outside the mutex |
| Collector, scheduler, ELM327, OBD-II, CAN | open block, pool, periods | acquire, close, pick next PID | writer, car | pool and queue limits |
| Dongle sessions, provisioning, HTTP, rate limits | tokens, buckets | authenticate, route | every request | - |
| Front ends, simulator, tools, texts | - | - | - | - |

What makes each of the core components correct:

- *Writer and log*: no seq is used twice; the BOOT of a boot precedes its data
  and declares exactly the missing seqs; what the log answers for is what was
  written; nothing leaves it unreported.
- *Sync engine*: one response per challenge; a session only after the server
  accepted; no unsent record is passed; what it calls lost is lost; a closed
  session is always asked for again.
- *Server*: each seq below `contiguous_seq` has one fate; nothing that a request
  read earlier takes the state back; anchors and rows of boots say what is true
  of the dongle; both families of adapters do the same.
- *Boot time and trips*: a line encloses the real time and rests on all anchors;
  a result has all the rows it claims; a trip that nobody looks at again is
  complete; every trip is decided.
- *Keys, credentials, KMS*: a key outlives its tokens; a dead secret is dead; a
  block is not cut short; a breaker opens, probes once and closes on an answer.

## 2. Modules

| Module | Models | Built on |
|---|---|---|
| `LogStore`, `LogStoreProofs` | the log as a value: segments, append, discard, walks; lemmas about them | - |
| `BlockLog`, `BlockLogProofs` | writer, reserve, NVS, start-up, faults; theorems | `LogStore` |
| `SyncEngine` | the dongle's side of the transfer | `LogStore` |
| `Ingestion` | the server as the dongle sees it: challenges, responses, batches | - |
| `Delivery` | abstract specification: what the transfer promises | - |
| `SyncProtocol`, `SyncProofs` | dongle, server and the relay between them; theorems | `SyncEngine`, `Ingestion`, `Delivery` |
| `TripTable` | the queries on `gold.trip` and what trips read, one operator each | - |
| `TripRepo`, `TripMemory` | the trip repositories over the tables and in memory | `TripTable` |
| `TripAdapters` | the two in lock-step | `TripRepo`, `TripMemory` |
| `TripWorker`, `TripWorkerProofs` | evaluator, calculators, provisional tick, reprocess, a step per statement; theorems | `TripRepo` |
| `ServerTable` | the queries of handshake, ingestion, boot worker and reprocess | `TripTable` |
| `ServerUse` | the use cases over any repository, whose methods are constant operators | - |
| `ServerRepo`, `ServerMemory` | the repositories over the tables and in memory | `ServerTable`, `ServerUse` |
| `Server`, `WorkerAdapters` | concurrent requests over both stores; the worker's calls | `ServerRepo`, `ServerMemory` |
| `Timeline`, `BootTime` | the arithmetic of lines; workers, anchors, neighbours | `ServerTable` |
| `Breaker`, `KmsCalls`, `KmsProofs` | the breaker as a value; the calls over two of them; theorems | - |
| `TokenKeys`, `TokenKeysProofs` | rotation, tokens, reloads; theorems | - |
| `ClientAuth`, `ClientAuthProofs` | records, operators, requests, counters; theorems | - |
| `IntervalProofs` | lemmas: maxima of finite sets, induction and iteration up to a bound | - |
| `MC...` | instances for TLC; constants in the `.cfg` files | |

An operator marked `Mutant:` is a plausible bug beside the definition it would
replace; no specification uses it. Each property of each run has one that TLC
exposes under the run's bounds.

### Correspondence to the code

**LogStore.** A segment file is the record `[first, recs, reach, garbage,
sealed]`. The RAM index is ordered by `first`, so the set of segments and the
index are the same information. `reach` is the number of records a walk over
the headers reaches: `scanSegment` (mount) and `readRecord` both walk. A torn
append adds `garbage`; a record put behind garbage would be stored and never
reached, which is what sealing and the new segment of the retry prevent.
Rot of a header lowers `reach`, rot of a body clears `good`. The loop of
`ensureSpace` has two conditions; the block limit is exact and the free bytes of
the file system are a free choice of how much more is discarded. Deleting from
the old end keeps the newest segment, as each loop of the code does.

**BlockLog.** `pc` is where the writer is in `startCollector` or `commit`:
`reserve` (before the NVS write), `append` (before the flash write), `migrate`
(before `last_seq` is removed), `idle`, `off`. The power may fail between any
two of these and inside an append, with the record absent, torn or complete.
The Sync task's `deleteUpTo` is `Free`, with any acknowledgement up to HEAD.
`putUInt` sets and commits, so a failed reserve leaves either value in NVS.

**SyncEngine.** One action per queued input as `SyncTask::dispatch` runs it, one
for `sendNextBlock`, one for the overflow check. `Write` and `Boot` are coarse
here - `BlockLog` takes them apart and proves what this module uses: a boot
starts above every seq in use. Zero stands for "none" in `respondedCs`,
`batchEnd` and `bootFrom`. Handlers are atomic against the Flush task, though the
log's mutex covers single calls only: a discard comes before or after
`sendNextBlock`, never between its overflow check (`SyncEngine.cpp:442`) and its
read (`:447`), and HEAD and TAIL are read at once. Notices are modelled by the
two session flags that decide them. `Response.conn` is a history field.

**Ingestion, SyncProtocol, Delivery.** In the protocol each use case of the
server is one action, because each decides on the state it locked; `Server`
takes them apart. Challenges, responses, blocks and ACKs are authenticated, so
the app can forge none; it can hold, repeat and reorder them at will. Messages
are therefore members of sets that only grow, and a delivery may pick any. This
relay includes every behaviour of the real app, so the safety results hold for
it. `Delivery` states the promise: seqs get their fate in order and keep it; a
fate "delivered" needs a written record, a fate "given up" one that the dongle
can no longer read. `PromiseKept` checks it through the refinement mapping
`readable <- ReadableSeqs, fate <- Outcome`.

**TripTable, ServerTable.** One operator per query: what a SELECT returns, and
the table an INSERT, UPDATE or DELETE leaves, with its WHERE, its ORDER BY, its
COALESCE and its conflict clause; a unique index that would refuse is an
operator of its own. `Null` is NULL. Names, payloads and results are values of
small sets, times are integers.

**TripRepo, TripMemory, TripAdapters.** The Go methods over the queries, and
the same interface over slices and maps. `TripAdapters` runs both in lock-step
over every call the use cases make, then asks both everything a reader can ask.
`created_at` may be one for several trips: the list breaks the tie by `trip_id`,
which a page's cursor relies on, while the queue's queries leave it open, so that
their lists are compared up to trips of one moment.

**ServerUse.** Written once over constant operators that stand for the ports,
and instantiated twice, as the Go code is. A handler that reads before its
transaction is two operators, what it reads and what the transaction does.

**Server.** Requests are begun (they read) and committed (the transaction) as
two actions, with other requests in between. The dongle is honest and may boot,
record, answer and lose blocks; its messages arrive in any order, twice or never,
and a copy of a block may be damaged. `t_ms` and `boot_id` wrap. The log keeps
the real boot and time of each block (history), against which generations and
anchors are held. The memory store differs from the tables where its header
says. Three differences change what a later request is told or finds, and set
`apart`, after which `SameServer` compares no more: two requests race the limit
of pending challenges, which only the tables can pass, or `c_S` goes on where
the tables refuse (`AskCommits`); HEAD is only what the handshake reported, so
the tables alone find a response inconsistent (`RespondCommits`); an invalid tag
is noted over a challenge that was answered meanwhile or that expired
(`RespondFails`). The others are in the comparison itself: counters `c_S` are
matched by the place of their challenge, a boot by its last `t_ms`, anchors, gaps
and refusals as sets or counts, the worker's anchors in whatever order they
come, an alert of the worker once in memory (`memory/worker.go:183-193` looks at
no time) and at most once a day in the tables.

**Timeline, BootTime.** Times are integers with `Ms` units to a millisecond, so
halves are exact. A worker is a step per statement of `ProcessOne`: take the row
(`FOR UPDATE SKIP LOCKED`), list anchors, read the previous and the next
neighbour, write; then the second transaction marks neighbours. The model knows
when each boot really started. The slope is left out (0 unless groups are an
hour apart). With several anchor groups of one boot the line is bounded by the
widest group: the narrowest, which `base_uncertainty_ms` takes, need not enclose
the start.

**TripWorker.** Evaluator (ticker and NOTIFY), jobs channel, in-flight set,
calculators, recalculations, provisional tick, ingestion, boot conversion and
reprocess. PostgreSQL is READ COMMITTED (`be/database/tx.go:31-72`), so a
calculation is a step per statement, each over what is committed then, with
`FOR UPDATE SKIP LOCKED` as the choice of a trip that no other calculation
holds. An analysis is the set of rows it saw; `completeProof` is a step of its own
after it. The boot worker computes a line again at each anchor or neighbour and
may leave none (`boottime.go:56-75`), so a boot has a set of lines (`Offset`) and
`ConvertBoot` moves between them and null. An interval selects its boots with
`folgaMs` on both sides (`Margin`). An analysis that fails rolls back, and `Fail`
is a transaction of its own after it (`calculator.go:163`).

**Breaker, KmsCalls.** The breaker is a value; `openUntil` is the time that is
left. A caller passes breaker, semaphore and up to two attempts; an attempt is a
handler in the KMS, which passes its own breaker and semaphore and asks Vault
with retries and one new login. Logins, those of handlers and that of `keepAlive`,
take turns at `loginMu`, for which a cancelled request waits like any other. The
service may also refuse a request by itself, with a 4xx that closes the API's
breaker. Time is a `Tick`, enabled only when nothing is due; `keepAlive` sleeps
at least one between two attempts.

**TokenKeys.** Ages instead of dates. A rotation cycle reads, adds a version,
reads again and writes the new minimum, with other rotators between the steps;
the issuer signs with the newest version it may reach; the validator's periodic
and by-kid reloads may overlap and fail.

**ClientAuth.** One client and one address. Operators read and check-and-set;
a request checks the block, verifies, counts or resets, and issues. `LuaFail` is
the script of Redis, `LocalFail` the state in memory; the answer of Redis may be
lost after it counted. Times are what is left of them. One `Initial`, `Factor`, `Cap` and `Forget` stand for
the pair and for the address: the script gets the values of the address for
both (`authblock.go:147-148`) while the memory uses those of the pair
(`:235`), and `cmd/tccelta/api.go:102-105` gives the two the same.

## 3. Runs

| Run | Question | Distinct states |
|---|---|---|
| `block_log` | types; no seq reused; gaps, HEAD and contents exact; nothing vanishes - over power losses, failed writes, rot and formats | 955,847 |
| `sync_session` | one response per challenge; sessions only after acceptance; cursor, gaps of boots and the ledger, over replays and a reboot | 969,366 |
| `sync_live` | losses are real; refinement of `Delivery`; every written record is confirmed | 200,558 |
| `trips` | the trip adapters agree on every call; pages visit every trip once, those of one moment too | 122,082 |
| `trip_worker` | a result has what it claims; final trips are complete; reprocess is seen; results do not go back - while boots change their time and recalculations fail | 2,046,148 |
| `trip_worker_live` | every trip is decided and every mark drained, over a crash, a busy database and a full channel | 271,066 |
| `server` | the stores agree; rows of boots, anchors and generations are true; nothing goes back | 573,873 |
| `boot_time` | lines enclose the real time and rest on all anchors and on the neighbours of now | 686,428 |
| `kms_calls` | a probe is ended by its own call only and lost only at a semaphore; a breaker closes on an answer | 1,892,355 |
| `kms_probe` | a half-open breaker admits the next call | counterexample, section 6 |
| `token_keys` | a key outlives its tokens; a refusal for a missing key is short | 1,954,596 |
| `client_auth` | dead secrets, revoked clients, blocks, one formula | 1,299,027 |

### Bounds and why they are enough

- *`block_log`*: segments of 2 separate first, last and middle; three files and
  four blocks separate newest, oldest, a full index and the block limit; two
  boots give a gap, a third a gap after a gap; one fault of the medium; a legacy
  seq for the migration. `Step` is the size of a reserve.
- *`sync_session`, `sync_live`*: two connections give a message of the earlier
  one, two challenges a newer one, a boot that may skip a seq a gap to declare;
  segments of one record make every record a discard of its own, so one block
  can go while the next is being sent; one rotten record ends a loss run at a
  sound one.
- *`trips`*: three requests of two drivers, up to three trips, at two moments or
  three or all at one, with ids in any order; pages of one and two; two results of
  different size, rows on both sides of an interval; up to five rows of data
  without trips, two beside one, one beside two.
- *`trip_worker`*: two calculators, a boot of two blocks that a later boot ends,
  one reprocess, a recalculation that may fail, the line of the last boot coming and
  going: enough for every statement of one calculation to have a commit
  of each other actor before it. An instance with a trip of an interval over a boot
  that moves (`MCEitherTrip`, `MCMovingBoot`, `MCShortLog`, one worker) takes four
  minutes and 5,135,897 states with no violation; the theorems cover intervals. *`trip_worker_live`*: two trips over a channel
  of one place, one of them created before its boot came and one whose analysis
  may fail, one crash, one busy database.
- *`server`*: one behaviour is under one of eleven sets of bounds (`MCBounds`),
  each for one question: the wrap of `t_ms`, the wrap of `boot_id` (2 ids),
  damaged copies, overflow, several challenges and clocks apart, and the two
  halves of the worker's calls; damaged copies and overflow also with two batches
  at once, over shorter logs. A day of 2 lets the window of an alert close. *`boot_time`* likewise (`MCScopes`): two workers,
  up to three boots, three anchors, one failed transaction.
- *`kms_calls`*: three callers for one place, so that two of them, admitted before
  the breaker opens, wait at its gate and report one after the other long after;
  a wait of 3 is above two time limits, as the code's 10 s are above 4 s, and a
  failure that did not start it again would let the last report fall into a probe.
  Two places in the service, so that a handler and its cancelled predecessor, or
  `keepAlive`, meet at the login. *`kms_probe`*: two callers, a limit of two.
  *`token_keys`*: two rotators, three versions, every duration 1
  or 2, so that each order of the comparisons occurs. *`client_auth`*: two
  requests, two operators, a tolerance of one and a cap below the largest
  doubled block, memory for one counter.

Names of bounds: `MaxSeq`, `MaxBoots`, `MaxDamage`, `MaxConns`, `MaxCs`,
`MaxBatch`, `MaxRequest`, `MaxGap`, `MaxTrips`, `MaxReprocess`, `MaxCrashes`,
`MaxBusy`, `MaxData`, `Bounds`, `Scopes`, `MaxVersion`, `MaxCount`, `MaxSecret`.
The other constants are constants or settings of the code with small values.
`CHECK_DEADLOCK FALSE` stands where such a bound stops the model and the system
would go on.

### Fairness

`SyncProtocol!FairSpec` assumes weak fairness of the requests, deliveries,
resends and ticks and strong fairness of a successful send. `SyncTask::run`
(`SyncTask.cpp:23-44`) sends while a batch is active, drains its queue and ticks
at least every second; the app requests when it has no batch, posts what it has,
writes back each ACK and asks for a resend when it meets a hole. A send may fail
many times - the link is congested - but not always. Nothing is assumed of
writes, faults or discards. `EverythingConfirmed` further assumes that
link and session stay up from some point on. An open session that is closed by
each new discard need not make progress.

`TripWorker!FairSpec` assumes weak fairness of the evaluator, of the provisional
tick and of each calculator - each is a goroutine whose ticker fires for ever
(`worker/trip.go`) - and that the final limit of a trip passes. Nothing is
assumed of ingestion, of conversions, of NOTIFY or of who creates trips.

`KmsCalls!FairSpec` is used by two statements that no run checks (section 6).

## 4. Proofs

Proved by TLAPS for every value of the constants under the named assumptions of
the modules; no other assumption is made, save where the table names one.

| Module | Theorem | Says |
|---|---|---|
| `BlockLogProofs` | `Invariance`, `TypeCorrect` | `Spec => []IInv`, `Spec => []TypeOK` |
| | `ReserveAboveAll` | every seq ever put on the flash is below the reserve in NVS |
| | `SeqsAreUnique` | `[]NoSeqReused`: a seq names one record for ever; seqs are ordered as the boots are |
| | `OrderInvariance`, `LogKeepsItsOrder` | the segments hold disjoint runs of written seqs |
| | `HeadIsTrue` | `[]HeadIsLastUsed` |
| | `ContentsInvariance`, `LogStaysExact` | `[]LogIsExact`: on sound flash the log is what was written, from its oldest seq on |
| | `GapsAreDeclared` | `[]GapsDeclared`: a BOOT declares exactly the seqs that hold nothing |
| | `NothingLostSilently` | the action property `NothingVanishesUnreported` |
| `SyncProofs` | `EndsInvariance`, `TypeCorrect` | the inductive invariant of dongle and server; their types |
| | `DecidedOnceAlways` | `[]EachSeqDecidedOnce` |
| | `SessInvariance`, `AnsweredOnce` | `[]OneResponsePerChallenge` |
| | `OpenOrAsking` | `[]SessionOrRetry` |
| | `FreedIsConfirmed` | the action property `FreedOnlyConfirmed` |
| | `TrueInvariance`, `LostIsLost` | `[]LossIsReal`: what is declared lost cannot be read |
| | `UndamagedInvariance`, `NothingIsSkipped` | on sound flash `NothingSkipped`: the cursor passes only what was sent |
| | `GapsStayTrue` | on sound flash `GapsAreTrue`: no gap of a boot covers a written seq, no discard the gap of a readable BOOT |
| | `DeliveryImplemented` | `PromiseKept`: the transfer implements `Delivery`, every step a step of it or a stutter |
| `TripWorkerProofs` | `TripWorkerResultsOnlyAdvance` | the action property `ResultsOnlyAdvance` |
| | `TripWorkerResultReachesThrough` | `Old = {}` implies `Spec => []ResultReachesThrough` |
| | `TripWorkerFinalTripIsComplete` | `Old = {}` implies `Spec => []FinalTripIsComplete` |
| | `TripWorkerOneJobEach` | `Spec => []OneJobEach`: no trip is in two jobs |
| | `TripWorkerReprocessIsSeen` | `Spec => []ReprocessIsSeen`: a reprocess is not hidden by an older result |
| `KmsProofs` | `CallsInvariance` | `Spec => []IInv` |
| | `ProbesAreLostOnlyThere` | `Spec => LostOnlyAtTheGate` |
| | `ClosesOnAnswer` | `ClosesOnService`: the API's breaker closes only on an answer of Vault or a 4xx of the service |
| `TokenKeysProofs` | `KeysInvariance`, `TokensKeepTheirKey` | `[]NoTokenOutlivesKey` |
| | `ValidatorInvariance`, `RefusalsAreShort` | `[]RefusalIsShort` |
| `ClientAuthProofs` | `RecordsInvariance` | `Spec => []IInv` |
| | `RevokedIsForGood`, `OldSecretsDie` | a revoked client stays revoked; a dead secret gets no token |
| | `CountersInvariance`, `BlocksHold` | the action property `BlockHolds` |
| | `FormulaIsOne` | `[]SameFormula`: the script and `Policy.Block` agree |

**BlockLog.** That a new seq is unused depends on where the boot started, which
depends on the reserve in NVS, on the newest seq in the mounted log and, in the
first boot of new firmware, on `last_seq`. Hence

    IInv == TypeOK /\ GoodLog(log) /\ SeqBelowReserve /\ CounterInv /\ LegacyInv /\ OrderInv

`GoodLog`: the log is a finite set of segments and no walk reaches more records
than a file has, so the newest and the oldest segment exist. `CounterInv`: while
the dongle is on, every written seq and the old `last_seq` are below `next`, the
reserve in RAM is not above the one in NVS, and an append starts only with `next`
below it. `LegacyInv`: until a reserve is in NVS `last_seq` is there, and after
that the reserve is above it. `OrderInv`: a seq names one record, ordered as
boots.

`OInv` adds the order of the log to it: segments hold disjoint runs of seqs
(`Ordered`), each of them was written (`Backed`), and the newest run ends at the
last seq used. Without it a discard of the oldest segment could take a newer seq,
so neither `HeadIsLastUsed` nor the contents can be stated. `XInv` is about the
contents, and its clauses hold while the flash has done nothing wrong (`Rotted`,
formats and torn files excuse them, as the properties do): every file is read to
its end, a continuing segment starts right after the one before it, and a segment
that starts after a jump starts with the BOOT that declares the jump. Lemmas of
`LogStoreProofs` say what each operator on the log (append, trim, eviction,
discard, delete, mount, rescan) keeps of each part, once, and each action cites
them. The number of records of the log is a cardinality there, since a sum over
segments is a fold the provers cannot use.

**SyncProtocol.** `EndsInv` has the same order for the dongle, on the coarse
`Write` and `Boot` of `SyncEngine`, and for the server that the rows of blocks and
gaps cover the seqs up to `contiguousSeq` once each and nothing beyond. A batch
is applied block after block, which `Ingestion` writes as a recursive function of
the position (`Progress`); what holds of each position is shown by
`IntervalInduction`. That an INSERT never meets a stored seq follows because a
block is accepted only at the ack plus one. `SessInv` is about the handshake: the
persisted counter covers every response ever sent, even when its save failed or the
dongle restarted, so a challenge that comes again is refused; the response that an
ACK must confirm is one of this connection and of this boot. `FreedIsConfirmed`
needs both: what an ACK frees is at most the ack of a server that decided all of
it, and what makes room is what `overflowUpTo` then covers.

`TrueInv` says that the dongle never declares lost what it can read, at each place
a declaration may be: in a BOOT of the log or one still pending (`BootsGone`),
in the blocks and the TAILs that were ever sent (`SentTrue`, `ResponsesTrue`) and
in the gaps of the server (`DecidedTrue`). A range that holds nothing readable
(`Gone`) stays so, because no step brings a record back and new ones come above
every range: `NeverBack` derives this of each operator of the log from what it adds
(`Adds`). It needs a third part of `EndsInv`: a run that `FindLossEnd` ends
holds corrupt records only. With it each step of `SyncProtocol` maps to one of
`Delivery`: writes, boots, damage and discards to `DongleStep`, a batch or an
accepted response to `Decide`, whose old fates keep their rows by `AckIsDecided`,
and every other step to one that changes nothing it sees.

`UndamagedInv` is about the reasons given for a gap, and its clauses hold while
`damage` is 0: a rotten or formatted flash loses records that a later BOOT then
declares. `SoundLog` is `LogIsExact` and `GapsDeclared` of `BlockLog` again,
for the coarse `Write` and `Boot` (`PutSound`, from the same lemmas of
`LogStoreProofs`), with the next seq, or the pending BOOT, right after the newest
record. From it a BOOT that is sent declares no written seq (`SentUnused`), so the
gap the server makes of it has none (`GapsUnused`), and a jump of the cursor to a
BOOT passes none either (`Unskipped`). A response is different: its TAIL is
applied long after it was sent. At the time, the TAIL is not above a range that a
BOOT of the log declares (`TailBeforeBoots`: the oldest record can be read, and the
gap before it belongs to it); later logs only add BOOTs above the newest record
(`Follow`), so it stays so (`TailsBefore`, `DiscardsBefore`).

**TripWorker.** The assumption on its constants is what the program's tables
guarantee: trips are numbered, a reading is one of its boot, PID and instant, and
the boots follow one another in the log. Everything else is arbitrary: the log,
the trips and their entries, the goroutines, reprocesses, crashes and errors.

`Locks`: two calculations never hold one trip, and one that has read
`contiguous_seq` read no less than the trip's `calculated_through_seq`, since
`Take` locks the row before. `Known` adds what the database holds of the log
(`DataOK`): a boot's row spans its blocks that have come, each block and each
reading is the one of its place in the log. `ResultsOnlyAdvance` follows.

`Results` says at each step of a calculation what is still to be read and what
has been: at `boots` nothing was read and the boot's row, if there, is one of the
log; at `fetch` the copy of the boot's row that was read reaches every block up to
`through`; at `save` each of them that is wanted is among the rows
(`LoadsOK`), and of each ready trip the same holds of the rows saved
(`ResultsOK`). The last block of a boot in a copy may be older than the row in
the table, but never than `through`, which was read before it. A reprocess meanwhile
replaces readings by others of the same place, so it takes none away.

`Finals` adds that the result of a trip no longer provisional reaches the boot's
last block: `completeProof` has seen the boot that follows, whose first block is at
most `through`, hence all of the trip's own boot was below it (`ProofEnds`). The ticker
decides on the row that it listed and on the data of now, and clears later: its
decision stays true because a boot that was followed gets no more blocks and the trip's result only advances (`ProvOK`).
A trip of the old database whose generation is null breaks this (section 6), hence
the hypothesis `Old = {}`: every trip was created by this server.

`OneJobEach` says where a trip may be: each id of the channel, and each trip of a first
calculation, is in `inflight`, no two of them are the same, and the trip of a first
calculation has no result while the calculation has something to save, whereas a
recalculation holds a trip that has one. It needs no hypothesis; the row lock alone
would not give it, since a first calculation is taken off the channel before
it holds the row.

`Seen` is what keeps an older row from hiding a reprocess. Rows shown lie between the
trip's first and last seq (`ShownAll`), so the command's UPDATE, which looks for trips that
cross the block's seq, finds the trip; it waits for the trips that calculations
hold, so no trip is marked while one of its calculations saves. What a calculation has
read of a replaced row is at least as new as what the reprocess wrote (`Reading`,
`Newer`), because versions of a reading only go up and a calculation that was reading
when the reprocess committed is of another trip. Hence of each row that was replaced under a result (`OwedOK`)
the trip is marked or shows nothing older of that place. Nothing is assumed of the
times of boots: a row may leave the interval of a trip when a line moves, and then
the trip does not show it at all, which `ReprocessIsSeen` allows. Nor of failures:
`FailTrip` clears `recalc_pending` and its comment says that a recalculation that fails
keeps the previous result (`trip.sql:111-116`), so a failure ends what was owed to its
trip (`FailIsSeen`) and the property says nothing of that reprocess any more.

The queries sort. `SortBy` of `TripTable` puts each element at the place of its
rank in the order, so a lemma on the cardinality of what is before an
element (`EveryPlaceIsTaken`) says that a sorted list has every element once.

**KmsCalls.** `HalfOpenAdmits` is about a flag in the breaker and a place in a
call. `ProbeHeld` says where a probe can be: a handler outside its breaker holds
none, a call begins without handlers and its second attempt finds its place
empty (so no handler is overwritten with its probe), and a breaker whose `probe`
is set is half open. Then `HalfOpenAdmits` says the same as `Held`, that a probe
that is out has a holder, and every step keeps `Held` except those of a caller
that gives up with the probe (`NextKeeps`). `ClosesOnService` follows because a
handler that is done has said something, and only "ok" and "refused" reach
`Success`.

**TokenKeys.** `MayBeOldest(m)`: each version that replaced one before `m` is as
old as a token may become. It holds of the minimum in Vault and of the minimum
that each rotator has decided and not yet written, since ages only grow; and the
remaining life of a token plus the age of the next version is at most a token's
life, because the issuer signs with the newest version it could know. The clock
of a rotator may be ahead, by no more than the margin the code adds.
`KeysArrive` is the invariant of the validator: a reload under way lacks only
versions younger than itself, and while a reload for an unknown key is not yet
allowed again, what the last one did not bring is younger than the time since its
call, or is being brought, or a failure excuses it. The refusal of a token is read
off it.

**ClientAuth.** What an operator read is the record as it is or a version behind,
so a check-and-set either fails or replaces what was read; a request carries the
least secret that may pass for it, which is never above a secret written later.
A counter's block is at most that of its number of failures (`EntryHolds`) and its
life is longer, so expiry never takes a block, an eviction spares it, and one more
failure replaces it by one that is no shorter (`BlockGrows`). `LoopIsPower` shows that
the script's loop stops where the power has passed the cap. Factors are whole
numbers in the model, so the rounding of a fractional one is not covered.

**Induction.** The theorems of the library that state induction take an operator as
a parameter and cannot be used. `IntervalProofs` has what replaces them: a finite
set with a key has an element with the largest key, hence a property that holds
at 0 and steps to its successor holds up to any bound (`IntervalInduction`), and a
function defined by such steps exists (`IterateExists`). `Progress` of `Ingestion`
and the powers and the loop of `ClientAuth` are recursive functions on an interval
for this reason.

**Only model-checked.** Liveness (fairness and ENABLED are beyond the prover).
`ProbeDecides`, which is a fact about sizes and no theorem (section 6). The server, boot time and adapters, whose modules use the sequence and set
folds of the community modules.

## 5. Hazards

`PROJECT.json` lists them with their lines and properties. Those without a
property either are a disagreement of section 6, where the property that the
document states is in a module and fails, or name a part that is not modelled.

## 6. Where code and documents disagree

**A half-open breaker that never closes again** (run `kms_probe`). `Allow` hands
the probe to a caller by setting a flag that only `Success` and `Failure` clear.
Between `Allow` and the call, both clients wait for a place of their semaphore,
and a caller whose context ends there returns without either
(`kmsclient/client.go:104-106`, `kms/vault/client.go:258-260`). The breaker then
refuses every call until the process restarts, though `breaker.go:11` and
`kms-http-contract.md:169` say that it opens for ten seconds. It is the only step
that loses a probe (`LostOnlyAtTheGate`, proved as `ProbesAreLostOnlyThere`).

The modules state further properties that a document or a comment claims and
that the code does not keep. No run checks them; each is one line to add to a
`.cfg` for whoever changes that code.

| Property | What the code does |
|---|---|
| `SyncProtocol!SessionKnowsTail` | The handshake document (`.spec/fase-1-seguranca-telemetria/05-firmware-handshake-e-cursor.md:178-180`) has the app make a new handshake after an overflow. `checkOverflow` (`SyncEngine.cpp:352-363`) keeps `_hasResponded`, so any ACK of the old one opens the session again and the server does not hear the new TAIL. The discarded seqs are sent as LOSS: none is left without a fate. |
| `SyncProtocol!AnchoredOrAsking` | The comment at `SyncEngine.cpp:276` says the notice bit stays on when the anchor failed. The ACK of the first POST of that session has the same `c_conf` and no flag (`receive_batch.go:245`), and clears it. |
| `TripWorker!FinalIntervalIsComplete` | `load.go:131` asks for the boots without time after those with time, in two statements of READ COMMITTED. A boot converted between them is in neither list, and the trip of an interval is saved final without it, against `API1-worker-gold.md:306`. A line that changes after the calculation marks no trip either. (`MCIntervalTrip`, `MCBothBoots`.) |
| `TripWorker!FinalTripIsComplete`, with `Old = {1}`, `MCEarlyTrip` and `MCThreeBoots` | `API1-worker-gold.md:305` (and `:201`) has a trip with a null `boot_generation` resolve it "quando o boot chega" and be recalculated. A trip created before migration 00011 may be calculated, empty and past the boot's blocks, while the evaluator (`calculator.go:69`) or the ticker (`provisional.go:66`), in statements of their own, give it its generation. Nothing marks it then: later ticks see a generation and no new data, take `provisional` away, and it stays empty. The ticker's own mark is lost too if it fails or dies after the UPDATE. |
| `BootTime!NeighborsAreMarked` | The worker document (`06-worker-assincrono.md:55`) says that a failure of the second transaction only delays the neighbours ("falha só adia"). `boottime.go:116-128` logs the failure, the boot is no longer pending, and nothing marks its neighbours again until another anchor changes its line. The marking also passes over a boot that another worker holds: that boot is still pending (`AND NOT time_pending`, `worker.sql:55`) while its worker has already read the old neighbours. `LinesFollowNeighbors` states what holds: only the lines of these two cases are stale (`missed`). |
| `KmsCalls!ReadyAgain` | `keepAlive` clears `ready` when renewal and login fail (`kms/vault/client.go:171`). If a request's 403 logs in meanwhile, the next renewal works and nothing sets `ready` again, against `kms-http-contract.md:140`. |
| `KmsCalls!VaultClosesOnAnswer` | A cancelled request counts as `Success` (`transient`, `kms/vault/client.go:242-248`), although the comment there says 2xx and 4xx show that Vault is up. With equal time limits the API always cancels first, so a Vault that hangs never opens the breaker. |
| `KmsCalls!ProbeDecides`, with `Wait` not above `2 * Timeout` | `breaker.go:11` promises one probe, but `Success` and `Failure` clear the flag whoever reports (`breaker.go:47`, `:55`). With the default 2 s and 10 s no earlier call is left when the probe goes. `KMS_TIMEOUT` is not bounded (`config.go:212`): from 5 s on, a failure of an earlier call clears the flag of a probe that is out. |
| `Server!PendingWithinLimit` | The limit of pending challenges is counted in the statement that inserts (`challenge.sql:2-3`); two at once both count the same rows. |

A mark that a reprocess sets between the rollback of a failed calculation and `Fail`,
which is a transaction of its own (`calculator.go:163`), is cleared with it: a first
calculation leaves no result to correct, a recalculation keeps the old one although
it never read the new rows. `trip.sql:111` promises no more than the old result.

Two more, on the log: if the header of a record rots, the mount cuts the segment
there (`SegmentFormat.cpp:59-70`) and the next BOOT declares written blocks as
never used (`SyncEngine.cpp:329` says they never existed); `GapsDeclared` claims
the exact range for sound flash only. A power loss between the first reserve and
the first BOOT makes the server count 1..R-1 as discarded, not as a gap
(`05-firmware-handshake-e-cursor.md:107-108`); `GapsAreTrue` states what holds of
the declared range of a readable BOOT. And without a property:
`unavailable` formats its cause with `%v`, so that a timeout, a 5xx and a 429 are
retried as well (`kms-http-contract.md:176` says network failures that are not
timeouts).

## 7. Not modelled

- *App, BLE, fragments, pairing*: the app is a relay that may do anything with
  authentic messages, which covers the safety of the transfer; its own progress
  needs its coordinator, buffer and POST pipeline.
- *Collector, scheduler, drivers to the car*: they end where a block is handed to
  the writer.
- *Trip analysis, decoding of PIDs, slope of a line*: arithmetic over rows already
  loaded, without state, in floating point.
- *HTTP, rate limits, dongle sessions, provisioning*: routing, formatting, a
  signed token that the use cases take as given, a sequential command.
- *Cryptography*: a message that verifies was made by its author.
- *Front ends, simulator, tools, texts*.
- Within modelled components: AT#WIPE, the length of signatures, notice timers,
  events and status; the catalog of PIDs; LISTEN/NOTIFY beyond a wake-up; a
  boot longer than half a turn of `t_ms` without synchronising, or more than a turn
  of `boot_id` without one, which `Unwrap` and `HandshakeGeneration` cannot tell.

## 8. Plan

Done, in this order: block log and its theorems; the transfer; the trip table,
its adapters and the worker; the server over both stores; boot time; KMS calls,
token keys and client credentials with their theorems.

Next, by importance:

1. **App**: `SyncCoordinator`, `HandshakeRunner`, `SyncBuffer` in place of the
   relay; progress without assuming that the session stays up.
2. **Refinements**: `Server` implements the one-step `Ingestion`; `BlockLog`
   implements the coarse `Write` and `Boot` of `SyncEngine`.
3. **Firmware queues**: collector, block pool, Flush task, pairing controller.
4. **Theorems**: the boots and anchors of `Server`, over its two stores.
5. **A finer send**: `SendNextBlock` with the overflow check and the read of the
   block as two steps, the rest of the Flush task's hazard on the transfer.
6. **Pure algorithms**: scheduler, fragmenter and assembler.
