# Formal models of the credential service

TLA+ models of the credential service in `src/`, the TLC configurations that check them on
small instances, and TLAPS proofs of what matters most for every value of the constants.
Paths below are relative to `src/` unless they name a file of this directory.

`tlc -config X.cfg M` runs one configuration (`PROJECT.json` lists which module goes with
which), `tlapm M.tla` checks the proofs of a proof module.

## The system

The service verifies business credentials (PAN, GST, FSSAI, UDYAM) against external
providers. It is one Go process over one Postgres database; `docker-compose.yml` starts a
single container and restarts it when it ends (`restart: unless-stopped`).

| Component | Code | State it keeps | Operations |
|---|---|---|---|
| Submission | `internal/service/credential_service.go`, `internal/repository/credential_request_repository.go` | rows of `credential_requests`, an advisory lock per payload, the in-memory job channel | `POST /credential`: validate, check for an identical batch in flight, insert, queue the ids |
| Worker | `internal/worker/worker.go`, `ProcessCredentialRequest` | the row in hand, a poll's rows | take an id off the channel, poll PENDING rows every 30 s, verify, record, retry, issue |
| Results | `GetResults`, `credential_handler.go` | none: it reads rows | `GET /credential`, with and without `verbose` |
| Process life cycle | `cmd/api/main.go`, `internal/bootstrap` | up, stopping, down | boot, signal, drain (10 s), flush, end |
| Schema and enums | `internal/database/migrate.go`, `internal/models/enum_type.go` | schema, seeds, a cache filled once | at every start |
| Telemetry | `internal/telemetry` | three exporters | set-up, shutdown |
| Provider chain | `internal/credential/base.go` | one verification's progress | validate, build, try the providers in order |
| Credential types | `internal/credential/factory.go`, `xform_*.go`, `configs/credential-types` | none | validate, normalize, build a request, read a reply |
| Catalogs, gateway, clients | `internal/credential/config`, `internal/provider` | loaded once | look a provider up, call it |
| `POST /verify` | `internal/handlers/identity_handler.go` | one call's progress | parse, limit, verify, answer, log |
| Verify limiter | `internal/service/verify_limiter.go` | none: it counts rows | `Check` |
| Verify logger | `internal/service/verify_identity_log.go` | none: it writes rows | `Record`, in a goroutine of its own |
| Subscriber log | `internal/handlers/subscriber_log_handler.go` | none: it reads rows | `GET /subscriber/:id`: a window, a count, a page (its route is disabled, `routes.go:25-29`) |
| Signature check | `internal/auth`, `pkg/ondcauth`, `internal/middleware/signature_auth.go` | the key cache | resolve the key of a keyId, check the header |
| Plumbing | configuration, metrics, routes, `/generate-header` | none a property is about | |
| Reporting script | `team_pipeline_2807.py` | outside the service | |

How they interact. A submission and the worker share the table and the channel, and
nothing else: a submission's transaction takes the lock that makes identical submissions
wait for each other, but the worker takes no lock, and no UPDATE of it looks at the status
it overwrites. The channel is bounded and both sides drop what does not fit; the poll finds
it again. `/verify` calls share only the table, in which each call's row lands after its
response. The provider chain is called by both paths and is where their time goes. The
signature check runs before any handler; its requests share the key cache. Every process
finds the schema, the enum rows and the PENDING rows of the processes before it; the rows
refer to enum rows by id, and the process to ids it read once, when it started.

What is hard, and what must hold:

- *Submission against submission.* The check and the insert of identical batches must be
  one step (`NoDoubleInsert`); no handler may keep the lock or block on a full channel
  (`EverySubmissionEnds`); what a duplicate is answered with (`AnswerIsOneBatch`).
- *Channel against poll.* An id may be on both, so a row may be processed again after it
  was decided: how often (`CopiesAccounted`, `AttemptsBounded`, `CredentialsBounded`), what
  stays true (`SnapshotStillPending`, `EvidenceFirst`), what does not (`FailedIsPermanent`),
  and what is left for a client to rely on, of everything that may happen to an item
  (`KeepsBoard`, the retry budget among it).
- *Stops, crashes and failing writes between two steps.* Verified but not issued
  (`UnissuedByBreakdown`); every row decided all the same (`EventuallySettled`); what
  a client is shown of a row in any of these states (`ItemsExplained`).
- *A chain of providers that fail in different ways.* Which result and whose evidence
  (`FirstSuccessWins`, `EvidenceOfLastOnly`), and what a caller may rely on (`KeepsPromise`).
- *Functions put together from a YAML file.* Validation and request normalize a field by
  different code (`NothingBlankSent`); every way to write an id must reach the provider as
  the same id (`SentAlike`); what a provider may answer that counts as verified
  (`VerifiedOnReply`).
- *Boots that break off, over databases of any age.* What a process serves with
  (`ServesOnlyReady`, `RowsResolve`, `VendorsResolve`), that it gets there
  (`EventuallyServes`), and that no id changes under the rows (`IdsStable`); what the ways to
  end leave unflushed (`FlushedUnlessCutShort`).
- *Offset pages over a table that grows.* What a walk misses (`NoneMissed`,
  `MissedByLateOnly`), what it shows twice (`RepeatsPushedDown`), and whether it may come to
  a page whose offset wraps (`PagesInReach`).
- *A limit counted from rows that land late or never.* How far it is overshot
  (`OvershootWithinInFlight`), whom it charges (`ChargedOnlyIfReached`,
  `RefusedCostNothing`), and what remains of a limit all the same (`KeepsMeter`: nobody is
  refused who has not used it up, and nobody is served again who was).
- *A key cache filled by lookups that overtake each other while keys change.*
  How old a key in use may be (`KeyInUseRecent`), that a rotation takes effect
  (`RotationTakesEffect`), and what a lookup's time costs or gives a header
  (`WindowHeldInTime`).

`PROJECT.json` lists every hazard at its line, with the properties that watch it.

## Modules

    VerificationOutcome ── Verification ◁─(implements)── ProviderChain ── ProviderChainProofs
            │                                                  │                  │
            │                                              TypedChain ──── TypedChainProofs
            ├── CredentialPipeline ──(implements)─▷ RequestBoard
            │      ├── CredentialPipelineProofs ── CredentialCountProofs
            │      └── CredentialAttempts ─────────────────┘
            └── VerifyEndpoint ──(implements)─▷ UsageMeter
                   └── VerifyEndpointProofs
                           SubscriberLog ── SubscriberLogProofs
                           KeyLookup ── KeyLookupProofs
                           Startup ── StartupProofs
    MC<module>: the small instances of <module>

**VerificationOutcome, Verification.** How `ConfigVerifier.Process` can end, as its callers
tell the endings apart, and the abstract specification of what it promises: it calls at
most N providers, and comes to one ending. CredentialPipeline and VerifyEndpoint replace a
verification by a choice among these endings; ProviderChain is shown to implement them
(`KeepsPromise`), so the two rest on something the chain has been checked to do.

**ProviderChain.** `Process` itself. `at` is the program counter, `last` is `lastResult`,
`result` the return value; `heard` is history. A provider's answer is one of the ways the
loop tells apart: transport error, status >= 400, soft failure (a reply that says no), a
reply that does not parse, success. Evidence is the body of a provider's reply, with the
provider it is `of`: one that is JSON, one that is not (only an error status keeps one), or
none. What `lastResult` holds of earlier providers must not get into it
(`EvidenceOfLastOnly`).

**TypedChain.** ProviderChain with the functions a credential type's definition gives it:
`def` is the definition, `data` the cred_data, `sent` the request, `reply` the last body
that was parsed. `NormalizeID`, `Canonical` and `Request` are what the functions
`NormalizeID`, `toCanonicalUdyam` and `makeBuildRequestFn` do; `Accepts` is `makeValidateFn`; `Parse` is
`makeParseResponseFn`, with `GstParse`, `FssaiParse` and `UdyamParse` for the transformers.
Each action is one of ProviderChain's with what the functions add: the outcome that
ProviderChain leaves open is decided by data here. So TypedChain is ProviderChain with fewer
behaviours (`TypedImplementsChain`), and inherits what is proved of it.

**Startup.** One process from `main` to its end, again and again, over a database that
survives it. `pc` is the stage, `at` the next exporter, migration or seed of it; `db` holds
the schema as a set of objects, with those an earlier version of the service may have left
(`Leftovers`); `enums` is `enum_types`, `minted` its ids, `refs` the ids other tables refer
to; `cache` is the `EnumCache`; `up` the telemetry providers.

| Action | Code |
|---|---|
| `Boot`, `StartExporter`, `TelemetryReady` | `main`, `Run`, `New`, `telemetry.Setup` |
| `Connect`, `Migrate`, `Migrated`, `Seed`, `SeedsDone` | `setupDatabase`, `RunMigrations`, `seedEnumTypes` |
| `BuildGateway`, `BuildRegistry`, `BuildStack`, `BuildAuth` | the `setup*` functions, `LoadEnumCache` |
| `Start`, `Listen`, `Signal`, `Drain`, `Expire`, `Flush` | `App.Start`, `ShutdownWithContext`, telemetry's shutdown |
| `Store` | an insert of the worker or a handler: it refers to a cached id |
| `Crash` | the process dies |

Every stage that calls out may fail; a database call may have been applied all the same. A
boot that fails shuts telemetry down first (`GiveUp`), a server that cannot listen does not.

**SubscriberLog.** A client walks the pages of one subscriber's log while rows land. `Create`
takes `created_at`, `Land` commits; in between the row has its place in the order and cannot
be seen. `Ask` and `Refuse` are `buildFilter` and its checks, `Count` and `List` the two
queries, which share no transaction; `Fail` is either one failing. `asked` is what the client
puts into every request, one of `Asks`, so that a default window slides along with `now`. The client reads on
until a page has room left (`complete`) or stops at `total_pages` (`stopped`).

**CredentialPipeline.** Submission, worker and process life cycle, composed. `rows` is the
table: a row's index is its id and its age. `issued` counts the `credentials` rows created
out of a request, which the schema does not link. `lock` is the advisory lock of each
payload. `chan` is `jobCh`. `spc`, `payload`, `outbox` and `reply` are the locals of each
submission's handler; `wpc`, `cur`, `todo` and `seen` (the retry_count of the copy it read)
those of the worker. `Item` is what `GetResults` makes of a row, a function of the row and
of `verbose`. Every database statement is a step of its own:

| Action | Code |
|---|---|
| `Arrive`, `AcquireDedupLock`, `ReuseInFlight`, `FindNoneInFlight`, `CommitBatch`, `Abort` | `SubmitCredentials` and `CreateManyIfNotInFlight`'s transaction |
| `SendJob`, `Respond` | the non-blocking sends, the answer |
| `TakeJob`, `Poll`, `WorkerReturns` | the select of `run`, `pollPending` |
| `Find`, `Verify` | `FindByID`, `VerifyIdentity` and the choice of a handler |
| `StoreVerified`, `IssueCredential` | `handleVerificationSuccess` |
| `RecordRetry`, `ReopenPending`, `Requeue` | `handleVerificationFailure` with retries left |
| `RecordFailed` | its last failure, and `handleProcessingError` |
| `Signal`, `Terminate`, `Restart` | `App.Start` and the container's restart |

Each database call of the worker may fail (`ok = FALSE`), applied or not, as its caller
cannot tell; while the process is stopping its context is cancelled and all of them fail.
A crash or the end of the process loses `chan` and every local and frees the locks.

**RequestBoard.** What is left of the pipeline when the lock, the channel, the poll and the
process are taken away: a board of items. A batch goes up whole (`Post`) and not next to an
identical one that nobody has worked on; an item succeeds, with its evidence, and then its
credential is owed (`Succeed`, `Issue`); a retry is counted, within the budget (`CountRetry`);
an item is reopened, but not before a retry was counted or a call failed (`Reopen`); it fails
(`Fail`); a call breaks down with or without an effect; the service stops and forgets what it
owed. Nothing else happens to an item: evidence and errors are never taken back, and there are
no more credentials than the guard of `Issue` says. `rows` is the board, `faults` the
breakdowns, and `Owed` is the row in the worker's hand while its credential is next.

**CredentialAttempts.** CredentialPipeline with the history variable `attempts`: how often
`ProcessCredentialRequest` called `VerifyIdentity` for each row. `CountAttempts` is a
conjunct of every step and constrains none.

**UsageMeter.** What is left of `/verify` when the table and the goroutines are taken away: a
meter. A call is asked, then granted or refused by what its caller has `used`, may reach a
provider, and is then charged, if it did, or let go. `Stage` says where a call is, from its
handler, its answer and its row; `Used` is the limiter's count. A row that is lost releases
its call; a restart releases all.

**VerifyEndpoint.** `/verify`: `pc`, `who` (the claimed subscriber_id), `answer` (the status
sent) and `entry` (what the logger is handed) per call; `table` the rows. `reached` and
`peak` are history. `Admit` reserves nothing, as `Check` does not. `Record` is the logger's
goroutine: it may run at any time after the response, fail, or be lost in `Crash`.

**KeyLookup.** The registry-backed signature check. `cache` is the client's map, with the
registry entry each key came from, which the code does not keep: only the entry's `key` is
looked at when a cached key is used, the rest lets the properties say what the cache has
outlived. `listed` is history: when the registry last listed each entry. `Arrive` reads the
cache, `Serve` is the registry answering with what it lists then, `Resolve` stores whatever
usable entry the answer holds, `Check` reads the clock again. Time is discrete; a lookup
ends within its timeout and computation takes no time (`Busy`).

Definitions named "Mutant of X" are X with a plausible bug. No specification uses them:
each is there to show that a property notices it when X is replaced by it.

### Abstractions

- A payload stands for a participant and a payload hash, and has its own lock key. Two keys
  with the same `hashtext` only make more submissions wait.
- Validation failures change no state and are left out of `/credential`, and so are the 400
  and 500 of the result API; so is the nil
  credential type of `ProcessCredentialRequest` (the column is a foreign key to seeded rows).
- A row whose status the worker writes is found: nothing deletes rows.
- A database call that fails is one of at most `MaxFaults`: failures are finite. So the model
  does not show what the code allows when they are not: a row whose writes keep failing keeps
  its `created_at`, heads every poll, and with 50 such rows no other gets its turn.
- One process per database, as deployed. Two would run two workers.
- Responses, evidence and errors are what the properties tell apart, not their text.
- In `TypedChain`, an id is its core and how that is written (padded, lower case, gaps of
  spaces or hyphens), and a reply is what kind of thing each field of interest holds. The
  fields that are only copied to the verified data are left out. A vendor answers anything;
  the mock answers as its code does. `TrimAssumption`: every shipped definition trims, or
  removes spaces. One that did neither would accept white space as an id.
- In `Startup`, a migration is what it needs, gives, takes away and is stopped by, and the
  definitions under `configs/` are what the checks at startup ask of them: that the files
  load, which provider has which capability, which a credential type uses.
- In `SubscriberLog`, `Offset` is `(page-1)*limit` as an `int` that runs from `-MaxInt - 1` to
  `MaxInt`, and `Skip` is what the query makes of it: gorm leaves out an OFFSET that is not
  above zero. `IntAssumption` asks that twice the number of rows fits. The client is one
  that reads the pages in order; one that asks for a page near 2^63/limit is not in the walk.
- In `KeyLookup`, a keyId's entry is one record; an answer holds the entries of all keyIds,
  the one asked for among them, so that `matches` has something to refuse.

## Runs

| Run | Instance | What it shows |
|---|---|---|
| `pipeline_race` | two submissions, two payloads, batches of one, one retry, channel and poll of two, one fault, one restart | submissions race each other and the worker, through every path of a retry; the channel and the poll disagree on a row only so far; to a client it is a RequestBoard |
| `pipeline_settles` | one batch of two, one retry, channel and poll of one, one fault, one restart, with fairness, verifications counted | every row is decided and the worker comes to rest, after no more verifications than `AttemptsBounded` allows; a row can come to exactly that many |
| `pipeline_answers` | two identical submissions, one fault, one restart, with fairness | every submission that asked for the lock is answered or fails |
| `pipeline_failed_permanent` | as `pipeline_race`, one payload, channel and poll of one, no faults | **violated**: FAILED is not permanent |
| `pipeline_reused_batch` | two identical submissions of two credentials | **violated**: a duplicate may be answered with part of a batch |
| `chain` | the four shipped definitions (PAN with the mock as its fallback) and one with every option, chains of three, every way to write an id, every kind of reply | which reply decides and whose evidence is kept; what is accepted, sent and believed; the promise of `Verification`, termination included |
| `verify_limit` | three calls, two subscribers and the anonymous one, limit one, one fault, one crash | overshoot, charging, and that calls are granted, refused and charged as by a UsageMeter, so that a reached limit stays reached |
| `verify_bad_request` | three calls, one subscriber | **violated**: a timeout is answered 400 |
| `verify_logged` | three calls, one subscriber | **violated**: a call answered 200 has no row |
| `key_lookup` | two handlers, two keyIds, three entries, TTL, timeout and header lifetime of one tick, headers from two ticks old to two ticks ahead, three ticks, one change | age of a key in use, rotation, which headers a slow lookup may cost their answer or let in early |
| `startup` | seven databases (new, of the first version, with rows, with a stale enum value, with text issuers, with JSONB bodies), seven configurations (good, without a database, wrong in one place), two faults, two stops, with fairness | what a boot serves with, that ids are stable, that a service that can come up does |
| `subscriber_log` | four rows, pages of two, a default window of two ticks (the longest that is accepted, too) and ones that grow or stay, three ticks, one failing query, integers up to 8 | what a walk over the pages misses and repeats, and that it never wraps |

Why the bounds are enough. Two submissions are the race; a third adds nothing that one of
them repeating would not show, and a second payload shows that only identical ones wait. A
channel of one is full as soon as there are two ids; a channel and a poll of two let every
row be on both sides at once. With one retry every path of
`handleVerificationFailure` is taken. One fault and one restart can hit every statement, and
each other's aftermath. Chains of three have a provider before the fallback that may fail in
every way after another that did. Three calls at a limit of one overshoot it by two. In
`key_lookup` the registry changes at any tick, so a key may be stale for as long as TTL and
timeout allow, with a tick left to see that it no longer is; of headers with a
lifetime of one tick, some begin after their lookup can have ended, some have just a timeout
left, some end while it lasts and some have ended; handlers take requests one
after the other, so the two stand for any number, at most two at a time. In `startup` two
faults and two stops break off two boots, anywhere, before one that succeeds, or leave one to
be killed while it serves and its successor to be killed too. In `subscriber_log`
four rows are two pages, or one and what pushes it down; a default window of two ticks slides
from one that holds a row to one that overlaps it and holds the row still, and on to one that
does not, and one with a fixed start grows until it is longer than `MaxWindow`, one with both ends fixed stays; 8 is the least `MaxInt` that `IntAssumption`
allows for four rows. In `pipeline_settles` the bound of `AttemptsBounded` is attained after
the retry alone, with the fault, and with the fault and the restart.

Deadlock is checked everywhere but in `subscriber_log`, whose walk ends with the rows it had:
the other models stop only where a `Finished` or `Idle` step says so.

Fairness. Goroutines that can go on do (Go's scheduler). `TakeJob` and `Poll` are each
weakly fair: whenever the worker is back at its select with a job waiting, or a tick, it
takes one of them, and the select chooses among ready cases at random. Nothing is assumed of
clients or providers beyond an answer or a timeout. A stopping process ends, because
`ShutdownWithContext` gives up after 10 s, and its container starts it again. No fairness is
assumed for signals, crashes or faults, which are bounded instead. `TypedChain` is weakly
fair because every HTTP client has a timeout. `Startup` is weakly fair in `Run`: a stage of
`main` goes on when its calls return, `Expire` or the drain ends a stopping process, and the
container starts one that ended.

## Proofs

| Theorem | For every |
|---|---|
| `CredentialPipelineProofs`: `TypeCorrect`, `Invariance`, `NoDoubleInsertHolds`, `RetryBudgetHolds`, `SnapshotStillPendingHolds`, `EvidenceFirstHolds`, `ItemsExplainedHolds` | number of submissions and payloads, batch size, retry budget, channel and poll size, number of faults and restarts |
| `CredentialCountProofs`: `CopiesAccountedHolds`, `CredentialsBoundedHolds`, `UnissuedByBreakdownHolds`, `KeepsBoardHolds`, `AttemptInvariance`, `AttemptsBoundedHolds` | the same |
| `ProviderChainProofs`: `Invariance`, `FirstSuccessWinsHolds`, `EvidenceOfLastOnlyHolds`, `KeepsPromiseSafety` | length of the chain |
| `TypedChainProofs`: `TypedImplementsChain`, `TypeCorrect`, `NothingBlankSentHolds`, `SentAlikeHolds`, `VerifiedOnReplyHolds` | definitions (that trim), ids, replies, length of the chain |
| `VerifyEndpointProofs`: `Invariance`, `TypeCorrect`, `OvershootWithinInFlightHolds`, `ChargedOnlyIfReachedHolds`, `RefusedCostNothingHolds`, `ExhaustedForGoodHolds`, `KeepsMeterHolds` | number of calls and subscribers, limit, number of faults and restarts |
| `KeyLookupProofs`: `Invariance`, `TypeCorrect`, `KeyInUseRecentHolds`, `RotationTakesEffectHolds`, `WindowHeldInTimeHolds` | number of handlers, keyIds and entries, TTL, timeout, lifetime and age of a header |
| `StartupProofs`: `Invariance`, `TypeCorrect`, `ServesOnlyReadyHolds`, `RowsResolveHolds`, `VendorsResolveHolds`, `FlushedUnlessCutShortHolds`, `IdsStableHolds` | databases whose foreign keys hold, configurations, number of faults, stops and boots |
| `SubscriberLogProofs`: `Invariance`, `TypeCorrect`, `NoneMissedHolds`, `MissedByLateOnlyHolds`, `RepeatsPushedDownHolds`, `PagesInReachHolds` | rows, page size, windows, number of ticks and failing queries, width of an `int` that holds twice the rows |

They rest on the modules' named `ASSUME`s only, which TLC evaluates on every run.

*The pipeline.* None of the properties is inductive. `NoDoubleInsert` needs to know that the
handler about to insert still holds the lock (`LockHeld`) and that what its check found is
still so (`CheckNotStale`). The second cannot say "no PENDING row": the worker reopens rows
it had decided, and takes no lock. It says that no row of the payload is *untouched*, which
the worker cannot undo, and that is why `NoDoubleInsert` speaks of untouched rows.
`RetryBudget` needs that the worker's copy of `retry_count` is current until it acts on it
(`CopyCurrent`): there is one worker, and it holds one row (`WorkerInHand`). `EvidenceFirst`
needs that a row is issued only after its evidence was stored (`IssueBacked`), and that no
later write, by whatever stale copy of the id, takes evidence or errors away.
`SnapshotStillPending` holds since the rows ahead in a poll are other rows, and only the
worker decides any. The proof has three layers, each of which uses those before: types and
the row in hand, the submission side, the worker side.

*What breakdowns leave unissued.* `Unissued` are the verified rows without a credential, but for
the one the worker is about to issue. Nothing a submission does adds to them
(`UnissuedSubmit`). A step of the worker adds at most the row in its hands, and only when the
call that stores the evidence or the credential fails, applied or not, or the process has begun
to stop (`UnissuedWrite`, `UnissuedDBStep`); a crash adds the row that was being issued
(`UnissuedStep`). Each of these raises `Breakdowns`, and no step lowers it: so the set grows by
no more than the count (`UnissuedCountedStep`).

*The counts.* `CopiesAccounted` and `CredentialsBounded` are not inductive either: a copy that
is about to be added must be paid for before it is, and a row that a poll may find, or that
the worker has in hand, is as good as a copy. `SpareCopies` and `SpareCredentials` say what a
row has left when these are counted too (`Added`, `Due`), and no step takes from it
(`SpareKept`): sending moves a copy (`SendCount`), receiving takes one (`TakeCount`), and only
`RecordRetry` leads to a new one, which its recorded retry or its failure pays for. That a
stopping process reopens nothing matters: there a retry is neither recorded nor a fault.
`IssueVerified` is what keeps a row that is being issued from being polled again.

*The board.* `KeepsBoardHolds` maps every step of the pipeline to a step of RequestBoard or to
none. What happens to rows is read off the actions; the work is in the guards of the board,
each of which one part of the invariant gives: that of `Post` is `CheckNotStale`, that of
`CountRetry` is `CopyCurrent`, that of `Issue` are `IssueBacked` and `SpareCredentials`, and
that of `Reopen` is `ReopenPaid`: a worker about to reopen a row has counted its retry, or a
call failed.

*The verifications.* `max_retries` does not bound them: each recorded retry leaves a copy on the
channel and a PENDING row, and each leads to one, as do a failed call's row and copy. `Ahead` says
what a row may come to without another retry, failure or restart, and `AttemptInv` that this
and what it came to is within `Allowed`. `PendingUntried` makes the bound exact before the
first restart: a row that is PENDING for the poll has not spent the verification that the
poll will give it. Each action then moves one unit from `Ahead` to `attempts` (`WorkAttempts`),
or raises `Allowed` by the two that it adds (`AttemptsPaid`); a restart loses the channel.

*The chain.* The invariant relates `heard`, `invoked` and `last` at each point of the loop:
`last` is the failure of the provider heard last, with its reply and no other (`LatestFailure`).
`KeepsPromiseSafety` maps every step to a step or a stutter of `Verification`.

*The typed chain.* Every step is one of ProviderChain (`TypedImplementsChain`), whose
invariant is therefore one of TypedChain. `NothingBlankSent` rests on `SentAccepted`: what is
sent is what `Request` makes of data that `Accepts` took. `SentAlike` is then a fact about
texts: two that `WrittenAlike` relates normalize to the same (`SameText`). `VerifiedOnReply`
reads `ParsedSuccess` off the transformers, and needs that the reply in hand is that of the
last provider called.

*The endpoint.* A row says what its call came to only because the call's entry did
(`EntriesBacked`), and is the only one of its call because a call with a row is done
(`RowsBacked`). `ExhaustedForGood` is `LimitReached`: rows are only added, so a count that
was at the limit stays there, and `Admit` counts again for itself.
`OvershootWithinInFlight` is about `Exposure`, the rows counted and the calls in flight: a
call that is let through adds one to it and saw a count below the limit
(`AdmitExposure`), a row that lands takes its call out of flight (`RecordExposure`), and
nothing else adds to either (`QuietExposure`). `KeepsMeterHolds` maps the actions one by one:
a handler's step moves its call's stage only (`HandlerMove`), the limiter's comparison is the
meter's (`WithinIsCounted`), and a row that lands raises its caller's count by one, because a
call in the logger's hands has no row yet (`UsedStep`), or leaves it. That `Charge` asks for a
call that reached a provider is `EntriesBacked`.

*The boot.* `MigratedSoFar` and `SeededSoFar` say that what the earlier steps of this boot
have done is still done, since no migration takes away what another gives
(`MigrationFacts`): that is why running all of them again at every start is sound. With
`Checked`, `ForeignKeys` and `CacheCurrent`, that nothing writes `enum_types` once the cache is
filled, they give what serves. `IdsStable` holds since the only deleted values are not seeded.

*The log.* `BehindPagesRead` is the heart: a row that was there when the walk began and has
not been shown still has as many newer rows above it as the pages read so far held. New rows
only push it further down, and a window that slides (`WindowMovesOn`) drops rows from the
bottom. So a page that has room left has passed every such row. `PagesFull` counts: every page
before this one was full, so what it showed twice is what came in above. It also bounds the walk:
the rows of the full pages behind are rows there are, or repeats, which are no more than what
came in above. So the rows before a page are at most twice the rows there can be
(`WalkInReach`), which an `int` holds, and its offset is what was meant (`SkipExact`,
`PagesInReachHolds`).

*The key cache.* `CacheBacked` bounds what is stored by when the registry last listed it: an
answer is no older than its lookup (`AnswerListed`), a lookup no older than its timeout
(`LookupTimely`), a stored key used no longer than its TTL. Nothing in it depends on the
order in which lookups are answered, and so neither do the three properties. `WindowHeldInTime`
rests on `CheckTimely`: a header is checked between its request's arrival and a timeout later,
because no time passes over the end of a lookup (`Busy`).

Model-checked only. Liveness (`EventuallySettled`, `EverySubmissionEnds`,
`EventuallyServes`, the termination that `KeepsPromise` includes): fairness and ENABLED are
beyond the prover. Every safety property of a passing run is proved. The inductive invariants
(`IInv`, `AttemptInv`) were checked with TLC on these instances before they were proved; the
runs keep to what follows from them.

## What the code does otherwise than it says

- **FAILED is not permanent** (`pipeline_failed_permanent`). An id can be on the channel and
  in a poll's result at once, and `ProcessCredentialRequest` never looks at the status: a
  row whose last failure was logged as "credential request failed permanently" is processed
  again when its copy comes off the channel, and may end VERIFIED and issued.
- **A reused batch is not the batch** (`pipeline_reused_batch`). The duplicate check selects
  PENDING rows: a duplicate that arrives when half of a batch is decided gets the other half.
- **A provider's timeout is a bad request** (`verify_bad_request`). A transport error leaves
  no evidences, which the handler takes for an input that was never sent.
- **A call without a row** (`verify_logged`). An error body that is not JSON is answered 200
  and cannot be marshalled by the logger, so the row is lost and the limit never counts it.

Not disagreements a run can show, but worth knowing, and what the passing properties are
worded around:

- A credential may be issued up to `2 + retries + faults` times for one request
  (`CredentialsBounded`); a stop between the two writes
  of `handleVerificationSuccess` leaves a VERIFIED row that nothing will ever issue.
- `max_retries` bounds the retries that are recorded, not the calls to the providers: with the
  shipped 3, a row may be verified `2 + 2 * 3 = 8` times without any failure, twice more for each
  failed database call (`AttemptsBounded`).
- A page number near 2^63/limit is answered 200, with rows of the first pages: the offset wraps
  below zero and is left out of the query (`subscriber_log_handler.go:153`). A client that reads
  the pages in order never comes to one (`PagesInReach`).
- `UpdateVerificationResult` never clears `verification_errors`, and a FAILED row may hold the
  evidence of an earlier success, which `verbose` then shows in place of its errors.
  `RecordFailure` stores no evidence, so a FAILED row has no response to show otherwise.
- The key cache outlives `valid_until` and revocation by up to a TTL.
- `payload_hash` is taken over the credentials as they were sent: two spellings of one id are
  not the same payload, although the provider is asked the same (`SentAlike`).
- A reply that is `null` or `{}` verifies PAN and GST with a blank id; FSSAI and UDYAM ask
  for more (`VerifiedOnReply` says exactly what).
- An adapter whose provider has no CRED_VERIFIER seed (the steps under "Adding a new vendor",
  `internal/provider/gateway.go:10`, do not mention one) stores results under no verifier: the
  foreign key refuses them. `VendorsResolve` holds because both shipped callers have one.
- An issuer code without a CRED_ISSUER row boots, and each insert that needs it fails
  (`credential_service.go:106-108`).
- `telemetry.go:65-66` gives as the reason for the reverse order that logs and metrics emitted
  while tracing shuts down still get out. The logger is started last and so shut down first.
- `telemetry.go:44` asks to call the returned shutdown last. A server that cannot listen
  returns from `App.Start` without it, and without stopping the worker; and after a forced
  stop it is given a context that has expired (`bootstrap.go:153`). `FlushedUnlessCutShort`
  names both.
- The index said to back "the per-cred_type /verify limit count" (`migrate.go:148`) backs a
  count by subscriber.
- The list and the count of a page share one query text "so the two always agree"
  (`credential_request_repository.go:132`). They do unless a row lands in between
  (`MissedByLateOnly`).

## Not modelled

The computation of the payload hash, the syntax of the signature header, the static-key path
of the signature check (no state) and the cryptography; the field-by-field validation of the
YAML definitions, which can only stop a boot (one Boolean of `Startup`); the HTTP requests of
the provider clients; `/generate-header`, the log handler, metrics and configuration values;
and `team_pipeline_2807.py`, which is not part of the service.

## Plan

In the order in which they matter:

1. An abstract specification of the signature check (a key is trusted from when the registry
   lists it until a TTL and a lookup after it no longer does), implemented by KeyLookup.
2. The header parser, the payload hash and the validation of definitions as operators,
   checked against reference definitions over bounded inputs.
