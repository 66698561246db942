# adgate in TLA+

A verification project for adgate: specifications of the gateway, its SDKs and its dashboard,
model-checked with TLC on small instances and proved with TLAPS for every size where the proof
reaches. adgate decides, per turn of a chat, whether an ad may accompany the answer, records every
decision in a hash-chained audit log, and lets advertisers verify that log.

Contents: [1 Inventory](#1-inventory) · [2 Modules and code](#2-modules-and-code) ·
[3 Runs](#3-runs) · [4 Fairness](#4-fairness) · [5 Proofs](#5-proofs) ·
[6 Where code and documentation differ](#6-where-code-and-documentation-differ) ·
[7 What is not modelled](#7-what-is-not-modelled) · [8 Plan](#8-plan) · [9 Running it](#9-running-it)

## 1 Inventory

`POST /v1/evaluate` (packages/gateway/src/evaluate/pipeline.ts) is the heart of the system:

    bearerAuth -> rateLimit -> load policy, read caps, merge overrides
       -> classify (cache, rules, model) -> policy engine -> mediate demand
       -> transaction under the app's lock: read tail and caps again, decide again,
          append record, count
       -> reply;    any throw -> append a suppress/error record the same way

`POST /v1/attest` appends a second version of a recorded turn; `POST /v1/events` and the click
redirect add events; `GET /v1/verify/:id` re-checks a record against its neighbours; a retention job
deletes the old end of each chain while all of that goes on. Several gateway processes share one
PostgreSQL database with the dashboard, which edits what the gateways read and reports on what they
wrote; an SDK in the app's own process asks, shows and attests.

| Component | State | Operations | Interacts with | What is hard | What must hold |
|---|---|---|---|---|---|
| Evaluate pipeline, audit store | `audit_records` (chain by `seq`, `prev_hash`, `is_latest`), the `apps` row as lock | `evaluate`, `persist`, fail-closed path | caps, classifier, mediation, attest | racing appends, failures and deaths between statements, lost COMMIT acknowledgements, decisions on stale reads | one linked chain; reply = record; every call answered |
| Frequency caps | a cap row per conversation and one per user and day | read, `applyCapUpdates`, tightening by a request | the transaction of evaluate | two turns take the last slot; midnight; off-by-one of the gap | no ad past a cap; counters = records |
| Attestation | the same rows | `attest` | audit store, retention | retried or racing attestations; a row deleted under it | one version to serve; append only |
| Retention job | `retention_state` watermark; deletes records, `raw_text`, `events` | a run per app, scheduled or by CLI | every writer, verification | statements of one run see different databases; overlapping runs | survivors are linked; nothing kept is lost; text leaves with its turn |
| Retention scheduler | `running`, a reserved connection, a session lock | ticks, `stop`, process death | database sessions, server shutdown | a session that dies while its run goes on; a shutdown during a run | one runner per lock; the lock comes back |
| Record documents and keys | the signed JSON of a row; the key and ring a process loaded when it booted | build, hash, sign, attest, the eight checks | key rotation, creative edits | a record signed under one key and attested under another; a ring older than the record | what verifies says what was written, and the reverse |
| Verification API | none | the reads of `GET /v1/verify/:id` | retention | a deletion between two reads | pruning is never taken for tampering, nor the reverse |
| Reports and bundles | `reports`; a reader that remembers what it read | `collectReportData`, the bundle's contexts | retention, attestations | one report from many snapshots; a bundle that lacks what the checker had | no verdict the log does not bear |
| Policy engine, overrides | stored policies | `mergePolicy`, `evaluatePolicy` | classifier | EU regions, partly rejected lists, two thresholds | overrides only tighten |
| Policy loader, catalogue reads, click | parsed policies by hash; creatives, affiliate accounts | load, offer, serve, redirect, diagnose | dashboard edits | edits between the reads of one turn, and before its click | adapters, diagnosis and click agree |
| Classifier and its cache | an LRU per process, table `classify_cache` | rules, model under a deadline, merge; get, seed, set | policy | keys that leave a field out; copies that live twice; fallbacks pinned | a turn is judged on a fresh answer of its own |
| Demand mediation, adapters | one timer and AbortController per adapter | `mediate`, `fetchOne`, `rankCandidates`, exclusions | pipeline deadline | late, failing or silent adapters; cancellation; cut before filter | always ends; excluded advertisers never win; the trace is true |
| API key authentication | `api_keys`; a verified-key cache per middleware | `bearerAuth`, `issueApiKey`, `revokeApiKey` | every route | a revocation against a cached key | revoked keys and wrong secrets stay out |
| Rate limiting | `rate_limits`, one row per key | `take` | authentication | racing takes, clocks that disagree, one number for balance and verdict | an ideal token bucket |
| Accounts and credential forms | `users`, cookies, the login limiter's map | login, signup, operator login, password change | each other | racing signups; a password changed during a login; a full map | one account per address; cookies end with the password |
| Apps, keys and policies | `apps`, `api_keys`, roles | create, edit, revoke, issue, from forms and scripts | running turns, operators | an owner or role that changes between a check and its write; two editors of one policy | a version is one document; edits come from who may see the app |
| Catalogue administration | `advertisers`, `creatives` with `content_hash` | save, seed import, pause | verification, adapters | overlapping transactions that register or rename one advertiser | hashes are of what is stored; a headline once |
| SDK turn | the middleware's store of turns; calls under way | five ways to run a turn, deadlines, attest | gateway | several model calls per turn, aborted streams, silent gateway | asks once; attests what was shown; ends |
| SponsoredSlot, impressions, overview | refs and state of the block; `events`; two queries | render, observe, report, insert, count | gateway, app's DOM | effects after paint; a decision that changes under an observer; two snapshots | a turn counts once, an impression only if seen |
| Audit search | a position in a link | `listAuditPage` | gateway, retention | rows inserted in the middle and deleted at the end while pages turn | nothing left out, nothing twice |

The remaining components (gateway shell, metrics, OpenAPI, encodings, migrations,
examples, ...) are in `PROJECT.json` with the reason they are left out, and in
[section 7](#7-what-is-not-modelled). The same file lists, under `hazards`, each place
where this code can go wrong in a way a test would hardly reach, with the properties that cover it.

## 2 Modules and code

`PROJECT.json`, `map`, gives the source lines of each definition.

| Module | Models | State | Actions |
|---|---|---|---|
| `FrequencyCaps` | core/policy/caps.ts, `checkFrequencyCaps`, `mergeFrequencyCaps` | (operators only) | also the reference: `Honoured` says of a set of recorded turns whether a turn was within its caps, without counters |
| `AdLedger` | the promise of evaluate and attest, abstractly | turns, attested ids | `Record`, `Attest`: one at a time, each within its caps |
| `AuditChain` | pipeline.ts, fail-closed.ts, audit-store.ts, caps.ts, attest/ | the tables of one app, its lock, the clock's day, every call's progress | `ReadCaps`, `Decide`, `BeginPersist`, `Commit`, `Fail`, `CommitUnacknowledged`, `BeginAttest`, `CommitAttest`, `FailAttest`, `RefuseAttest`, `Crash`, `Tick` |
| `AuditPages` | dashboard/lib/audit-queries.ts, audit-filters.ts | rows of several apps, the search, the page shown | `OpenSearch`, `Older`, `Newer`; external `AppendTurn`, `AppendAttestation`, `DeleteOldest`, `PassTime` |
| `Impressions` | sdk/react/sponsored-slot.tsx, use-impression.ts; events/store.ts; dashboard/lib/metrics-queries.ts | the block and its refs, reports under way, rows, events, an overview being loaded | `Mount`, `NewDecision`, `RunEffects`, `MoveNode`, `Visible`, `HandleDismiss`; `InsertEvent`; `ReadDecisions`, `ReadEvents`; external `RecordTurn`, `AttestTurn`, `PassTick` |
| `Retention` | retention/queries.ts, run.ts, over the writers' transactions | the tables, the watermark, each run's cutoffs, one open writer's transaction | `FindKept`, `FindLast`, `Prune`, `LeaveAlone`; `BeginTurn`, `BeginAttest`, `CommitAppend`, `Rollback`; `OwnerOf`, `InsertEvent`; `Tick` |
| `RetentionScheduler` | retention/scheduler.ts, server.ts shutdown | instances, their sessions, the lock, pools | `Timer`, `Reserve`, `TryLock`, `ListApps`, `PruneApp`, `RunEnds`, `Throws`, `Unlock`, `Release`, `TickEnds`, `LoseSession`, `Shutdown`, `ClosePool`, `Exit`, `Boot` |
| `RecordChecks` | core/audit/record.ts, chain.ts, attest.ts, keys.ts, verify*.ts; signing.ts, verify-keys.ts, verify-context.ts | rows with their documents, creatives, the environment's keys, what each process loaded | `Evaluate`, `Attest`, `Boot`, `Rotate`, `EditCreative`, `Alter`; the checks are operators |
| `ChainVerify` | audit-api/verify-context.ts, the checks that look at other rows; composes `Retention` | one reader | `Locate`, `ReadPrevious`, `ReadWatermark`, `ReadSuperseded`, `ReadItsPrevious`, `ReadItsWatermark`; `Tamper` |
| `Reports` | dashboard/lib/report-generate.ts, report-reader.ts, report-bundle.ts; composes `ChainVerify` | one collection | `ReportRecords`, `ReadSeq`, `ReadHash`, `ReadMark` |
| `PolicyRules` | core/policy/merge.ts, evaluate.ts; core/classify/merge.ts | (operators only) | |
| `TurnDecision` | pipeline steps 2-5, classify-cache-pg.ts, core/classify/cache.ts, classify.ts; uses `PolicyRules`, `FrequencyCaps` | each process's LRU, the cache table, requests, the clock | `Receive`, `ReadPg`, `Seed`, `Classify`, `LlmAnswers`, `LlmFails`, `WritePg`, `Evaluate`, `Restart`, `Tick` |
| `Conversation` | core/classify: prepare.ts, rules/, cache key, llm/openai.ts, llm/output.ts, classify.ts; uses `PolicyRules` | turns, their requests to the model, one cache | `Classify`, `ModelResponds`, `Answer`, `Reject`, `ClientTimeout`, `ClassifyDeadline` |
| `Delivery` | policy-loader.ts, core/demand adapters and deliverability.ts, click/ | the app's policy and accounts, the catalogue, parsed policies, turns | `BeginTurn`, `LoadPolicy`, `Serve`, `Suppress`, `Click`, `SavePolicy`, `SetAffiliateConfig`, `SaveCreative`, `RestartLoader` |
| `Mediation` | core/demand/mediate.ts, select.ts, exclusions.ts and what the adapters do | timers, listeners, abort signals, fetches in flight, settlements, the result | `Mediate`, `Settle`, `TimerFires`, `Abort`, `Rank` |
| `TokenBucket` | the promise of the rate limit | level, time and last verdict per key | `Ask` |
| `Admission` | auth/middleware.ts, verified-cache.ts, repository.ts; rate-limit/ | `api_keys`, caches, clocks, requests, `rate_limits` | `FindByPrefix`, `VerifySecret`, `FindApp`, `StoreFails`, `Take`, `TakeFails`, `IssueApiKey`, `RevokeApiKey`, `Invalidate`, `Tick`, `Restart` |
| `LoginLimiter` | dashboard/lib/rate-limit.ts | (operators only) | |
| `Accounts` | the credential forms of the dashboard, accounts/users.ts, credentials.ts; uses `LoginLimiter` | `users`, forms under way, cookies, the limiter's map, the clock | `Submit`, `LookUp`, `VerifyPassword`, `VerifyAdminPassword`, `CheckAddress`, `InsertUser`, `ChangeUserPassword`, `Restart`, `Tick` |
| `Tenants` | dashboard/app/(dashboard)/apps/actions.ts and what it calls: app-scope.ts, scope-queries.ts, policy-save.ts, admin-store.ts; apps/register-app.ts, affiliate-config.ts, auth/repository.ts | `users.role`, `apps`, `api_keys`, forms under way, what turns were judged under | `RequireSession`, `CheckVisible`, `RegisterApp`, `SavePolicy`, `SetAffiliateConfig`, `RevokeApiKey`, `IssueApiKey`, `WriteFails`, `Judge`; external `SetRole`, `HandOver` |
| `Catalogue` | catalog/creative-admin.ts, seed.ts | `advertisers`, `creatives`, transactions under way and the rows they lock | `ReadForm`, `FindAdvertiser`, `CheckHeadline`, `SaveCreative`; `SeedFindAdvertiser`, `SeedAdvertiser`, `SeedFind`, `SeedUpsert`, `SeedCommit`; `Abort`, `SetCreativeActive` |
| `SdkTurn` | sdk/src (client, http, ai/, stream, generation) and sdk-python's `with_generation` | turns, their steps, calls, the store, the gateway's records | `BeginTurn`, `BeginSingle`, `Handle`, `Respond`, `CallFails`, `Deadline`, `Transform`, `OnChunk`, `AbortStream`, `ModelEnds`, `ModelFails`, `GenerateRaises`, `Attest`, `AfterEvaluation`, `AfterAttest`, `FlushDeadline` |

The `MC*` modules give the constants of the runs their values. Parts that share no row and no
process memory are checked side by side in one run: such an MC module has a variable `focus`, chosen
in the initial state, and only that part takes steps.

- `MCLog`: "writes" (`AuditChain`) or "overview" (`Impressions`).
- `MCRetention`: "rows" (`Retention`) or "documents" (`RecordChecks`).
- `MCConsole`: "forms" (`Accounts`), "catalogue", "apps" (`Tenants`) or "scheduler".
- `MCStages`: "words" (`Conversation`), "demand" (`Mediation`) or "client" (`SdkTurn`).
- `MCTurnDecision`: what a turn is judged on (`TurnDecision`), or what it may carry (`Delivery`).
- `MCVerification`: "checks", which follows either one verification or one report over one changing
  log, or "pages" (`AuditPages`).

`ChainVerify` and `Reports` are compositions: step by step they read the tables that `Retention` changes.
The `*Proofs` modules hold theorems. Definitions marked *Variant* are what the code would be with a
plausible mistake; nothing uses them but the mutations of `PROJECT.json`, each of which shows that a
property notices that mistake.

Choices that hold throughout:

- **Steps.** What JavaScript runs between two awaits is one step, and so is a SQL statement. A
  transaction's statements are one step where nothing others do can come between them (a lock
  they all take, or rows nobody else writes), and several where it can. React's effects that run
  after paint are a step of their own.
- **One app.** Every statement of the log is scoped by `app_id`, so `AuditChain`, `Retention` and
  `RecordChecks` describe one app. `TurnDecision` and `AuditPages` have two, since the cache table
  and the search are shared.
- **Hashes** are the values they identify, signatures are perfect, and ids are never drawn twice.
- **The database** is PostgreSQL at READ COMMITTED: `FOR UPDATE` blocks, a statement sees what has
  committed when it starts, a failed transaction leaves nothing, and a COMMIT may succeed without
  its client learning of it.
- **Time.** Days in the log (caps and retention are by day), ticks in caches, buckets, windows and
  searches. Clocks of two processes may differ where the code compares their readings (`Admission`).
- **The environment chooses** what the rules, the model and the adapters say, what is edited and
  when, from small sets that hold one value of each kind the code tells apart.

## 3 Runs

Runs that pass:

| Run | Instance and bounds | Shows |
|---|---|---|
| `chain` | *Writes*: 3 calls, one conversation, caps of 2 ads a session and a day with a gap of one turn, requests that may tighten them to one ad. *Overview*: 2 turns, days of one tick of which the window has the last 2 of 3, 3 renders of the slot, one overview, and renders and ticks together at most 4 | `ChainLinked`, `OneLatestVersion`, `CountersMatchRecords`, `ReplyMatchesRecord`, `AppendOnly`, and `ImplementsLedger`: the tables implement `AdLedger`. Three calls let two race while the third sees what they left: evaluations against each other, against an attestation, two attestations of one turn. `OverviewAddsUp`: a turn counts once, attested or not, and an impression only if its block stood on a screen outside the assistant's message |
| `day_cap` | 2 calls, 2 conversations, one user, a cap of one ad a day, midnight once | `CapsHonoured`: the day cap is shared by conversations, and a turn that straddles midnight counts where its `ts` is. Liveness: `Answered` |
| `retention` | *Rows*: 2 turns, each attested or not, 2 overlapping runs, windows of 1 and 2 days, 4 days, an event each. *Documents*: a gateway and a dashboard, one creative edited once, 3 records, 2 signing keys, one row altered; or 4 records, before any edit or rotation | `SurvivorsLinked`, `NoTextWithoutRecord`, `ServedVersion`, `WatermarkCoversDeletions`, `EventsLeaveWithRecord`. Two turns and their attestations are a chain of four: a prefix can take all, part or none of an id's versions. `VerifyTellsTheTruth`: over turns, attestations, rotations and restarts, the eight checks pass a row exactly when they should, and never one that was altered; three records are a turn, its attestation and a neighbour of either, and with a fourth, an attestation of a row that was given another's document can be chained to an unaltered one |
| `verification` | *Checks*: 3 turns in a chain of at most 4 rows, one run, 3 days; one verification, with one row deleted by somebody else or none, or one report over 2 days with a limit of 2 rows, and its bundle. *Pages*: 2 apps, a member's and the operator's, 3 row hashes, 2 ticks, pages of one row, 3 searches | `PruningIsExplained` (the version a verification has found, too, is judged on what was there), `TamperingDetected`, `UnprunedReverifies`, `ReportsBlameNoPruning`. Four rows are a pruned one, the one that says so, a deleted one and the one it is missed by; or two turns and their attestations, which fill a report. `PagesCoverTheLog`: turning a page shows the rows that follow, whatever is inserted or deleted, several rows sharing a tick |
| `admission` | 2 requests, 2 keys, a write and a read gate with caches of one entry, a burst of 2, two thirds of a token a second, 2 seconds of clock | `RevokedStaysOut`, `RateBound`, and `BucketSpec`: the rows implement `TokenBucket` |
| `decision` | *Judged on*: 2 requests, 2 processes, LRUs of one entry, lifetime 2 of 3 ticks, 2 apps, 2 texts, overrides of several fields, a model that is sure, unsure, wrong or silent. *May carry*: one turn at a time, one creative of 7 possible rows, 2 networks, 2 policies, 3 askers, one parsed policy kept | `AnswerFitsRequest`, `NoStaleAnswer`, `NeverServesSelfHarm`, `EngineOnlyTightens`; one entry makes every second insertion evict, and 3 ticks let a copy outlive its original if it could. `DeliveryAgrees`: what an adapter offers, the diagnosis calls deliverable, and the click leads where the ad did, while policy, accounts and creative are edited |
| `stages` | *Words*: 2 turns of any of 14 conversations, 3 messages and 6 words kept (4 and 4,000 characters in the code), a dictionary with a phrase of each kind, a model that is sure, hesitates in a spelling of its own, or writes something else. *Demand*: 3 adapters (direct, two networks), 7 creatives, every pair of exclusion lists over 4 domains, at most 2 candidates each. *Client*: 2 turns of up to 2 steps, one in any of the five ways beside one of the middleware with the same ids or others, a store of one turn, streams of one chunk | `CacheIsTransparent`, `CompoundsHideOnlyTheirWords`: texts of up to six words have room for two compounds side by side, a phrase across a gap, two conversations with one key and one that is cut; two turns, for one to be answered from what the other left. `BestAllowedWins`; `OneEvaluatePerTurn`, `AttestsWhatWasShown`. Liveness `WaitsEnd`: classify(), mediate() and the SDK's turn end though model, adapters or gateway never answer |
| `console` | *Forms*: 3 forms of 2 clients over one address and 2 passwords, one attempt per window of 2 ticks, a limiter map of one entry, cookies that live 2 ticks. *Catalogue*: 3 writers (editor, import, either), 5 creatives, one domain, 2 names and headlines. *Apps*: 4 errands of 2 accounts, the operator or a script over 2 apps, one of them registered with a policy that names another app, one change of a role or an owner, one turn. *Scheduler*: 2 instances, each started up to twice, 2 ticks each, 2 apps | `SessionsEndWithPassword`, `AttemptsLimited`; `CatalogueConsistent`: content hashes follow the advertiser, and a headline is held twice only when it was given at overlapping times; `EditsHold`: one version of an app's policy is one document, in rows, answers and records alike, and a form changes only an app, or a key of an app, that its author could see at some moment since it was sent; `OneRunnerPerLock`; liveness `LockIsReturned` |

`TypeOK`, where a module has one, is proved (section 5).
Bounds are constants of the instances: the number of calls, requests, turns and runs, `LastDay`,
`LastTime`, `LastTick`, `MaxTime`, `MaxRuns`, `MaxRenders`, `Budget`, `MaxEdits`, `MaxSalt`, `MaxStarts`, `MaxRows`,
`MaxInterventions`.
Races need two actors and, for some, a third that sees the outcome; every cache is checked full and
expired; counters are checked at and around their limits.

`CHECK_DEADLOCK FALSE` is in `Console.cfg`, `RacedSignup.cfg`, `Stages.cfg` and `TwoCuts.cfg`, where the
system really stops: every form is answered, every writer is done or every turn has ended. Elsewhere a
system that has done all it can do stutters by an explicit step or goes on with new requests, and
deadlock is checked.

In `admission` one process has both gates and its clock is the only one. Requests still reach a
bucket with times out of order, because a request reads the clock before its statement runs. The
theorems of [section 5](#5-proofs) cover any number of processes and clocks.

Runs that show a violation (`over_delete`, `raced_signup`, `bundle_pruned`, `two_cuts`) are in
[section 6](#6-where-code-and-documentation-differ).

## 4 Fairness

Only the liveness properties need it; safety is checked and proved without.

- `AuditChain!FairSpec` (`Answered`, in `day_cap`): a call that has begun decides, begins its
  transaction once the lock is free, and commits or fails. The code bounds classification and demand
  by timers and every statement by `statement_timeout`, and the fail-closed path is taken on any
  throw. That one outcome rather than another occurs is never assumed: a call may fail for ever as
  long as it ends, and a process may die at any step (its lock is released by the server).
- `MCStages!StagesSpec` (`WaitsEnd`): weak fairness of the timers, `ClassifyDeadline` of classify(),
  `TimerFires` of each adapter, `Deadline` of each call of the SDK; and of what resumes when promises
  have settled: `Rank` after `Promise.allSettled`, `AfterEvaluation` and `AfterAttest` of a step. None on
  the model, its client's own timer, the adapters, the gateway or the network: they may stay silent.
- `RetentionScheduler!SchedulerSpec` (`LockIsReturned`): weak fairness of the steps of a tick that has
  begun, `Work(p)`, failures among them: the driver settles every promise. None on timers, shutdowns
  or restarts.

## 5 Proofs

| Module | Theorem | States |
|---|---|---|
| `AuditChainProofs` | `TypeCorrect`, `ChainIsLinked`, `HistoryIsAppendOnly` | `TypeOK`, `ChainLinked`, `AppendOnly` of `AuditChain` |
| | `CountersAreExact`, `CapsHold`, `OneVersionIsLatest`, `RepliesMatchRecords`, `TablesImplementLedger` | `CountersMatchRecords`, `CapsHonoured`, `OneLatestVersion`, `ReplyMatchesRecord`, and the refinement of `AdLedger` |
| | `OverviewsAddUp` | `OverviewAddsUp` of `Impressions` |
| `RetentionProofs` | `PruningKeepsAStretch`, `TextLeavesWithRecord`, `OneVersionIsServed`, `WatermarkIsSound`, `EventsFollowRecords` | `SurvivorsLinked`, `NoTextWithoutRecord`, `ServedVersion`, `WatermarkCoversDeletions`, `EventsLeaveWithRecord` |
| | `RetentionTypeCorrect` | `TypeOK` of `Retention` (in no run); that a record has version 1 or 2 rests on what an attestation checks: the version it supersedes supersedes none |
| `VerificationProofs` | `PruningExplained`, `TamperingShows`, `ReportsBlameNobody`, `BundlesReverify` | `PruningIsExplained`, `TamperingDetected` of `ChainVerify`; `ReportsBlameNoPruning`, `UnprunedReverifies` of `Reports` |
| `AuditReadersProofs` | `TurningPages`, `VerificationIsTrue` | `PagesCoverTheLog` of `AuditPages`, `VerifyTellsTheTruth` of `RecordChecks` |
| `TurnDecisionProofs` | `MergeKeepsPolicyValid`, `MergeTightensEngine` | of `PolicyRules`: what a merged policy is, and that it lets nothing through the stored one stops |
| | `TypeCorrect`, `AnswersFit`, `AnswersAreFresh`, `FallbacksStayOut`, `SelfHarmNeverServed`, `OverridesTightenEngine` | `TypeOK`, `AnswerFitsRequest`, `NoStaleAnswer`, that no fallback is cached, `NeverServesSelfHarm`, `EngineOnlyTightens` |
| | `AdaptersAndClickAgree` | `DeliveryAgrees` of `Delivery` |
| `AdmissionProofs` | `TypeCorrect`, `RevokedKeysStayOut`, `SecretsMatch`, `RateIsBounded`, `RowsAreBuckets` | `TypeOK`, `RevokedStaysOut`, that nobody enters with another's secret, `RateBound`, and the refinement of `TokenBucket` |
| `StagesProofs` | `MediationTypeCorrect`, `BestOfferIsSelected` | `MediationTypeOK`, `BestAllowedWins` of `Mediation` |
| | `SdkTypeCorrect`, `StepsShareOneEvaluation`, `AttestationsAreTrue` | `TypeOK`, `OneEvaluatePerTurn`, `AttestsWhatWasShown` of `SdkTurn` |
| | `CachedAnswersFit`, `CompoundsHideTheirOwn` | `CacheIsTransparent`, `CompoundsHideOnlyTheirWords` of `Conversation` |
| `ConsoleProofs` | `AddressesAreUnique`, `CookiesEndWithPassword` | `OneAccountPerAddress` (in no run: the unique index gives it at once), `SessionsEndWithPassword` of `Accounts` |
| | `AttemptsStayLimited` | `AttemptsLimited` of `Accounts` and `LoginLimiter` |
| | `OneRunner` | `OneRunnerPerLock` of `RetentionScheduler` |
| | `EditsAreTheirAuthors` | `EditsHold` of `Tenants` |
| | `CatalogueStaysConsistent` | `CatalogueConsistent` of `Catalogue` |

They hold for every value of the constants that satisfies the `ASSUME` of the module: any number of
calls, requests, processes, users, texts, policies, forms, adapters, turns, imports, any lifetime,
window, burst and rate. `VerificationProofs` builds on the invariant of `RetentionProofs`; the parts
of `StagesProofs`, `ConsoleProofs` and `AuditReadersProofs`, and those of `TurnDecisionProofs` about
`Delivery` and of `AuditChainProofs` about `Impressions`, share nothing with the others but a file. One theorem has a hypothesis of its own, as TLC
cannot evaluate it: `VerificationIsTrue` takes `Null` and `GENESIS` for no pairs, as hashes are, and
`Null` for no document (`Atoms`).

- **The chain.** `ChainLinked` is not inductive: it says nothing of a transaction under way. The
  invariant adds that a call in a transaction holds the lock (so there is one), that the tail it
  has read is the tail of the table (`TailIsFresh`: nobody appends without the lock), and that the
  version an attestation read is still there. An append is then always at the end; append-only
  follows because the only insertion is after the tail.
- **The ledger.** The code never compares its counters with the history: a turn is judged on two rows
  read under the lock. The invariant (`CapsInv`) carries from insert to insert what those rows say of
  the turns before, and that what a transaction has read still holds (`FreshCaps`); the cap rule on
  counters is then the cap rule on history. `VersionInv` adds that ids are fresh and that the
  version an attestation read is its turn's latest (`TableVersions`, `CurrentIsServed`, `FreshIds`).
  With both, each commit is one step of `AdLedger` and every other step a stutter.
- **The overview.** A query's count is a fold over the rows of a table, and the claim is that it is the
  number of turns with a property. `OneLatest` makes rows that are counted and turns the same in
  number, and `SumCounts` solves the fold: the value a fold takes on each set of rows is given
  outright, as a cardinality, and shown to satisfy the fold's equation. Over time, a count speaks of
  the turns there were when it was read (`OverviewIsFixed`): later turns lie past the window or are
  `late`, attestations move nobody to another day. What is reported was displayed
  (`ReportsAreOfDisplayed`), which needs to know what the watching block may still see
  (`ScreenIsHonest`).
- **Retention.** `SurvivorsLinked` says nothing of an open transaction. The invariant adds what one may
  rely on: the tail it read is still the last row, or the job has deleted the whole table and the
  watermark covers that tail; and the version it supersedes is still the served one, or every
  version of its id is gone (`TailHolds`, `SupersedesServed`). A run deletes at and below a position,
  so what survives is a stretch whatever committed between its statements.
- **Verification.** What a reader has read may be gone by its next read, so an invariant about the
  tables is not enough. `LogInv` holds whoever deletes what, and speaks of *every row ever seen*,
  kept, deleted or remembered: no version of an id is hashed twice (`Drawn`), a row stands where its
  link says (`LinkTo`), rows are told apart by their hashes and follow what they are chained to
  (`History`). `DatesInv` holds while only the job deletes, and says where a record older than the
  watermark's date may still stand. With both, what a reader is told of a predecessor that is
  missing explains it (`Accounted`), because it reads the watermark *after* the row it did not find. A
  report reads the watermark once and may miss a later one, which is the exception
  `ReportsBlameNoPruning` names.
- **The pages of a search.** The order of the log is total, so a row is left out of the first *n* of a
  list only behind *n* others (`FirstLeaves`), which is shown by a least counterexample, the induction
  axiom being out of reach. A page is merged from slices of one app each, and a row its slice leaves out is
  behind enough rows of its own app to fill the page (`MergedPage`). The cursor is the edge of the page
  before, so what lies past it lies past every row of that page (`PastTheEdge`); rows appended
  since bear hashes nobody had.
- **Verdicts.** The invariant is what the gateway wrote (`WellWritten`: each document is hashed,
  signed and chained to the row before it), what kind of row each is (`Kind`) and what an altered
  document looks like (`Altered`): it does not hash to its record_hash, or is not what its signature
  signs, or is another row's. A document of the last kind is chained to what stands before the other
  row, and no two rows have one hash, since that would make the rows before them the same
  (`OneHash`), so it fails the chain check (`AuthenticRow`). The other half goes through the eight
  checks for a turn and for a version. The first attempt failed, on a property that
  three records satisfy and four do not: see the exchanged document in
  [section 6](#6-where-code-and-documentation-differ).
- **What an ad leads to.** The loader keeps a policy under itself, so a turn is judged on the policy of
  the row it was authenticated with (`LoaderIsTrue`), and a click on the one stored now. What is offered under
  the overrides is deliverable under the stored policy, as overrides only turn demand off
  (`OverridesOnlyDisable`); that the engine's and the diagnosis' notions of a blocked category agree
  rests on the taxonomy (`ServedTargetIsFree`, `DeliveryAssumption`). With one network the
  creative could be served through, the first enabled one is the one that served it (`FirstNetwork`).
- **Mediation.** A settlement of an adapter that answered holds its offers and any other holds none
  (`OffersAreMade`), and a result, once there, is the ranking of settlements that no longer change
  (`ResultIsRanked`). That there is a best offer is the well-foundedness of the naturals; that it is
  one, that ties go by id (`MediationAssumption`).
- **The SDK's turn.** The middleware's store is a bounded list, newest last. A turn that has begun is in
  it under its own evaluation, or has ended, or shares its ids with another, or as many others have
  begun as the store holds (`TurnsAreTracked`), so a second evaluation of a turn has one of the
  reasons `OneEvaluatePerTurn` names. `ShowInv` follows a decision from the call that fetched it to
  the step that shows it and to the attestation that says so.
- **Apps and keys.** `VersionsNameDocuments` says of rows, replies and judged turns at once that
  app and version determine the document; the invariant adds that none of them is ahead of its app's
  row (`Behind`), and that a form past its check belongs to somebody who could see the app since the
  form was sent (`Checked`).
- **The catalogue.** A save reads the advertiser and the headline before it writes and nothing is
  locked in between; the invariant says what each read still means at the write: the name it hashes
  is the registered one unless an import renamed the domain (`Informed`, `Truthful`), a key it found
  free is held only by rows given it since the transaction began (`MayGive`), and what
  an import has written but not committed is locked against all others (`Exclusive`). The attempt to
  prove a stronger property, about the last writers of two rows, found the import that undoes a save
  in [section 6](#6-where-code-and-documentation-differ).
- **The scheduler.** A pruning instance whose session lives is the holder of the lock, which one
  instance is.
- **The cached answer.** The invariant (`IInv` of `TurnDecisionProofs`) is that every row, in either
  tier or on its way between them, is *sound*: its key names the app, text and policy fields its
  value was made from, it expires at most one lifetime after its answer was given, and it has the
  model's answer unless a strong flag made the model unnecessary. A request takes only rows of
  its own key, so what a cache holds cannot matter but for being old, and it is not older than
  the lifetime. The self-harm theorem adds that a flag of either stage survives the merge of the
  stages under any detection mode and threshold (`SelfHarmStays`), and that the
  engine lets no flagged turn through even under a policy that does not name it
  (`SelfHarmIsBlocked`).
- **The words behind a key.** The proof of `CacheIsTransparent` has to recover the words of a turn from its
  key. A key is the normalized text *with* labels, the rules read the text without; of a plain
  conversation no word normalizes to a label, so dropping the labels of the key leaves the rules'
  words (`PlainKeys`), and two turns with one key get the same verdict from the rules
  (`SameKeySameRules`). That rests on what flattening a sequence of sequences yields, a recursive
  definition of the library: a chain of partial results that follows it exists and is unique
  (`ChainExists`, `ChainsAgree`), by induction over the numbers of a set (`Climb`), and what is claimed of
  a flattened sequence is claimed of its chain. The state's part is short: what is cached was made
  for words of that key (`AnswersAreMade`), and given to a turn.
- **Compounds.** Masking one compound after the other shortens the text each time, so positions before and
  after do not compare. The proof compares the masked text with one of the full length in which hidden
  words are gaps (`Blank`): each word left is a word of that one, each gap a stretch of its gaps
  (`Spells`), so what is found in either is found in the other. A mask hides the occurrences of its
  compound because the search, which goes on behind each it finds, misses none (`SearchStaysClear`), and
  because what was masked before cannot have taken part of one (`HiddenWholeOrNot`). Both rest on
  compounds that do not overlap, which is `DictionaryAssumption`: those of the data are two words
  each, a tool and "gun" or "guns". With compounds that did overlap, what is hidden would depend on
  their order; data.test.ts does not look at that.
- **Overrides.** `MergeTightensEngine` goes field by field: regions, with the EU as a region and as
  its members (`RegionsTighten`), tiers, caps (`CapsTighten`), blocked categories, min_confidence.
- **Admission.** A request past its verification presented its key's secret and read a row that was
  live; only verified secrets are cached. Of a bucket: what it has allowed, plus what it holds, is
  at most the burst plus the rate times the time it has seen (`PaidFor`), which the upsert keeps
  because `updated_at` never goes back. The refinement rests on `RoundedUp`: rounding up gives the
  *least* number of seconds after which a token is there.
- **Accounts.** An insert is refused while the address is in the table, whatever the check before it
  saw. Of cookies: a salt is never drawn twice, and every hash a cookie or a login under way carries
  was its account's at the number of changes it names; so a tag that matches the stored hash was
  minted under it, though the password was changed back in between.
- **The limiter.** A window of the map counts attempts since it opened; `AttemptsLimited` speaks of all
  attempts ever. The invariant (`PaceInv`) says that those of a client lie behind each other by whole
  windows (`Spaced`), and that, while nothing forgot them, the ones of its open window are the last
  ones (`Paced`). Pruning takes windows that have elapsed, which the next attempt would not have been
  charged to; who is evicted is in `forgotten`.

Only model-checked are `Answered`, `WaitsEnd` and `LockIsReturned`: liveness under fairness, which this
prover does not reach. Every other property of a passing run is a theorem.

Recursion over data is reasoned about where its result can be stated outright (the chains of a flattened
text, the tokens of a masked one, the sums of the overview) and shown to exist by induction over the numbers
of a set; no module with theorems declares a `RECURSIVE` operator.

## 6 Where code and documentation differ

Four runs check one property each, that a document or comment states, and find it violated.

| Run | Says | Does |
|---|---|---|
| `over_delete` | retention/queries.ts:26, a prefix "can never over-delete" | `prunableThroughSeq` asks twice; a turn that commits in between, in a chain whose every record is prunable, is deleted although it is new |
| `raced_signup` | accounts/users.ts:73, a duplicate that slips past the check "comes back as `email_taken` all the same" | `isUniqueViolation` looks at the caught error, while the query layer leaves the driver's code on its cause: the second of two racing signups is told the database is unavailable |
| `two_cuts` | core/classify/cache.ts:20, the key is "the normalized text plus everything that changes the answer"; merge.ts:11, "the rules are the deterministic floor" | the key names the labelled text, the rules read the bare one, each cut to its own last characters (prepare.ts:61): of a conversation past the cut, the words only the rules reach are in no key, and a turn is given an answer without the flags they raise |
| `bundle_pruned` | dashboard/lib/report-bundle.ts:10-12, the bundle "MUST RE-VERIFY WITHOUT US" and carries all the eight checks need | it carries no watermark: a record whose predecessor was pruned verifies in the report and fails in the bundle |

Met while modelling; the properties leave these out by name or are worded around them.

The log and its readers:

- *A retried turn is recorded twice.* docs/audit.md:3 has one record per evaluate call. A COMMIT whose
  acknowledgement is lost is followed by a fail-closed record under a new id (pipeline.ts:208): the
  first may be a serve, while the caller hears suppress.
- *An attestation that outlives its turn.* docs/audit.md:65 says both versions "remain in the chain and
  both verify". A prune may take the turn and leave the attestation, which then supersedes a record that
  is missing (retention/queries.ts:103). One that commits while its turn is being deleted survives
  with an old `ts`, above the watermark, and is reported as pruned before the cutoff.
- A chain pruned to its end starts again at position 1, below its old watermark: there a missing
  row cannot be told from a pruned one. `TamperingDetected` speaks of rows above it.
- An event whose owner check passed before its record was pruned is inserted afterwards and stays.
  `EventsLeaveWithRecord` is about the events a run finds.
- A report remembers the watermark it read first (report-reader.ts:20); one that moves afterwards makes a
  record that is still there miss its predecessor. `ReportsBlameNoPruning` excepts that case. Whether
  a report was cut at its limit is asked in another statement than its rows.
- *An exchanged document, attested.* The attest transaction takes the row by its columns and builds on the
  row's document (attest/store.ts:78); neither it nor the checks compare the two ids. When a row holds
  another turn's document before it is attested, the new version is a valid attestation of the turn the
  document names, and is what verification answers for under the first turn's id.
  `VerifyTellsTheTruth` speaks of the version a document *names*, not of the row it was made from.
- During a rolling key rotation an instance that booted before it answers `unknown_key_id` for records
  of the new key, until it restarts, although signing.ts:15 adds the current key "so the gateway's
  records always verify". `Known` in `RecordChecks` names it.
- audit-queries.ts:30 says no row is ever shown twice or skipped "whatever is written" meanwhile. Of
  rows that are there it is true (`PagesCoverTheLog`). A row committed late, or an attestation, which is
  inserted at the `ts` of its turn, can land behind a position already passed.
- The overview's turns and events are two statements: a turn recorded between them with a `ts` in the
  window makes impressions exceed serves. lib/metrics.ts says that every `frequency_cap` suppress
  happens before demand is called; the second decision under the lock can turn a mediated serve
  into one.

What a turn is judged on, and what it carries:

- docs/policy.md:3 has overrides "only make it stricter". Under balanced detection raising
  `min_confidence` silences a model that flagged the turn, while the combined confidence still passes
  (classify/merge.ts:97): a turn that would have been suppressed may be served. The engine
  itself only tightens, which is what `EngineOnlyTightens` says.
- select.ts:11 says an adapter "never drops a creative mediation would have picked"; adapters cut their
  list to the best few before the exclusions apply (select.ts:35).
- Within the cut, a word that looks like a speaker's label makes one message of two turns' words share
  the key of two messages (prepare.ts:63, normalize.ts:12 drops the colon). `CacheIsTransparent` is
  about plain conversations: uncut, without such words.
- A click on an affiliate creative without a network of its own goes to the *first* enabled affiliate
  entry (destination.ts:37), while the adapter of any enabled network may have served it.
  `DeliveryAgrees` speaks of creatives one network could serve.
- A koah or gravity creative with an enabled entry is diagnosed as deliverable, though those adapters are
  stubs that never yield. The diagnosis takes a blocked category to block what lies under it, the engine
  compares by equality; they agree because no content category lies under a sensitive one
  (`DeliveryAssumption`).
- A limiter that fails admits the request, charged or not, by design. `RateBound` counts what the
  bucket allowed, not what was let through without it.

Administration, retention scheduling, SDKs:

- audit-record.ts:88 of the schemas describes `policy_version` as "the version field of the policy
  applied". That field of a policy is always 1; the record carries `apps.policy_version`, the count of
  saves (pipeline.ts:137), which is what `EditsHold` needs it to be.
- A new app's policy is validated without an id to match (policy-validation.ts:56), so it may name another
  app, until it is first edited. Handing an app over, or demoting an account, does not stop a form
  whose check has passed (actions.ts:121): `OwnersWrite` allows whoever could see the app since it was
  sent.
- creative-admin.ts enforces one headline per advertiser and catalogue by a query: overlapping
  transactions both find it free. Two imports, or an import and a save, can store it twice.
- An import finds a creative by its key and then updates the row by id (seed.ts:138, 155). A save that
  moves that row to another headline in between is undone, and the row gets the key back that the
  import found it under, whoever has taken it meanwhile: a creative made after the import began, or
  before. With five writers two creatives then hold one key although the transactions that first
  gave it to them never overlapped. In `Catalogue` such a row goes on from the giving it was found
  with (`Row`), and `SharedKeysOverlapped` is about givings, not about the last writers.
- An import that renames an advertiser leaves the `content_hash` of its creatives as it was
  (db/tables/catalog.ts:44); only the rows the import itself rewrites follow.
- scheduler.ts has "One runner at a time, ACROSS PROCESSES". A run whose reserved connection was lost
  goes on, over the pool, without the lock. A SIGTERM does not wait for a run: the pool may close under
  it.
- SponsoredSlot reports "at most once per audit id" per mounted block; a decision that returns
  (A, B, A) or a second mount reports again, and the unique index of `events` absorbs it.
- SponsoredSlot's layout check runs when the block appears, not when only its decision changes: a block
  moved into a message after mounting shows the next ad there until the impression check, though
  sponsored-slot.tsx says such an ad is "never shown to anyone" and records no impression. None is counted
  while it stays there; moved out again before the effects of yet another decision have run, it is
  counted under the ad it showed inside. The attempt to prove `OverviewAddsUp` found this, at a third
  render; the property now has `MoveNode` say that a block moved out shows the turn it watches.
- `_http.py:1` of the Python SDK calls its timeout a hard deadline; it is per phase of a request. In the
  TypeScript SDK a `getUser` that never settles has no deadline.

## 7 What is not modelled

- **What texts mean**: the keyword lists, the prompt, the JSON of the model's answers. `Conversation`
  has how phrases are matched, masked and scored, on a small dictionary whose regular expressions are
  phrases too; its words stand where the code counts characters. That the two labels are words nothing
  else normalizes to, and normalize to themselves, is so of the alias table (`ConversationAssumption`). In `TurnDecision` a text is a value
  and what rules and model say of it a choice. The order of categories, and the failure reasons, are
  left out.
- **Cryptography, canonical JSON, ids**: perfect by assumption. `RecordChecks` keeps of a document what
  the checks read; `attested_at` goes with `model_output_hash`, reasons go with decisions, and the
  context of a verification is read at one instant (`ChainVerify` has it read by read).
- **Schemas** beyond the two refinements of a record; policies are valid as parsed.
- **Key formats and hashing, last_used_at, floating-point rounding** of the token balance.
- **Of the scheduler**, an unlock that fails while its session lives.
- **Of the slot**, the wording of warnings and labels, the report of a dismissal; **of the overview**,
  revenue and rates, which are computed from the counts; **of the dashboard**, pages that read one
  snapshot; **of the audit search**, the filter by reason,
  which is like the one by decision.
- **Of the readiness report**, its printing, and the once-per-reason memory of the no-fill warning.
- **Gateway shell, metrics, OpenAPI, migrations, examples**: wiring, counters no decision reads,
  generated text, sample code.
- **Deadlock at retention/run.ts:153** (the first watermark of an app needs a row an attestation holds):
  PostgreSQL aborts one of the two, and an abort is `Rollback` or `LeaveAlone`.

## 8 Plan

Order of work, the most important behaviour first; what is done is in sections 2 to 5.

1. Done: the log and its counters (`FrequencyCaps`, `AuditChain`, `AdLedger`), with proofs of the chain,
   the counters, the caps, the versions, the replies and the refinement.
2. Done: retention, its scheduler and verification (`Retention`, `RetentionScheduler`, `ChainVerify`,
   `Reports`, `RecordChecks`), with proofs.
3. Done: what a turn is judged on and may carry (`PolicyRules`, `TurnDecision`,
   `Conversation`, `Delivery`) and demand (`Mediation`), with proofs.
4. Done: admission (`Admission`, `TokenBucket`), the dashboard's accounts (`Accounts`,
   `LoginLimiter`), catalogue (`Catalogue`), apps, keys and policies (`Tenants`), with proofs.
5. Done: the clients: SDK turns (`SdkTurn`), slot and overview (`Impressions`), search
   (`AuditPages`), with proofs.
6. Left, models: the first watermark's lock cycle with `Retention`'s rows locked
   one by one.

## 9 Running it

    tlc -config Chain.cfg MCLog.tla                 # any run: its cfg and its MC module
    tlapm AdmissionProofs.tla                       # any proof module

The longest runs are `retention`, `admission`, `chain`, `decision`, `stages` and `console`, two to four minutes each on two
cores; each proof module takes from seconds to a few minutes, `ConsoleProofs`, `StagesProofs` and
`VerificationProofs` the longest.
