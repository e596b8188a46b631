# Verification of the Atrinik metaserver worker

This directory holds TLA+ models of the metaserver worker, the TLC
configurations that check them and TLAPS proofs about them. Paths such as
`directory-builder.ts:305` are files of the worker's `src/` directory; paths
with a directory (`docs/rate-limits.md`) start at the repository's root.

    tlc -workers 2 -config directory_core.cfg MCDirectoryBuilder
    tlapm DirectoryBuilderProofs.tla

`PROJECT.json` maps every definition to the lines it stands for and lists the
runs, the mutants that show each property can fail, the findings, the hazards
and the theorems.

## 1. The system

The worker lets game servers publish themselves and lets clients find and reach
them. Three Cloudflare Workers (public, publisher, rendezvous) share one D1
database; two kinds of Durable Object hold what must be serialized. D1 executes
a statement or a `batch` atomically; everything else happens between two
`await`s of JavaScript code that other requests may interleave with, including
requests to the same Durable Object unless it queues them itself.

| component | state | operations | what makes it correct |
|---|---|---|---|
| directory builder (`directory-builder.ts`) | Durable Object storage: generation high-water mark, pending build, nudge; an alarm; private and public R2 buckets | reconcile, nudge, alarm; a build of some fifteen awaits: read, reserve, store, replace aliases, verify, commit, purge, prune | never acknowledges what it does not show; aliases and checkpoint never go back; the rollback window is whole; converges |
| directory state (`directory-state.ts`) | D1: entries, presence, revision, outbox, checkpoint, history | commit of a checkpoint, expiry | an outbox row for every revision not acknowledged; the checkpoint is monotone |
| artifacts, origin, ranking | none | render, rank | an artifact lives no longer than the rows it lists |
| CDN purge (`directory-cache-purge.ts`) | none (CDN) | purge of changed aliases | a committed generation is purged at last |
| visible publication (`rendezvous-publication.ts`) | D1: entries, presence, replay fence, nonces | one batch per signed publication | a revision per visible change, no publication twice |
| access routes (`access-route-state.ts`) | D1: routes, receipts, nonces | reserve, activate, revoke, result; cleanup | rows move forward; retries have one effect; revocation is never refused for capacity |
| access grants (`access-grants.ts`, `access-controller.ts`) | D1: grants | resolve, redeem, recheck | no grant survives revocation; a grant is redeemed once |
| rendezvous room (`rendezvous-room.ts`) | Durable Object of one server: sockets with attachments, the publication's generation, alarm; a queue of operations in memory | accept server and client, access init, candidate tickets, publication, revocation notice, alarm, socket close | nothing is forwarded for a revoked grant; no session outlives its control or its publication; an ended session stays ended; its metric is written once |
| room admission (`rendezvous-admission.ts`) | SQLite of the room: replay tags with their expiry | consume and claim, bounded prune | a ticket admits once in 24 hours, also across a change of keys; the store is bounded |
| rendezvous health (`rendezvous-health.ts`) | D1: one row of counters and the last canary | record an observation, read a snapshot | a status rests on evidence near the reader's time |
| budgets (`access-budget.ts`, `rate-limit.ts`) | D1: windows | count and refuse | a window admits no more than its limit, late requests included |
| maintenance (`maintenance.ts`) | D1 | bounded deletion of expired rows | catches up |
| reconciliation (`directory-reconciliation.ts`) | none | let the builder reconcile, then read checkpoint, aliases, revision | a success proves a published directory |
| entry points (`index.ts`, `publisher-worker.ts`, `rendezvous-worker.ts`) | none | dispatch, cron | every profile is reconciled |
| authentication, privacy, contract, protocol, http, routes, config | none | pure functions of a request | (tests) |
| production delivery (`scripts/production-*.mjs`, `delivery-resource-policy.mjs`) | the three production Workers, their secrets, durable artifacts, D1's migrations | preflight, staging, retirement of the callers' secrets, activation, proof, recovery | an enabled core serves callers of its own source; a success is coherent, a report true; a pair is deleted once, as the intent says |
| canaries, administration SQL, development Worker | none | tools | (tests) |

How they interact:

- A signed publication commits to D1; when it changed what is displayed it
  raised the revision and left an outbox row. The worker then *nudges* the
  builder, best effort (`index.ts:519`). Every five minutes the cron reconciles
  every profile in any case (`index.ts:93`).
- The builder reads D1, writes R2, commits a checkpoint to D1 and purges the
  CDN. A reader of the CDN may fill it with an alias at any time.
- A resolution of an access token reads D1, asks the server's room whether its
  server is there, and issues a grant; the client redeems it at the room, which
  writes the redemption to D1 and checks it again before every use. A
  revocation commits to D1 first and notifies the room afterwards.
- Publications, access mutations and cleanup share capacities: the receipt
  table and the nonce table.
- A delivery replaces the three Workers one by one, has the core reconcile the
  directories through a private binding, and reports success only on that proof.

What is hard here: builds that are superseded, fail, or die between any two
awaits, with their last write still on its way; multi-file replacement without
a transaction; capacities shared between operations of which one must never be
refused; workers with different clocks; retries with a new sequence and nonce;
D1 reads whose answer is stale when it is used; room state that lives partly in
memory, partly in socket attachments that may be refused, partly in storage;
writes that are best effort and arrive in any order; a delivery of three
Workers without a transaction, next to other writers and under an authority
that may end at any moment.
`PROJECT.json` lists the hazards one by one under `hazards`, at their lines.

## 2. Plan

| step | modules | state |
|---|---|---|
| 1 | `DirectoryBuilder`, its promise `DirectoryPromise`, proofs | done |
| 2 | `AccessRoutes` with grants and nonces, proofs | done |
| 3 | `RendezvousRoom`: sessions, control, publications and revocation notices of one room, proofs | done |
| 4 | `RoomTeardown`: attachment writes and closes that fail, retirement, quarantine | done |
| 5 | `ProductionDelivery`, proofs | done |
| 6 | `RoomAdmission`, `RendezvousHealth`, `RequestBudgets`, `AccessBudgets`, `DirectoryReconciliation`, composed in `SmallParts`, proofs | done |
| 7 | the builder's rollback window, generations, cohorts, nudges and artifacts: theorems | done |
| 8 | the delivery's lists of calls and `CoreServesOneCohort`: theorems | done |
| 9 | `RoomTeardown` written without folds over lambda expressions, which the provers do not read: theorems for all its properties | done |
| 10 | `AccessPromise`: one abstract route with its grants, implemented by `AccessRoutes`; the scoring of `directory-ranking.ts` as an operator | open |

## 3. Modules

### DirectoryBuilder

One profile's D1 rows, its builder, the two buckets and the CDN. One action is
one stretch of code between two awaits; `pc` names the await the builder is at,
so publications, expiry, nudges, readers, ticks and crashes interleave with
each. The builder serializes its operations (`directory-builder.ts:276`), which
is why there is one `pc`.

| state | code |
|---|---|
| `revision`, `updatedAt`, `outbox` | `directory_revisions`, `directory_outbox` |
| `entry`, `lastSeen`, `order` | `directory_entries`, `server_presence`, the ranking's result |
| `ckpt`, `history` | `directory_artifact_publications`, `directory_artifact_history` |
| `high`, `pending`, `nudged`, `alarm` | Durable Object storage and alarm |
| `stored`, `alias`, `cache` | private bucket, public bucket, CDN |
| `flight` | a request of a crashed builder that is still on its way |
| `trigger`, `attempt`, `model`, `base`, `todo`, `etag`, ... | local variables of the running operation |

| action | code |
|---|---|
| `Publish`, `HourlyExpiry`, `Rerank` | a publication batch, the hourly expiry, a change of the ranking's evidence |
| `NudgePut`, `NudgeArm` | `nudge` 248 in its two awaits |
| `Start`, `ExpireRows`, `ReadModel`, `ReadCheckpoint`, `Decide` | `reconcileNow` 282, `buildCurrent` 305-349, `readModel` 552 |
| `MatchAlias` ... `MatchPurge` | the path on which the checkpoint already stands, 341-363 and 917-940 |
| `PublicGeneration`, `Reserve`, `Store`, `PutImmutable` | `reserveBuild` 801, `putImmutableGeneration` 1404 |
| `Recheck`, `AliasHead`, `PutAlias`, `VerifyAlias`, `RecheckVerified` | 417-476, `putPublicAlias` 1476, `verifyPublishedObjects` 1631 |
| `Commit`, `CommitCheck`, `Purge`, `Schedule`, `Prune` | 477-549, `prune` 987 |
| `CallFails`, `Crash`, `ResetStorage`, `Land`, `LoseAlias` | failures: any call fails or loses its answer; the object restarts, with or without its storage; a late request lands; an alias disappears or is damaged |
| `ReaderFill`, `Tick` | environment |

A file's body is its content (which servers with which version, in which order)
with its generation and dates: exactly what the metadata checks of the code
compare. `DirectoryPromise` is the abstract specification: a revision changes,
and the current revision is acknowledged; `ImplementsPromise` is the refinement.

Deliberate limits. The multi-head reads of `readPublicGeneration` and a prune
are one step each (operations are serialized, so only a batch that outlives its
builder could come between the reads and the deletions of a prune, and
`RollbackWindowComplete` is stated without such batches); a scheduled alarm
"later" fires at any time; a pending build
found under another token cannot occur because operations are serialized and is
not modelled. `Nudges = FALSE` loses every nudge. A crash between the put of a
nudge and its `setAlarm`, or of an operation of the cron before it looks at the
flag, leaves the flag without its alarm until the cron runs, so
`NudgeNotDelayed` speaks of an object that has not crashed. With a late
request *and* a re-ranking, aliases may briefly be of an older order than the
acknowledged one, so `AcknowledgedCohortIsPublic` is checked without late
requests. A generation can get two bodies when storage is reset and, at the
same time, an alias was lost or a request of the old builder is still on its
way; runs with `MaxResets > 0` exclude both. `ArtifactWithinBacking` is checked
for publications stamped with the right time (`MaxSkew = 0`); what skewed clocks
add to it is a theorem of section 6, `ArtifactsOutliveByGrace`.

### AccessRoutes

The tables of access tokens, with the nonces and the replay fence they share
with publications, and resolutions in their three steps.

| state | code |
|---|---|
| `routes`, `receipts`, `grants` | `access_routes`, `access_mutation_receipts`, `access_grants` |
| `replay`, `nonces`, `presence` | `publisher_replay_state`, `publisher_nonces`, `server_presence` |
| `resolving` | resolutions between two awaits of `handleAccessResolve` |
| `issued`, `denied` | bounds and history: grants issued, routes some batch saw expired |

| action | code |
|---|---|
| `MutateAccessRoute` | `mutateAccessRoute` 37-202: one batch, statement by statement (nonce and budget, receipt and decision, route, grants) |
| `CleanupAccessState`, `NoncesExpire` | `cleanupAccessState` 208, the nonce part of `cleanupExpiredState` |
| `Publication`, `PresenceExpires` | the fence, nonce and presence of `persistSignedPublication`, `expireDirectoryEntries` |
| `Resolve`, `ReadTarget`, `Refuse`, `IssueAccessGrant` | `handleAccessResolve` 60-101, `issueAccessGrant` 25 |
| `RedeemAccessGrant` | `redeemAccessGrant` 63 |

Every worker has its own clock, at most `MaxSkew` from `now`. A batch of
`LIMIT`ed deletions is any set of at most `CleanupBatch` rows.

Deliberate limits: a handle is the sequence that reserved it; the client's
nonce is part of a grant's tag; the digest in a receipt only forms the answer
and is left out; the denial table and the rate limits refuse before the
transaction and are left out; a rejected publication only removes nonces, which
is `NoncesExpire`.

### RendezvousRoom

The Durable Object of one server, with the rows of D1 it asks. JavaScript runs
to the next `await`, so one action is one stretch between two awaits, or one
answer of D1. Four things may wait for D1 at once: the operation at the head of
the room's queue (`serializeRoomOperation` 300), a revocation notice (the same
queue; a variable of its own because it walks over the sockets), the message
each client's queue is at, and the message the control's queue is at.

| state | code |
|---|---|
| `published`, `issued`, `revoked`, `redeemed` | D1: the generation in `server_presence`, routes that ended, `access_grants.redemption_id` |
| `generation`, `claims`, `alarm` | the room's storage: `TOKEN_GENERATION_KEY`, replay tags, the alarm |
| `server`, `controls`, `client`, `socket`, `expired` | sockets with their attachments; deadlines that have passed |
| `op`, `notice`, `handler`, `control` | operations and messages between two awaits |
| `finalized` | `finalizedConnections`, lost by hibernation |
| `notified`, `summaries`, `faults` | history: what an answered notice covered, metrics written, disturbances so far |

| action | code |
|---|---|
| `StaleRequest`, `ServerUpgrade`, `AcceptServer` | `reconcileUpgradeGeneration` 398, `acceptServer` 718-860 |
| `ClientUpgrade`, `Redeem`, `ReadReceipt`, `RefuseClaim`, `Claim`, `Deliver`, `FailAdmission` | `acceptClient` 938-1103 in its awaits |
| `Publish`, `Persist`, `Match`, `Return` | `commitPublication` 311-365: rotate first, then persist; ambiguous answer; back to D1's generation |
| `EnterInit`, `ReadInit`, `AcceptAccessInit` | `acceptAccessInit` 1112, queued as an operation |
| `NoticeRequest`, `NoticeRead`, `NoticeFail`, `NoticeDone` | the revocation notice 211-233 |
| `ClientFrame`, `ReadFrame`, `CheckFrame`, `DispatchFrame` | `processWebSocketMessage` 484, `handleClientMessage` 1144, `beginClientTicket` 1182 |
| `ServerFrame`, `RouteFrame`, `ReadRoute`, `ForwardFrame` | `handleServerMessage` 1340 |
| `BadFrame`, `ClientGone`, `ControlLost`, `ControlGone`, `Alarm`, `Expire`, `Hibernate` | protocol violations, `handleSocketGone` 2130, `alarm` 651, deadlines, eviction of the object |
| `Revoke`, `PresenceExpires` | D1 changes made by other workers |

Deliberate limits.

- An operation begins where D1 answers its first read; an operation whose first
  read fails leaves nothing and is left out.
- Attachment writes and closes succeed; `RoomTeardown` has their failures. A batch that fails in D1 and commits after the answer
  to `rendezvousPublicationMatches` was read is not modelled.
- A socket's queue handles one frame at a time, of the kind the session awaits;
  any other frame is `BadFrame`. A frame of the control names a ticket the
  control retains; any other is `BadFrame` too. Byte budgets are left to the
  frame counts.
- A deadline is a flag that may be set at any time; the 24 hours a replay tag
  is retained are longer than every behaviour.
- `MaxFaults` bounds everything that disturbs a room, revocations and expiries
  included.
- A notice that writes an attachment it read before its await may also leave
  the ticket of the ended session active in the control's attachment. The
  ticket leads to no session (`findTicketClient`) and is pruned at its deadline,
  so no property speaks of it.

### RoomTeardown

The same room, with sockets whose `serializeAttachment` or `close` throws. What
the code awaits here is the room's storage, which holds back every other event,
so one action is one handler; the awaits of D1 and of Web Crypto are in
`RendezvousRoom`.

| state | code |
|---|---|
| `room` | sockets with their attachments, `TOKEN_GENERATION_KEY`, `pendingClientOutcomes`, `pendingServerOutcomes`, `inactiveControls`, `finalizedConnections` |
| `marker`, `persisted`, `required`, `failed` | `TEARDOWN_RECOVERY_KEY` and the three flags of the instance |
| `alarm`, `expired` | the alarm, deadlines that have passed |
| `broken` | which socket fails, and how: the first write, every write from the second on, the close |
| `doomed`, `unmarked` | history: sockets whose double failure was reported, or left no marker |

| action | code |
|---|---|
| `ServerUpgrade`, `ClientUpgrade`, `StaleRequest`, `RefusedUpgrade` | `acceptServer` 718, `acceptClient` 938, `reconcileUpgradeGeneration` 398 |
| `RevocationNotice`, `Violation`, `StaleMessage`, `ClientMessage`, `ServerMessage` | 211, `failProtocolViolation` 1976, `processWebSocketMessage` 484, `handleClientMessage` 1144, `handleServerMessage` 1340 |
| `SocketError`, `SocketGone` | `webSocketError` 608, `handleSocketGone` 2130 |
| `Reconstruct`, `Alarm` | constructor 166, `alarm` 651 |
| `Publish`, `Break`, `Heal`, `Deadline` | environment |

The operators below the actions are the private methods of the class, under
their names: `failClient`, `failServer`, `closeAllClients`,
`prepareServerRetirement`, `restorePreviousServer`, `reconcileActiveServer`,
`expireClients`, `pruneServerTickets`, `retryPendingServerTeardowns`,
`rotateTokenGeneration`, the two quarantines. A loop whose turns each touch one
socket is `Each`; where a turn may take the clients along (`EndControls`,
`RetireOthers`) the loop is a function of the number of controls it has come to.

Deliberate limits. Whether a socket fails changes only between two handlers,
for one socket or for all, and a socket that is gone does not break. Of the
outcome of a session the room only looks at whether it is known, never at which
of the seven failures it is, so those are one value (`incomplete`).
`storage.put` does not fail. Tickets and a control that reconnects under the
same id are left out, an admission is atomic. An alarm "later" (the replay store's or none) does not fire; a room that failed to
start and has no other alarm stops, hence `CHECK_DEADLOCK FALSE`. That the
retry gets there in the end is stated without fairness: `RetryFinishes` says
what a single alarm without failing sockets does in any reachable state.

### RoomAdmission, RendezvousHealth, RequestBudgets, AccessBudgets, DirectoryReconciliation

Five components that touch no other. `SmallParts` puts them side by side for
every value of their constants, each in behaviours of its own, and states their
properties; `MCSmallParts` is the small instance of it that TLC checks.

- `RoomAdmission` (`rendezvous-admission.ts`). `rows` is the table of the
  room's SQLite; `ConsumeAndClaim`, `Prune` and `Reconstruct` are one
  transaction each. A tag is the pair of a key and a ticket, because keyed
  hashes do not collide. Keys rotate only when the pair before them has been out
  of use for longer than the window (`docs/rate-limits.md:157`).
- `RendezvousHealth` (`rendezvous-health.ts`). `row` is the one row; `Record`
  is `UPSERT_OBSERVATION` with any time, since a write is best effort and may be
  late; the snapshot is an operator of any reader's time. Seven of the eight
  session counters, the time of the canary and the generation bear on no status
  and are left out. The model shows, and the property allows, that a late write
  takes the source's timestamp back, and that one from before the window starts
  it anew and forgets a failed canary.
- `RequestBudgets` (`rate-limit.ts`, `maintenance.ts`). A request is two
  statements, `Consume` and, when that changed nothing, `Explain`; `Schedule`,
  `CleanBatch` and `CleanFails` are the hourly removal. It is assumed that a
  request ends within the seventeen minutes between midnight and the first
  removal that may touch its day, and that clocks agree.
- `AccessBudgets` (`access-budget.ts`). `Consume` is one transaction with the
  time at which its request began. The property speaks of the requests that
  began in the window they spend in; a late one finds the newer window and is
  refused.
- `DirectoryReconciliation` (`directory-reconciliation.ts`). `Reconcile`,
  `ReadCheckpoint`, `HeadAlias`, `GetManifest`, `RereadRevision` and
  `RereadCheckpoint` are its awaits. Of the builder it keeps what
  `DirectoryBuilder` proves and checks: aliases and checkpoint go forward, and
  an alias of a committed generation is not replaced by itself. Two of the four
  files; the other profile goes the same way and the answer is a success when
  both are.

### ProductionDelivery

`orchestrateDelivery` as the list of the calls it awaits; one action is one
call, and `run.todo` is what is still to come. Promotions run one at a time (the
workflow's concurrency group), at most one waits.

| state | code |
|---|---|
| `live` | the active version of each Worker: annotation, circuit breakers, pair of legacy secrets, rate limit, provenance, source |
| `schema` | the migrations D1 has |
| `request`, `run` | the dispatch that waits; the state of `runDelivery` and of the fence, the retirement and the cohort guard it uses |
| `authorized` | whether `createProductionAuthority` still accepts the promotion |
| `strange`, `fenced`, `late` | history: Workers another writer changed since the run last accepted them, versions at the last fence, mutations since the authority was lost |

| action | code |
|---|---|
| `PassFence` | `fenceDeliveryMutation` 1502 |
| `CheckLedger`, `Inventory`, `Decide` | preflight, 2186-2263 |
| `CheckPredecessor`, `CheckCallerPredecessor`, `DeployStaged`, `ReadStaged` | staging |
| `BeginRetirement` ... `CompleteRetirement`, `Observe`, `CompleteObservation` | `retireCallerSecrets` 373, `observeSecretFreeCaller` 314 of `production-caller-retirement.mjs` |
| `VerifyStaged`, `ActivationHandoff`, `ReadRetired`, `ReadObserved`, `Authorize`, `DeployActive`, `ReadActive` | activation |
| `VerifyFinal`, `Prove`, `Report` | end of `orchestrateDelivery` |
| `RecoverRead`, `RecoverDeploy`, `RecoverProve` | `recoverDisabledCore` 679 |
| `Dispatch`, `Start`, `Revoke`, `Kill`, `ForeignChange`, `Migrate` | the workflow, the loss of authority, a cancelled job, another writer, migrations |

Deliberate limits. A configuration is its circuit breakers, its legacy pair and
the core's rate limit; a deployment's digest is its source. The development
cohort, windows of freshness and digests of plans are left out. A read of
several endpoints is one read; the snapshot of the cohort, two captures that
must agree, is one instant, because no version comes back. The resource fence
and the authority behind it are one action. That `wrangler deploy --strict`
refuses a Worker the API deployed last is modelled from how the code calls it.

## 4. Runs

| run | checks | instance |
|---|---|---|
| `directory_core` | `TypeOK`, `OutboxCoversUnpublished`, `RollbackWindowComplete`, `ArtifactWithinBacking`, `AcknowledgedCohortIsPublic`, `ImplementsPromise` | one server, revisions to 2, generations to 3, one failed call, a clock that runs over two boundaries |
| `directory_late` | `OneGenerationOneBody`, `PublicationOrder`, `NudgeNotDelayed`, `AliasMonotone` | two servers, two orders, nudges at every await, a crash whose last request lands late, a loss of storage |
| `directory_live` | `EventuallyPublished`, `EventuallyPurged` | no nudges, one visible change, two failed calls, a crash, one lost alias, under fairness |
| `directory_journal` | `PurgeJournalKept`, violated | re-ranking, two failed calls |
| `routes_grants` | `ReceiptsStayTrue`, `OneEffectPerRequest`, `NoGrantOfRevokedRoute`, `ObservedExpiry` | one expiring token, its mutations with a repeated and a re-used identifier, a resolution, two redeemers, skewed clocks |
| `routes_crowd` | `RevocationReserved`, `BacklogDrains` | two servers, two tokens, capacities of three and four, cleanup of one row |
| `room_sessions` | `NotifiedSessionsEnded`, `LiveSessionIsOwned`, `SessionsAreCurrent`, `RoutedSessionHasTicket`, `NoFrameOfRevokedRoute`, `EndedStaysEnded` | two clients, one with a grant and one without, two controls, two publications, one disturbance |
| `room_alarm` | `SessionHasAlarm`, violated | two clients, one control, no disturbance |
| `room_summary` | `SummaryAtMostOnce`, violated | one client with a grant, three disturbances |
| `room_teardown` | `OrphanRemembered`, `SummaryAtMostOnce`, `RetryFinishes`, `ServedHasOneControl`, `MarkerClearedClean` | two controls, one client, two publications, two disturbances, from a fresh room or an interrupted replacement |
| `delivery` | `CoreServesOneCohort`, `SuccessMeansCoherent`, `RecoveryHonest`, `OneMutationAfterLoss`, `PairDeletedAsIntended`, `HandoffActivatesProven` | two sources; one promotion with a foreign change and a lost call, or two in turn with a lost call; with a loss of authority anywhere |
| `small_parts` | `DailyBudgetExact`, `AccessBudgetHolds`, `ReportHasEvidence`, `ReconciliationProves`, `ReplayRefused` | five components of a few rows each |

Why the bounds are enough to be worth something.

- Two files of a generation show every mixture of old and new (the code treats
  each of the four files alike, in a fixed order). One server suffices where
  only the revision matters; where an order matters there are two. `Quantum` 2
  with lives of 2 to 4 makes every boundary case of the rounding occur. Two
  revisions and three generations are a publication before, during and after a
  build, with a superseded build between; a failed call that took effect or not
  leaves what a crash leaves at that await, so crashes are in the runs where a
  late request, lost storage or another failure follows them. `directory_core`
  follows the operations of the cron only (`CronOnly`): an alarm runs the same
  build, and what sets the two apart, the alarm that is set and the retry, is the
  question of the other runs. `directory_late` keeps two failures
  apart (`FaultsApart`): a loss of storage and a late request do not meet, and a
  state in which a nudge waits after either, or after a crash, is not followed
  further. `directory_live` spends its states on failures and lets one
  publication change what is visible: it comes before, during or after the first
  build, so that a superseded generation is left in the CDN.
- In `AccessRoutes` four sequence numbers are a life of a token with a stranger
  in it; capacities of three and four are filled exactly by these requests; a
  skew of one separates every pair of clock reads by less than, as much as, and
  more than each lifetime.
- In `RendezvousRoom` two clients are a session and another admission, notice or
  message beside it; two controls and two publications are a replacement of each
  while every await is open; one disturbance puts one revocation, expiry, failed
  call or lost peer at every point of that, and each further one multiplies the
  states. In `RoomTeardown` two disturbances are a socket that breaks and a
  hibernation, a publication or a second break after it; one attempt at closing a
  terminal socket (`MaxAttempts`) is the attempt and the giving up; a client and two
  controls are the shortest chain in which an orphan can be forgotten.
- In `ProductionDelivery` another writer changes any Worker between any two
  calls, to any configuration, source, annotation or pair, and one call fails or
  loses its answer; a second promotion finds what the first left behind.
- In the small modules a budget of two, a store of two rows and three tickets, a
  window of two or three instants over a clock of seven to ten, and removals of
  one row at a time meet every boundary. `DirectoryReconciliation` has three
  generations and three revisions: a build that overtakes the reads, and one
  more.

The bounds are constants (`MaxGeneration`, `MaxRevision`, `MaxTime`,
`MaxFaults`, `MaxCrashes`, `MaxLosses`, `MaxResets`, `MaxSequence`, `MaxIssued`,
`MaxSkew`, `MaxAttempts`, `MaxClients`, `MaxControls`, `Budgets`) and appear in guards.
`CHECK_DEADLOCK FALSE` stands in the runs where a bound (sequence, clock,
connections, publications, promotions) ends the behaviour, and in
`room_teardown`.

Fairness. `DirectoryBuilder!FairSpec` is weak fairness of the builder: the cron
starts an operation (`index.ts:93`, every five minutes) and a running operation
takes its next step. It does not assume that a nudge arrives, that time passes
or that anybody publishes; failures are bounded in number, not fair.
`AccessRoutes!LiveSpec` assumes that the cron runs `cleanupAccessState`
(`index.ts:113`) and that time goes on; requests are not fair. The other modules
are checked for safety only: sockets, operators and other writers promise
nothing.

## 5. Findings

- `directory_journal`: `reserveBuild` (`directory-builder.ts:839`) overwrites
  the pending build of a committed generation whose purge has not succeeded. If
  the overwriting build then fails and the old order returns, no purge is tried
  again: the property asks for a journal only while the directory is exactly what
  the checkpoint describes (revision, servers, order and aliases), where the
  builder answers "current" and purges only what the pending build names. In the
  run's trace generation 2 is committed and its purge fails; the next operation
  reads another order and reserves generation 3, whose first file fails, and by
  then the order of generation 2 is back. `README.md:284` says the journal is
  kept.
- `room_alarm`: an admission that fails after its claim replaces the room's only
  alarm by the expiry of the earliest replay tag (`rendezvous-room.ts:1097`; a
  full store does the same at 1016), although the session beside it has a
  deadline within seconds. `docs/rate-limits.md:101` and `docs/privacy.md:448`
  say that the alarm represents the earliest deadline. The close event of the
  failed socket repairs it; after a full store nothing has to.
- `room_summary`: the revocation notice passes `failClient` an attachment read
  before its await (`rendezvous-room.ts:226`). If the session ended meanwhile,
  the durable marker of its metric is overwritten, and a close event after a
  hibernation writes the metric again. The comment at 2070 says at most one.

Both room runs pass when the schedule in the catch branch and the attachment of
the notice are corrected in the model, so nothing else leads to them within the
bounds.

Met while modelling, without a run of their own:

- The comment at `access-route-state.ts:177` says that pending rows expire. The
  statement at 180 also takes an active row: an activation that comes late under
  a new request identifier is decided `expired`, because the decision (117)
  looks at the date before the state.
- `docs/deployment-environments.md:566-567` says that the predecessor is checked
  at the point of use. An ordinary delivery checks the three predecessors only
  before the first upload (`production-delivery.mjs:729`); a caller that another
  writer replaces after that is overwritten.
- A revocation notice that cannot write the attachment and cannot close the
  socket either leaves neither the marker nor an alarm
  (`rendezvous-room.ts:226`), while `docs/privacy.md:461` says that a teardown that
  fails twice outside the alarm persists the marker. `RoomTeardown` keeps such a
  session in `unmarked`, of which `OrphanRemembered` does not speak.
- A failed initialization (`rendezvous-room.ts:190-195`) closes the sockets, but
  a socket that can neither be rewritten nor closed then leaves no marker either;
  the instance refuses to work, the one after it serves the socket again. The
  alarm tries once more if there is one. These sockets are in `unmarked` too.

## 6. Proofs

The assumptions on the constants stand in the modules that declare them, and TLC
evaluates them on every run: `ConstantsAssumption` and its likes give the
constants their types, `NoValueAssumption`, `NoneAssumption` and
`ValuesAssumption` say that the value for "nothing" is none of the values it
stands beside. A theorem with a further hypothesis states it (`ASSUME`).

### The builder

`DirectoryBuilderProofs` proves `TypeCorrect`, from `TypeInv`: `TypeOK` alone
is not inductive, because `Commit` uses a pending build that only exists by
virtue of `pc`; `TypeInv` adds which local values each `pc` guarantees. The
other theorems build on it:

- `AliasesAreMonotone` needs that the object of a conditional put is
  newer than the alias its etag belongs to, for the builder and for a request
  in flight (`PutIsNewer`).
- `GenerationsKeepOrder`: `PublicationOrder` is not inductive, because a batch may
  commit long after the verification that justified it. `CandidatesPublic` says
  what every generation that may still be committed rests on: no alias that the
  verification has passed is behind it, nor is any behind a batch left in flight.
  It lasts because aliases do not go back while none is lost
  (`AliasesOnlyAdvance`), and what an operation read of the checkpoint is not
  ahead of D1 (`BaseIsOld`). The theorem has no hypothesis: late requests and lost
  storage are included, a lost alias is excepted by the property.
- `OutboxCorrect` and `PromiseImplemented` need `Knowledge`: what an operation
  has read of revision and content is still the truth whenever the revision has
  not moved. It is preserved because every visible change raises the revision.
- `NudgesAreHonored` says of every idle state that a nudge since the last start
  has its alarm. The invariant is inductive once it is known who can make the
  object idle or move alarm and flag there (`IdleSource`): whatever an operation
  schedules in its midst, its end looks at the flag, and nothing but a start, a
  nudge or lost storage touches either afterwards.
- `RollbackWindowIsComplete` needs `Cohorts`: from `reserveBuild` to the commit
  every file of the build is stored or still to be stored, and what an operation
  read of the checkpoint is not ahead of D1. Its hypothesis is that no request
  outlives its builder: a commit that lands after a later build pruned its
  generation puts into the history what is no longer stored.
- `AcknowledgedCohortsArePublic` adds `PublicCohort`: the aliases a verification
  has passed are those of the build. Its hypotheses are no late request (one that
  lands between verification and commit may put an older order back) and no lost
  alias.
- `GenerationsHaveOneBody` needs that every copy of a file, in a bucket, in the
  CDN or on its way, is no newer than the high-water mark and, at the pending
  generation, is the pending build's object (`OneBody`). With the storage kept
  the mark is enough, whatever lands late or is lost. After a reset the mark is
  gone and the new one comes from checkpoint and aliases, so the hypothesis is:
  no resets, or neither late requests nor lost aliases. Both cases of this
  disjunction occur in the runs.
- `ArtifactsOutliveByGrace` is unconditional. The code promises that an artifact
  never outlives its rows; with publishing clocks apart by up to `MaxSkew` what
  holds is a grace of `2 * MaxSkew` rounded up to whole quanta. The invariant
  (`CopiesBacked`) says of every model, pending build and copy that it expires
  with the rows it lists, up to the grace, or has expired. With one clock the
  grace is zero, which is `ArtifactsStayBacked`.

### Access routes

`AccessRoutesProofs` proves `RoutesTypeCorrect`, `AnswersStayTrue`,
`RevocationWins`, `ExpiryIsFinal`, `RetriesChangeNothing` and
`RoutesMoveForward` (the last of a property that no run checks: rows only move
forward) from one invariant `RInv`: types, at most one row per token of a server,
receipts that stay true, no grant of a revoked route, remembered expiry. A stored
answer stays true only because a tombstone waits for its receipts, and a route's
key is not reused while one is stored. `RetriesChangeNothing` says that whatever a
step shows in a route's row is the outcome of the receipt it has just stored, of a
request that had none; expiry, removals and observations show nothing. The last
theorem, `RevocationIsReserved`, counts: with `CInv` (`RInv`, finite tables, the
four capacity bounds) every batch is split into what it removes and what it adds,
and each growth is bounded by its guard.

### The room

`RendezvousRoomProofs` proves all six properties of `room_sessions` from one
invariant, `RoomInv`. The sessions that go on belong to the present control and
publication (`Owned`) and their exchange is what the control's attachment says
(`Exchange`); that alone is not inductive, because four things may wait for D1
and write afterwards. `RoomInv` says what each of them still knows:

- `OpOK`: the operation at the head of the queue works on the generation of the
  room, and an admission that has passed its redemption holds a ticket that no
  answered notice covers;
- `NoticeOK`: a notice has still to come to every session it is about, or has
  read that its route is dead; the attachment it will write is no newer than the
  session's own;
- `MessagesOK`, `FrameOK`: a message that came when its grant was over finds it
  over at every later read, so it is not answered "live" when it is dispatched.

The queue is why `op` and `notice` exclude each other, and why a step falls into
few kinds: it leaves the sessions alone, ends some of them, or lets one go on.
Revocation is final in D1, which is what makes the reads of `NoticeOK`
trustworthy however late they are used.

### The room whose sockets fail

`RoomTeardownProofs` proves the five properties of `room_teardown`, and its
types, for every number of controls and clients. A handler is a long chain of
private methods, each of which may fail at any socket and hand on what it has
made of the room, so the proof says first what every one of them keeps:

- `StepAt`, `Later`: a socket only closes, a control is only demoted, a session
  only ends; what was to be retired still is, or routes no more; and what has
  newly to be retired was reported (`thrown`), which is what makes the handler
  write the marker;
- `Handles`: besides, a session that its control still answers for (`Held`)
  stays so or has an end it waits for. This is where a forgotten orphan would
  show: a control may be demoted only after the clients were told, or with an
  end that is remembered;
- `Turned`, `Served`, `Remembers`, `Granting`: the same where a handler changes
  the publication, admits, forwards or answers;
- `Calm`: nothing is reported where no socket fails.

A loop over sockets that do not touch each other keeps what every turn keeps of
its own socket (`EachKeeps`); the others go by the number of turns (`Turns`,
`Climb`), from the well-foundedness of the naturals. On this stands `IInv`:

- `Sane`: what the room says of one socket, with at most one summary of which
  the attachment knows. `SummariesAtMostOnce` is a part of it, and would not be
  inductive without it: after a hibernation only the attachment remembers;
- `Marked`: what is to be retired and still routes has the marker, so a
  hibernation, which forgets `pendingServerOutcomes` and
  `pendingClientOutcomes`, does not lose it;
- `OldRetired`: a control of an old publication that still routes is to be
  retired. Without it a control that could not be demoted by a rotation might
  win over the next one;
- `NoneOverlooked`: a working instance overlooks no session, hence
  `OrphansAreRemembered`;
- `DoomedRetired`, `Quarantined`: a reported socket that routes is to be retired,
  and an instance that refuses to work has a reason, hence `MarkerClearsClean`.

`RetriesFinish` uses `Calm`: every step of the retry retires what it comes to or
reports a failure, and here nothing fails. Two kinds of sockets are excepted
throughout, those in `unmarked`: a revocation notice, or a failed
initialization, that can neither write the attachment nor close the socket tells
no one.

### The small parts

`SmallPartsProofs` proves the five properties of `small_parts` for every limit,
window, capacity, batch size and number of actors, each from an invariant of its
own. `HealthInv`: whatever the row claims has evidence that began in the row's
window, in whatever order the observations were written. `AccessInv`: only a row
of the current window can have admitted in it, and it has counted every such
admission. `AdmissionInv`: a ticket admitted within the window has a row, under
the tag of the present key or of the one before, since pruning takes expired rows
only and a rotation waits for the window to pass. `DailyInv`: the row of a day
counts exactly its admissions until every request that began in it is over, and
the removal takes closed days only. `ReconciliationInv`: since the checkpoint was
first read it was only replaced by newer ones; an alias missing then is still
missing and still to be read (or the reads find every file); and of the two reads
of the fence the first that agrees finds everything settled, or finds the other
past it for good.

### The delivery

The delivery is a list of calls that grows while it runs, so its invariants are
about lists. `ProductionDeliveryProofs` starts with lemmas on lists with guards
(`Guarded`: ahead of every member of B stands one of P; `Separated`: and between
any two) and on ranks (`Orderly`), and shows that the plan of a delivery, the
calls a retirement inserts and the recovery keep them. `CourseInv` then says:

- `Lateness`: no mutation is unguarded once the authority is lost, hence
  `AuthorityBoundsMutations`;
- `Finals`: a Worker is as the approved source wants it, or touched by another
  writer, or its final readback is still ahead, hence `ReportsAreCoherent`;
- `Modes`: the core is marked before it is touched and recovered from then on,
  hence `RecoveryEvidenceIsTrue`.

`ProductionHandoverProofs` adds `HandoverInv`, about what stands ahead of one
particular call (`Between`, `Led`): the PATCH of a caller comes after its intent
and right behind the second read of the snapshot, the core stays off until no
caller is left to be staged or patched, and an activation comes right behind a
read of the version that was proven, with a fence between the proof of that
version and the read. `PairIsDeletedAsIntended` and `HandoffsActivateTheProven`
follow. The second uses that a version never comes back: the version at the
handoff was the last one fenced and is the proven one, or another writer has
changed it since the fence.

`ProductionCohortProofs` adds `CohortInv`, about what still stands behind a call,
because a delivery enables the core last:

- `Follows`: whatever may disable a caller, or accept a disabled one, is followed
  by its activation, and that by the activation of the core;
- `CoreWaits`: from its readback to its activation the core is off;
- `AllSettled`: a Worker that is not to be activated any more is what the run
  wants; `Pending`: the retired callers that are read again still are to be;
- `ReadsHold`, `LegacyCore`: what a preflight has read is still so, and a caller
  that awaits its bootstrap excludes a no-op.

`CoreServesItsCohort` follows: when the core is activated nothing follows any
more, so both callers are settled, on the source the core gets.

### What is only model-checked

- The liveness properties `EventuallyPublished`, `EventuallyPurged` and
  `BacklogDrains`: fairness is beyond the prover. So are ENABLED and induction
  over recursive definitions, which no theorem here needs.

## 7. Not modelled

Rendering, encodings, signatures, message parsing, proof of work and keyed hashes
are pure functions of one request; the models take their results as values. The
order of `directory-ranking.ts` is one the environment chooses, so no property
depends on its scoring. The strict codec of a socket's attachment is a check of
one record. The burst limiters are native bindings with a state of their own.
The HTTP edge, configuration and the read-only views have no state. Canaries,
administration SQL and the development Worker are tools around the program. What
the plan has left is its open row; every part has its status in `PROJECT.json`.
