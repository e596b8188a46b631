-------------------------- MODULE DirectoryBuilder --------------------------
(***************************************************************************)
(* Static directory publication for one profile: the D1 revision, outbox,  *)
(* checkpoint and rollback history (directory-state.ts), the serialized    *)
(* DirectoryBuilder Durable Object (directory-builder.ts), its private and *)
(* public R2 buckets, and the CDN that serves the public aliases.          *)
(*                                                                         *)
(* One action is one stretch of code between two awaits, so publications,  *)
(* expiry, nudges, readers, clock ticks and crashes interleave with every  *)
(* await of the builder.  `pc' names the await the builder is at.          *)
(***************************************************************************)
EXTENDS Integers, Sequences, FiniteSets

CONSTANTS
  Server,            \* server identities
  Version,           \* display contents a server may publish (fingerprints)
  Order,             \* orders the activity ranking may choose
  ObjectOrder,       \* the files of a generation, in rendering order
  AliasOrder,        \* the same files, in the order the aliases are replaced
  Representation,    \* the files served through the CDN and named by a purge
  NoValue,           \* null / missing
  Corrupt,           \* an alias object whose metadata or body is damaged
  ListingTtl, ArtifactLifetime, RefreshLead, Quantum, MinAliasLifetime,
  MaxAttempts,       \* MAX_BUILD_COALESCE_ATTEMPTS
  HistoryLimit,      \* acknowledged generations kept as a rollback window
  LateRequests,      \* may a request outlive the crash of its caller?
  Nudges,            \* FALSE loses every nudge that follows a publication
  MaxGeneration,     \* Number.MAX_SAFE_INTEGER
  Epoch,             \* the clock when the model starts
  MaxRevision, MaxTime, MaxSkew,           \* bounds on the environment
  MaxFaults, MaxCrashes, MaxLosses, MaxResets    \* bounds on failures

Format == {ObjectOrder[i] : i \in 1..Len(ObjectOrder)}

ASSUME ConstantsAssumption ==
  /\ IsFiniteSet(Server) /\ Order # {}
  /\ ObjectOrder \in Seq(STRING) /\ ObjectOrder # <<>>
  /\ AliasOrder \in Seq(Format) /\ AliasOrder # <<>>
  /\ Representation \subseteq Format
  /\ NoValue \notin Version
  /\ LateRequests \in BOOLEAN /\ Nudges \in BOOLEAN
  /\ ListingTtl \in Nat /\ ArtifactLifetime \in Nat
  /\ RefreshLead \in Nat /\ MinAliasLifetime \in Nat
  /\ Quantum \in Nat \ {0} /\ MaxAttempts \in Nat \ {0}
  /\ HistoryLimit \in Nat \ {0}
  /\ MaxGeneration \in Nat /\ MaxRevision \in Nat /\ MaxTime \in Nat
  /\ Epoch \in Nat /\ ListingTtl <= Epoch /\ MaxSkew \in 0..Epoch
  /\ MaxFaults \in Nat /\ MaxCrashes \in Nat
  /\ MaxLosses \in Nat /\ MaxResets \in Nat

VARIABLES
  now,        \* wall clock, seconds
  (* D1 *)
  revision, updatedAt,  \* directory_revisions
  entry,      \* directory_entries: what a public server displays, or NoValue
  lastSeen,   \* server_presence.last_seen, or NoValue without a row
  order,      \* the order activity evidence and pins currently produce
  outbox,     \* directory_outbox: revisions waiting for acknowledgement
  ckpt,       \* directory_artifact_publications
  history,    \* directory_artifact_history
  (* Durable Object storage and alarm *)
  high, pending,        \* BUILDER_STATE_KEY
  nudged,     \* BUILDER_NUDGE_KEY
  nudging,    \* a call of nudge() is between its put and its setAlarm
  nudgeDue,   \* a visible commit whose waitUntil(nudge) has not run yet
  alarm,      \* "none", "soon" (due at once) or "later"
  (* R2 and CDN *)
  stored,     \* private bucket: set of <<format, object>>
  alias,      \* public bucket: format -> object
  cache,      \* CDN: representation -> object
  flight,     \* a write that outlived the crash of the builder that sent it
  (* the running builder operation *)
  pc,         \* the await it is at, or "idle"
  trigger,    \* "cron" (reconcile) or "alarm"
  opNow,      \* `now' of reconcileNow
  attempt, failed,
  model, base,          \* the model and the checkpoint the attempt has read
  todo,       \* files the current loop has still to treat
  etag,       \* the alias object putPublicAlias saw
  publishedAt,          \* the clock when the aliases were verified
  (* failures used *)
  faults, crashes, losses, resets

d1Vars    == <<revision, updatedAt, entry, lastSeen, order, outbox, ckpt, history>>
doVars    == <<high, pending>>
wakeVars  == <<nudged, nudging, nudgeDue, alarm>>
r2Vars    == <<stored, alias, cache, flight>>
runVars   == <<trigger, opNow, attempt, failed>>
readVars  == <<model, base>>
opVars    == <<pc, runVars, readVars, todo, etag, publishedAt>>
faultVars == <<faults, crashes, losses, resets>>
vars      == <<now, d1Vars, doVars, wakeVars, r2Vars, opVars, faultVars>>

-----------------------------------------------------------------------------
(* Values *)

Maximum(S) == CHOOSE x \in S : \A y \in S : y <= x
Larger(a, b) == IF a < b THEN b ELSE a
Minimum(S) == CHOOSE x \in S : \A y \in S : x <= y
QuantumFloor(t) == (t \div Quantum) * Quantum

(* modelSha256 identifies the ordered list of rendered servers. *)
Content(e, o) ==
  [shown |-> e,
   order |-> IF Cardinality({s \in Server : e[s] # NoValue}) > 1
             THEN o ELSE NoValue]

(* One generation's bytes and custom metadata; the format is implicit. *)
ObjectOfUndated(p) ==       \* mutant: metadata without its expiry
  [gen |-> p.gen, content |-> p.content, generatedAt |-> p.generatedAt]
ObjectOf(p) == [gen |-> p.gen, content |-> p.content,
                generatedAt |-> p.generatedAt, expiresAt |-> p.expiresAt]
IsObject(x) == x \notin {NoValue, Corrupt}
ObservedGeneration(x) == IF IsObject(x) THEN x.gen ELSE 0

NoCheckpoint == [rev |-> 0, gen |-> 0, generatedAt |-> 0, expiresAt |-> 0,
                 content |-> NoValue, publishedAt |-> 0]
CheckpointOf(p, t) == [rev |-> p.rev, gen |-> p.gen,
                       generatedAt |-> p.generatedAt, expiresAt |-> p.expiresAt,
                       content |-> p.content, publishedAt |-> t]

(* isDirectoryOriginPublicationTime *)
InPublicationInterval(t, p) == p.generatedAt <= t /\ t < p.expiresAt

(* directoryExpiryCutoff: rows at or before it leave at the public boundary. *)
ExpiryCutoff(t) ==
  Larger(0, (t \div Quantum + 1) * Quantum - 1 - ListingTtl)

(* readModel's expiresAt: the earliest backing expiry, rounded down. *)
ModelExpiryExact(generatedAt, e, seen) ==       \* mutant: not rounded down
  Minimum({generatedAt + ArtifactLifetime} \cup
    {seen[s] + ListingTtl : s \in {x \in Server : e[x] # NoValue}})
ModelExpiry(generatedAt, e, seen) ==
  QuantumFloor(Minimum({generatedAt + ArtifactLifetime} \cup
    {seen[s] + ListingTtl : s \in {x \in Server : e[x] # NoValue}}))

-----------------------------------------------------------------------------
(* D1 transactions *)

RaiseRevisionUncoalesced(at) ==       \* mutant: no trigger
  /\ revision' = revision + 1
  /\ updatedAt' = Larger(updatedAt, at)
  /\ outbox' = outbox \cup {revision + 1}
RaiseRevision(at) ==    \* the outbox trigger keeps only the newest revision
  /\ revision' = revision + 1
  /\ updatedAt' = Larger(updatedAt, at)
  /\ outbox' = {revision + 1}

(* visibleContentChangedPredicate; v = NoValue is a private publication. *)
VisibleContentChangedIfPublic(s, v, at) ==      \* mutant: hiding is silent
  v # NoValue /\ ~(entry[s] = v /\ lastSeen[s] > at - ListingTtl)
VisibleContentChanged(s, v, at) ==
  IF v = NoValue
  THEN entry[s] # NoValue
  ELSE ~(entry[s] = v /\ lastSeen[s] > at - ListingTtl)

(* expireDirectoryEntries: one transaction drops every row at the cutoff. *)
Expired(cutoff) == {s \in Server : lastSeen[s] # NoValue /\ lastSeen[s] <= cutoff}
ExpireDirectoryEntries(cutoff, at) ==
  /\ entry' = [s \in Server |-> IF s \in Expired(cutoff) THEN NoValue ELSE entry[s]]
  /\ lastSeen' = [s \in Server |->
                    IF s \in Expired(cutoff) THEN NoValue ELSE lastSeen[s]]
  /\ IF \E s \in Expired(cutoff) : entry[s] # NoValue
     THEN RaiseRevision(at) ELSE UNCHANGED <<revision, updatedAt, outbox>>
  /\ UNCHANGED <<order, ckpt, history>>

(* commitDirectoryArtifactPublication: the update's WHERE and the assertion. *)
CanCommitAnyRevision(c) == ckpt.gen < c.gen \/ ckpt = c        \* mutant
CanCommitAnyGeneration(c) == revision = c.rev                  \* mutant
CanCommit(c) ==
  /\ revision = c.rev
  /\ \/ ckpt.gen < c.gen /\ ckpt.rev <= c.rev
     \/ ckpt = c
NewestHistory(n) ==
  {g \in history : Cardinality({h \in history : h > g}) < n}
CommitPublication(c) ==
  /\ ckpt' = c
  /\ outbox' = {r \in outbox : r > c.rev}
  /\ history' = IF c.gen \in history THEN history
                ELSE NewestHistory(HistoryLimit - 1) \cup {c.gen}
  /\ UNCHANGED <<revision, updatedAt, entry, lastSeen, order>>

-----------------------------------------------------------------------------
(* How a builder step ends *)

Continue(label, rest, tag) ==
  /\ pc' = label /\ todo' = rest /\ etag' = tag
  /\ UNCHANGED <<runVars, readVars, publishedAt>>

LeaveBuild == /\ model' = NoValue /\ base' = NoValue
              /\ todo' = <<>> /\ etag' = NoValue /\ publishedAt' = 0
              /\ UNCHANGED <<trigger, opNow>>

Finish == /\ pc' = "prune" /\ LeaveBuild /\ UNCHANGED <<attempt, failed>>
Throw  == /\ pc' = "prune" /\ LeaveBuild /\ failed' = TRUE /\ UNCHANGED attempt

(* SupersededBuildError: reconcileNow builds again, a bounded number of times. *)
Supersede ==
  IF attempt + 1 < MaxAttempts
  THEN /\ pc' = "read" /\ attempt' = attempt + 1
       /\ LeaveBuild /\ UNCHANGED failed
  ELSE Throw

AbandonPending == pending' = NoValue /\ UNCHANGED high

(* The file of a loop is done: take the next one, or leave the loop. *)
NextFile(label, after, rest) ==
  IF Len(todo) > 1 THEN Continue(label, Tail(todo), NoValue)
  ELSE Continue(after, rest, NoValue)

-----------------------------------------------------------------------------
(* The builder *)

(* reconcile() by the five-minute cron, or alarm(), once it is its turn. *)
Start(t) ==
  /\ pc = "idle"
  /\ t = "alarm" => alarm # "none"
  /\ pc' = "expire" /\ trigger' = t /\ opNow' = now
  /\ nudged' = FALSE
  /\ alarm' = IF t = "cron" THEN "later" ELSE "none"
  /\ UNCHANGED <<now, d1Vars, doVars, nudging, nudgeDue, r2Vars, attempt, failed,
                 readVars, todo, etag, publishedAt, faultVars>>

ExpireRows ==
  /\ pc = "expire"
  /\ ExpireDirectoryEntries(ExpiryCutoff(opNow), opNow)
  /\ Continue("read", <<>>, NoValue)
  /\ UNCHANGED <<now, doVars, wakeVars, r2Vars, faultVars>>

(* Promise.all: the model and the checkpoint are read in either order. *)
ReadModel ==
  /\ pc = "read" /\ model = NoValue
  /\ LET at == Larger(opNow, updatedAt)
         until == ModelExpiry(at, entry, lastSeen)
     IN IF until <= at THEN Throw
        ELSE /\ model' = [rev |-> revision, content |-> Content(entry, order),
                          generatedAt |-> at, expiresAt |-> until,
                          dirty |-> outbox # {}]
             /\ UNCHANGED <<pc, runVars, base, todo, etag, publishedAt>>
  /\ UNCHANGED <<now, d1Vars, doVars, wakeVars, r2Vars, faultVars>>

ReadCheckpoint ==
  /\ pc = "read" /\ base = NoValue
  /\ base' = ckpt
  /\ UNCHANGED <<pc, runVars, model, todo, etag, publishedAt>>
  /\ UNCHANGED <<now, d1Vars, doVars, wakeVars, r2Vars, faultVars>>

(* modelChanged, refreshDue and leaseExtended of buildCurrent *)
ModelChanged == model.rev > base.rev \/ model.content # base.content
RefreshDue == base.gen = 0 \/ opNow >= base.expiresAt - RefreshLead
LeaseExtended == model.expiresAt > base.expiresAt
CheckpointStands ==
  /\ ~ModelChanged /\ base.gen > 0
  /\ ~RefreshDue \/ ~LeaseExtended

Decide ==
  /\ pc = "read" /\ model # NoValue /\ base # NoValue
  /\ IF model.rev < base.rev
     THEN Throw /\ UNCHANGED high
     ELSE /\ high' = Larger(high, base.gen)     \* rememberCommittedCheckpoint
          /\ IF CheckpointStands THEN Continue("match", ObjectOrder, NoValue)
             ELSE Continue("reserve", <<>>, NoValue)
  /\ UNCHANGED <<now, d1Vars, pending, wakeVars, r2Vars, faultVars>>

(* publishedAliasesMatch: one head per alias; a difference means a new build. *)
AliasPresent(f) == alias[f] # NoValue      \* mutant: existence only
AliasIntact(f) == alias[f] = ObjectOf(base)
MatchAlias ==
  /\ pc = "match"
  /\ IF AliasIntact(Head(todo))
     THEN NextFile("match", "matchRecheck", <<>>)
     ELSE Continue("reserve", <<>>, NoValue)
  /\ UNCHANGED <<now, d1Vars, doVars, wakeVars, r2Vars, faultVars>>

MatchRecheck ==
  /\ pc = "matchRecheck"
  /\ IF revision # model.rev THEN Supersede
     ELSE Continue(IF model.dirty THEN "matchCommit" ELSE "matchPurge",
                   <<>>, NoValue)
  /\ UNCHANGED <<now, d1Vars, doVars, wakeVars, r2Vars, faultVars>>

(* A left-over outbox row is acknowledged by writing the checkpoint again. *)
MatchCommit ==
  /\ pc = "matchCommit"
  /\ IF CanCommit(base)
     THEN CommitPublication(base) /\ Continue("matchPurge", <<>>, NoValue)
     ELSE Throw /\ UNCHANGED d1Vars
  /\ UNCHANGED <<now, doVars, wakeVars, r2Vars, faultVars>>

(* purgeCommittedGeneration: the purge names the cached URLs; the journal is  *)
(* cleared only if the purge answered and the generation is still current.    *)
Fault == faults < MaxFaults /\ faults' = faults + 1
         /\ UNCHANGED <<crashes, losses, resets>>
PurgeCache == cache' = [f \in Representation |-> NoValue]
PurgeGeneration(gen) ==
  /\ \/ /\ PurgeCache /\ UNCHANGED faultVars
        /\ pending' = IF ckpt.gen = gen THEN NoValue ELSE pending
     \/ /\ Fault /\ (PurgeCache \/ UNCHANGED cache) /\ UNCHANGED pending
  /\ UNCHANGED <<high, stored, alias, flight>>

(* purgeAndClearCommittedPending, and the alarm after a current directory *)
PendingIsOlder == pending # NoValue /\ pending.gen < base.gen      \* mutant
PendingIsCommitted ==
  /\ pending # NoValue
  /\ pending.gen = base.gen /\ pending.rev = base.rev
  /\ pending.content = base.content

MatchPurge ==
  /\ pc = "matchPurge"
  /\ IF PendingIsCommitted THEN PurgeGeneration(base.gen)
     ELSE UNCHANGED <<doVars, r2Vars, faultVars>>
  /\ alarm' = "later" /\ UNCHANGED <<nudged, nudging, nudgeDue>>
  /\ Finish
  /\ UNCHANGED <<now, d1Vars>>

(* readPublicGeneration and reserveBuild: keep the pending build while it     *)
(* still describes the model, else take a generation above everything known.  *)
PublicGeneration == Maximum({ObservedGeneration(alias[f]) : f \in Format})
PendingReusable ==
  /\ pending # NoValue
  /\ pending.rev = model.rev /\ pending.content = model.content
  /\ pending.expiresAt <= model.expiresAt /\ opNow < pending.expiresAt
  /\ pending.gen > base.gen /\ pending.gen >= PublicGeneration
NewGenerationUnremembered == Larger(base.gen, PublicGeneration) + 1   \* mutant
NewGeneration == Larger(Larger(high, base.gen), PublicGeneration) + 1

Reserve ==
  /\ pc = "reserve"
  /\ \/ /\ PendingReusable
        /\ Continue("immutable", ObjectOrder, NoValue)
        /\ UNCHANGED doVars
     \/ /\ ~PendingReusable /\ NewGeneration <= MaxGeneration
        /\ high' = NewGeneration
        /\ pending' = [rev |-> model.rev, gen |-> NewGeneration,
                       content |-> model.content,
                       generatedAt |-> model.generatedAt,
                       expiresAt |-> model.expiresAt]
        /\ Continue("immutable", ObjectOrder, NoValue)
     \/ /\ ~PendingReusable /\ NewGeneration > MaxGeneration
        /\ Throw /\ UNCHANGED doVars
  /\ UNCHANGED <<now, d1Vars, wakeVars, r2Vars, faultVars>>

(* putImmutableGeneration *)
Store(f, object) ==
  /\ stored' = IF \E o \in stored : o[1] = f /\ o[2].gen = object.gen
               THEN stored ELSE stored \cup {<<f, object>>}
  /\ UNCHANGED <<alias, cache>>
ImmutableConflict(f) ==
  \E o \in stored : /\ o[1] = f /\ o[2].gen = pending.gen
                    /\ o[2] # ObjectOf(pending)

PutImmutable ==
  /\ pc = "immutable"
  /\ IF ImmutableConflict(Head(todo))
     THEN AbandonPending /\ Supersede /\ UNCHANGED r2Vars
     ELSE /\ Store(Head(todo), ObjectOf(pending)) /\ UNCHANGED flight
          /\ NextFile("immutable", "recheck", <<>>)
          /\ UNCHANGED doVars
  /\ UNCHANGED <<now, d1Vars, wakeVars, faultVars>>

(* The revision and the clock before the first alias is touched *)
AliasTimeLeft == /\ InPublicationInterval(now, pending)
                 /\ now + MinAliasLifetime < pending.expiresAt

Recheck ==
  /\ pc = "recheck"
  /\ \/ /\ revision # pending.rev
        /\ AbandonPending /\ Supersede /\ UNCHANGED wakeVars
     \/ /\ revision = pending.rev /\ ~AliasTimeLeft
        /\ AbandonPending /\ Finish
        /\ alarm' = "later" /\ UNCHANGED <<nudged, nudging, nudgeDue>>
     \/ /\ revision = pending.rev /\ AliasTimeLeft
        /\ Continue("head", AliasOrder, NoValue)
        /\ UNCHANGED <<doVars, wakeVars>>
  /\ UNCHANGED <<now, d1Vars, r2Vars, faultVars>>

(* assertFresh and the head of putPublicAlias *)
AliasConflict(x) ==
  \/ ObservedGeneration(x) > pending.gen
  \/ ObservedGeneration(x) = pending.gen /\ x # ObjectOf(pending)

AliasHead ==
  /\ pc = "head"
  /\ LET seen == alias[Head(todo)] IN
     \/ /\ ~AliasTimeLeft
        /\ AbandonPending /\ Throw
     \/ /\ AliasTimeLeft /\ AliasConflict(seen)
        /\ AbandonPending /\ Supersede
     \/ /\ AliasTimeLeft /\ seen = ObjectOf(pending)
        /\ NextFile("head", "verify", ObjectOrder)
        /\ UNCHANGED doVars
     \/ /\ AliasTimeLeft /\ ObservedGeneration(seen) < pending.gen
        /\ Continue("put", todo, seen)
        /\ UNCHANGED doVars
  /\ UNCHANGED <<now, d1Vars, wakeVars, r2Vars, faultVars>>

(* The conditional put, on the etag the head returned; a lost race reads the  *)
(* alias again.                                                               *)
EtagIgnored(f, tag) == TRUE                \* mutant: no onlyIf
EtagMatches(f, tag) == alias[f] = tag
PutAlias ==
  /\ pc = "put"
  /\ LET f == Head(todo) IN
     \/ /\ EtagMatches(f, etag)
        /\ alias' = [alias EXCEPT ![f] = ObjectOf(pending)]
        /\ NextFile("head", "verify", ObjectOrder)
        /\ UNCHANGED doVars
     \/ /\ ~EtagMatches(f, etag) /\ alias[f] = ObjectOf(pending)
        /\ NextFile("head", "verify", ObjectOrder)
        /\ UNCHANGED <<doVars, alias>>
     \/ /\ ~EtagMatches(f, etag) /\ alias[f] \notin {NoValue, ObjectOf(pending)}
        /\ AbandonPending /\ Supersede /\ UNCHANGED alias
     \/ /\ ~EtagMatches(f, etag) /\ alias[f] = NoValue
        /\ Throw /\ UNCHANGED <<doVars, alias>>
  /\ UNCHANGED <<now, d1Vars, wakeVars, stored, cache, flight, faultVars>>

(* verifyPublishedObjects *)
VerifyAlias ==
  /\ pc = "verify"
  /\ IF alias[Head(todo)] = ObjectOf(pending)
     THEN NextFile("verify", "recheckVerified", <<>>) /\ UNCHANGED doVars
     ELSE AbandonPending /\ Supersede
  /\ UNCHANGED <<now, d1Vars, wakeVars, r2Vars, faultVars>>

RecheckVerified ==
  /\ pc = "recheckVerified"
  /\ \/ /\ revision # pending.rev
        /\ AbandonPending /\ Supersede
     \/ /\ revision = pending.rev /\ ~InPublicationInterval(now, pending)
        /\ AbandonPending /\ Throw
     \/ /\ revision = pending.rev /\ InPublicationInterval(now, pending)
        /\ pc' = "commit" /\ publishedAt' = now
        /\ UNCHANGED <<doVars, runVars, readVars, todo, etag>>
  /\ UNCHANGED <<now, d1Vars, wakeVars, r2Vars, faultVars>>

(* The D1 checkpoint; any error leads to a read of what was persisted. *)
Commit ==
  /\ pc = "commit"
  /\ LET c == CheckpointOf(pending, publishedAt) IN
     \/ /\ CanCommit(c) /\ CommitPublication(c) /\ UNCHANGED faultVars
        /\ Continue("purge", <<>>, NoValue)
     \/ /\ ~CanCommit(c) /\ UNCHANGED <<d1Vars, faultVars>>
        /\ Continue("commitCheck", <<>>, NoValue)
     \/ /\ Fault
        /\ (CanCommit(c) /\ CommitPublication(c)) \/ UNCHANGED d1Vars
        /\ Continue("commitCheck", <<>>, NoValue)
  /\ UNCHANGED <<now, doVars, wakeVars, r2Vars>>

CommitCheck ==
  /\ pc = "commitCheck"
  /\ LET persisted == ckpt = CheckpointOf(pending, publishedAt) IN
     \/ persisted /\ Continue("purge", <<>>, NoValue) /\ UNCHANGED doVars
     \/ ~persisted /\ revision > pending.rev /\ AbandonPending /\ Supersede
     \/ ~persisted /\ revision <= pending.rev /\ Throw /\ UNCHANGED doVars
  /\ UNCHANGED <<now, d1Vars, wakeVars, r2Vars, faultVars>>

Purge ==
  /\ pc = "purge"
  /\ PurgeGeneration(pending.gen)
  /\ alarm' = IF pending' = NoValue THEN alarm ELSE "later"
  /\ Continue("schedule", <<>>, NoValue)
  /\ UNCHANGED <<now, d1Vars, nudged, nudging, nudgeDue>>

Schedule ==
  /\ pc = "schedule"
  /\ alarm' = IF pending = NoValue /\ revision > model.rev THEN "soon" ELSE "later"
  /\ Finish
  /\ UNCHANGED <<now, d1Vars, doVars, nudged, nudging, nudgeDue, r2Vars, faultVars>>

(* The finally block: pruneImmutableGenerations, then honorConcurrentNudge;   *)
(* the platform retries an alarm handler that threw, for a bounded time.      *)
RetainedCurrent ==                         \* mutant: no rollback window
  {ckpt.gen} \cup (IF pending = NoValue THEN {} ELSE {pending.gen})
Retained == history \cup {ckpt.gen} \cup
            (IF pending = NoValue THEN {} ELSE {pending.gen})
Obsolete == {o \in stored : o[2].gen \notin Retained}

IgnoreConcurrentNudge == UNCHANGED alarm         \* mutant
HonorConcurrentNudge == IF nudged THEN alarm' = "soon" ELSE UNCHANGED alarm

Prune ==
  /\ pc = "prune"
  /\ \E deleted \in SUBSET Obsolete : stored' = stored \ deleted
  /\ \/ HonorConcurrentNudge
     \/ failed /\ trigger = "alarm" /\ alarm' = "soon"
  /\ pc' = "idle" /\ trigger' = NoValue /\ opNow' = 0
  /\ attempt' = 0 /\ failed' = FALSE
  /\ UNCHANGED <<now, d1Vars, doVars, nudged, nudging, nudgeDue, alias, cache,
                 flight, readVars, todo, etag, publishedAt, faultVars>>

(* A D1 or R2 call answers with an error: its effect may have happened.       *)
CallFails ==
  /\ pc \notin {"idle", "matchPurge", "commit", "purge", "prune"}
  /\ Fault /\ Throw
  /\ \/ UNCHANGED <<d1Vars, r2Vars>>
     \/ /\ pc = "expire"
        /\ ExpireDirectoryEntries(ExpiryCutoff(opNow), opNow)
        /\ UNCHANGED r2Vars
     \/ /\ pc = "matchCommit" /\ CanCommit(base) /\ CommitPublication(base)
        /\ UNCHANGED r2Vars
     \/ /\ pc = "immutable" /\ Store(Head(todo), ObjectOf(pending))
        /\ UNCHANGED <<d1Vars, flight>>
     \/ /\ pc = "put" /\ EtagMatches(Head(todo), etag)
        /\ alias' = [alias EXCEPT ![Head(todo)] = ObjectOf(pending)]
        /\ UNCHANGED <<d1Vars, stored, cache, flight>>
  /\ UNCHANGED <<now, doVars, wakeVars>>

BuilderStep ==
  \/ \E t \in {"cron", "alarm"} : Start(t)
  \/ ExpireRows \/ ReadModel \/ ReadCheckpoint \/ Decide
  \/ MatchAlias \/ MatchRecheck \/ MatchCommit \/ MatchPurge
  \/ Reserve \/ PutImmutable \/ Recheck \/ AliasHead \/ PutAlias \/ VerifyAlias
  \/ RecheckVerified \/ Commit \/ CommitCheck \/ Purge \/ Schedule \/ Prune

-----------------------------------------------------------------------------
(* Crashes, lost state, and requests that land after their caller is gone *)

OpenRequest ==
  CASE pc = "immutable" -> [kind |-> "store", file |-> Head(todo),
                            object |-> ObjectOf(pending)]
    [] pc = "put" -> [kind |-> "put", file |-> Head(todo),
                      object |-> ObjectOf(pending), etag |-> etag]
    [] pc = "commit" -> [kind |-> "commit",
                         checkpoint |-> CheckpointOf(pending, publishedAt)]
    [] OTHER -> NoValue

(* The Durable Object restarts: its storage survives, the operation and a     *)
(* running nudge do not, and the platform runs an interrupted alarm again.    *)
Crash ==
  /\ pc # "idle" \/ nudging
  /\ crashes < MaxCrashes
  /\ crashes' = crashes + 1 /\ UNCHANGED <<faults, losses, resets>>
  /\ pc' = "idle" /\ trigger' = NoValue /\ opNow' = 0 /\ attempt' = 0
  /\ failed' = FALSE /\ model' = NoValue /\ base' = NoValue
  /\ todo' = <<>> /\ etag' = NoValue /\ publishedAt' = 0
  /\ alarm' = IF trigger = "alarm" THEN "soon" ELSE alarm
  /\ nudging' = FALSE /\ UNCHANGED <<nudged, nudgeDue>>
  /\ \/ UNCHANGED flight
     \/ LateRequests /\ flight = NoValue /\ flight' = OpenRequest
  /\ UNCHANGED <<now, d1Vars, doVars, stored, alias, cache>>

Land ==
  /\ flight # NoValue /\ flight' = NoValue
  /\ \/ /\ flight.kind = "store"
        /\ Store(flight.file, flight.object) /\ UNCHANGED d1Vars
     \/ /\ flight.kind = "put" /\ EtagMatches(flight.file, flight.etag)
        /\ alias' = [alias EXCEPT ![flight.file] = flight.object]
        /\ UNCHANGED <<d1Vars, stored, cache>>
     \/ /\ flight.kind = "commit" /\ CanCommit(flight.checkpoint)
        /\ CommitPublication(flight.checkpoint)
        /\ UNCHANGED <<stored, alias, cache>>
     \/ UNCHANGED <<d1Vars, stored, alias, cache>>
  /\ UNCHANGED <<now, doVars, wakeVars, opVars, faultVars>>

(* The public bucket loses or damages an object. *)
LoseAlias(f) ==
  /\ losses < MaxLosses /\ losses' = losses + 1
  /\ alias[f] # NoValue /\ \E x \in {NoValue, Corrupt} : alias' = [alias EXCEPT ![f] = x]
  /\ UNCHANGED <<now, d1Vars, doVars, wakeVars, stored, cache, flight, opVars,
                 faults, crashes, resets>>

(* The Durable Object loses its storage: the constructor writes a new one. *)
ResetStorage ==
  /\ pc = "idle" /\ resets < MaxResets /\ resets' = resets + 1
  /\ high' = 0 /\ pending' = NoValue
  /\ nudged' = FALSE /\ alarm' = "none" /\ UNCHANGED <<nudging, nudgeDue>>
  /\ UNCHANGED <<now, d1Vars, r2Vars, opVars, faults, crashes, losses>>

Failure == CallFails \/ Crash \/ Land \/ (\E f \in Format : LoseAlias(f))
           \/ ResetStorage

-----------------------------------------------------------------------------
(* Publishers, the hourly cleanup, ranking, nudges, readers and time *)

(* One signed publication; the worker that took it read its clock as `at'.    *)
Publish(s, v, at) ==
  /\ VisibleContentChanged(s, v, at) => revision < MaxRevision
  /\ IF VisibleContentChanged(s, v, at)
     THEN RaiseRevision(at) /\ nudgeDue' \in {nudgeDue, Nudges}
     ELSE UNCHANGED <<revision, updatedAt, outbox, nudgeDue>>
  /\ entry' = [entry EXCEPT ![s] = v]
  /\ lastSeen' = [lastSeen EXCEPT ![s] = at]
  /\ UNCHANGED <<now, order, ckpt, history, doVars, nudged, nudging, alarm,
                 r2Vars, opVars, faultVars>>

HourlyExpiry ==
  /\ Expired(now - ListingTtl) # {}
  /\ ExpireDirectoryEntries(now - ListingTtl, now)
  /\ UNCHANGED <<now, doVars, wakeVars, r2Vars, opVars, faultVars>>

(* Activity evidence, a pin or the passage of time reorders the ranking. *)
Rerank(o) ==
  /\ o # order /\ order' = o
  /\ UNCHANGED <<now, revision, updatedAt, entry, lastSeen, outbox, ckpt, history,
                 doVars, wakeVars, r2Vars, opVars, faultVars>>

(* nudge(): the flag, then the alarm; waitUntil may also never run it. *)
NudgePut ==
  /\ nudgeDue /\ ~nudging
  /\ nudgeDue' = FALSE /\ nudging' = TRUE /\ nudged' = TRUE
  /\ UNCHANGED <<now, d1Vars, doVars, alarm, r2Vars, opVars, faultVars>>

NudgeArm ==
  /\ nudging /\ nudging' = FALSE /\ alarm' = "soon"
  /\ UNCHANGED <<now, d1Vars, doVars, nudged, nudgeDue, r2Vars, opVars, faultVars>>

(* A reader's miss fills the CDN from an unexpired alias. *)
ReaderFill(f) ==
  /\ IsObject(alias[f]) /\ now < alias[f].expiresAt /\ cache[f] # alias[f]
  /\ cache' = [cache EXCEPT ![f] = alias[f]]
  /\ UNCHANGED <<now, d1Vars, doVars, wakeVars, stored, alias, flight, opVars,
                 faultVars>>

Tick == /\ now < MaxTime /\ now' = now + 1
        /\ UNCHANGED <<d1Vars, doVars, wakeVars, r2Vars, opVars, faultVars>>

Environment ==
  \/ \E s \in Server, v \in Version \cup {NoValue} :
       \E at \in (now - MaxSkew)..(now + MaxSkew) : Publish(s, v, at)
  \/ HourlyExpiry \/ (\E o \in Order : Rerank(o))
  \/ NudgePut \/ NudgeArm
  \/ (\E f \in Representation : ReaderFill(f)) \/ Tick

-----------------------------------------------------------------------------
(* Servers listed by publications before the first build *)
Init ==
  /\ now = Epoch
  /\ entry \in [Server -> Version \cup {NoValue}]
  /\ lastSeen = [s \in Server |-> IF entry[s] = NoValue THEN NoValue ELSE Epoch]
  /\ revision = Cardinality({s \in Server : entry[s] # NoValue})
  /\ revision <= MaxRevision
  /\ updatedAt = IF revision = 0 THEN 0 ELSE Epoch
  /\ outbox = IF revision = 0 THEN {} ELSE {revision}
  /\ order \in Order
  /\ ckpt = NoCheckpoint /\ history = {}
  /\ high = 0 /\ pending = NoValue
  /\ nudged = FALSE /\ nudging = FALSE /\ nudgeDue = FALSE /\ alarm = "none"
  /\ stored = {} /\ alias = [f \in Format |-> NoValue]
  /\ cache = [f \in Representation |-> NoValue] /\ flight = NoValue
  /\ pc = "idle" /\ trigger = NoValue /\ opNow = 0 /\ attempt = 0
  /\ failed = FALSE /\ model = NoValue /\ base = NoValue
  /\ todo = <<>> /\ etag = NoValue /\ publishedAt = 0
  /\ faults = 0 /\ crashes = 0 /\ losses = 0 /\ resets = 0

Next == BuilderStep \/ Failure \/ Environment

Spec == Init /\ [][Next]_vars
(* The cron fires every five minutes and a started operation runs on. *)
FairSpec == Spec /\ WF_vars(BuilderStep)

-----------------------------------------------------------------------------
(* Types *)

ContentValue == [shown : [Server -> Version \cup {NoValue}], order : Order \cup {NoValue}]
Generation == 0..MaxGeneration
Object == [gen : Generation, content : ContentValue, generatedAt : Nat, expiresAt : Nat]
Checkpoint ==
  [rev : Nat, gen : Generation, content : ContentValue \cup {NoValue},
   generatedAt : Nat, expiresAt : Nat, publishedAt : Nat]
Pending == [rev : Nat, gen : Generation, content : ContentValue,
            generatedAt : Nat, expiresAt : Nat]
Model == [rev : Nat, content : ContentValue, generatedAt : Nat, expiresAt : Nat,
          dirty : BOOLEAN]
AliasValue == Object \cup {NoValue, Corrupt}
Request ==
  [kind : {"store"}, file : Format, object : Object]
  \cup [kind : {"put"}, file : Format, object : Object, etag : AliasValue]
  \cup [kind : {"commit"}, checkpoint : Checkpoint]
(* null is no time, and neither null nor a damaged object is a record. *)
ASSUME ValuesAssumption ==
  /\ NoValue \notin Nat
  /\ NoValue \notin Model \cup Pending \cup Checkpoint \cup Request
  /\ NoValue \notin Object /\ Corrupt \notin Object
Label == {"idle", "expire", "read", "match", "matchRecheck", "matchCommit",
          "matchPurge", "reserve", "immutable", "recheck", "head", "put", "verify",
          "recheckVerified", "commit", "commitCheck", "purge", "schedule", "prune"}

D1TypeOK ==
  /\ revision \in Nat /\ updatedAt \in Nat
  /\ entry \in [Server -> Version \cup {NoValue}]
  /\ lastSeen \in [Server -> Nat \cup {NoValue}] /\ order \in Order
  /\ outbox \subseteq Nat /\ ckpt \in Checkpoint /\ history \subseteq Generation
ObjectTypeOK ==
  /\ high \in Generation /\ pending \in Pending \cup {NoValue}
  /\ nudged \in BOOLEAN /\ nudging \in BOOLEAN /\ nudgeDue \in BOOLEAN
  /\ alarm \in {"none", "soon", "later"}
BucketTypeOK ==
  /\ stored \subseteq Format \X Object /\ alias \in [Format -> AliasValue]
  /\ cache \in [Representation -> Object \cup {NoValue}]
  /\ flight \in Request \cup {NoValue}
OperationTypeOK ==
  /\ pc \in Label /\ trigger \in {"cron", "alarm", NoValue}
  /\ opNow \in Nat /\ attempt \in Nat /\ failed \in BOOLEAN
  /\ model \in Model \cup {NoValue} /\ base \in Checkpoint \cup {NoValue}
  /\ todo \in Seq(Format) /\ etag \in AliasValue /\ publishedAt \in Nat
FailureTypeOK == /\ faults \in Nat /\ crashes \in Nat
                 /\ losses \in Nat /\ resets \in Nat

(* Every variable holds a value that D1, the Durable Object, R2 or the        *)
(* running handler can hold.                                                  *)
TypeOK == /\ now \in Nat /\ D1TypeOK /\ ObjectTypeOK /\ BucketTypeOK
          /\ OperationTypeOK /\ FailureTypeOK

-----------------------------------------------------------------------------
(* Safety *)

(* The outbox holds the newest unacknowledged revision and nothing else: a    *)
(* visible change waits in it exactly until a checkpoint at that revision,    *)
(* whatever order publications, expiry and commits come in.                   *)
OutboxCoversUnpublished ==
  /\ ckpt.rev <= revision
  /\ outbox = IF ckpt.rev < revision THEN {revision} ELSE {}

(* D1 and the public bucket agree on the order of generations, however late a *)
(* put or a commit batch of a crashed builder lands: the checkpoint is not    *)
(* behind the rollback history, and no alias is behind the checkpoint. Only   *)
(* an object that the bucket has lost may be replaced by an older one.        *)
NoAliasBehind(gen) == \A f \in Format : ObservedGeneration(alias[f]) >= gen
PublicationOrder ==
  /\ \A g \in history : g <= ckpt.gen
  /\ losses = 0 => NoAliasBehind(ckpt.gen)

(* A public alias is never taken back to an older generation by a step of the *)
(* builder or by a request it left behind.                                    *)
AliasMonotone ==
  [][\A f \in Format : alias'[f] \in Object => alias'[f].gen >= ObservedGeneration(alias[f])]_vars

(* "D1 never acknowledges a partial cohort" (README.md:296): when the         *)
(* checkpoint changes, every alias holds that generation's object, the       *)
(* private bucket holds all its files, and no newer revision is waiting.      *)
AcknowledgedCohortIsPublic ==
  [][ckpt' # ckpt =>
       /\ \A f \in Format : /\ alias[f] = ObjectOf(ckpt')
                            /\ <<f, ObjectOf(ckpt')>> \in stored
       /\ ckpt'.rev = revision]_vars

(* "The same generation identifier is never assigned different bytes"         *)
(* (directory-builder.ts:351): whatever a bucket or the CDN still holds of a  *)
(* file, two of its versions with one generation are one version.             *)
Kept(f) == {x \in {o[2] : o \in {y \in stored : y[1] = f}} \cup {alias[f]}
              \cup (IF f \in Representation THEN {cache[f]} ELSE {}) : IsObject(x)}
OneGenerationOneBody ==
  \A f \in Format : \A x, y \in Kept(f) : x.gen = y.gen => x = y

(* "The latest eight D1-acknowledged immutable four-object cohorts are        *)
(* retained": every generation of the rollback history still has every file.  *)
RollbackWindowComplete ==
  /\ Cardinality(history) <= HistoryLimit
  /\ ckpt.gen > 0 => ckpt.gen \in history
  /\ \A g \in history, f \in Format : \E o \in stored : o[1] = f /\ o[2].gen = g

(* An artifact "never outlives its backing row" (README.md:313): while an     *)
(* alias or a cached copy is unexpired, every server it lists has presence.   *)
ArtifactWithinBacking ==
  \A f \in Format : \A x \in Kept(f) : now < x.expiresAt =>
    \A s \in Server : x.content.shown[s] # NoValue => lastSeen[s] # NoValue

(* A nudge that came since the last operation started, while it ran or after  *)
(* it, leaves the alarm due at once until the next one starts, whatever the   *)
(* operation scheduled in between (directory-builder.ts:249-252, 978-985). A  *)
(* crash keeps the flag, but may keep an alarm that is due later.             *)
NudgeNotDelayed ==
  pc = "idle" /\ nudged /\ ~nudging /\ crashes = 0 => alarm = "soon"

(* "The pending build is also the durable purge journal" (README.md:284):     *)
(* between operations, a superseded copy in the CDN of a directory that is    *)
(* published and unchanged (same revision, same servers, same order) always   *)
(* has a purge left to be tried.                                              *)
Stale(f) == /\ IsObject(cache[f]) /\ cache[f].gen < ckpt.gen
            /\ now < cache[f].expiresAt
PurgeJournalKept ==
  /\ pc = "idle" /\ outbox = {} /\ ckpt.gen > 0
  /\ Content(entry, order) = ckpt.content
  /\ \A f \in Format : alias[f] = ObjectOf(ckpt)
  /\ \E f \in Representation : Stale(f)
  => pending # NoValue /\ pending.gen = ckpt.gen

-----------------------------------------------------------------------------
(* Refinement: with all its generations, retries and late requests, the       *)
(* pipeline only ever does what DirectoryPromise does. In particular the      *)
(* outbox is empty only while the acknowledged artifacts show exactly the     *)
(* servers D1 lists, and an acknowledgement never shows an older listing.     *)
Promise == INSTANCE DirectoryPromise WITH
  Listing <- [Server -> Version \cup {NoValue}],
  Empty   <- [s \in Server |-> NoValue],
  listing <- entry,
  shown   <- IF ckpt.gen = 0 THEN [s \in Server |-> NoValue]
             ELSE ckpt.content.shown,
  waiting <- outbox # {}
ImplementsPromise == Promise!PromiseSpec

-----------------------------------------------------------------------------
(* Liveness, under FairSpec *)

(* Whatever nudges, answers, operations and aliases were lost on the way, the *)
(* builder comes back to a directory that is acknowledged at the current      *)
(* revision and whose aliases are whole.                                      *)
EventuallyPublished ==
  []<>(/\ ckpt.gen > 0 /\ ckpt.rev = revision
       /\ \A f \in Format : alias[f] = ObjectOf(ckpt))

(* A superseded CDN copy is eventually purged or expires.                     *)
EventuallyPurged == []<>(\A f \in Representation : ~Stale(f))
=============================================================================
