------------------------ MODULE ProductionDelivery ------------------------
(***************************************************************************)
(* The delivery engine of the production Workers: production-delivery.mjs, *)
(* with the authority of a promotion (production-promotion.mjs), the fence *)
(* on the resources (delivery-resource-policy.mjs,                         *)
(* production-rate-bootstrap.mjs) and the retirement of the callers'       *)
(* legacy secrets (production-caller-retirement.mjs,                       *)
(* production-retirement-cohort.mjs, production-recovery-artifacts.mjs).   *)
(*                                                                         *)
(* One action is one call that the engine awaits: a fence, a readback, an  *)
(* upload, a PATCH, an artifact.  Anything may happen between two of them: *)
(* another writer changes a Worker, the promotion loses its authority, the *)
(* job is killed; an upload may take effect and its answer be lost.        *)
(* Promotions run one at a time (the workflow's concurrency group), at     *)
(* most one waits.                                                         *)
(*                                                                         *)
(* A Worker is its active version: annotation, circuit breakers, the pair  *)
(* of legacy secrets, the native rate limit, provenance and code.  The     *)
(* rest of its configuration is one with the breakers.                     *)
(***************************************************************************)
EXTENDS Naturals, Sequences, FiniteSets, SequencesExt

CONSTANTS
  Sources,       \* commits that can be promoted
  Horizon,       \* source -> the number of its migrations (they are append-only)
  Budgets,       \* bounds: how many promotions are dispatched (runs), changes another
                 \* writer makes (foreign), calls fail or lose their answer (lost)
  None

ASSUME SourcesAssumption ==
  /\ Horizon \in [Sources -> Nat \ {0}]
  /\ Budgets \subseteq [runs : Nat, foreign : Nat, lost : Nat]

(* An active version of a Worker *)
Version ==
  [version : Nat, note : [source : Sources, phase : {"staged", "active"}] \cup {None},
   circuit : {"enabled", "disabled"}, pair : BOOLEAN, rate : BOOLEAN,
   via : {"wrangler", "api"}, code : Sources]

(* No version, no annotation, no handoff and no outcome reads as None.          *)
ASSUME NoneAssumption ==
  /\ None \notin Version
  /\ None \notin [source : Sources, phase : {"staged", "active"}]
  /\ None \notin [kind : {"retired", "observed"}, version : Nat, via : {"wrangler", "api"}]
  /\ None \notin {"deploy", "no-op", "stopped", "killed"}

Workers == {"core", "publisher", "rendezvous"}
Callers == {"publisher", "rendezvous"}
DeploymentOrder == <<"core", "publisher", "rendezvous">>
CoreFirst == <<"core", "publisher", "rendezvous">>   \* mutant
ActivationOrder == <<"publisher", "rendezvous", "core">>

VARIABLES
  live,       \* worker -> its active version
  schema,     \* how many migrations D1 has
  request,    \* the promotion that waits, or None
  run,        \* the promotion under way, or the report of the last one
  authorized, \* the running promotion still has its authority
  versions,   \* versions created so far
  (* history *)
  strange,    \* workers changed by another writer since a run last accepted them
  fenced,     \* worker -> its version at the last fence that passed
  late,       \* mutations since the authority was lost
  left        \* of the chosen budget

vars == <<live, schema, request, run, authorized, versions, strange, fenced, late,
          left>>

Spend(what) == left[what] > 0 /\ left' = [left EXCEPT ![what] = @ - 1]

Note(s, phase) == [source |-> s, phase |-> phase]
Circuit(phase) == IF phase = "active" THEN "enabled" ELSE "disabled"

(* What a dispatch was approved for.  `policy': the resource policy, the       *)
(* inventory of the Workers when it was written; without a bootstrap it admits *)
(* no legacy secret and needs the rate limit.                                  *)
Request(s, boot, L) ==
  [src |-> s, boot |-> boot,
   pred |-> [w \in Workers |-> L[w].version],
   policy |-> [w \in Workers |->
     [circuit |-> L[w].circuit, pair |-> boot /\ L[w].pair, rate |-> L[w].rate \/ (~boot /\ w = "core")]]]

Steps(name, ws) == [i \in 1..Len(ws) |-> <<name, ws[i]>>]
Fence == <<<<"fence", "core">>>>
RetirePair(r, w) == r.boot /\ w \in Callers /\ r.policy[w].pair
ObserveSecretFree(r, w) == r.boot /\ w \in Callers /\ ~r.policy[w].pair
HandedOff(r, w) == r.boot /\ w \in Callers
When(condition, steps) == IF condition THEN steps ELSE <<>>

StagedSteps(r, w) ==
  Fence \o When(w = "core", Steps("predecessor", DeploymentOrder))
        \o When(HandedOff(r, w), <<<<"callerPredecessor", w>>>>)
        \o <<<<"stage", w>>>> \o Fence \o <<<<"readStaged", w>>>>
ActiveSteps(r, w) ==
  Fence \o When(HandedOff(r, w), <<<<"handoff", w>>>>)
        \o <<<<"activate", w>>>> \o Fence \o <<<<"readActive", w>>>>
FinalSteps == Fence \o Steps("final", DeploymentOrder)
ClosingSteps == FinalSteps \o Fence \o <<<<"reconcile", "core">>>> \o FinalSteps
                \o Fence \o <<<<"canaries", "core">>>> \o Fence \o <<<<"report", "core">>>>

(* orchestrateDelivery as the list of its awaits.                              *)
Delivery(r, decision) ==
  LET staged(i) == StagedSteps(r, DeploymentOrder[i])
      active(i) == ActiveSteps(r, ActivationOrder[i]) IN
  When(decision = "deploy",
       staged(1) \o staged(2) \o staged(3) \o Fence \o Steps("verifyStaged", DeploymentOrder)
       \o active(1) \o active(2) \o active(3))
  \o ClosingSteps

RetireSteps(w) ==
  Fence \o <<<<"retireRead", w>>, <<"intent", w>>>> \o Fence
  \o <<<<"retireReread", w>>, <<"authorize", w>>, <<"patch", w>>, <<"retireVerify", w>>>> \o Fence
  \o <<<<"receipt", w>>, <<"acceptRetirement", w>>>> \o Fence \o <<<<"completeRetirement", w>>>>
ObserveSteps(w) ==
  Fence \o <<<<"observe", w>>>> \o Fence \o Fence \o <<<<"completeObservation", w>>>>

(* A run that has just been dequeued.                                          *)
Begin(q) ==
  [src |-> q.src, boot |-> q.boot, pred |-> q.pred, policy |-> q.policy,
   todo |-> Fence \o <<<<"ledger", "core">>>> \o Steps("inventory", DeploymentOrder)
            \o <<<<"decide", "core">>>>,
   mode |-> "preflight",                    \* then "deliver" and "recover"
   decision |-> None,
   read |-> [w \in Workers |-> None],       \* what the inventory read of each Worker
   api |-> {},                              \* apiHandoffRoles
   phase |-> "baseline",                    \* of the resource fence
   retired |-> {}, uncertain |-> None,      \* retiredCallers, uncertainCaller
   coreStaged |-> FALSE,                    \* the core may have been mutated
   message |-> FALSE,                       \* expectedStagedMessages has the core
   uploaded |-> [w \in Callers |-> None],   \* uploadedVersion of selectedIdentity
   snapshot |-> None,                       \* of the retirement under way
   intent |-> {}, receipt |-> {},           \* durable artifacts
   own |-> [w \in Callers |-> None],        \* own snapshot of a retired caller's proof
   hand |-> [w \in Callers |-> None],       \* retiredCallerHandoffs
   pending |-> <<>>,                        \* pendingRetiredRoles, oldest first
   cohort |-> None,                         \* expected graph of the cohort guard
   transition |-> None,                     \* its registered upload
   hit |-> {}, patched |-> {},              \* history: workers this run did change
   outcome |-> None, recovery |-> "not-needed"]

-----------------------------------------------------------------------------
(* The course of a run *)

Todo(name, w) == run.outcome = None /\ run.todo # <<>> /\ Head(run.todo) = <<name, w>>
Advance(r) == [r EXCEPT !.todo = Tail(@)]
Before(r, steps) == [r EXCEPT !.todo = steps \o @]
End(r, outcome, recovery) ==
  [r EXCEPT !.todo = <<>>, !.outcome = outcome, !.recovery = recovery]

(* An error.  Once a deployment is under way the core is recovered, if it may   *)
(* have been mutated; an error of the recovery is its failure.                 *)
Stop(r) ==
  IF r.mode = "recover" THEN End(r, "stopped", "failed")
  ELSE IF r.mode = "deliver" /\ r.decision = "deploy" /\ r.coreStaged
    THEN [r EXCEPT !.mode = "recover", !.todo = Fence \o <<<<"recoverRead", "core">>>>]
  ELSE End(r, "stopped", "not-needed")

(* A call of the engine that changes no Worker: it goes on with r if ok holds,  *)
(* and what it has accepted is no longer strange.                              *)
Check(ok, r, accepted) ==
  /\ run' = IF ok THEN r ELSE Stop(run)
  /\ strange' = IF ok THEN strange \ accepted ELSE strange
  /\ UNCHANGED <<live, schema, request, authorized, versions, fenced, late, left>>

(* The same for a call that takes no part in what is known of the Workers.     *)
Answer(r) == Check(TRUE, r, {})

-----------------------------------------------------------------------------
(* What a readback demands *)

HasConfiguration(v, circuit, pair) == v.circuit = circuit /\ v.pair = pair

(* validateReadback of the staged and of the active configuration.             *)
ReadsStaged(r, w, v) == HasConfiguration(v, "disabled", FALSE) /\ v.note = Note(r.src, "staged")
AnnotationReadsActive(r, v) == v.note = Note(r.src, "active")   \* mutant
ReadsActive(r, v) == HasConfiguration(v, "enabled", FALSE) /\ v.note = Note(r.src, "active")

(* readback right after the upload, where a bootstrap still expects the pair.   *)
ReadsUploaded(r, w, v) ==
  /\ HasConfiguration(v, "disabled", RetirePair(r, w))
  /\ v.note = Note(r.src, "staged")

(* compareBootstrapInventory: which inventory of native rates was observed.    *)
ObservedPhase(r) ==
  IF r.phase # "baseline" /\ live["core"].rate THEN "added"
  ELSE IF r.phase # "added" /\ live["core"].rate = r.policy["core"].rate THEN "baseline"
  ELSE "drift"

(* assertResourcePolicyLive on the target cohort.  Its plaintext is compared    *)
(* only until the bootstrap's first upload.                                    *)
ResourcesMatch(r, phase) ==
  /\ phase # "drift"
  /\ live["core"].rate = ((r.boot /\ phase = "added") \/ r.policy["core"].rate)
  /\ \A c \in Callers : r.uncertain = c \/ live[c].pair = (r.policy[c].pair /\ c \notin r.retired)
  /\ r.boot /\ phase = "baseline" => live["core"].circuit = "disabled"
  /\ r.boot /\ r.phase = "baseline" => \A w \in Workers : live[w].circuit = r.policy[w].circuit

(* mutant: the promotion's evidence is only read at the start *)
FenceResources(r) == ResourcesMatch(r, IF r.boot THEN ObservedPhase(r) ELSE "baseline")

(* fenceDeliveryMutation: resources first, then the promotion's evidence.       *)
FencePasses(r) ==
  /\ ResourcesMatch(r, IF r.boot THEN ObservedPhase(r) ELSE "baseline")
  /\ authorized

AfterFence(r) ==
  Advance(IF r.boot /\ ObservedPhase(r) = "added" THEN [r EXCEPT !.phase = "added"] ELSE r)

PassFence ==
  /\ \E w \in Workers : Todo("fence", w)
  /\ run' = IF FencePasses(run) THEN AfterFence(run) ELSE Stop(run)
  /\ fenced' = IF FencePasses(run) THEN [w \in Workers |-> live[w].version] ELSE fenced
  /\ UNCHANGED <<live, schema, request, authorized, versions, strange, late, left>>

-----------------------------------------------------------------------------
(* Preflight *)

CheckLedger ==
  /\ Todo("ledger", "core")
  /\ Check(schema = Horizon[run.src], Advance(run), {})

(* A caller approved as secret-free must already be the disabled one; of any    *)
(* other predecessor only the names of the secrets are compared.               *)
Inventory(w) ==
  /\ Todo("inventory", w)
  /\ Check(/\ live[w].pair = run.policy[w].pair
           /\ ObserveSecretFree(run, w) => live[w].circuit = "disabled",
           [Advance(run) EXCEPT !.read[w] = live[w]], {})

AppendOnly(r) ==
  \A w \in Workers : r.read[w].note = None \/ Horizon[r.read[w].note.source] <= Horizon[r.src]

DeliveryDecision(r) ==
  IF \A w \in Workers : r.read[w].note = Note(r.src, "active") THEN "no-op" ELSE "deploy"

(* Workers that the provider's API deployed last and that carry no annotation;  *)
(* in a bootstrap, annotated callers too.                                      *)
ApiHandoffRoles(r) ==
  {w \in Workers : r.read[w].via = "api" /\ (r.read[w].note = None \/ (r.boot /\ w \in Callers))}

Decide ==
  /\ Todo("decide", "core")
  /\ Check(/\ \A w \in Workers : run.read[w].version = run.pred[w]
           /\ AppendOnly(run)
           /\ run.boot => DeliveryDecision(run) = "deploy",
           [run EXCEPT !.mode = "deliver", !.decision = DeliveryDecision(run),
                       !.api = ApiHandoffRoles(run), !.todo = Delivery(run, DeliveryDecision(run))],
           {})

-----------------------------------------------------------------------------
(* Staging *)

(* verifyPredecessorHandoff, one Worker after the other.                       *)
CheckPredecessor(w) ==
  /\ Todo("predecessor", w)
  /\ Check(/\ live[w].version = run.pred[w]
           /\ live[w].pair = run.policy[w].pair
           /\ ObserveSecretFree(run, w) => live[w].circuit = "disabled",
           Advance(run), {})

(* verifyBootstrapCallerPredecessor and the authority, before a caller of a     *)
(* bootstrap is staged.                                                        *)
CheckCallerPredecessor(w) ==
  /\ Todo("callerPredecessor", w)
  /\ Check(/\ live[w].version = run.pred[w]
           /\ live[w].pair = run.policy[w].pair
           /\ live[w].circuit = run.policy[w].circuit
           /\ authorized,
           Advance(run), {})

Uploaded(s, w, phase) ==
  [live[w] EXCEPT !.version = versions + 1, !.note = Note(s, phase), !.circuit = Circuit(phase),
                  !.rate = @ \/ w = "core", !.via = "wrangler", !.code = s]

(* wrangler deploy: with --strict it refuses a Worker that the API deployed     *)
(* last.  It may fail without an effect, and its answer may be lost.           *)
Upload(w, phase, strict, done, failing) ==
  \/ /\ ~(strict /\ live[w].via = "api")
     /\ live' = [live EXCEPT ![w] = Uploaded(run.src, w, phase)]
     /\ versions' = versions + 1
     /\ late' = IF authorized THEN late ELSE late + 1
     /\ strange' = strange \ {w}
     /\ \/ run' = [done EXCEPT !.hit = @ \cup {w}] /\ UNCHANGED left
        \/ Spend("lost") /\ run' = Stop([failing EXCEPT !.hit = @ \cup {w}])
     /\ UNCHANGED <<schema, request, authorized, fenced>>
  \/ /\ \/ strict /\ live[w].via = "api" /\ UNCHANGED left
        \/ Spend("lost")
     /\ run' = Stop(failing)
     /\ UNCHANGED <<live, schema, request, authorized, versions, strange, fenced, late>>

(* mutant: the core is marked by nobody before its upload is answered *)
NotMarked(r, w) ==
  IF w = "core" THEN [r EXCEPT !.phase = IF r.boot THEN "uploading" ELSE @] ELSE r

(* The intent to recover the core comes before its upload; beginCoreUpload.     *)
Staging(r, w) ==
  IF w = "core"
  THEN [r EXCEPT !.coreStaged = TRUE, !.phase = IF r.boot THEN "uploading" ELSE @]
  ELSE r

DeployStaged(w) ==
  /\ Todo("stage", w)
  /\ IF run.boot /\ w = "core" /\ run.phase # "baseline"
     THEN Answer(Stop(run))
     ELSE \E r \in {Staging(run, w)} :
            Upload(w, "staged", w \notin run.api,
                   [Advance(r) EXCEPT !.message = @ \/ w = "core"], r)

-----------------------------------------------------------------------------
(* The cohort guard (createRetirementCohortGuard)                           *)

(* What the reader of the callers' snapshot returns: it captures every Worker   *)
(* twice and fails unless both captures agree.  No version comes back, so what  *)
(* they agree on held at the instant between the two.                          *)
Snapshot == live

(* The upload registered for a peer of a retired caller, as the next snapshot   *)
(* must show it: the selected version and configuration, all else preserved.   *)
PeerUploadPreserved(r, t, previous) ==
  live[t.worker] = [previous EXCEPT
    !.version = t.version, !.note = Note(r.src, t.phase), !.circuit = Circuit(t.phase),
    !.via = "wrangler", !.code = r.src, !.rate = @ \/ t.worker = "core"]

(* compare: every Worker as expected, or changed by the registered upload.     *)
CohortUnchanged(r, excluded) ==
  r.cohort # None =>
    \A w \in Workers \ excluded :
      IF r.transition # None /\ r.transition.worker = w
      THEN PeerUploadPreserved(r, r.transition, r.cohort[w])
      ELSE Snapshot[w] = r.cohort[w]

(* Only a graph that passed as a whole teaches the guard.                      *)
LearnCohort(r, excluded) ==
  IF r.cohort = None \/ r.transition = None \/ r.transition.worker \in excluded THEN r
  ELSE [r EXCEPT !.cohort[r.transition.worker] = live[r.transition.worker], !.transition = None]

(* recordRetirementPeerUpload: register the upload, then read the oldest        *)
(* retired caller again.                                                       *)
RecordUpload(r, w, phase) ==
  IF r.pending = <<>> THEN r
  ELSE Before([r EXCEPT !.transition = [worker |-> w, version |-> live[w].version, phase |-> phase]],
              Fence \o <<<<"readRetired", Head(r.pending)>>>>)

MayRecord(r, w) == r.pending = <<>> \/ (r.transition = None /\ live[w].version # r.cohort[w].version)

(* requireRetiredCallerProof: the caller's own part of the snapshot, without     *)
(* its peers, is still the one the receipt made a proof of.                    *)
OwnUnchanged(r, c) == Snapshot[c] = r.own[c]

(* mutant: any disabled version without the pair will do *)
RetiredAlike(r, c) == HasConfiguration(Snapshot[c], "disabled", FALSE)

(* readRetiredCaller after its fence.                                          *)
RetiredUnchanged(r, c) == CohortUnchanged(r, {}) /\ OwnUnchanged(r, c)

ReadRetired(c) ==
  /\ Todo("readRetired", c)
  /\ Check(RetiredUnchanged(run, c), LearnCohort(Advance(run), {}), {c})

-----------------------------------------------------------------------------
(* Readback of a staged Worker and the handoff of a bootstrap's caller      *)

(* prepareBootstrapCallerHandoff: a caller with the pair is retired             *)
(* (beginCallerRetirement), one without is only observed.                      *)
BeginHandoff(r, w) ==
  IF RetirePair(r, w)
  THEN Before([r EXCEPT !.uploaded[w] = live[w].version], <<<<"beginRetirement", w>>>> \o RetireSteps(w))
  ELSE IF ObserveSecretFree(r, w)
  THEN Before([r EXCEPT !.uploaded[w] = live[w].version], ObserveSteps(w))
  ELSE r

ReadStaged(w) ==
  /\ Todo("readStaged", w)
  /\ Check(/\ w = "core" /\ run.boot => run.phase = "added"      \* confirmCoreAdded
           /\ ReadsUploaded(run, w, live[w])
           /\ MayRecord(run, w),
           RecordUpload(BeginHandoff(Advance(run), w), w, "staged"), {w})

(* beginCallerRetirement: from here on the fence admits any subset of the pair. *)
BeginRetirement(c) ==
  /\ Todo("beginRetirement", c)
  /\ Check(run.phase = "added" /\ c \notin run.retired /\ run.uncertain = None,
           [Advance(run) EXCEPT !.uncertain = c], {})

(* The selected disabled caller, as it was uploaded, with its exact pair.      *)
SelectedCaller(r, c) ==
  /\ CohortUnchanged(r, {})
  /\ live[c].version = r.uploaded[c]
  /\ live[c].note = Note(r.src, "staged") /\ live[c].code = r.src
  /\ HasConfiguration(live[c], "disabled", RetirePair(r, c))

RetireRead(c) ==
  /\ Todo("retireRead", c)
  /\ Check(SelectedCaller(run, c),
           LearnCohort([Advance(run) EXCEPT !.snapshot = Snapshot], {}), {c})

(* recordIntent: the local O_EXCL document, then the encrypted artifact, which  *)
(* counts once it has been read back.                                          *)
RecordIntent(c) ==
  /\ Todo("intent", c)
  /\ \/ Answer([Advance(run) EXCEPT !.intent = @ \cup {c}])
     \/ /\ Spend("lost")
        /\ \E durable \in {{}, {c}} : run' = Stop([run EXCEPT !.intent = @ \cup durable])
        /\ UNCHANGED <<live, schema, request, authorized, versions, strange, fenced, late>>

(* mutant: the snapshot is not read again once the intent is durable *)
TrustSnapshot(c) == Todo("retireReread", c) /\ Answer(Advance(run))

(* The whole snapshot, peers included, must be what the intent names.          *)
RetireReread(c) ==
  /\ Todo("retireReread", c)
  /\ Check(Snapshot = run.snapshot /\ SelectedCaller(run, c), LearnCohort(Advance(run), {}), {c})

Authorize(w) ==
  /\ Todo("authorize", w)
  /\ Check(authorized, Advance(run), {})

(* The bulk-secret PATCH: a new version without the pair and without the        *)
(* annotation, whose provenance the provider may rewrite.                      *)
Patched(c, via) ==
  [live[c] EXCEPT !.version = versions + 1, !.note = None, !.pair = FALSE, !.via = via]

(* Exactly one request; an answer that is lost or refused is never retried.    *)
RetirePatch(c) ==
  /\ Todo("patch", c)
  /\ \/ \E via \in {live[c].via, "api"} :
          /\ live' = [live EXCEPT ![c] = Patched(c, via)]
          /\ versions' = versions + 1
          /\ late' = IF authorized THEN late ELSE late + 1
          /\ \/ run' = [Advance(run) EXCEPT !.patched = @ \cup {c}, !.hit = @ \cup {c}] /\ UNCHANGED left
             \/ /\ Spend("lost")
                /\ run' = Stop([run EXCEPT !.patched = @ \cup {c}, !.hit = @ \cup {c}])
          /\ UNCHANGED <<schema, request, authorized, strange, fenced>>
     \/ /\ Spend("lost")
        /\ run' = Stop(run)
        /\ UNCHANGED <<live, schema, request, authorized, versions, strange, fenced, late>>

(* expectedServiceMetadata: the provenance is kept or goes from wrangler to api. *)
ProvenanceFollows(before, after) == after.via \in {before.via, "api"}

(* verifyCallerRetirementPostV4: a new version, the pair and the annotation     *)
(* gone; nothing else may differ.                                              *)
RetirementObserved(r, c) ==
  /\ live[c].version # r.snapshot[c].version
  /\ ProvenanceFollows(r.snapshot[c], live[c])
  /\ live = [r.snapshot EXCEPT ![c] = [@ EXCEPT !.version = live[c].version, !.via = live[c].via,
                                              !.pair = FALSE, !.note = None]]

RetireVerify(c) ==
  /\ Todo("retireVerify", c)
  /\ Check(RetirementObserved(run, c), [Advance(run) EXCEPT !.own[c] = Snapshot[c], !.snapshot = Snapshot], {c})

(* recordReceipt only follows a durable intent; fulfilled, it makes the proof.  *)
RecordReceipt(c) ==
  /\ Todo("receipt", c)
  /\ \/ Check(c \in run.intent, [Advance(run) EXCEPT !.receipt = @ \cup {c}], {})
     \/ /\ Spend("lost")
        /\ run' = Stop(run)
        /\ UNCHANGED <<live, schema, request, authorized, versions, strange, fenced, late>>

(* acceptCallerRetirement: the peers are those of the receipt, and the guard    *)
(* takes the retired caller into its graph (or starts with it).                *)
AcceptRetirement(c) ==
  /\ Todo("acceptRetirement", c)
  /\ Check(/\ \A w \in Workers \ {c} : Snapshot[w] = run.snapshot[w]
           /\ OwnUnchanged(run, c)
           /\ CohortUnchanged(run, {c}) /\ (run.transition = None \/ run.transition.worker # c),
           [LearnCohort(Advance(run), {c}) EXCEPT
              !.cohort = IF @ = None THEN live ELSE [@ EXCEPT ![c] = live[c]],
              !.retired = @ \cup {c}, !.uncertain = None],   \* confirmCallerRetired
           {c})

Provenance(r, c, via) == IF via = "api" THEN r.api \cup {c} ELSE r.api \ {c}
HandOff(r, c, kind) ==
  [r EXCEPT !.hand[c] = [kind |-> kind, version |-> live[c].version, via |-> live[c].via],
            !.api = Provenance(r, c, live[c].via)]

(* completeCallerRetirement: the retired version once more, then its            *)
(* provenance decides how it will be activated.                                *)
CompleteRetirement(c) ==
  /\ Todo("completeRetirement", c)
  /\ Check(RetiredUnchanged(run, c),
           [HandOff(LearnCohort(Advance(run), {}), c, "retired") EXCEPT
              !.pending = Append(@, c), !.snapshot = None],
           {c})

(* observeSecretFreeCaller and completeSecretFreeCallerObservation.            *)
Observe(c) ==
  /\ Todo("observe", c)
  /\ Check(SelectedCaller(run, c), LearnCohort(Advance(run), {}), {c})

CompleteObservation(c) ==
  /\ Todo("completeObservation", c)
  /\ Check(/\ ReadsStaged(run, c, live[c])
           /\ live[c].version = run.uploaded[c] /\ live[c].via = "wrangler",
           HandOff(Advance(run), c, "observed"), {c})

-----------------------------------------------------------------------------
(* Activation *)

RetiredHand(r, w) == HandedOff(r, w) /\ r.hand[w].kind = "retired"

(* The disabled cohort, complete and of one source.  A retired caller has lost  *)
(* its annotation and is known by its proof.                                   *)
VerifyStaged(w) ==
  /\ Todo("verifyStaged", w)
  /\ IF RetiredHand(run, w)
     THEN Answer(Before(Advance(run), Fence \o <<<<"readRetired", w>>>>))
     ELSE Check(ReadsStaged(run, w, live[w]), Advance(run), {w})

(* verifyCallerActivationHandoff: exactly the version that was proven, then the *)
(* authority.                                                                  *)
ActivationHandoff(w) ==
  /\ Todo("handoff", w)
  /\ Answer(IF RetiredHand(run, w)
            THEN Before(Advance(run), Fence \o <<<<"readRetired", w>>, <<"authorize", w>>>>)
            ELSE Before(Advance(run), <<<<"readObserved", w>>, <<"authorize", w>>>>))

(* The version that was observed, once more.                                   *)
ReadObserved(c) ==
  /\ Todo("readObserved", c)
  /\ Check(ReadsStaged(run, c, live[c]) /\ live[c].version = run.hand[c].version, Advance(run), {c})

ByApi(r, w) == IF HandedOff(r, w) THEN r.hand[w].via = "api" ELSE w \in r.api

DeployActive(w) ==
  /\ Todo("activate", w)
  /\ Upload(w, "active", ~ByApi(run, w), Advance(run), run)

(* pendingRetiredRoles.delete                                                  *)
Without(roles, w) ==
  IF Contains(roles, w) THEN RemoveAt(roles, CHOOSE i \in 1..Len(roles) : roles[i] = w) ELSE roles

ReadActive(w) ==
  /\ Todo("readActive", w)
  /\ \E r \in {[Advance(run) EXCEPT !.pending = Without(@, w)]} :
       Check(ReadsActive(run, live[w]) /\ MayRecord(r, w), RecordUpload(r, w, "active"), {w})

(* verifyFinal, one Worker after the other.                                    *)
VerifyFinal(w) ==
  /\ Todo("final", w)
  /\ Check(ReadsActive(run, live[w]), Advance(run), {w})

(* The private reconciliation of the directories and the public canaries, which *)
(* the environment may fail.                                                   *)
Prove ==
  /\ Todo("reconcile", "core") \/ Todo("canaries", "core")
  /\ \/ Answer(Advance(run))
     \/ /\ Spend("lost")
        /\ run' = Stop(run)
        /\ UNCHANGED <<live, schema, request, authorized, versions, strange, fenced, late>>

Report ==
  /\ Todo("report", "core")
  /\ Answer(End(run, run.decision, run.recovery))

-----------------------------------------------------------------------------
(* Recovery of a core that may be enabled (recoverDisabledCore)             *)

(* Without an answered upload the engine expects no annotation at all.         *)
ExpectedMessage(r) == IF r.message THEN Note(r.src, "staged") ELSE None

(* validateStaged: the annotation is compared only when one is expected.       *)
ProvenDisabled(r, v) ==
  /\ ExpectedMessage(r) # None => v.note = ExpectedMessage(r)
  /\ HasConfiguration(v, "disabled", FALSE)

RecoverRead ==
  /\ Todo("recoverRead", "core")
  /\ IF live["core"].note = ExpectedMessage(run)
     THEN Check(ProvenDisabled(run, live["core"]), End(run, "stopped", "proven"), {"core"})
     ELSE Answer([run EXCEPT !.todo = <<<<"recoverDeploy", "core">>>> \o Fence
                                      \o <<<<"recoverProve", "core">>>>])

RecoverDeploy ==
  /\ Todo("recoverDeploy", "core")
  /\ Upload("core", "staged", "core" \notin run.api, [Advance(run) EXCEPT !.message = TRUE], run)

RecoverProve ==
  /\ Todo("recoverProve", "core")
  /\ Check(ProvenDisabled(run, live["core"]), End(run, "stopped", "proven"), {"core"})

-----------------------------------------------------------------------------
(* The environment *)

(* An operator dispatches a promotion against the Workers as they are; of those *)
(* that wait, the workflow keeps the last.  A bootstrap is for a core that is   *)
(* disabled.                                                                   *)
Dispatch(s, boot) ==
  /\ Spend("runs")
  /\ \/ boot /\ live["core"].circuit = "disabled"
     \/ ~boot /\ \A c \in Callers : ~live[c].pair
  /\ request' = Request(s, boot, live)
  /\ UNCHANGED <<live, schema, run, authorized, versions, strange, fenced, late>>

Start ==
  /\ request # None /\ run.outcome # None
  /\ run' = Begin(request) /\ request' = None
  /\ authorized' = TRUE /\ late' = 0
  /\ UNCHANGED <<live, schema, versions, strange, fenced, left>>

(* The promotion loses its authority: the hour is over, the release or the      *)
(* source loses its provenance, the operator the permission.                   *)
Revoke ==
  /\ run.outcome = None /\ authorized /\ authorized' = FALSE
  /\ UNCHANGED <<live, schema, request, run, versions, strange, fenced, late, left>>

Kill ==
  /\ run.outcome = None /\ Spend("lost")
  /\ run' = End(run, "killed", "unknown")
  /\ UNCHANGED <<live, schema, request, authorized, versions, strange, fenced, late>>

(* Another writer: a change of the settings through the API, which may keep     *)
(* the annotation or put the legacy pair back, or a deployment by hand.        *)
Edited(w, circuit, note) ==
  [live[w] EXCEPT !.version = versions + 1, !.circuit = circuit, !.note = note, !.via = "api"]
Redeployed(w, circuit, s) ==
  [live[w] EXCEPT !.version = versions + 1, !.circuit = circuit, !.note = None, !.via = "wrangler", !.code = s]
PairRestored(c) ==
  [live[c] EXCEPT !.version = versions + 1, !.pair = TRUE, !.note = None, !.via = "api"]
ForeignVersions(w) ==
  {Edited(w, circuit, note) : circuit \in {"enabled", "disabled"}, note \in {live[w].note, None}}
  \cup {Redeployed(w, circuit, s) : circuit \in {"enabled", "disabled"},
                                    s \in {t \in Sources : Horizon[t] <= schema}}
  \cup {PairRestored(c) : c \in {w} \cap Callers}

ForeignChange(w) ==
  /\ Spend("foreign")
  /\ \E v \in ForeignVersions(w) : live' = [live EXCEPT ![w] = v]
  /\ versions' = versions + 1 /\ strange' = strange \cup {w}
  /\ UNCHANGED <<schema, request, run, authorized, fenced, late>>

(* Migrations are applied apart from any delivery, in their one order.         *)
Migrate ==
  /\ \E s \in Sources : schema < Horizon[s]
  /\ schema' = schema + 1
  /\ UNCHANGED <<live, request, run, authorized, versions, strange, fenced, late, left>>

-----------------------------------------------------------------------------
(* A topology that an earlier promotion left, and one that awaits the           *)
(* bootstrap: everything disabled, some callers with the legacy pair.          *)
Delivered(s) ==
  [w \in Workers |-> [version |-> 0, note |-> Note(s, "active"), circuit |-> "enabled",
                      pair |-> FALSE, rate |-> w = "core", via |-> "wrangler", code |-> s]]
Legacy(s, pairs) ==
  [w \in Workers |-> [version |-> 0, note |-> IF w = "core" THEN None ELSE Note(s, "active"),
                      circuit |-> "disabled", pair |-> w \in pairs, rate |-> FALSE,
                      via |-> "api", code |-> s]]

NoRun == End(Begin(Request(CHOOSE s \in Sources : TRUE, FALSE, Delivered(CHOOSE s \in Sources : TRUE))),
             "stopped", "not-needed")

Init ==
  /\ \E s \in Sources :
       /\ schema = Horizon[s]
       /\ live \in {Delivered(s)} \cup {Legacy(s, P) : P \in SUBSET Callers}
  /\ request = None /\ run = NoRun /\ authorized = FALSE
  /\ versions = 0 /\ strange = {} /\ fenced = [w \in Workers |-> 0] /\ late = 0
  /\ left \in Budgets

Next ==
  \/ \E s \in Sources, boot \in BOOLEAN : Dispatch(s, boot)
  \/ Start \/ PassFence \/ CheckLedger \/ Decide
  \/ \E w \in Workers :
       \/ Inventory(w) \/ CheckPredecessor(w) \/ CheckCallerPredecessor(w)
       \/ DeployStaged(w) \/ ReadStaged(w) \/ VerifyStaged(w)
       \/ ActivationHandoff(w) \/ DeployActive(w) \/ ReadActive(w) \/ VerifyFinal(w)
       \/ Authorize(w)
  \/ \E c \in Callers :
       \/ ReadRetired(c) \/ BeginRetirement(c) \/ RetireRead(c) \/ RecordIntent(c)
       \/ RetireReread(c) \/ RetirePatch(c) \/ RetireVerify(c) \/ RecordReceipt(c)
       \/ AcceptRetirement(c) \/ CompleteRetirement(c)
       \/ Observe(c) \/ CompleteObservation(c) \/ ReadObserved(c)
  \/ Prove \/ Report \/ RecoverRead \/ RecoverDeploy \/ RecoverProve
  \/ Revoke \/ Kill \/ (\E w \in Workers : ForeignChange(w)) \/ Migrate

Spec == Init /\ [][Next]_vars

-----------------------------------------------------------------------------
(* Properties *)

(* Every Worker has one active version no newer than the last one created, the   *)
(* run's bookkeeping names Workers of the right kind, and the guard's graph and  *)
(* its registered upload are about the retirement of this run.                  *)
TypeOK ==
  /\ live \in [Workers -> Version] /\ \A w \in Workers : live[w].version <= versions
  /\ run.api \subseteq Workers /\ run.retired \subseteq Callers
  /\ run.phase \in {"baseline", "uploading", "added"}
  /\ run.uncertain \in Callers \cup {None}
  /\ run.receipt \subseteq run.intent /\ run.patched \subseteq run.intent
  /\ run.transition # None => run.cohort # None
  /\ run.outcome \in {None, "deploy", "no-op", "stopped", "killed"}
  /\ strange \subseteq Workers /\ schema \in Nat

(* While the core's breakers are closed it serves callers of its own source that *)
(* are enabled as well: not during a deployment, nor after one that failed,     *)
(* was killed or lost an answer anywhere.  (orchestrateDelivery, recover)       *)
CoreServesOneCohort ==
  live["core"].circuit = "enabled" =>
    \A c \in Callers :
      {"core", c} \cap strange = {} => live[c].circuit = "enabled" /\ live[c].code = live["core"].code

(* A delivery that reports success leaves the approved source active on all      *)
(* three Workers, without a legacy secret.                                      *)
SuccessMeansCoherent ==
  run.outcome \in {"deploy", "no-op"} =>
    \A w \in Workers \ strange :
      live[w].code = run.src /\ live[w].circuit = "enabled" /\ ~live[w].pair

(* The evidence of a stopped delivery is true: `proven' is a core that is        *)
(* disabled, `not-needed' one this run did not change.                          *)
RecoveryHonest ==
  run.outcome = "stopped" /\ "core" \notin strange =>
    /\ run.recovery = "proven" => live["core"].circuit = "disabled"
    /\ run.recovery = "not-needed" => "core" \notin run.hit

(* Once the authority is lost at most the one mutation goes out that was already *)
(* past its fence; a recovery has its own fence.                                *)
OneMutationAfterLoss == late <= 1

(* The pair is deleted at most once per run and caller, under a durable intent   *)
(* and before its receipt, while the core is disabled; whatever differs from the *)
(* snapshot the intent names has changed since the last fence.                  *)
PairDeletedAsIntended ==
  [][\A c \in Callers :
       live[c].pair /\ ~live'[c].pair =>
         /\ c \in run.intent \ (run.patched \cup run.receipt)
         /\ \A w \in Workers : live[w] = run.snapshot[w] \/ live[w].version # fenced[w]
         /\ live["core"].circuit = "disabled" \/ "core" \in strange]_vars

(* A bootstrap activates a caller only over the very version it has proven: one  *)
(* that replaced it, however alike, stops the delivery unless it came after the  *)
(* fence before the upload.  (verifyCallerActivationHandoff)                    *)
HandoffActivatesProven ==
  [][\A c \in Callers :
       Todo("activate", c) /\ run.boot /\ live'[c].version # live[c].version /\ run' # run =>
         run.hand[c].version \in {live[c].version, fenced[c]}]_vars

=============================================================================
