---------------------- MODULE DirectoryReconciliation ----------------------
(***************************************************************************)
(* The proof a deployment asks of the core: that the directories are       *)
(* published (directory-reconciliation.ts).  The core has the builder      *)
(* reconcile, then reads the checkpoint, one alias after the other, and    *)
(* the revision and the checkpoint once more, while publications go on,    *)
(* the builder runs again and aliases are damaged.  The two profiles go    *)
(* the same way side by side; this is one of them.                         *)
(*                                                                         *)
(* Of the builder only what DirectoryBuilder shows is kept: a generation   *)
(* above everything known is reserved for the revision, its aliases are    *)
(* replaced one by one and never again once it is committed, and it is     *)
(* committed when all are in place and the revision is still the same.     *)
(***************************************************************************)
EXTENDS Integers, Sequences

CONSTANTS
  AliasOrder,      \* the files, in the order their aliases are read
  Manifest,        \* the last of them, whose body is read too
  Lifetime,        \* of an artifact
  MaxRevision, MaxGeneration, MaxTime,    \* bounds
  None

Files == {AliasOrder[i] : i \in 1..Len(AliasOrder)}

ReconciliationAssumption ==
  /\ AliasOrder \in Seq(Files) /\ Len(AliasOrder) > 0 /\ AliasOrder[Len(AliasOrder)] = Manifest
  /\ Lifetime \in Nat \ {0} /\ MaxGeneration \in Nat

VARIABLES
  revision,     \* directory_revisions
  checkpoint,   \* directory_artifact_publications
  pending,      \* the build the builder is at, or None
  alias,        \* file -> [gen, at] it was put, or None: lost or damaged
  call,         \* the reconciliation under way or the last one
  now

vars == <<revision, checkpoint, pending, alias, call, now>>
directory == <<revision, checkpoint, pending, alias, now>>

Public(f, gen) == alias[f] # None /\ alias[f].gen = gen
Whole(gen) == \A f \in Files : Public(f, gen)
PublicationTime(t, p) == p.generatedAt <= t /\ t < p.expiresAt

-----------------------------------------------------------------------------
(* The directory meanwhile *)

Publish ==
  /\ revision < MaxRevision /\ revision' = revision + 1
  /\ UNCHANGED <<checkpoint, pending, alias, call, now>>

(* A generation above the checkpoint, the last build and the aliases.          *)
Reserve(gen) ==
  /\ checkpoint.gen < gen /\ (pending # None => pending.gen < gen)
  /\ \A f \in Files : alias[f] # None => alias[f].gen < gen
  /\ pending' = [gen |-> gen, rev |-> revision, generatedAt |-> now, expiresAt |-> now + Lifetime]
  /\ UNCHANGED <<revision, checkpoint, alias, call, now>>

PutAlias(f) ==
  /\ pending # None /\ checkpoint.gen < pending.gen /\ ~Public(f, pending.gen)
  /\ alias' = [alias EXCEPT ![f] = [gen |-> pending.gen, at |-> now]]
  /\ UNCHANGED <<revision, checkpoint, pending, call, now>>

Commit ==
  /\ pending # None /\ checkpoint.gen < pending.gen
  /\ Whole(pending.gen) /\ revision = pending.rev
  /\ checkpoint' = pending
  /\ UNCHANGED <<revision, pending, alias, call, now>>

Damage(f) ==
  /\ alias[f] # None /\ alias' = [alias EXCEPT ![f] = None]
  /\ UNCHANGED <<revision, checkpoint, pending, call, now>>

Tick == now < MaxTime /\ now' = now + 1 /\ UNCHANGED <<revision, checkpoint, pending, alias, call>>

-----------------------------------------------------------------------------
(* handleDirectoryReconciliationRequest *)

Continue(ok, next) == call' = (IF ok THEN next ELSE [call EXCEPT !.step = "failed"]) /\ UNCHANGED directory

Start == [step |-> "build", result |-> None, seen |-> None, todo |-> <<>>,
          revision |-> None, again |-> None, whole |-> FALSE, settled |-> FALSE]

Request ==
  /\ call.step \in {"ok", "failed"}
  /\ call' = Start /\ UNCHANGED directory

(* The builder's answer names the checkpoint of the moment it was done, or it  *)
(* failed.                                                                     *)
Reconcile ==
  /\ call.step = "build"
  /\ \E done \in BOOLEAN : Continue(done, [call EXCEPT !.step = "checkpoint", !.result = checkpoint])

(* readDirectoryArtifactPublication and assertBuildResult.                     *)
ReadCheckpoint ==
  /\ call.step = "checkpoint"
  /\ Continue(/\ checkpoint.gen >= 1 /\ call.result.gen = checkpoint.gen
              /\ call.result.rev = checkpoint.rev /\ PublicationTime(now, checkpoint),
              [call EXCEPT !.step = "alias", !.seen = checkpoint, !.todo = AliasOrder,
                           !.whole = Whole(checkpoint.gen)])

AfterAlias ==
  [call EXCEPT !.todo = Tail(@), !.step = IF Len(call.todo) > 1 THEN "alias" ELSE "manifest"]

(* verifyAliases: the head of one alias.                                       *)
HeadAlias(f) ==
  /\ call.step = "alias" /\ Head(call.todo) = f
  /\ Continue(Public(f, call.seen.gen) /\ PublicationTime(alias[f].at, call.seen), AfterAlias)

(* The body of the manifest, if it is still the object of the head.            *)
GetManifest ==
  /\ call.step = "manifest"
  /\ Continue(Public(Manifest, call.seen.gen), [call EXCEPT !.step = "fence"])

(* The fence: the revision and the checkpoint once more, in either order.      *)
Settled == call.settled \/ (checkpoint = call.seen /\ revision = call.seen.rev)
RereadRevision ==
  /\ call.step = "fence" /\ call.revision = None
  /\ Continue(TRUE, [call EXCEPT !.revision = revision, !.settled = Settled])
RereadCheckpoint ==
  /\ call.step = "fence" /\ call.again = None
  /\ Continue(TRUE, [call EXCEPT !.again = checkpoint, !.settled = Settled])

CheckpointUnchanged(c) == c.again = c.seen                    \* mutant
Unchanged(c) == c.again = c.seen /\ c.revision = c.again.rev

Answer ==
  /\ call.step = "fence" /\ call.revision # None /\ call.again # None
  /\ Continue(Unchanged(call) /\ PublicationTime(now, call.seen), [call EXCEPT !.step = "ok"])

-----------------------------------------------------------------------------
Init ==
  /\ revision = 1 /\ pending = None /\ now = 0
  /\ checkpoint = [gen |-> 1, rev |-> 1, generatedAt |-> 0, expiresAt |-> Lifetime]
  /\ alias = [f \in Files |-> [gen |-> 1, at |-> 0]]
  /\ call = [Start EXCEPT !.step = "failed"]

Next ==
  \/ Publish \/ Commit \/ Tick
  \/ \E gen \in 1..MaxGeneration : Reserve(gen)
  \/ \E f \in Files : PutAlias(f) \/ Damage(f) \/ HeadAlias(f)
  \/ Request \/ Reconcile \/ ReadCheckpoint \/ GetManifest
  \/ RereadRevision \/ RereadCheckpoint \/ Answer

Spec == Init /\ [][Next]_vars

-----------------------------------------------------------------------------
(* A success proves a published directory although no two of its reads are of   *)
(* the same instant: when the checkpoint was first read all its aliases were    *)
(* public together, and after the last of them was read there was a moment at   *)
(* which it was the checkpoint still and left no revision unpublished.          *)
(* (handleDirectoryReconciliationRequest)                                       *)
ReconciliationProves == call.step = "ok" => call.whole /\ call.settled
=============================================================================
