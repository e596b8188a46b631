--------------------------- MODULE RoomAdmission ---------------------------
(***************************************************************************)
(* The admission store of a rendezvous room (rendezvous-admission.ts): the *)
(* rows that remember which tickets were admitted in the last 24 hours.  A *)
(* ticket is known by two tags, its keyed hashes under the current and the *)
(* previous key, so that it is still recognised after the keys rotate.     *)
(*                                                                         *)
(* Each operation is one synchronous transaction of the room's SQLite, and *)
(* a refusal commits what it has pruned.  The room computes the tags from  *)
(* the key ring it was constructed with; a rotation constructs it again.   *)
(***************************************************************************)
EXTENDS Integers, FiniteSets

CONSTANTS
  Tickets,
  Window,      \* RENDEZVOUS_ROLLING_WINDOW_MS
  Batch,       \* REPLAY_PRUNE_BATCH_SIZE
  Capacity,    \* maximumRetained
  MaxTime,     \* bound: last instant
  None

AdmissionAssumption == Window \in Nat \ {0} /\ Batch \in Nat \ {0} /\ Capacity \in Nat \ {0}

VARIABLES
  rows,        \* rendezvous_admissions
  key,         \* the room's key ring is <<key, key - 1>>
  open,        \* initialize() accepted the stored rows
  now,
  (* history *)
  rotated,     \* when the ring became <<key, key - 1>>
  admitted     \* ticket -> when it was last admitted, or None

vars == <<rows, key, open, now, rotated, admitted>>

Tag(k, t) == <<k, t>>
TagsOf(r) == {r.current, r.previous}

(* The first n rows in the order of acceptance, then of their identifiers.     *)
Before(r, q) == r.at < q.at \/ (r.at = q.at /\ r.id < q.id)
Oldest(R, n) == {r \in R : Cardinality({q \in R : Before(q, r)}) < n}

Expired(R, n) == {r \in R : r.at <= n - Window}

(* pruneBefore: at most a batch of the expired rows.                           *)
Pruned(R, n) == R \ Oldest(Expired(R, n), Batch)

NextId(R) == IF R = {} THEN 1 ELSE 1 + (CHOOSE i \in {r.id : r \in R} : \A r \in R : r.id <= i)

SameColumn(R, t) == \E r \in R : r.current = Tag(key, t)   \* mutant

(* A tag under either key is already known under either key.                   *)
Replayed(R, t) == \E r \in R : TagsOf(r) \cap {Tag(key, t), Tag(key - 1, t)} # {}

(* consume: a backlog is refused before the capacity is looked at.              *)
Consumable(R) == Expired(R, now) = {} /\ Cardinality(R) < Capacity

Claimed(R, t) ==
  R \cup {[id |-> NextId(R), at |-> now, current |-> Tag(key, t), previous |-> Tag(key - 1, t)]}

(* consumeAndClaim: prune, reserve a row, claim the tags; a replay releases its *)
(* reservation.                                                                *)
ConsumeAndClaim(t) ==
  /\ open
  /\ \E kept \in {Pruned(rows, now)} :
       IF Consumable(kept) /\ ~Replayed(kept, t)
       THEN rows' = Claimed(kept, t) /\ admitted' = [admitted EXCEPT ![t] = now]
       ELSE rows' = kept /\ UNCHANGED admitted
  /\ UNCHANGED <<key, open, now, rotated>>

(* The alarm of the room.                                                      *)
Prune ==
  /\ open /\ rows' = Pruned(rows, now)
  /\ UNCHANGED <<key, open, now, rotated, admitted>>

(* assertStoredRows: not too many rows and no tag in two of them, whatever      *)
(* column it stands in.                                                        *)
Intact(R) ==
  /\ Cardinality(R) <= Capacity
  /\ \A r \in R : r.current # r.previous
  /\ \A r, q \in R : r # q => TagsOf(r) \cap TagsOf(q) = {}

(* The room is constructed again, possibly by a deployment that rotates the     *)
(* keys.  The pair before it has been out of use for longer than the window.   *)
Reconstruct ==
  /\ \/ UNCHANGED <<key, rotated>>
     \/ now - rotated > Window /\ key' = key + 1 /\ rotated' = now
  /\ open' = Intact(rows)
  /\ UNCHANGED <<rows, now, admitted>>

Tick == now < MaxTime /\ now' = now + 1 /\ UNCHANGED <<rows, key, open, rotated, admitted>>

Init ==
  /\ rows = {} /\ key = 1 /\ open = TRUE /\ now = 0 /\ rotated = 0
  /\ admitted = [t \in Tickets |-> None]

Next ==
  \/ \E t \in Tickets : ConsumeAndClaim(t)
  \/ Prune \/ Reconstruct \/ Tick

Spec == Init /\ [][Next]_vars

-----------------------------------------------------------------------------
(* An admitted ticket is not admitted again within the window, across pruning,  *)
(* reconstruction and one rotation of the keys, and no sequence of admissions   *)
(* leaves rows that a later construction refuses.  (consumeAndClaim)           *)
ReplayRefused ==
  [][/\ \A t \in Tickets :
          admitted'[t] # admitted[t] /\ admitted[t] # None => now - admitted[t] >= Window
     /\ open']_vars
=============================================================================
