--------------------------- MODULE SmallPartsProofs ---------------------------
(***************************************************************************)
(* Proofs about the five components of SmallParts, each of its own         *)
(* specification and for every value of its constants.                     *)
(***************************************************************************)
EXTENDS SmallParts, Sequences, FiniteSets, FiniteSetTheorems, TLAPS

-----------------------------------------------------------------------------
(* The components' cardinality is that of FiniteSets, whose theorems are used. *)
LEMMA SameCardinality ==
  ASSUME NEW S
  PROVE  /\ Access!Cardinality(S) = Cardinality(S)
         /\ Daily!Cardinality(S) = Cardinality(S)
         /\ Admission!Cardinality(S) = Cardinality(S)
BY DEF Access!Cardinality, Daily!Cardinality, Admission!Cardinality, Cardinality

-----------------------------------------------------------------------------
(* Rendezvous health                                                        *)

(* Evidence of a kind that began in the window of the row. *)
Backed(kind) ==
  \E e \in evidence[kind] : row.started <= e /\ e < row.started + HealthWindow

(* The row's times lie in one window, and so does evidence of what it says. *)
HealthInv ==
  /\ evidence \in [Health!Evidence -> SUBSET Nat]
  /\ row # None =>
       /\ row.started \in Nat /\ row.source \in Nat
       /\ row.counts \in [Health!Counters -> Nat]
       /\ Health!Failed(row.canary) => Backed("failed")
       /\ Health!Passed(row.canary) => Backed("healthy")
       /\ row.counts["admissions"] > 0 => Backed("healthy")
       /\ row.counts["completed"] > 0 => Backed("healthy")

LEMMA HealthInit == Health!Init => HealthInv
BY DEF Health!Init, HealthInv, Health!Evidence

(* The counts of an observation are natural numbers, and without a canary it *)
(* shows neither a failure nor a success of one. *)
LEMMA ObservationCounts ==
  ASSUME NEW o \in Health!Observations
  PROVE  /\ o.counts \in [Health!Counters -> Nat]
         /\ ~Health!Failed(Health!NoCanary) /\ ~Health!Passed(Health!NoCanary)
<1>1. o.counts \in [Health!Counters -> Nat]
  BY DEF Health!Observations, Health!Count, Health!Probe, Health!Counters
<1>2. ~Health!Failed(Health!NoCanary) /\ ~Health!Passed(Health!NoCanary)
  BY DEF Health!Failed, Health!Passed, Health!NoCanary, Health!Observed
<1> QED  BY <1>1, <1>2

(* A write keeps the invariant: inside the window it adds to what is backed,  *)
(* outside it starts a window that its own evidence backs. *)
LEMMA HealthStep ==
  ASSUME HealthInv, Health!HealthAssumption, NEW o \in Health!Observations,
         NEW at \in Health!Times, Health!Record(o, at)
  PROVE  HealthInv'
<1> USE DEF Health!Evidence
<1>1. at \in Nat /\ HealthWindow \in Nat \ {0} /\ HealthMaxCounter \in Nat \ {0}
  BY DEF Health!Times, Health!HealthAssumption
<1>2. /\ o.counts \in [Health!Counters -> Nat]
      /\ ~Health!Failed(Health!NoCanary) /\ ~Health!Passed(Health!NoCanary)
  BY ObservationCounts
<1>3. evidence' \in [Health!Evidence -> SUBSET Nat]
  BY <1>1 DEF HealthInv, Health!Record
<1>4. /\ \A kind \in Health!Evidence : evidence[kind] \subseteq evidence'[kind]
      /\ \A kind \in Health!Evidence : Health!Shows(o, kind) => at \in evidence'[kind]
  BY DEF HealthInv, Health!Record
<1>5. /\ Health!Failed(o.canary) => Health!Shows(o, "failed")
      /\ Health!Passed(o.canary) => Health!Shows(o, "healthy")
      /\ o.counts["admissions"] > 0 => Health!Shows(o, "healthy")
      /\ o.counts["completed"] > 0 => Health!Shows(o, "healthy")
  BY DEF Health!Shows
<1>6. ASSUME row' # None, row = None \/ Health!ResetWindow(row, at)
      PROVE  HealthInv'
  <2>1. /\ row'.started = at /\ row'.source = at /\ row'.counts = o.counts
        /\ row'.canary = o.canary
    BY <1>6 DEF Health!Record, Health!Upserted, Health!First, Health!CanaryKept
  <2>2. \A kind \in Health!Evidence : Health!Shows(o, kind) => Backed(kind)'
    BY <2>1, <1>1, <1>4 DEF Backed
  <2> QED  BY <2>1, <2>2, <1>1, <1>2, <1>3, <1>5 DEF HealthInv
<1>7. ASSUME row' # None, row # None, ~Health!ResetWindow(row, at)
      PROVE  HealthInv'
  <2>1. /\ row'.started = row.started /\ row'.source = at
        /\ row'.counts = Health!Added(row, o)
        /\ row'.canary = IF o.canary = Health!NoCanary THEN row.canary ELSE o.canary
    BY <1>7 DEF Health!Record, Health!Upserted, Health!CanaryKept
  <2>2. /\ row.started \in Nat /\ row.counts \in [Health!Counters -> Nat]
        /\ row.started <= at /\ at < row.started + HealthWindow
    BY <1>7, <1>1 DEF HealthInv, Health!ResetWindow
  <2>3. \A kind \in Health!Evidence : Backed(kind) \/ Health!Shows(o, kind) => Backed(kind)'
    BY <2>1, <2>2, <1>1, <1>4 DEF Backed
  <2>4. /\ row'.counts \in [Health!Counters -> Nat]
        /\ \A k \in Health!Counters : row'.counts[k] > 0 => row.counts[k] > 0 \/ o.counts[k] > 0
    BY <2>1, <2>2, <1>1, <1>2 DEF Health!Added, Health!Capped
  <2>5. /\ Health!Failed(row'.canary) => Backed("failed")'
        /\ Health!Passed(row'.canary) => Backed("healthy")'
    BY <2>1, <2>3, <1>5, <1>7 DEF HealthInv
  <2>6. \A k \in Health!Counters : row'.counts[k] > 0 => Backed("healthy")'
    BY <2>3, <2>4, <1>5, <1>7 DEF HealthInv, Health!Counters
  <2> QED  BY <2>1, <2>2, <2>4, <2>5, <2>6, <1>1, <1>3 DEF HealthInv, Health!Counters
<1>8. CASE row' = None  BY <1>8, <1>3 DEF HealthInv
<1> QED  BY <1>6, <1>7, <1>8

(* What a snapshot reports is backed near the time of its reader. *)
LEMMA HealthReports == HealthInv /\ Health!HealthAssumption => ReportHasEvidence
<1> SUFFICES ASSUME HealthInv, Health!HealthAssumption, NEW at \in Health!Times,
                    Health!Snapshot(row, at) \in Health!Evidence
             PROVE  \E e \in evidence[Health!Snapshot(row, at)] :
                      at - e < 2 * HealthWindow /\ e - at < HealthWindow
  BY DEF ReportHasEvidence, Health!ReportHasEvidence
<1> DEFINE kind == Health!Snapshot(row, at)
<1>1. at \in Nat /\ HealthWindow \in Nat \ {0}
  BY DEF Health!Times, Health!HealthAssumption
<1>2. /\ row # None /\ Health!Usable(row, at) /\ kind = Health!Status(row, at)
  BY DEF Health!Snapshot, Health!Evidence
<1>3. /\ row.started \in Nat /\ row.source \in Nat
      /\ row.source - row.started < HealthWindow /\ row.source <= at /\ row.started <= row.source
      /\ at - row.source <= HealthWindow
  BY <1>1, <1>2 DEF HealthInv, Health!Usable, Health!Status, Health!Evidence
<1>4. Backed(kind)
  BY <1>2 DEF Health!Status, Health!Evidence, HealthInv
<1>5. PICK e \in evidence[kind] : row.started <= e /\ e < row.started + HealthWindow
  BY <1>4 DEF Backed
<1>6. e \in Nat  BY <1>5 DEF HealthInv
<1>7. at - e < 2 * HealthWindow /\ e - at < HealthWindow
  BY <1>1, <1>3, <1>5, <1>6
<1> QED  BY <1>5, <1>7

(* A reader is told `healthy' or `failed' only on evidence of that kind near    *)
(* its own time, in whatever order late writes are applied. *)
(* (UPSERT_OBSERVATION, snapshotFromStoredRow)                               *)
THEOREM ReportsHaveEvidence == Health!Spec => []ReportHasEvidence
<1> USE SmallPartsAssumption
<1>1. HealthInv /\ [Health!Next]_(Health!vars) => HealthInv'
  <2>1. HealthInv /\ Health!Next => HealthInv'  BY HealthStep DEF Health!Next
  <2>2. HealthInv /\ UNCHANGED Health!vars => HealthInv'
    BY DEF HealthInv, Health!vars, Backed
  <2> QED  BY <2>1, <2>2
<1> QED  BY <1>1, HealthInit, HealthReports, PTL DEF Health!Spec

-----------------------------------------------------------------------------
(* Access budgets                                                           *)

(* The window of an instant contains it, and windows come in the order of time. *)
LEMMA WindowOrder ==
  ASSUME NEW W \in Nat \ {0}, NEW t \in Nat
  PROVE  /\ (t \div W) * W \in Nat
         /\ (t \div W) * W <= t /\ t < (t \div W) * W + W
         /\ \A u \in Nat : t <= u => (t \div W) * W <= (u \div W) * W
<1>1. \A u \in Nat : u \div W \in Nat /\ u % W \in 0..(W - 1) /\ u = W * (u \div W) + (u % W)
  OBVIOUS
<1>2. ASSUME NEW u \in Nat, t <= u, NEW p \in Nat, p = t \div W, NEW q \in Nat, q = u \div W
      PROVE  p * W <= q * W
  <2>1. p * W <= u /\ u < q * W + W  BY <1>1, <1>2
  <2>2. ~(p > q)
    <3> SUFFICES ASSUME p >= q + 1 PROVE FALSE  OBVIOUS
    <3>1. p * W >= (q + 1) * W  OBVIOUS
    <3> QED  BY <3>1, <2>1
  <2> QED  BY <2>2
<1>3. (t \div W) * W \in Nat /\ (t \div W) * W <= t /\ t < (t \div W) * W + W
  BY <1>1
<1> QED  BY <1>1, <1>2, <1>3

(* What is known of a row, and of the admissions in the current window: only a *)
(* row of that window can have admitted, and it has counted them all. *)
AccessRow(r) ==
  /\ r.start \in Nat /\ r.count \in Nat /\ r.count <= AccessLimit
  /\ r.start <= Access!WindowStart(now)

Timely(a) ==
  timely[a] > 0 => /\ a \in DOMAIN access /\ access[a].start = Access!WindowStart(now)
                   /\ timely[a] <= access[a].count

AccessInv ==
  /\ now \in Nat
  /\ \A c \in Slots : accessCall[c] # None =>
       accessCall[c].actor \in Servers /\ accessCall[c].at \in Nat /\ accessCall[c].at <= now
  /\ DOMAIN accessCall = Slots
  /\ IsFiniteSet(DOMAIN access) /\ Cardinality(DOMAIN access) <= AccessCapacity
  /\ \A a \in DOMAIN access : AccessRow(access[a])
  /\ timely \in [Servers -> Nat] /\ \A a \in Servers : Timely(a)
  /\ ~full

LEMMA AccessInit == Access!Init /\ Access!AccessBudgetAssumption => AccessInv
<1> SUFFICES ASSUME Access!Init, Access!AccessBudgetAssumption PROVE AccessInv
  OBVIOUS
<1>1. DOMAIN access = {}  BY DEF Access!Init
<1>2. IsFiniteSet(DOMAIN access) /\ Cardinality(DOMAIN access) = 0
  BY <1>1, FS_EmptySet
<1> QED
  BY <1>1, <1>2 DEF Access!Init, AccessInv, Timely, Access!AccessBudgetAssumption

(* The removal takes only rows that have ended, and one at least if there is any. *)
LEMMA AccessPurge ==
  ASSUME AccessInv, Access!AccessBudgetAssumption, NEW t \in Nat, t <= now,
         NEW A \in Access!Purges(t)
  PROVE  /\ DOMAIN A \subseteq DOMAIN access /\ IsFiniteSet(DOMAIN A)
         /\ Cardinality(DOMAIN A) \in Nat
         /\ Cardinality(DOMAIN A) <= AccessCapacity
         /\ \A a \in DOMAIN A : A[a] = access[a]
         /\ \A a \in DOMAIN access :
              access[a].start = Access!WindowStart(now) => a \in DOMAIN A
         /\ Cardinality(DOMAIN A) = AccessCapacity => Access!Ended(t) = {}
<1>1. PICK gone \in SUBSET Access!Ended(t) :
        /\ Cardinality(gone) = PurgeLimit \/ gone = Access!Ended(t)
        /\ A = [x \in DOMAIN access \ gone |-> access[x]]
  BY SameCardinality DEF Access!Purges, Access!Restrict
<1>2. DOMAIN A = DOMAIN access \ gone  BY <1>1
<1>3. /\ IsFiniteSet(DOMAIN A) /\ Cardinality(DOMAIN A) \in Nat
      /\ Cardinality(DOMAIN access) \in Nat
      /\ Cardinality(DOMAIN A) <= Cardinality(DOMAIN access)
  BY <1>2, FS_Subset, FS_CardinalityType DEF AccessInv
<1>4. AccessWindow \in Nat \ {0} /\ PurgeLimit \in Nat \ {0} /\ AccessCapacity \in Nat
  BY DEF Access!AccessBudgetAssumption
<1>5. ASSUME NEW a \in DOMAIN access, access[a].start = Access!WindowStart(now)
      PROVE  a \in DOMAIN A
  <2>1. now < access[a].start + AccessWindow
    BY <1>4, <1>5, WindowOrder DEF AccessInv, Access!WindowStart
  <2>2. access[a].start \in Nat /\ now \in Nat  BY DEF AccessInv, AccessRow
  <2>3. a \notin Access!Ended(t)  BY <2>1, <2>2, <1>4 DEF Access!Ended
  <2> QED  BY <2>3, <1>2
<1>6. ASSUME Access!Ended(t) # {} PROVE Cardinality(DOMAIN A) < AccessCapacity
  <2>1. gone # {}  BY <1>1, <1>4, <1>6, FS_EmptySet
  <2>2. PICK g \in gone : g \in DOMAIN access  BY <2>1 DEF Access!Ended
  <2>3. DOMAIN A \subseteq DOMAIN access \ {g}  BY <1>2
  <2>4. /\ IsFiniteSet(DOMAIN access \ {g})
        /\ Cardinality(DOMAIN access \ {g}) = Cardinality(DOMAIN access) - 1
    BY <2>2, FS_RemoveElement DEF AccessInv
  <2>5. Cardinality(DOMAIN A) <= Cardinality(DOMAIN access \ {g})
    BY <2>3, <2>4, FS_Subset
  <2> QED  BY <2>4, <2>5, <1>3, <1>4 DEF AccessInv
<1> QED  BY <1>1, <1>2, <1>3, <1>4, <1>5, <1>6 DEF AccessInv

(* A request removes, then spends in the window it began in; the row of the     *)
(* current window is neither removed nor replaced by that of an older one. *)
LEMMA AccessConsume ==
  ASSUME AccessInv, Access!AccessBudgetAssumption, NEW c \in Slots, Access!Consume(c),
         NEW t, t = accessCall[c].at, NEW a, a = accessCall[c].actor,
         NEW start, start = Access!WindowStart(t)
  PROVE  AccessInv'
<1>1. t \in Nat /\ t <= now /\ now \in Nat /\ a \in Servers /\ now' = now
  BY DEF AccessInv, Access!Consume
<1>2. /\ AccessWindow \in Nat \ {0} /\ AccessCapacity \in Nat \ {0}
      /\ AccessLimit \in Nat \ {0}
  BY DEF Access!AccessBudgetAssumption
<1>3. start \in Nat /\ Access!WindowStart(now) \in Nat /\ start <= Access!WindowStart(now)
  BY <1>1, <1>2, WindowOrder DEF Access!WindowStart
<1>4. PICK A \in Access!Purges(t) :
        IF a \notin DOMAIN A /\ Cardinality(DOMAIN A) >= AccessCapacity
        THEN /\ full' = (full \/ Access!Ended(t) # {}) /\ UNCHANGED <<access, timely>>
        ELSE /\ access' = IF Access!Spendable(A, a, start) THEN Access!Spent(A, a, start) ELSE A
             /\ timely' = IF Access!Spendable(A, a, start) /\ start = Access!WindowStart(now)
                          THEN [timely EXCEPT ![a] = @ + 1] ELSE timely
             /\ UNCHANGED full
  BY SameCardinality DEF Access!Consume
<1>5. /\ DOMAIN A \subseteq DOMAIN access /\ IsFiniteSet(DOMAIN A)
      /\ Cardinality(DOMAIN A) \in Nat /\ Cardinality(DOMAIN A) <= AccessCapacity
      /\ \A b \in DOMAIN A : A[b] = access[b]
      /\ \A b \in DOMAIN access : access[b].start = Access!WindowStart(now) => b \in DOMAIN A
      /\ Cardinality(DOMAIN A) = AccessCapacity => Access!Ended(t) = {}
  BY <1>1, AccessPurge
<1>6. /\ DOMAIN accessCall' = Slots
      /\ \A d \in Slots : accessCall'[d] # None => accessCall'[d] = accessCall[d]
  BY DEF AccessInv, Access!Consume
<1>7. CASE a \notin DOMAIN A /\ Cardinality(DOMAIN A) >= AccessCapacity
  <2>1. Access!Ended(t) = {}  BY <1>2, <1>5, <1>7
  <2>2. ~full' /\ access' = access /\ timely' = timely
    BY <2>1, <1>4, <1>7 DEF AccessInv
  <2> QED  BY <2>2, <1>1, <1>6 DEF AccessInv, AccessRow, Timely
<1>8. CASE ~Access!Spendable(A, a, start)
           /\ ~(a \notin DOMAIN A /\ Cardinality(DOMAIN A) >= AccessCapacity)
  <2>1. full' = full /\ access' = A /\ timely' = timely  BY <1>4, <1>8
  <2>2. \A b \in DOMAIN A : AccessRow(access[b])'
    BY <2>1, <1>1, <1>5 DEF AccessInv, AccessRow
  <2>3. \A b \in Servers : Timely(b)'  BY <2>1, <1>1, <1>5 DEF AccessInv, Timely
  <2> QED  BY <2>1, <2>2, <2>3, <1>1, <1>5, <1>6 DEF AccessInv
<1>9. CASE Access!Spendable(A, a, start)
           /\ ~(a \notin DOMAIN A /\ Cardinality(DOMAIN A) >= AccessCapacity)
  <2>1. /\ full' = full /\ access' = Access!Spent(A, a, start)
        /\ timely' = IF start = Access!WindowStart(now) THEN [timely EXCEPT ![a] = @ + 1]
                     ELSE timely
    BY <1>4, <1>9
  <2>2. DOMAIN access' = DOMAIN A \cup {a}  BY <2>1 DEF Access!Spent
  <2>3. /\ IsFiniteSet(DOMAIN access') /\ Cardinality(DOMAIN access') <= AccessCapacity
    <3>1. /\ IsFiniteSet(DOMAIN A \cup {a})
          /\ Cardinality(DOMAIN A \cup {a}) = IF a \in DOMAIN A THEN Cardinality(DOMAIN A)
                                             ELSE Cardinality(DOMAIN A) + 1
      BY <1>5, FS_AddElement
    <3> QED  BY <3>1, <2>2, <1>2, <1>5, <1>9
  <2>4. /\ \A b \in DOMAIN A \ {a} : access'[b] = access[b]
        /\ access'[a].start = start
        /\ access'[a].count = IF a \in DOMAIN A /\ access[a].start = start
                              THEN access[a].count + 1 ELSE 1
    BY <2>1, <1>5 DEF Access!Spent
  <2>5. /\ a \in DOMAIN A => AccessRow(access[a])
        /\ a \in DOMAIN A => access[a].start < start
                             \/ (access[a].start = start /\ access[a].count < AccessLimit)
    BY <1>5, <1>9 DEF AccessInv, Access!Spendable
  <2>6. \A b \in DOMAIN access' : AccessRow(access[b])'
    <3>1. AccessRow(access[a])'
      BY <2>4, <2>5, <1>1, <1>2, <1>3 DEF AccessRow
    <3>2. \A b \in DOMAIN A \ {a} : AccessRow(access[b])'
      BY <2>4, <1>1, <1>5 DEF AccessInv, AccessRow
    <3> QED  BY <3>1, <3>2, <2>2
  <2>7. timely' \in [Servers -> Nat]  BY <2>1, <1>1 DEF AccessInv
  <2>8. \A b \in Servers : Timely(b)'
    <3>1. \A b \in Servers \ {a} : Timely(b)'
      BY <2>1, <2>2, <2>4, <1>1, <1>5 DEF AccessInv, Timely
    <3>2. Timely(a)'
      <4>1. timely[a] \in Nat /\ Timely(a)  BY <1>1 DEF AccessInv
      <4>2. CASE start = Access!WindowStart(now)
        <5>1. timely'[a] = timely[a] + 1  BY <4>2, <2>1, <1>1 DEF AccessInv
        <5> QED  BY <5>1, <4>1, <4>2, <2>2, <2>4, <2>5, <1>1, <1>5 DEF Timely, AccessRow
      <4>3. CASE start # Access!WindowStart(now)
        <5>1. timely[a] = 0
          BY <4>1, <4>3, <2>5, <1>3, <1>5 DEF Timely, AccessRow
        <5> QED  BY <5>1, <4>3, <2>1 DEF Timely
      <4> QED  BY <4>2, <4>3
    <3> QED  BY <3>1, <3>2
  <2> QED  BY <2>1, <2>3, <2>6, <2>7, <2>8, <1>1, <1>6 DEF AccessInv
<1> QED  BY <1>7, <1>8, <1>9

(* Time only moves windows forward. *)
LEMMA AccessTick ==
  ASSUME AccessInv, Access!AccessBudgetAssumption, Access!Tick
  PROVE  AccessInv'
<1>1. now \in Nat /\ now' = now + 1 /\ access' = access /\ accessCall' = accessCall /\ full' = full
  BY DEF AccessInv, Access!Tick
<1>2. /\ Access!WindowStart(now) \in Nat /\ Access!WindowStart(now)' \in Nat
      /\ Access!WindowStart(now) <= Access!WindowStart(now)'
  BY <1>1, WindowOrder DEF Access!WindowStart, Access!AccessBudgetAssumption
<1>3. \A a \in DOMAIN access : AccessRow(access[a])'
  BY <1>1, <1>2 DEF AccessInv, AccessRow
<1>4. timely' \in [Servers -> Nat] /\ \A a \in Servers : Timely(a)'
  BY <1>1 DEF AccessInv, Access!Tick, Timely, Access!WindowStart
<1> QED  BY <1>1, <1>3, <1>4 DEF AccessInv

(* Late requests never widen the budget of the window they arrive in, and a     *)
(* full table turns nobody away while a row could be removed. *)
(* (consumeAccessBudget)                                                     *)
THEOREM AccessBudgetsHold == Access!Spec => []AccessBudgetHolds
<1> USE SmallPartsAssumption
<1>1. AccessInv /\ [Access!Next]_(Access!vars) => AccessInv'
  <2> SUFFICES ASSUME AccessInv, [Access!Next]_(Access!vars) PROVE AccessInv'
    OBVIOUS
  <2>1. ASSUME NEW c \in Slots, Access!Consume(c) PROVE AccessInv'
    <3>1. \E t, a, start : t = accessCall[c].at /\ a = accessCall[c].actor
                           /\ start = Access!WindowStart(t)
      OBVIOUS
    <3> QED  BY <2>1, <3>1, AccessConsume
  <2>2. ASSUME NEW c \in Slots, NEW a \in Servers, Access!Ask(c, a) PROVE AccessInv'
    BY <2>2 DEF Access!Ask, AccessInv, AccessRow, Timely
  <2>3. CASE Access!Tick  BY <2>3, AccessTick
  <2>4. CASE UNCHANGED Access!vars
    BY <2>4 DEF Access!vars, AccessInv, AccessRow, Timely, Access!WindowStart
  <2> QED  BY <2>1, <2>2, <2>3, <2>4 DEF Access!Next
<1>2. AccessInv => AccessBudgetHolds
  BY DEF AccessInv, Timely, AccessRow, AccessBudgetHolds, Access!AccessBudgetHolds,
         Access!AccessBudgetAssumption
<1> QED  BY <1>1, <1>2, AccessInit, PTL DEF Access!Spec

-----------------------------------------------------------------------------
(* Room admission                                                           *)

(* A ticket admitted within the window still has its row, and the row bears the *)
(* ticket's tag under one of the two keys of the ring. *)
Remembered(t) ==
  ticketAdmitted[t] # None /\ now - ticketAdmitted[t] < ReplayWindow =>
    \E r \in rows :
      /\ r.at = ticketAdmitted[t]
      /\ \/ r.current = Admission!Tag(key, t)
         \/ r.current = Admission!Tag(key - 1, t) /\ r.at <= rotated

AdmissionInv ==
  /\ now \in Nat /\ key \in Nat /\ rotated \in Nat /\ rotated <= now /\ open
  /\ ticketAdmitted \in [Tickets -> Nat \cup {None}]
  /\ IsFiniteSet(rows) /\ Admission!Intact(rows)
  /\ \A r \in rows : r.at \in Nat /\ r.at <= now
  /\ \A t \in Tickets : Remembered(t)

(* Pruning leaves finitely many rows, no others than before, and every row that *)
(* has not expired. *)
LEMMA Pruning ==
  ASSUME AdmissionInv, Admission!AdmissionAssumption
  PROVE  LET kept == Admission!Pruned(rows, now) IN
         /\ kept \subseteq rows /\ IsFiniteSet(kept) /\ Cardinality(kept) \in Nat
         /\ Admission!Intact(kept)
         /\ \A r \in rows : now - r.at < ReplayWindow => r \in kept
<1> DEFINE kept == Admission!Pruned(rows, now)
<1>1. kept \subseteq rows  BY DEF Admission!Pruned
<1>2. /\ IsFiniteSet(kept) /\ Cardinality(kept) \in Nat /\ Cardinality(rows) \in Nat
      /\ Cardinality(kept) <= Cardinality(rows)
  BY <1>1, FS_Subset, FS_CardinalityType DEF AdmissionInv
<1>3. Admission!Intact(kept)
  <2>1. Cardinality(rows) <= ReplayCapacity  BY SameCardinality DEF AdmissionInv, Admission!Intact
  <2>2. Cardinality(kept) <= ReplayCapacity
    BY <2>1, <1>2 DEF Admission!AdmissionAssumption
  <2>3. /\ \A r \in kept : r.current # r.previous
        /\ \A r, q \in kept : r # q => Admission!TagsOf(r) \cap Admission!TagsOf(q) = {}
    BY <1>1 DEF AdmissionInv, Admission!Intact
  <2> HIDE DEF kept
  <2> QED  BY <2>2, <2>3, SameCardinality DEF Admission!Intact
<1>4. ASSUME NEW r \in rows, now - r.at < ReplayWindow PROVE r \in kept
  <2>1. r \notin Admission!Expired(rows, now)
    BY <1>4 DEF Admission!Expired, AdmissionInv, Admission!AdmissionAssumption
  <2> QED  BY <2>1 DEF Admission!Pruned, Admission!Oldest
<1> QED  BY <1>1, <1>2, <1>3, <1>4

(* Rows that are a pruned set keep what the invariant says, as long as the ring *)
(* and the admissions stay. *)
LEMMA PrunedRemembers ==
  ASSUME AdmissionInv, Admission!AdmissionAssumption, rows' = Admission!Pruned(rows, now),
         UNCHANGED <<key, open, now, rotated, ticketAdmitted>>
  PROVE  AdmissionInv'
<1>1. /\ rows' \subseteq rows /\ IsFiniteSet(rows') /\ Admission!Intact(rows)'
      /\ \A r \in rows : now - r.at < ReplayWindow => r \in rows'
  BY Pruning DEF Admission!Intact, Admission!TagsOf
<1>2. \A t \in Tickets : Remembered(t)'
  BY <1>1 DEF AdmissionInv, Remembered, Admission!Tag
<1> QED  BY <1>1, <1>2 DEF AdmissionInv

(* A ticket that is claimed was unknown: its tags are in no other row, and it was *)
(* not admitted within the window. *)
LEMMA ClaimRemembers ==
  ASSUME AdmissionInv, Admission!AdmissionAssumption, NEW t \in Tickets,
         NEW kept, kept = Admission!Pruned(rows, now),
         Admission!Consumable(kept), ~Admission!Replayed(kept, t),
         rows' = Admission!Claimed(kept, t), ticketAdmitted' = [ticketAdmitted EXCEPT ![t] = now],
         UNCHANGED <<key, open, now, rotated>>
  PROVE  /\ AdmissionInv'
         /\ ticketAdmitted[t] # None => now - ticketAdmitted[t] >= ReplayWindow
<1> DEFINE new == [id |-> Admission!NextId(kept), at |-> now,
                   current |-> Admission!Tag(key, t), previous |-> Admission!Tag(key - 1, t)]
<1>1. /\ kept \subseteq rows /\ IsFiniteSet(kept) /\ Cardinality(kept) \in Nat
      /\ Admission!Intact(kept)
      /\ \A r \in rows : now - r.at < ReplayWindow => r \in kept
  BY Pruning
<1>2. rows' = kept \cup {new}  BY DEF Admission!Claimed
<1>3. /\ new.at = now /\ new.current = Admission!Tag(key, t)
      /\ new.previous = Admission!Tag(key - 1, t)
  OBVIOUS
<1> HIDE DEF new
<1>4. ReplayCapacity \in Nat /\ ReplayWindow \in Nat \ {0} /\ now \in Nat /\ key \in Nat
  BY DEF Admission!AdmissionAssumption, AdmissionInv
<1>5. /\ IsFiniteSet(rows') /\ Cardinality(rows') <= ReplayCapacity
  <2>1. Cardinality(kept) < ReplayCapacity
    BY SameCardinality DEF Admission!Consumable
  <2>2. /\ IsFiniteSet(rows')
        /\ Cardinality(rows') = IF new \in kept THEN Cardinality(kept) ELSE Cardinality(kept) + 1
    BY <1>1, <1>2, FS_AddElement
  <2> QED  BY <2>1, <2>2, <1>1, <1>4
<1>6. \A r \in kept : Admission!TagsOf(r) \cap Admission!TagsOf(new) = {}
  BY <1>3 DEF Admission!Replayed, Admission!TagsOf
<1>7. new.current # new.previous  BY <1>3, <1>4 DEF Admission!Tag
<1>8. Admission!Intact(rows)'
  <2>1. \A r \in rows' : r.current # r.previous  BY <1>1, <1>2, <1>7 DEF Admission!Intact
  <2>2. \A r, q \in rows' : r # q => Admission!TagsOf(r) \cap Admission!TagsOf(q) = {}
    BY <1>1, <1>2, <1>6 DEF Admission!Intact
  <2> QED  BY <2>1, <2>2, <1>5, SameCardinality DEF Admission!Intact, Admission!TagsOf
<1>9. \A u \in Tickets : Remembered(u)'
  <2>1. Remembered(t)'
    BY <1>2, <1>3 DEF AdmissionInv, Remembered
  <2>2. \A u \in Tickets \ {t} : Remembered(u)'
    BY <1>1, <1>2 DEF AdmissionInv, Remembered
  <2> QED  BY <2>1, <2>2
<1>10. ticketAdmitted[t] # None => now - ticketAdmitted[t] >= ReplayWindow
  <2> SUFFICES ASSUME ticketAdmitted[t] # None, now - ticketAdmitted[t] < ReplayWindow
               PROVE  FALSE
    BY <1>4 DEF AdmissionInv
  <2>1. PICK r \in rows : /\ r.at = ticketAdmitted[t]
                          /\ r.current \in {Admission!Tag(key, t), Admission!Tag(key - 1, t)}
    BY DEF AdmissionInv, Remembered
  <2> QED  BY <2>1, <1>1 DEF Admission!Replayed, Admission!TagsOf
<1>11. \A r \in rows' : r.at \in Nat /\ r.at <= now
  BY <1>1, <1>2, <1>3, <1>4 DEF AdmissionInv
<1> QED  BY <1>5, <1>8, <1>9, <1>10, <1>11, <1>4 DEF AdmissionInv

(* A second rotation comes when whatever the pair before it admitted is over. *)
LEMMA RotationRemembers ==
  ASSUME AdmissionInv, Admission!AdmissionAssumption, Admission!Reconstruct
  PROVE  AdmissionInv'
<1>1. /\ rows' = rows /\ now' = now /\ ticketAdmitted' = ticketAdmitted
      /\ open' = Admission!Intact(rows)
  BY DEF Admission!Reconstruct
<1>2. open' /\ Admission!Intact(rows)'
  BY <1>1 DEF AdmissionInv, Admission!Intact, Admission!TagsOf
<1>3. CASE UNCHANGED <<key, rotated>>
  BY <1>1, <1>2, <1>3 DEF AdmissionInv, Remembered, Admission!Tag
<1>4. CASE now - rotated > ReplayWindow /\ key' = key + 1 /\ rotated' = now
  <2>1. ASSUME NEW t \in Tickets PROVE Remembered(t)'
    <3> SUFFICES ASSUME ticketAdmitted[t] # None, now - ticketAdmitted[t] < ReplayWindow
                 PROVE  \E r \in rows : /\ r.at = ticketAdmitted[t]
                                        /\ r.current = Admission!Tag(key' - 1, t) /\ r.at <= now
      BY <1>1, <1>4 DEF Remembered, Admission!Tag
    <3>1. PICK r \in rows : /\ r.at = ticketAdmitted[t]
                            /\ \/ r.current = Admission!Tag(key, t)
                               \/ r.current = Admission!Tag(key - 1, t) /\ r.at <= rotated
      BY DEF AdmissionInv, Remembered
    <3>2. r.at \in Nat /\ r.at <= now /\ ~(r.at <= rotated)
      BY <3>1, <1>4 DEF AdmissionInv, Admission!AdmissionAssumption
    <3>3. key' - 1 = key  BY <1>4 DEF AdmissionInv
    <3> QED  BY <3>1, <3>2, <3>3
  <2> QED  BY <2>1, <1>1, <1>2, <1>4 DEF AdmissionInv
<1> QED  BY <1>3, <1>4 DEF Admission!Reconstruct

(* The step of the property, from the invariant. *)
Refused ==
  /\ \A t \in Tickets :
       ticketAdmitted'[t] # ticketAdmitted[t] /\ ticketAdmitted[t] # None =>
         now - ticketAdmitted[t] >= ReplayWindow
  /\ open'

LEMMA AdmissionStep ==
  ASSUME AdmissionInv, Admission!AdmissionAssumption, Admission!Next
  PROVE  AdmissionInv' /\ Refused
<1>1. ASSUME NEW t \in Tickets, Admission!ConsumeAndClaim(t)
      PROVE  AdmissionInv' /\ Refused
  <2> DEFINE kept == Admission!Pruned(rows, now)
  <2>1. UNCHANGED <<key, open, now, rotated>>  BY <1>1 DEF Admission!ConsumeAndClaim
  <2>2. CASE Admission!Consumable(kept) /\ ~Admission!Replayed(kept, t)
    <3>1. rows' = Admission!Claimed(kept, t) /\ ticketAdmitted' = [ticketAdmitted EXCEPT ![t] = now]
      BY <1>1, <2>2 DEF Admission!ConsumeAndClaim
    <3>2. /\ AdmissionInv'
          /\ ticketAdmitted[t] # None => now - ticketAdmitted[t] >= ReplayWindow
      BY <2>1, <2>2, <3>1, ClaimRemembers
    <3> QED  BY <3>1, <3>2, <2>1 DEF Refused, AdmissionInv
  <2>3. CASE ~(Admission!Consumable(kept) /\ ~Admission!Replayed(kept, t))
    <3>1. rows' = kept /\ ticketAdmitted' = ticketAdmitted
      BY <1>1, <2>3 DEF Admission!ConsumeAndClaim
    <3> QED  BY <3>1, <2>1, PrunedRemembers DEF Refused, AdmissionInv
  <2> QED  BY <2>2, <2>3
<1>2. CASE Admission!Prune
  BY <1>2, PrunedRemembers DEF Admission!Prune, Refused, AdmissionInv
<1>3. CASE Admission!Reconstruct
  BY <1>3, RotationRemembers DEF Admission!Reconstruct, Refused, AdmissionInv
<1>4. CASE Admission!Tick
  <2>1. now' = now + 1 /\ UNCHANGED <<rows, key, open, rotated, ticketAdmitted>> /\ now \in Nat
    BY <1>4 DEF Admission!Tick, AdmissionInv
  <2>2. \A t \in Tickets : Remembered(t)'
    <3> SUFFICES ASSUME NEW t \in Tickets PROVE Remembered(t)'
      OBVIOUS
    <3>1. /\ Remembered(t) /\ ReplayWindow \in Nat
          /\ ticketAdmitted[t] # None => ticketAdmitted[t] \in Nat
      BY DEF AdmissionInv, Admission!AdmissionAssumption
    <3> QED  BY <3>1, <2>1 DEF Remembered, Admission!Tag
  <2> QED  BY <2>1, <2>2 DEF AdmissionInv, Refused, Admission!Intact, Admission!TagsOf
<1> QED  BY <1>1, <1>2, <1>3, <1>4 DEF Admission!Next

(* An admitted ticket is not admitted again within the window, across pruning,  *)
(* reconstruction and rotation of the keys, and no admission leaves rows that a *)
(* later construction refuses.  (consumeAndClaim)                            *)
THEOREM ReplaysAreRefused == Admission!Spec => ReplayRefused
<1> USE SmallPartsAssumption
<1>1. Admission!Init => AdmissionInv
  <2> SUFFICES ASSUME Admission!Init PROVE AdmissionInv
    OBVIOUS
  <2>1. rows = {} /\ IsFiniteSet(rows) /\ Cardinality(rows) = 0
    BY FS_EmptySet DEF Admission!Init
  <2> QED
    BY <2>1, SameCardinality DEF Admission!Init, AdmissionInv, Remembered, Admission!Intact,
                                 Admission!AdmissionAssumption
<1>2. AdmissionInv /\ [Admission!Next]_(Admission!vars) => AdmissionInv'
  <2>1. ASSUME AdmissionInv, UNCHANGED Admission!vars PROVE AdmissionInv'
    <3>1. \A t \in Tickets : Remembered(t)'
      BY <2>1 DEF Admission!vars, AdmissionInv, Remembered, Admission!Tag
    <3>2. Admission!Intact(rows)'
      BY <2>1 DEF Admission!vars, AdmissionInv, Admission!Intact, Admission!TagsOf
    <3> QED  BY <2>1, <3>1, <3>2 DEF Admission!vars, AdmissionInv
  <2> QED  BY <2>1, AdmissionStep
<1>3. AdmissionInv /\ [Admission!Next]_(Admission!vars) => [Refused]_(Admission!vars)
  BY AdmissionStep
<1>4. Admission!Spec => [][Refused]_(Admission!vars)
  BY <1>1, <1>2, <1>3, PTL DEF Admission!Spec
<1> QED  BY <1>4 DEF ReplayRefused, Admission!ReplayRefused, Refused

-----------------------------------------------------------------------------
(* Directory reconciliation                                                 *)

CallFields ==
  {"step", "result", "seen", "todo", "revision", "again", "whole", "settled"}

(* The directory: no committed or pending build is of a revision not yet there. *)
DirectoryInv ==
  /\ revision \in Nat /\ checkpoint.gen \in Nat
  /\ checkpoint.rev \in Nat /\ checkpoint.rev <= revision
  /\ pending # None => pending.gen \in Nat /\ pending.rev \in Nat /\ pending.rev <= revision
  /\ DOMAIN alias = Reconciliation!Files

(* Since the checkpoint was first read, it was only ever replaced by a newer one. *)
SeenInv ==
  /\ proof.seen.gen \in Nat /\ proof.seen.rev \in Nat
  /\ proof.seen.rev <= revision /\ proof.seen.gen <= checkpoint.gen
  /\ checkpoint.gen = proof.seen.gen => checkpoint = proof.seen

(* An alias that was missing then is still missing, and still to be read. *)
Missing(i) == ~Reconciliation!Public(proof.todo[i], proof.seen.gen)
AliasInv ==
  /\ proof.todo \in Seq(Reconciliation!Files) /\ Len(proof.todo) > 0
  /\ proof.whole \/ \E i \in 1..Len(proof.todo) : Missing(i)

(* What the fence has read: the first of its two reads that agrees with the     *)
(* checkpoint seen either finds everything settled, or finds the other of the   *)
(* two past it for good. *)
FenceInv ==
  /\ ~proof.settled /\ proof.revision # None /\ proof.revision = proof.seen.rev =>
       checkpoint.gen > proof.seen.gen
  /\ ~proof.settled /\ proof.again # None /\ proof.again = proof.seen =>
       revision > proof.seen.rev
  /\ proof.revision # None /\ proof.again # None /\ Reconciliation!Unchanged(proof) => proof.settled

ProofInv ==
  /\ DOMAIN proof = CallFields /\ proof.settled \in BOOLEAN
  /\ proof.step \in {"build", "checkpoint"} => ~proof.settled /\ proof.revision = None /\ proof.again = None
  /\ proof.step \in {"alias", "manifest"} => ~proof.settled /\ proof.revision = None /\ proof.again = None
  /\ proof.step \in {"alias", "manifest", "fence"} => SeenInv
  /\ proof.step = "alias" => AliasInv
  /\ proof.step \in {"manifest", "fence"} => proof.whole
  /\ proof.step = "fence" => FenceInv
  /\ proof.step = "ok" => proof.whole /\ proof.settled

ReconciliationInv == DirectoryInv /\ ProofInv

(* The directory's own steps: revisions and generations only grow, and no alias *)
(* of a generation that is committed is put again. *)
DirectoryStep ==
  \/ Reconciliation!Publish \/ Reconciliation!Commit \/ Reconciliation!Tick
  \/ \E gen \in 1..MaxGeneration : Reconciliation!Reserve(gen)
  \/ \E f \in Reconciliation!Files : Reconciliation!PutAlias(f) \/ Reconciliation!Damage(f)

LEMMA DirectoryGrows ==
  ASSUME DirectoryInv, Reconciliation!ReconciliationAssumption, DirectoryStep
  PROVE  /\ DirectoryInv' /\ proof' = proof
         /\ revision <= revision'
         /\ checkpoint' = checkpoint \/ checkpoint.gen < checkpoint'.gen
         /\ \A f, gen : gen \in Nat /\ gen <= checkpoint.gen /\ ~Reconciliation!Public(f, gen) =>
              ~Reconciliation!Public(f, gen)'
<1>1. CASE Reconciliation!Publish
  BY <1>1 DEF Reconciliation!Publish, DirectoryInv, Reconciliation!Public
<1>2. CASE Reconciliation!Commit
  BY <1>2 DEF Reconciliation!Commit, DirectoryInv, Reconciliation!Public
<1>3. CASE Reconciliation!Tick
  BY <1>3 DEF Reconciliation!Tick, DirectoryInv, Reconciliation!Public
<1>4. ASSUME NEW gen \in 1..MaxGeneration, Reconciliation!Reserve(gen)
      PROVE  /\ DirectoryInv' /\ UNCHANGED <<proof, revision, checkpoint, alias>>
  BY <1>4 DEF Reconciliation!Reserve, DirectoryInv, Reconciliation!ReconciliationAssumption
<1>5. ASSUME NEW f \in Reconciliation!Files, Reconciliation!PutAlias(f)
      PROVE  /\ DirectoryInv' /\ UNCHANGED <<proof, revision, checkpoint>>
             /\ \A g, gen : gen \in Nat /\ gen <= checkpoint.gen /\ ~Reconciliation!Public(g, gen) =>
                  ~Reconciliation!Public(g, gen)'
  <2>1. /\ UNCHANGED <<proof, revision, checkpoint, pending>> /\ pending # None
        /\ checkpoint.gen < pending.gen
        /\ alias' = [alias EXCEPT ![f] = [gen |-> pending.gen, at |-> now]]
    BY <1>5 DEF Reconciliation!PutAlias
  <2>2. DirectoryInv'  BY <2>1 DEF DirectoryInv
  <2>3. ASSUME NEW g, NEW gen \in Nat, gen <= checkpoint.gen, ~Reconciliation!Public(g, gen)
        PROVE  ~(alias'[g] # None /\ alias'[g].gen = gen)
    <3>1. CASE g = f  BY <3>1, <2>1, <2>3 DEF DirectoryInv
    <3>2. CASE g # f  BY <3>2, <2>1, <2>3 DEF DirectoryInv, Reconciliation!Public
    <3> QED  BY <3>1, <3>2
  <2> QED  BY <2>1, <2>2, <2>3 DEF Reconciliation!Public
<1>6. ASSUME NEW f \in Reconciliation!Files, Reconciliation!Damage(f)
      PROVE  /\ DirectoryInv' /\ UNCHANGED <<proof, revision, checkpoint>>
             /\ \A g, gen : ~Reconciliation!Public(g, gen) => ~Reconciliation!Public(g, gen)'
  BY <1>6 DEF Reconciliation!Damage, DirectoryInv, Reconciliation!Public
<1>7. CASE \E gen \in 1..MaxGeneration : Reconciliation!Reserve(gen)
  BY <1>4, <1>7 DEF Reconciliation!Public, DirectoryInv
<1>8. CASE \E f \in Reconciliation!Files : Reconciliation!PutAlias(f) \/ Reconciliation!Damage(f)
  BY <1>5, <1>6, <1>8 DEF DirectoryInv
<1> QED  BY <1>1, <1>2, <1>3, <1>7, <1>8 DEF DirectoryStep

(* What the reconciliation has read stays true while the directory moves on. *)
LEMMA ProofSurvives ==
  ASSUME ReconciliationInv, Reconciliation!ReconciliationAssumption, DirectoryStep
  PROVE  ReconciliationInv'
<1>1. /\ DirectoryInv' /\ proof' = proof /\ revision <= revision'
      /\ checkpoint' = checkpoint \/ checkpoint.gen < checkpoint'.gen
      /\ \A f, gen : gen \in Nat /\ gen <= checkpoint.gen /\ ~Reconciliation!Public(f, gen) =>
           ~Reconciliation!Public(f, gen)'
  BY DirectoryGrows DEF ReconciliationInv
<1>2. /\ revision \in Nat /\ revision' \in Nat
      /\ checkpoint.gen \in Nat /\ checkpoint'.gen \in Nat
  BY <1>1 DEF ReconciliationInv, DirectoryInv
<1>3. ASSUME SeenInv PROVE SeenInv'  BY <1>1, <1>2, <1>3 DEF SeenInv
<1>4. ASSUME SeenInv, AliasInv PROVE AliasInv'
  BY <1>1, <1>4 DEF SeenInv, AliasInv, Missing, Reconciliation!Files
<1>5. ASSUME SeenInv, FenceInv PROVE FenceInv'
  BY <1>1, <1>2, <1>5 DEF SeenInv, FenceInv, Reconciliation!Unchanged
<1> QED  BY <1>1, <1>3, <1>4, <1>5 DEF ReconciliationInv, ProofInv

(* The reconciliation's own steps read the directory and change nothing of it. *)
LEMMA DirectoryStands ==
  ASSUME DirectoryInv, UNCHANGED Reconciliation!directory
  PROVE  DirectoryInv'
BY DEF DirectoryInv, Reconciliation!directory, Reconciliation!Files

(* A read that fails ends the reconciliation. *)
LEMMA FailedKeeps ==
  ASSUME ProofInv, proof' = [proof EXCEPT !.step = "failed"]
  PROVE  ProofInv'
BY DEF ProofInv, CallFields

(* The first read of the checkpoint, with every alias to be read. *)
LEMMA CheckpointRead ==
  ASSUME ReconciliationInv, Reconciliation!ReconciliationAssumption, Reconciliation!ReadCheckpoint
  PROVE  ProofInv'
<1>1. UNCHANGED <<revision, checkpoint, pending, alias, now>>
  BY DEF Reconciliation!ReadCheckpoint, Reconciliation!Continue, Reconciliation!directory
<1>2. CASE proof' = [proof EXCEPT !.step = "failed"]
  BY <1>2, FailedKeeps DEF ReconciliationInv
<1>3. CASE proof' = [proof EXCEPT !.step = "alias", !.seen = checkpoint, !.todo = AliasOrder,
                                  !.whole = Reconciliation!Whole(checkpoint.gen)]
  <2>1. /\ DOMAIN proof' = CallFields /\ proof'.step = "alias" /\ proof'.seen = checkpoint
        /\ proof'.todo = AliasOrder /\ proof'.whole = Reconciliation!Whole(checkpoint.gen)
        /\ proof'.settled = proof.settled /\ proof'.revision = proof.revision
        /\ proof'.again = proof.again
    BY <1>3 DEF ReconciliationInv, ProofInv, CallFields
  <2>2. SeenInv'  BY <1>1, <2>1 DEF ReconciliationInv, DirectoryInv, SeenInv
  <2>3. AliasInv'
    <3>1. AliasOrder \in Seq(Reconciliation!Files) /\ Len(AliasOrder) > 0
      BY DEF Reconciliation!ReconciliationAssumption
    <3>2. Reconciliation!Whole(checkpoint.gen)
          \/ \E i \in 1..Len(AliasOrder) : ~Reconciliation!Public(AliasOrder[i], checkpoint.gen)
      BY DEF Reconciliation!Whole, Reconciliation!Files
    <3> QED  BY <1>1, <2>1, <3>1, <3>2 DEF AliasInv, Missing, Reconciliation!Public, Reconciliation!Files
  <2> QED  BY <2>1, <2>2, <2>3 DEF ReconciliationInv, ProofInv, Reconciliation!ReadCheckpoint
<1> QED  BY <1>2, <1>3 DEF Reconciliation!ReadCheckpoint, Reconciliation!Continue

(* An alias that is read was not the missing one; after the last none is missing. *)
LEMMA AliasRead ==
  ASSUME ReconciliationInv, NEW f \in Reconciliation!Files, Reconciliation!HeadAlias(f)
  PROVE  ProofInv'
<1>1. UNCHANGED <<revision, checkpoint, pending, alias, now>> /\ proof.step = "alias"
  BY DEF Reconciliation!HeadAlias, Reconciliation!Continue, Reconciliation!directory
<1>2. CASE proof' = [proof EXCEPT !.step = "failed"]
  BY <1>2, FailedKeeps DEF ReconciliationInv
<1>3. CASE proof' = Reconciliation!AfterAlias
           /\ Reconciliation!Public(Head(proof.todo), proof.seen.gen)
  <2>1. /\ DOMAIN proof' = CallFields
        /\ proof'.step = (IF Len(proof.todo) > 1 THEN "alias" ELSE "manifest")
        /\ proof'.todo = Tail(proof.todo) /\ proof'.seen = proof.seen
        /\ proof'.whole = proof.whole /\ proof'.settled = proof.settled
        /\ proof'.revision = proof.revision /\ proof'.again = proof.again
    BY <1>3 DEF Reconciliation!AfterAlias, ReconciliationInv, ProofInv, CallFields
  <2>2. /\ proof.todo \in Seq(Reconciliation!Files) /\ Len(proof.todo) > 0 /\ SeenInv /\ AliasInv
    BY <1>1 DEF ReconciliationInv, ProofInv, AliasInv
  <2>3. SeenInv'  BY <1>1, <2>1, <2>2 DEF SeenInv
  <2>4. ~Missing(1)  BY <1>3, <2>2 DEF Missing
  <2>5. proof.whole \/ \E i \in 2..Len(proof.todo) : Missing(i)
    BY <2>2, <2>4 DEF AliasInv
  <2>6. /\ Tail(proof.todo) \in Seq(Reconciliation!Files)
        /\ Len(Tail(proof.todo)) = Len(proof.todo) - 1
        /\ \A i \in 2..Len(proof.todo) : Tail(proof.todo)[i - 1] = proof.todo[i]
    BY <2>2
  <2>7. CASE Len(proof.todo) > 1
    <3>1. ASSUME NEW i \in 2..Len(proof.todo), Missing(i)
          PROVE  i - 1 \in 1..Len(proof'.todo) /\ Missing(i - 1)'
      BY <3>1, <1>1, <2>1, <2>6, <2>2 DEF Missing, Reconciliation!Public
    <3>2. Len(proof'.todo) > 0  BY <2>1, <2>2, <2>6, <2>7
    <3>3. AliasInv'  BY <2>1, <2>5, <2>6, <3>1, <3>2 DEF AliasInv, Reconciliation!Files
    <3> QED  BY <1>1, <2>1, <2>3, <2>7, <3>3 DEF ReconciliationInv, ProofInv
  <2>8. CASE ~(Len(proof.todo) > 1)
    <3>1. proof.whole  BY <2>5, <2>2, <2>8
    <3> QED  BY <1>1, <2>1, <2>3, <2>8, <3>1 DEF ReconciliationInv, ProofInv
  <2> QED  BY <2>7, <2>8
<1> QED  BY <1>2, <1>3 DEF Reconciliation!HeadAlias, Reconciliation!Continue

(* The two reads of the fence and the answer. *)
LEMMA FenceRead ==
  ASSUME ReconciliationInv,
         \/ Reconciliation!RereadRevision \/ Reconciliation!RereadCheckpoint
         \/ Reconciliation!Answer
  PROVE  ProofInv'
<1>1. UNCHANGED <<revision, checkpoint, pending, alias, now>> /\ proof.step = "fence"
  BY DEF Reconciliation!RereadRevision, Reconciliation!RereadCheckpoint, Reconciliation!Answer,
         Reconciliation!Continue, Reconciliation!directory
<1>2. /\ SeenInv /\ FenceInv /\ proof.whole /\ DOMAIN proof = CallFields
      /\ proof.settled \in BOOLEAN
      /\ revision \in Nat /\ checkpoint.gen \in Nat
      /\ proof.seen.rev \in Nat /\ proof.seen.gen \in Nat
  BY <1>1 DEF ReconciliationInv, ProofInv, DirectoryInv, SeenInv
<1>3. CASE Reconciliation!RereadRevision
  <2>1. /\ DOMAIN proof' = CallFields /\ proof'.step = "fence" /\ proof'.revision = revision
        /\ proof'.settled = Reconciliation!Settled /\ proof'.again = proof.again
        /\ proof'.seen = proof.seen /\ proof'.whole = proof.whole
    BY <1>1, <1>2, <1>3 DEF Reconciliation!RereadRevision, Reconciliation!Continue, CallFields
  <2>6. proof'.settled \in BOOLEAN  BY <2>1, <1>2 DEF Reconciliation!Settled
  <2>2. SeenInv'  BY <1>1, <1>2, <2>1 DEF SeenInv
  <2>3. ASSUME ~proof'.settled
        PROVE  /\ ~proof.settled
               /\ proof'.revision = proof.seen.rev => checkpoint.gen > proof.seen.gen
    <3>1. ~Reconciliation!Settled  BY <2>1, <2>3
    <3> QED  BY <3>1, <1>2, <2>1 DEF SeenInv, Reconciliation!Settled
  <2>4. ASSUME ~proof'.settled, proof.again # None, proof.again = proof.seen
        PROVE  revision > proof.seen.rev
    BY <1>2, <2>3, <2>4 DEF FenceInv
  <2>5. FenceInv'
    BY <1>1, <1>2, <2>1, <2>3, <2>4 DEF FenceInv, Reconciliation!Unchanged
  <2> QED  BY <1>2, <2>1, <2>6, <2>2, <2>5 DEF ProofInv
<1>4. CASE Reconciliation!RereadCheckpoint
  <2>1. /\ DOMAIN proof' = CallFields /\ proof'.step = "fence" /\ proof'.again = checkpoint
        /\ proof'.settled = Reconciliation!Settled /\ proof'.revision = proof.revision
        /\ proof'.seen = proof.seen /\ proof'.whole = proof.whole
    BY <1>1, <1>2, <1>4 DEF Reconciliation!RereadCheckpoint, Reconciliation!Continue, CallFields
  <2>6. proof'.settled \in BOOLEAN  BY <2>1, <1>2 DEF Reconciliation!Settled
  <2>2. SeenInv'  BY <1>1, <1>2, <2>1 DEF SeenInv
  <2>3. ASSUME ~proof'.settled
        PROVE  /\ ~proof.settled
               /\ checkpoint = proof.seen => revision > proof.seen.rev
    <3>1. ~Reconciliation!Settled  BY <2>1, <2>3
    <3> QED  BY <3>1, <1>2, <2>1 DEF SeenInv, Reconciliation!Settled
  <2>4. ASSUME ~proof'.settled, proof.revision # None, proof.revision = proof.seen.rev
        PROVE  checkpoint.gen > proof.seen.gen
    BY <1>2, <2>3, <2>4 DEF FenceInv
  <2>5. FenceInv'
    BY <1>1, <1>2, <2>1, <2>3, <2>4 DEF FenceInv, Reconciliation!Unchanged
  <2> QED  BY <1>2, <2>1, <2>6, <2>2, <2>5 DEF ProofInv
<1>5. CASE Reconciliation!Answer
  <2>1. \/ proof' = [proof EXCEPT !.step = "failed"]
        \/ /\ proof' = [proof EXCEPT !.step = "ok"] /\ Reconciliation!Unchanged(proof)
           /\ proof.revision # None /\ proof.again # None
    BY <1>5 DEF Reconciliation!Answer, Reconciliation!Continue
  <2> QED  BY <2>1, <1>2, FailedKeeps DEF ReconciliationInv, ProofInv, FenceInv, CallFields
<1> QED  BY <1>3, <1>4, <1>5

LEMMA ReconciliationStep ==
  ASSUME ReconciliationInv, Reconciliation!ReconciliationAssumption, Reconciliation!Next
  PROVE  ReconciliationInv'
<1>1. CASE DirectoryStep  BY <1>1, ProofSurvives
<1>2. CASE Reconciliation!Request
  <2>1. proof' = Reconciliation!Start /\ UNCHANGED Reconciliation!directory
    BY <1>2 DEF Reconciliation!Request
  <2>2. ProofInv'  BY <2>1 DEF Reconciliation!Start, ProofInv, CallFields
  <2> QED  BY <2>1, <2>2, DirectoryStands DEF ReconciliationInv
<1>3. CASE Reconciliation!Reconcile
  <2>1. \/ proof' = [proof EXCEPT !.step = "failed"]
        \/ proof' = [proof EXCEPT !.step = "checkpoint", !.result = checkpoint]
    BY <1>3 DEF Reconciliation!Reconcile, Reconciliation!Continue
  <2>2. UNCHANGED Reconciliation!directory /\ proof.step = "build"
    BY <1>3 DEF Reconciliation!Reconcile, Reconciliation!Continue
  <2>3. ProofInv'
    BY <2>1, <2>2, FailedKeeps DEF ReconciliationInv, ProofInv, CallFields
  <2> QED  BY <2>2, <2>3, DirectoryStands DEF ReconciliationInv
<1>4. CASE Reconciliation!ReadCheckpoint
  BY <1>4, CheckpointRead, DirectoryStands
     DEF ReconciliationInv, Reconciliation!ReadCheckpoint, Reconciliation!Continue
<1>5. ASSUME NEW f \in Reconciliation!Files, Reconciliation!HeadAlias(f) PROVE ReconciliationInv'
  BY <1>5, AliasRead, DirectoryStands
     DEF ReconciliationInv, Reconciliation!HeadAlias, Reconciliation!Continue
<1>6. CASE Reconciliation!GetManifest
  <2>1. \/ proof' = [proof EXCEPT !.step = "failed"]
        \/ proof' = [proof EXCEPT !.step = "fence"]
    BY <1>6 DEF Reconciliation!GetManifest, Reconciliation!Continue
  <2>2. UNCHANGED Reconciliation!directory /\ proof.step = "manifest"
    BY <1>6 DEF Reconciliation!GetManifest, Reconciliation!Continue
  <2>3. ASSUME proof' = [proof EXCEPT !.step = "fence"] PROVE ProofInv'
    <3>1. SeenInv'
      BY <2>2, <2>3 DEF ReconciliationInv, ProofInv, CallFields, SeenInv, Reconciliation!directory
    <3> QED  BY <2>2, <2>3, <3>1 DEF ReconciliationInv, ProofInv, CallFields, FenceInv
  <2> QED  BY <2>1, <2>2, <2>3, FailedKeeps, DirectoryStands DEF ReconciliationInv
<1>7. CASE Reconciliation!RereadRevision \/ Reconciliation!RereadCheckpoint
           \/ Reconciliation!Answer
  <2>1. UNCHANGED Reconciliation!directory
    BY <1>7 DEF Reconciliation!RereadRevision, Reconciliation!RereadCheckpoint,
                Reconciliation!Answer, Reconciliation!Continue
  <2> QED  BY <1>7, <2>1, FenceRead, DirectoryStands DEF ReconciliationInv
<1> QED
  BY <1>1, <1>2, <1>3, <1>4, <1>5, <1>6, <1>7 DEF Reconciliation!Next, DirectoryStep

(* A success of the reconciliation proves a published directory, although no two *)
(* of its reads are of the same instant: its aliases were public together when   *)
(* the checkpoint was first read, and after the last alias was read there was a  *)
(* moment with nothing left to publish. *)
(* (handleDirectoryReconciliationRequest)                                    *)
THEOREM SuccessProvesDirectory == Reconciliation!Spec => []ReconciliationProves
<1> USE SmallPartsAssumption
<1>1. Reconciliation!Init => ReconciliationInv
  BY DEF Reconciliation!Init, Reconciliation!Start, ReconciliationInv, DirectoryInv, ProofInv,
         CallFields
<1>2. ReconciliationInv /\ [Reconciliation!Next]_(Reconciliation!vars) => ReconciliationInv'
  <2>1. ASSUME ReconciliationInv, UNCHANGED Reconciliation!vars PROVE ReconciliationInv'
    <3>1. proof' = proof /\ UNCHANGED Reconciliation!directory
      BY <2>1 DEF Reconciliation!vars, Reconciliation!directory
    <3>2. (SeenInv => SeenInv') /\ (AliasInv => AliasInv') /\ (FenceInv => FenceInv')
      BY <3>1 DEF Reconciliation!directory, SeenInv, AliasInv, FenceInv, Missing,
                  Reconciliation!Public, Reconciliation!Files, Reconciliation!Unchanged
    <3> QED  BY <2>1, <3>1, <3>2, DirectoryStands DEF ReconciliationInv, ProofInv
  <2> QED  BY <2>1, ReconciliationStep
<1>3. ReconciliationInv => ReconciliationProves
  BY DEF ReconciliationInv, ProofInv, ReconciliationProves, Reconciliation!ReconciliationProves
<1> QED  BY <1>1, <1>2, <1>3, PTL DEF Reconciliation!Spec

-----------------------------------------------------------------------------
(* Daily budgets                                                            *)

Keys == Servers \X Daily!Windows

(* The day of a budget is over, and so is every request that began in it. *)
Closed(k) == k[2] + Day + Offset <= now

DailyCall == [server : Servers, at : Nat, step : {"consume", "explain"}]

(* The row of a day that is not closed has counted exactly what was admitted, *)
(* a request is over in time, and the row that refused it is still there. *)
DailyRequest(c) ==
  dailyCall[c] # None =>
    /\ dailyCall[c] \in DailyCall
    /\ dailyCall[c].at <= now /\ now <= dailyCall[c].at + Latency
    /\ dailyCall[c].step = "explain" =>
         Daily!Budget(c) \in DOMAIN budgets /\ budgets[Daily!Budget(c)] >= DailyLimit

DailyInv ==
  /\ now \in Nat /\ now <= Until["daily"]
  /\ DOMAIN dailyCall = Slots /\ \A c \in Slots : DailyRequest(c)
  /\ cleanup # None =>
       /\ cleanup \in [cutoff : Nat, batches : Nat]
       /\ cleanup.cutoff <= now /\ cleanup.cutoff % Hour = Offset
  /\ dailyAdmitted \in [Keys -> Nat] /\ \A k \in Keys : dailyAdmitted[k] <= DailyLimit
  /\ DOMAIN budgets \subseteq Keys
  /\ \A k \in DOMAIN budgets : budgets[k] = dailyAdmitted[k]
  /\ \A k \in Keys : dailyAdmitted[k] > 0 => k \in DOMAIN budgets \/ Closed(k)
  /\ refusal \in {None, "exceeded"}

(* What the schedule can see as ended is closed: it fires at the offset of an   *)
(* hour, and a day ends with an hour. *)
LEMMA EndedIsClosed ==
  ASSUME Daily!BudgetAssumption, NEW t \in Nat, NEW cutoff \in Nat, cutoff % Hour = Offset,
         Daily!WindowStart(t) + Day <= cutoff
  PROVE  Daily!WindowStart(t) + Day + Offset <= cutoff
<1>1. Day \in Nat \ {0} /\ Hour \in Nat \ {0} /\ Offset \in Nat /\ Offset < Hour /\ Day % Hour = 0
  BY DEF Daily!BudgetAssumption
<1>2. PICK m \in Nat : Day = Hour * m
  <2>1. Day \div Hour \in Nat /\ Day = Hour * (Day \div Hour) + (Day % Hour)  BY <1>1
  <2> QED  BY <2>1, <1>1
<1>3. PICK n \in Nat : cutoff = Hour * n + Offset
  <2>1. cutoff \div Hour \in Nat /\ cutoff = Hour * (cutoff \div Hour) + (cutoff % Hour)  BY <1>1
  <2> QED  BY <2>1
<1>4. PICK q \in Nat : Daily!WindowStart(t) = q * Day
  <2>1. t \div Day \in Nat  BY <1>1
  <2> QED  BY <2>1 DEF Daily!WindowStart
<1>5. PICK x \in Nat : x = (q + 1) * m  OBVIOUS
<1>6. Daily!WindowStart(t) + Day = Hour * x
  <2>1. q * Day + Day = (q + 1) * Day  BY <1>1
  <2>2. (q + 1) * (Hour * m) = Hour * ((q + 1) * m)  BY <1>1
  <2> QED  BY <2>1, <2>2, <1>2, <1>4, <1>5
<1>7. x <= n
  <2> SUFFICES ASSUME x >= n + 1 PROVE FALSE  OBVIOUS
  <2>1. Hour * x >= Hour * (n + 1)  BY <1>1
  <2>2. Hour * (n + 1) = Hour * n + Hour  BY <1>1
  <2>3. Hour * x \in Nat /\ Hour * n \in Nat  BY <1>1
  <2> QED  BY <2>1, <2>2, <2>3, <1>1, <1>3, <1>6
<1>8. Hour * x <= Hour * n  BY <1>1, <1>7
<1> QED  BY <1>1, <1>3, <1>6, <1>8

(* A key is a server with the first instant of a day. *)
LEMMA KeyOfDay ==
  ASSUME Daily!BudgetAssumption, NEW k \in Keys
  PROVE  k[2] \in Nat /\ \E t \in Nat : k[2] = Daily!WindowStart(t)
<1>1. PICK t \in 0..Until["daily"] : k[2] = Daily!WindowStart(t)  BY DEF Keys, Daily!Windows
<1>2. t \in Nat  BY <1>1 DEF Daily!BudgetAssumption
<1> QED  BY <1>1, <1>2, WindowOrder DEF Daily!WindowStart, Daily!BudgetAssumption

(* The day of a request under way is not closed. *)
LEMMA RequestInTime ==
  ASSUME DailyInv, Daily!BudgetAssumption, NEW c \in Slots, dailyCall[c] # None
  PROVE  /\ Daily!Budget(c) \in Keys /\ ~Closed(Daily!Budget(c))
         /\ Daily!Budget(c)[2] = Daily!WindowStart(dailyCall[c].at)
<1>1. /\ dailyCall[c] \in DailyCall /\ dailyCall[c].at <= now
      /\ now <= dailyCall[c].at + Latency /\ now \in Nat /\ now <= Until["daily"]
  BY DEF DailyInv, DailyRequest
<1>2. /\ Until["daily"] \in Nat /\ Day \in Nat \ {0} /\ Offset \in Nat /\ Latency \in Nat
      /\ Latency <= Offset
  BY DEF Daily!BudgetAssumption
<1>3. dailyCall[c].server \in Servers /\ dailyCall[c].at \in 0..Until["daily"]
  BY <1>1, <1>2 DEF DailyCall
<1>4. Daily!Budget(c) \in Keys
  BY <1>3 DEF Daily!Budget, Keys, Daily!Windows
<1>5. /\ Daily!WindowStart(dailyCall[c].at) \in Nat
      /\ dailyCall[c].at < Daily!WindowStart(dailyCall[c].at) + Day
  <2>1. PICK t \in Nat : t = dailyCall[c].at  BY <1>2, <1>3
  <2>2. (t \div Day) * Day \in Nat /\ t < (t \div Day) * Day + Day  BY <1>2, WindowOrder
  <2> QED  BY <2>1, <2>2 DEF Daily!WindowStart
<1>6. Daily!Budget(c)[2] = Daily!WindowStart(dailyCall[c].at)  BY DEF Daily!Budget
<1> QED  BY <1>1, <1>2, <1>3, <1>4, <1>5, <1>6 DEF Closed

(* The other conjuncts of a request stand when its row does. *)
LEMMA RequestStands ==
  ASSUME NEW c \in Slots, DailyRequest(c), dailyCall'[c] = dailyCall[c], now' = now,
         Daily!Budget(c) \in DOMAIN budgets /\ budgets[Daily!Budget(c)] >= DailyLimit =>
           Daily!Budget(c) \in DOMAIN budgets' /\ budgets'[Daily!Budget(c)] >= DailyLimit
  PROVE  DailyRequest(c)'
BY DEF DailyRequest, Daily!Budget, Daily!WindowStart

LEMMA DailyConsume ==
  ASSUME DailyInv, Daily!BudgetAssumption, NEW c \in Slots, Daily!Consume(c)
  PROVE  DailyInv'
<1>1. /\ dailyCall[c] # None /\ dailyCall[c].step = "consume"
      /\ UNCHANGED <<cleanup, now, refusal>>
  BY DEF Daily!Consume
<1>2. PICK k : k = Daily!Budget(c)  OBVIOUS
<1>3. k \in Keys /\ ~Closed(k)  BY <1>1, <1>2, RequestInTime
<1>4. DailyLimit \in Nat \ {0}  BY DEF Daily!BudgetAssumption
<1>5. /\ dailyAdmitted \in [Keys -> Nat]
      /\ \A j \in Keys : dailyAdmitted[j] \in Nat /\ dailyAdmitted[j] <= DailyLimit
      /\ Daily!Count(k) = dailyAdmitted[k]
      /\ \A j \in DOMAIN budgets : Daily!Count(j) = dailyAdmitted[j]
  BY <1>3 DEF DailyInv, Daily!Count
<1>6. CASE Daily!Spendable(Daily!Count(k))
  <2>1. /\ budgets' = [b \in DOMAIN budgets \cup {k} |-> Daily!Count(b) + (IF b = k THEN 1 ELSE 0)]
        /\ dailyAdmitted' = [dailyAdmitted EXCEPT ![k] = @ + 1]
        /\ dailyCall' = [dailyCall EXCEPT ![c] = None]
    BY <1>2, <1>6 DEF Daily!Consume
  <2>2. DOMAIN budgets' = DOMAIN budgets \cup {k}  BY <2>1
  <2>3. /\ dailyAdmitted' \in [Keys -> Nat] /\ dailyAdmitted'[k] = dailyAdmitted[k] + 1
        /\ \A j \in Keys \ {k} : dailyAdmitted'[j] = dailyAdmitted[j]
    BY <2>1, <1>3, <1>5
  <2>4. \A j \in DOMAIN budgets' : budgets'[j] = dailyAdmitted'[j]
    BY <2>1, <2>3, <1>3, <1>5 DEF DailyInv
  <2>5. \A j \in Keys : dailyAdmitted'[j] <= DailyLimit
    BY <2>3, <1>3, <1>4, <1>5, <1>6 DEF Daily!Spendable
  <2>6. \A j \in Keys : dailyAdmitted'[j] > 0 => j \in DOMAIN budgets' \/ Closed(j)'
    BY <2>2, <2>3, <1>1 DEF DailyInv, Closed
  <2>7. \A j \in DOMAIN budgets : budgets'[j] >= budgets[j] /\ budgets[j] \in Nat
    BY <2>2, <2>3, <2>4, <1>3, <1>5 DEF DailyInv
  <2>8. ASSUME NEW d \in Slots PROVE DailyRequest(d)'
    <3>1. CASE d = c  BY <3>1, <2>1 DEF DailyRequest, DailyInv
    <3>2. CASE d # c
      <4>1. /\ dailyCall'[d] = dailyCall[d] /\ DailyRequest(d) /\ now' = now
            /\ dailyCall[d] # None => Daily!Budget(d) \in Keys
        BY <3>2, <2>1, <1>1, RequestInTime DEF DailyInv
      <4>2. Daily!Budget(d) \in DOMAIN budgets /\ budgets[Daily!Budget(d)] >= DailyLimit =>
              Daily!Budget(d) \in DOMAIN budgets' /\ budgets'[Daily!Budget(d)] >= DailyLimit
        <5>1. \A j \in DOMAIN budgets : budgets[j] >= DailyLimit =>
                j \in DOMAIN budgets' /\ budgets'[j] >= DailyLimit
          <6>1. \A j \in DOMAIN budgets : budgets'[j] \in Nat
            BY <2>2, <2>3, <2>4 DEF DailyInv
          <6> QED  BY <6>1, <2>2, <2>7, <1>4
        <5> QED  BY <5>1
      <4> QED  BY <4>1, <4>2, RequestStands
    <3> QED  BY <3>1, <3>2
  <2>9. DOMAIN budgets' \subseteq Keys /\ DOMAIN dailyCall' = Slots
    BY <2>1, <2>2, <1>3 DEF DailyInv
  <2> QED  BY <2>3, <2>4, <2>5, <2>6, <2>8, <2>9, <1>1 DEF DailyInv, Keys, Daily!Windows, Daily!WindowStart
<1>7. CASE ~Daily!Spendable(Daily!Count(k))
  <2>1. /\ dailyCall' = [dailyCall EXCEPT ![c].step = "explain"]
        /\ UNCHANGED <<budgets, dailyAdmitted>>
    BY <1>2, <1>7 DEF Daily!Consume
  <2>2. k \in DOMAIN budgets /\ budgets[k] >= DailyLimit
    BY <1>3, <1>4, <1>5, <1>7 DEF Daily!Spendable, Daily!Count
  <2>3. DailyRequest(c)'
    <3>1. /\ dailyCall[c] \in DailyCall /\ dailyCall[c].at <= now
          /\ now <= dailyCall[c].at + Latency /\ DOMAIN dailyCall = Slots
      BY <1>1 DEF DailyInv, DailyRequest
    <3>2. /\ dailyCall'[c] \in DailyCall /\ dailyCall'[c].at = dailyCall[c].at
          /\ dailyCall'[c].server = dailyCall[c].server
      BY <2>1, <3>1 DEF DailyCall
    <3>3. Daily!Budget(c)' = k  BY <3>2, <1>2 DEF Daily!Budget, Daily!WindowStart
    <3> QED  BY <3>1, <3>2, <3>3, <2>1, <2>2, <1>1 DEF DailyRequest
  <2>4. \A d \in Slots \ {c} : DailyRequest(d)'
    BY <2>1, <1>1 DEF DailyInv, DailyRequest, Daily!Budget, Daily!WindowStart
  <2>5. DOMAIN dailyCall' = Slots  BY <2>1 DEF DailyInv
  <2> QED  BY <2>1, <2>3, <2>4, <2>5, <1>1 DEF DailyInv, Closed, Keys, Daily!Windows, Daily!WindowStart
<1> QED  BY <1>6, <1>7

(* A batch of the removal takes rows of closed days only. *)
LEMMA DailyClean ==
  ASSUME DailyInv, Daily!BudgetAssumption, Daily!CleanBatch
  PROVE  DailyInv'
<1>1. /\ cleanup # None /\ UNCHANGED <<dailyCall, now, dailyAdmitted, refusal>>
  BY DEF Daily!CleanBatch
<1>2. /\ cleanup \in [cutoff : Nat, batches : Nat] /\ cleanup.cutoff <= now
      /\ cleanup.cutoff % Hour = Offset /\ now \in Nat
  BY <1>1 DEF DailyInv
<1>3. PICK gone \in SUBSET Daily!Expired(cleanup.cutoff) :
        /\ budgets' = [b \in DOMAIN budgets \ gone |-> budgets[b]]
        /\ cleanup' \in {None, [cleanup EXCEPT !.batches = @ + 1]}
  BY DEF Daily!CleanBatch, Daily!Restrict
<1>4. \A k \in gone : Closed(k)
  <2> SUFFICES ASSUME NEW k \in gone PROVE Closed(k)
    OBVIOUS
  <2>1. k \in Keys /\ k[2] + Day <= cleanup.cutoff  BY DEF Daily!Expired, DailyInv
  <2>2. PICK t \in Nat : k[2] = Daily!WindowStart(t)  BY <2>1, KeyOfDay
  <2>3. k[2] + Day + Offset <= cleanup.cutoff  BY <2>1, <2>2, <1>2, EndedIsClosed
  <2>4. k[2] + Day + Offset \in Nat  BY <2>1, KeyOfDay DEF Daily!BudgetAssumption
  <2> QED  BY <2>3, <2>4, <1>2 DEF Closed
<1>5. /\ DOMAIN budgets' = DOMAIN budgets \ gone
      /\ \A k \in DOMAIN budgets' : budgets'[k] = budgets[k]
  BY <1>3
<1>6. ASSUME NEW c \in Slots PROVE DailyRequest(c)'
  <2>1. CASE dailyCall[c] = None  BY <2>1, <1>1 DEF DailyRequest
  <2>2. CASE dailyCall[c] # None
    <3>1. Daily!Budget(c) \notin gone  BY <2>2, <1>4, RequestInTime
    <3>2. DailyRequest(c) /\ dailyCall'[c] = dailyCall[c]  BY <1>1 DEF DailyInv
    <3> QED  BY <3>1, <3>2, <1>1, <1>5, RequestStands
  <2> QED  BY <2>1, <2>2
<1>7. \A k \in Keys : dailyAdmitted'[k] > 0 => k \in DOMAIN budgets' \/ Closed(k)'
  BY <1>1, <1>4, <1>5 DEF DailyInv, Closed
<1>8. cleanup' # None => /\ cleanup' \in [cutoff : Nat, batches : Nat]
                         /\ cleanup'.cutoff = cleanup.cutoff
  BY <1>2, <1>3
<1> QED  BY <1>1, <1>2, <1>5, <1>6, <1>7, <1>8 DEF DailyInv, Keys, Daily!Windows, Daily!WindowStart

LEMMA DailyStep ==
  ASSUME DailyInv, Daily!BudgetAssumption, Daily!Next
  PROVE  DailyInv'
<1> USE DEF Keys, Daily!Windows, Daily!WindowStart
<1>1. ASSUME NEW c \in Slots, Daily!Explain(c) PROVE DailyInv'
  <2>1. /\ dailyCall[c] # None /\ dailyCall[c].step = "explain"
        /\ Daily!Budget(c) \in DOMAIN budgets /\ budgets[Daily!Budget(c)] >= DailyLimit
    BY <1>1 DEF Daily!Explain, DailyInv, DailyRequest
  <2>2. budgets[Daily!Budget(c)] \in Nat /\ DailyLimit \in Nat
    BY <2>1 DEF DailyInv, Daily!BudgetAssumption
  <2>3. ~Daily!Spendable(Daily!Count(Daily!Budget(c)))
    BY <2>1, <2>2 DEF Daily!Spendable, Daily!Count
  <2>4. refusal' = "exceeded"  BY <1>1, <2>1, <2>3 DEF Daily!Explain
  <2>5. /\ dailyCall' = [dailyCall EXCEPT ![c] = None]
        /\ UNCHANGED <<budgets, cleanup, now, dailyAdmitted>>
    BY <1>1 DEF Daily!Explain
  <2>6. \A d \in Slots : DailyRequest(d)'
    BY <2>5 DEF DailyInv, DailyRequest, Daily!Budget
  <2> QED  BY <2>4, <2>5, <2>6 DEF DailyInv, Closed
<1>2. ASSUME NEW c \in Slots, Daily!Abandon(c) PROVE DailyInv'
  <2>1. \A d \in Slots : DailyRequest(d)'
    BY <1>2 DEF Daily!Abandon, DailyInv, DailyRequest, Daily!Budget
  <2> QED  BY <1>2, <2>1 DEF Daily!Abandon, DailyInv, Closed
<1>3. ASSUME NEW c \in Slots, NEW s \in Servers, Daily!Ask(c, s) PROVE DailyInv'
  <2>1. DailyRequest(c)'
    <3>1. dailyCall'[c] = [server |-> s, at |-> now, step |-> "consume"] /\ now' = now /\ now \in Nat
      BY <1>3 DEF Daily!Ask, DailyInv
    <3> QED  BY <3>1 DEF DailyRequest, DailyCall, Daily!BudgetAssumption
  <2>2. \A d \in Slots \ {c} : DailyRequest(d)'
    BY <1>3 DEF Daily!Ask, DailyInv, DailyRequest, Daily!Budget
  <2> QED  BY <1>3, <2>1, <2>2 DEF Daily!Ask, DailyInv, Closed
<1>4. CASE Daily!Schedule
  <2>1. \A d \in Slots : DailyRequest(d)'
    BY <1>4 DEF Daily!Schedule, DailyInv, DailyRequest, Daily!Budget
  <2> QED  BY <1>4, <2>1 DEF Daily!Schedule, DailyInv, Closed
<1>5. CASE Daily!CleanFails
  <2>1. \A d \in Slots : DailyRequest(d)'
    BY <1>5 DEF Daily!CleanFails, DailyInv, DailyRequest, Daily!Budget
  <2> QED  BY <1>5, <2>1 DEF Daily!CleanFails, DailyInv, Closed
<1>6. CASE Daily!Tick
  <2>1. /\ now' = now + 1 /\ now < Until["daily"] /\ now \in Nat /\ Until["daily"] \in Nat
        /\ UNCHANGED <<budgets, dailyCall, cleanup, dailyAdmitted, refusal>>
        /\ \A c \in Slots : dailyCall[c] # None => now < dailyCall[c].at + Latency
    BY <1>6 DEF Daily!Tick, DailyInv, Daily!BudgetAssumption
  <2>2. ASSUME NEW c \in Slots PROVE DailyRequest(c)'
    <3>1. DailyRequest(c) /\ dailyCall'[c] = dailyCall[c]  BY <2>1 DEF DailyInv
    <3>2. dailyCall[c] \in DailyCall => dailyCall[c].at \in Nat  BY DEF DailyCall
    <3> QED  BY <3>1, <3>2, <2>1 DEF DailyRequest, Daily!Budget, Daily!BudgetAssumption
  <2>3. ASSUME NEW k \in Keys, Closed(k) PROVE Closed(k)'
    BY <2>1, <2>3, KeyOfDay DEF Closed, Daily!BudgetAssumption
  <2>4. cleanup # None => cleanup.cutoff \in Nat  BY DEF DailyInv
  <2> QED  BY <2>1, <2>2, <2>3, <2>4 DEF DailyInv
<1> QED  BY <1>1, <1>2, <1>3, <1>4, <1>5, <1>6, DailyConsume, DailyClean DEF Daily!Next

(* No server is admitted more often than its limit on any day, and a refusal    *)
(* always finds the row that explains it, whatever the hourly removal and       *)
(* midnight do between its two statements.  (consumeFixedWindowBudget)       *)
THEOREM DailyBudgetsExact == Daily!Spec => []DailyBudgetExact
<1> USE SmallPartsAssumption
<1>1. Daily!Init => DailyInv
  BY DEF Daily!Init, DailyInv, DailyRequest, Keys, Daily!BudgetAssumption
<1>2. DailyInv /\ [Daily!Next]_(Daily!vars) => DailyInv'
  <2>1. ASSUME DailyInv, UNCHANGED Daily!vars PROVE DailyInv'
    <3>1. \A c \in Slots : DailyRequest(c)'
      BY <2>1 DEF Daily!vars, DailyInv, DailyRequest, Daily!Budget, Daily!WindowStart
    <3> QED
      BY <2>1, <3>1 DEF Daily!vars, DailyInv, Closed, Keys, Daily!Windows, Daily!WindowStart
  <2> QED  BY <2>1, DailyStep
<1>3. DailyInv => DailyBudgetExact
  BY DEF DailyInv, DailyBudgetExact, Daily!DailyBudgetExact
<1> QED  BY <1>1, <1>2, <1>3, PTL DEF Daily!Spec

=============================================================================
