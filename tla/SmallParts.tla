----------------------------- MODULE SmallParts -----------------------------
(***************************************************************************)
(* Five small components side by side.  They share nothing but the clock:  *)
(* a behaviour is one of a single component, the one Init picks.  Each     *)
(* component's own specification is Daily!Spec, Access!Spec, ...           *)
(***************************************************************************)
EXTENDS Integers

CONSTANTS
  Servers, Slots, Tickets, None,
  Until,                                      \* bound: part -> its last instant
  DailyLimit, Day, Hour, Offset, Latency, BatchSize, MaximumBatches,   \* RequestBudgets
  AccessLimit, AccessWindow, PurgeLimit, AccessCapacity,               \* AccessBudgets
  ReplayWindow, ReplayBatch, ReplayCapacity,                           \* RoomAdmission
  HealthWindow, HealthMaxCounter,                                      \* RendezvousHealth
  AliasOrder, Manifest, Lifetime, MaxRevision, MaxGeneration           \* DirectoryReconciliation

VARIABLES
  part, now,
  budgets, dailyCall, cleanup, dailyAdmitted, refusal,   \* RequestBudgets
  access, accessCall, timely, full,                      \* AccessBudgets
  rows, key, open, rotated, ticketAdmitted,              \* RoomAdmission
  row, evidence,                                         \* RendezvousHealth
  revision, checkpoint, pending, alias, proof            \* DirectoryReconciliation

Daily == INSTANCE RequestBudgets WITH
  Limit <- DailyLimit, MaxTime <- Until["daily"], call <- dailyCall, admitted <- dailyAdmitted

Access == INSTANCE AccessBudgets WITH
  Actors <- Servers, Limit <- AccessLimit, Window <- AccessWindow, Capacity <- AccessCapacity,
  MaxTime <- Until["access"], call <- accessCall

Admission == INSTANCE RoomAdmission WITH
  Window <- ReplayWindow, Batch <- ReplayBatch, Capacity <- ReplayCapacity,
  MaxTime <- Until["admission"], admitted <- ticketAdmitted

Health == INSTANCE RendezvousHealth WITH
  Window <- HealthWindow, MaxCounter <- HealthMaxCounter, MaxTime <- Until["health"]

Reconciliation == INSTANCE DirectoryReconciliation WITH
  MaxTime <- Until["reconciliation"], call <- proof

ASSUME SmallPartsAssumption ==
  /\ Daily!BudgetAssumption /\ Access!AccessBudgetAssumption
  /\ Admission!AdmissionAssumption /\ Health!HealthAssumption
  /\ Reconciliation!ReconciliationAssumption

ownDaily == <<budgets, dailyCall, cleanup, dailyAdmitted, refusal>>
ownAccess == <<access, accessCall, timely, full>>
ownAdmission == <<rows, key, open, rotated, ticketAdmitted>>
ownHealth == <<row, evidence>>
ownReconciliation == <<revision, checkpoint, pending, alias, proof>>
vars == <<part, now, ownDaily, ownAccess, ownAdmission, ownHealth, ownReconciliation>>

Init ==
  /\ part \in {"daily", "access", "admission", "health", "reconciliation"}
  /\ Daily!Init /\ Access!Init /\ Admission!Init /\ Health!Init
  /\ Reconciliation!Init

Next ==
  /\ UNCHANGED part
  /\ \/ part = "daily" /\ Daily!Next /\ UNCHANGED <<ownAccess, ownAdmission, ownHealth, ownReconciliation>>
     \/ part = "access" /\ Access!Next /\ UNCHANGED <<ownDaily, ownAdmission, ownHealth, ownReconciliation>>
     \/ part = "admission" /\ Admission!Next /\ UNCHANGED <<ownDaily, ownAccess, ownHealth, ownReconciliation>>
     \/ /\ part = "health" /\ Health!Next
        /\ UNCHANGED <<now, ownDaily, ownAccess, ownAdmission, ownReconciliation>>
     \/ /\ part = "reconciliation" /\ Reconciliation!Next
        /\ UNCHANGED <<ownDaily, ownAccess, ownAdmission, ownHealth>>

Spec == Init /\ [][Next]_vars

-----------------------------------------------------------------------------
(* No server is admitted more often than its limit on any day, and a refusal    *)
(* always finds the row that explains it.  (consumeFixedWindowBudget)           *)
DailyBudgetExact == Daily!DailyBudgetExact

(* Late requests never widen the budget of the window they arrive in, and a     *)
(* full table turns nobody away while a row could be removed.                  *)
(* (consumeAccessBudget)                                                       *)
AccessBudgetHolds == Access!AccessBudgetHolds

(* An admitted ticket is not admitted again within the window, across pruning,  *)
(* reconstruction and rotation of the keys, and no admission leaves rows that a *)
(* later construction refuses.  (consumeAndClaim)                              *)
ReplayRefused == Admission!ReplayRefused

(* Whatever the order of the writes, a status rests on evidence of its kind     *)
(* near the reader's time.  (UPSERT_OBSERVATION, snapshotFromStoredRow)         *)
ReportHasEvidence == Health!ReportHasEvidence

(* A success proves a published directory: its aliases were public together at  *)
(* the first read of the checkpoint, and after the last alias was read there    *)
(* was a moment with nothing left to publish.                                  *)
(* (handleDirectoryReconciliationRequest)                                       *)
ReconciliationProves == Reconciliation!ReconciliationProves
=============================================================================
