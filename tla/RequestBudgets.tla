--------------------------- MODULE RequestBudgets ---------------------------
(***************************************************************************)
(* The daily budgets of authenticated servers (rate-limit.ts) and the      *)
(* hourly removal of those that have ended (maintenance.ts).               *)
(*                                                                         *)
(* A request takes its time when it begins and spends from the day of that *)
(* time in a conditional write.  When the write changes nothing, a second  *)
(* statement reads the row to tell a spent budget from a broken one.  The  *)
(* removal, in batches, may come between the two, and so may midnight.     *)
(*                                                                         *)
(* A row's expires_at is the end of the day it is stored under, always.    *)
(***************************************************************************)
EXTENDS Integers, FiniteSets, Functions

CONSTANTS
  Servers, Slots,
  Limit,        \* the daily limit of the scope
  Day, Hour,    \* SECONDS_PER_DAY, and the period of the schedule
  Offset,       \* the minute of the hour at which it fires
  Latency,      \* a request ends within this time
  BatchSize, MaximumBatches,
  MaxTime,      \* bound: last instant
  None

(* Requests are over before the first removal that may touch their day.        *)
BudgetAssumption ==
  /\ Limit \in Nat \ {0} /\ BatchSize \in Nat \ {0} /\ MaximumBatches \in Nat \ {0}
  /\ Day \in Nat \ {0} /\ Hour \in Nat \ {0} /\ MaxTime \in Nat
  /\ Offset \in 0..(Hour - 1) /\ Latency \in 0..Offset /\ Day % Hour = 0

VARIABLES
  budgets,    \* request_budgets: <<server, window_start>> -> request_count
  call,       \* slot -> the request under way, or None
  cleanup,    \* the removal under way, or None
  now,
  (* history *)
  admitted,   \* <<server, window_start>> -> requests admitted
  refusal     \* the last refusal

vars == <<budgets, call, cleanup, now, admitted, refusal>>

WindowStart(t) == (t \div Day) * Day           \* utcDayWindow
Windows == {WindowStart(t) : t \in 0..MaxTime}
Count(k) == IF k \in DOMAIN budgets THEN budgets[k] ELSE 0
Budget(c) == <<call[c].server, WindowStart(call[c].at)>>

Ask(c, s) ==
  /\ call[c] = None
  /\ call' = [call EXCEPT ![c] = [server |-> s, at |-> now, step |-> "consume"]]
  /\ UNCHANGED <<budgets, cleanup, now, admitted, refusal>>

Spendable(n) == n < Limit

(* The conditional UPSERT.                                                     *)
Consume(c) ==
  /\ call[c] # None /\ call[c].step = "consume"
  /\ \E k \in {Budget(c)} :
       IF Spendable(Count(k))
       THEN /\ budgets' = [b \in DOMAIN budgets \cup {k} |-> Count(b) + (IF b = k THEN 1 ELSE 0)]
            /\ admitted' = [admitted EXCEPT ![k] = @ + 1]
            /\ call' = [call EXCEPT ![c] = None]
       ELSE /\ call' = [call EXCEPT ![c].step = "explain"]
            /\ UNCHANGED <<budgets, admitted>>
  /\ UNCHANGED <<cleanup, now, refusal>>

(* The SELECT that follows: a missing row is divergent, one below the limit a   *)
(* failure, any other a budget that is spent.                                  *)
Explain(c) ==
  /\ call[c] # None /\ call[c].step = "explain"
  /\ refusal' = IF Budget(c) \notin DOMAIN budgets THEN "divergent"
                ELSE IF Spendable(Count(Budget(c))) THEN "below_limit" ELSE "exceeded"
  /\ call' = [call EXCEPT ![c] = None]
  /\ UNCHANGED <<budgets, cleanup, now, admitted>>

(* D1 fails or the client is gone.                                             *)
Abandon(c) ==
  /\ call[c] # None
  /\ call' = [call EXCEPT ![c] = None]
  /\ UNCHANGED <<budgets, cleanup, now, admitted, refusal>>

(* The schedule fires, or is missed.                                           *)
Schedule ==
  /\ cleanup = None /\ now % Hour = Offset
  /\ cleanup' = [cutoff |-> now, batches |-> 0]
  /\ UNCHANGED <<budgets, call, now, admitted, refusal>>

EarlyExpired(cutoff) == {k \in DOMAIN budgets : k[2] <= cutoff}   \* mutant
Expired(cutoff) == {k \in DOMAIN budgets : k[2] + Day <= cutoff}

(* One batch of cleanupExpiredState: the oldest first.  A short batch is the    *)
(* last one.                                                                   *)
CleanBatch ==
  /\ cleanup # None
  /\ \E gone \in SUBSET Expired(cleanup.cutoff) :
       /\ Cardinality(gone) = BatchSize \/ gone = Expired(cleanup.cutoff)
       /\ Cardinality(gone) <= BatchSize
       /\ \A k \in gone, j \in Expired(cleanup.cutoff) \ gone : k[2] <= j[2]
       /\ budgets' = Restrict(budgets, DOMAIN budgets \ gone)
       /\ cleanup' = IF Cardinality(gone) < BatchSize \/ cleanup.batches + 1 = MaximumBatches
                     THEN None ELSE [cleanup EXCEPT !.batches = @ + 1]
  /\ UNCHANGED <<call, now, admitted, refusal>>

(* A batch fails and the run with it.                                          *)
CleanFails ==
  /\ cleanup # None /\ cleanup' = None
  /\ UNCHANGED <<budgets, call, now, admitted, refusal>>

Tick ==
  /\ now < MaxTime
  /\ \A c \in Slots : call[c] # None => now < call[c].at + Latency
  /\ now' = now + 1
  /\ UNCHANGED <<budgets, call, cleanup, admitted, refusal>>

Init ==
  /\ budgets = [k \in {} |-> 0]
  /\ call = [c \in Slots |-> None] /\ cleanup = None /\ now = 0
  /\ admitted = [k \in Servers \X Windows |-> 0] /\ refusal = None

Next ==
  \/ \E c \in Slots : Consume(c) \/ Explain(c) \/ Abandon(c) \/ \E s \in Servers : Ask(c, s)
  \/ Schedule \/ CleanBatch \/ CleanFails \/ Tick

Spec == Init /\ [][Next]_vars

-----------------------------------------------------------------------------
(* No server is admitted more often than its limit on any day, and a refused    *)
(* request always finds the row that explains its refusal, whatever the removal *)
(* and midnight do between its two statements.  (consumeFixedWindowBudget)     *)
DailyBudgetExact ==
  /\ \A k \in DOMAIN admitted : admitted[k] <= Limit
  /\ refusal \in {None, "exceeded"}
=============================================================================
