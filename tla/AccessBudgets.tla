---------------------------- MODULE AccessBudgets ----------------------------
(***************************************************************************)
(* The budgets of access requests (access-budget.ts): one row per profile, *)
(* server and scope, here an actor, for the latest window it was used in.  *)
(* Every call first removes some of the rows that have ended, of whichever *)
(* actor, in the transaction in which it spends.  A call takes its time    *)
(* when it begins and may be late: its window may be over by then.         *)
(***************************************************************************)
EXTENDS Integers, FiniteSets, Functions

CONSTANTS
  Actors, Slots,
  Limit,        \* requests in a window
  Window,       \* its duration
  PurgeLimit,   \* LIMIT of the removal
  Capacity,     \* rows, trigger access_request_budgets_capacity
  MaxTime,      \* bound: last instant
  None

AccessBudgetAssumption ==
  Limit \in Nat \ {0} /\ Window \in Nat \ {0} /\ PurgeLimit \in Nat \ {0} /\ Capacity \in Nat \ {0}

VARIABLES
  access,     \* access_request_budgets: actor -> [start, count]
  call,       \* slot -> the request under way, or None
  now,
  (* history *)
  timely,     \* actor -> admissions in the current window that began in it
  full        \* a request was aborted for want of a row while one had ended

vars == <<access, call, now, timely, full>>

WindowStart(t) == (t \div Window) * Window

Ask(c, a) ==
  /\ call[c] = None
  /\ call' = [call EXCEPT ![c] = [actor |-> a, at |-> now]]
  /\ UNCHANGED <<access, now, timely, full>>

Ended(t) == {a \in DOMAIN access : access[a].start + Window <= t}

(* What the removal leaves, in no particular order.                            *)
Purges(t) ==
  {Restrict(access, DOMAIN access \ gone) :
     gone \in {g \in SUBSET Ended(t) :
                 Cardinality(g) <= PurgeLimit /\ (Cardinality(g) = PurgeLimit \/ g = Ended(t))}}

AnyOtherWindow(A, a, start) ==                                     \* mutant
  a \in DOMAIN A => A[a].start # start \/ A[a].count < Limit

(* The WHERE of the UPSERT: a newer window, or room in the same.               *)
Spendable(A, a, start) ==
  a \in DOMAIN A =>
    A[a].start < start \/ (A[a].start = start /\ A[a].count < Limit)

Spent(A, a, start) ==
  [b \in DOMAIN A \cup {a} |->
     IF b # a THEN A[b]
     ELSE [start |-> start,
           count |-> IF a \in DOMAIN A /\ A[a].start = start THEN A[a].count + 1 ELSE 1]]

(* consumeAccessBudget.  The trigger's abort undoes the removal with the rest.  *)
Consume(c) ==
  /\ call[c] # None
  /\ \E A \in Purges(call[c].at), a \in {call[c].actor}, start \in {WindowStart(call[c].at)} :
       IF a \notin DOMAIN A /\ Cardinality(DOMAIN A) >= Capacity
       THEN /\ full' = (full \/ Ended(call[c].at) # {})
            /\ UNCHANGED <<access, timely>>
       ELSE /\ access' = IF Spendable(A, a, start) THEN Spent(A, a, start) ELSE A
            /\ timely' = IF Spendable(A, a, start) /\ start = WindowStart(now)
                         THEN [timely EXCEPT ![a] = @ + 1] ELSE timely
            /\ UNCHANGED full
  /\ call' = [call EXCEPT ![c] = None]
  /\ UNCHANGED now

Tick ==
  /\ now < MaxTime /\ now' = now + 1
  /\ timely' = IF WindowStart(now') = WindowStart(now) THEN timely ELSE [a \in Actors |-> 0]
  /\ UNCHANGED <<access, call, full>>

Init ==
  /\ access = [a \in {} |-> 0] /\ call = [c \in Slots |-> None] /\ now = 0
  /\ timely = [a \in Actors |-> 0] /\ full = FALSE

Next ==
  \/ \E c \in Slots : Consume(c) \/ \E a \in Actors : Ask(c, a)
  \/ Tick

Spec == Init /\ [][Next]_vars

-----------------------------------------------------------------------------
(* Requests that are late never widen the budget of the window they arrive in,  *)
(* and a full table turns no request away while a row could be removed.        *)
(* (consumeAccessBudget)                                                       *)
AccessBudgetHolds == (\A a \in Actors : timely[a] <= Limit) /\ ~full
=============================================================================
