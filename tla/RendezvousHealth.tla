-------------------------- MODULE RendezvousHealth --------------------------
(***************************************************************************)
(* The one row from which the health of the rendezvous service is reported *)
(* (rendezvous-health.ts).  The core writes it after an authenticated      *)
(* admission of a server and after the end of a session, an operator's     *)
(* canary through a private binding.                                       *)
(*                                                                         *)
(* A write is one statement that carries the time at which its request     *)
(* began.  It is best effort: it may be late, or never applied, and D1     *)
(* alone orders the writes.  So a step applies a write of any time; a read *)
(* changes nothing and is an operator, of any time too.                    *)
(*                                                                         *)
(* Of the eight session counters only `completed' bears on the status; the *)
(* others are not kept, nor are the time of the canary and the generation, *)
(* a counter of the writes.                                                *)
(***************************************************************************)
EXTENDS Integers

CONSTANTS
  Window,         \* RENDEZVOUS_HEALTH_WINDOW_SECONDS, also the freshness
  MaxCounter,     \* RENDEZVOUS_HEALTH_MAX_COUNTER
  MaxTime,        \* bound: last instant
  None

HealthAssumption ==
  Window \in Nat \ {0} /\ MaxCounter \in Nat \ {0} /\ MaxTime \in Nat

VARIABLES
  row,      \* rendezvous_health_observations, or None
  evidence  \* history: the times of the applied evidence of either kind

vars == <<row, evidence>>

Times == 0..MaxTime
Counters == {"admissions", "completed"}
Observed(type, route, control, admission) ==
  [type |-> type, route |-> route, control |-> control, admission |-> admission]
NoCanary == Observed("none", "not_observed", "not_observed", "not_observed")

(* The canaries that are accepted and may be stored: the dimensions of an end-  *)
(* to-end canary are observed exactly when its route was reached.              *)
Canaries ==
  {Observed("route", r, "not_observed", "not_observed") : r \in {"reachable", "failed"}}
  \cup {Observed("end_to_end", "failed", "not_observed", "not_observed")}
  \cup {Observed("end_to_end", "reachable", c, a) : c, a \in {"passed", "failed"}}

Passed(c) == c = Observed("end_to_end", "reachable", "passed", "passed")
Failed(c) == "failed" \in {c.route, c.control, c.admission}

(* What a write brings: one count, or a canary.                                *)
Count(counter) == [counts |-> [k \in Counters |-> IF k = counter THEN 1 ELSE 0], canary |-> NoCanary]
Probe(c) == [counts |-> [k \in Counters |-> 0], canary |-> c]
Observations == {Count(k) : k \in Counters \cup {"ended"}} \cup {Probe(c) : c \in Canaries}

(* What an observation shows, for the history.                                 *)
Evidence == {"healthy", "failed"}
Shows(o, kind) ==
  IF kind = "failed" THEN Failed(o.canary)
  ELSE Passed(o.canary) \/ o.counts["admissions"] > 0 \/ o.counts["completed"] > 0

(* RESET_WINDOW: the write lies outside the window of the row.                 *)
ResetWindow(r, at) == at < r.started \/ at >= r.started + Window

AlwaysKept(r, o, at) == o.canary = NoCanary                         \* mutant

(* The canary columns keep what they hold.                                     *)
CanaryKept(r, o, at) == ~ResetWindow(r, at) /\ o.canary = NoCanary

Capped(n) == IF n > MaxCounter THEN MaxCounter ELSE n

First(o, at) ==
  [started |-> at, source |-> at, counts |-> o.counts, canary |-> o.canary]

Added(r, o) == [k \in Counters |-> Capped(r.counts[k] + o.counts[k])]

(* UPSERT_OBSERVATION.  The source timestamp is the write's, whatever it was.   *)
Upserted(r, o, at) ==
  IF r = None THEN First(o, at)
  ELSE [started |-> IF ResetWindow(r, at) THEN at ELSE r.started,
        source |-> at,
        counts |-> IF ResetWindow(r, at) THEN o.counts ELSE Added(r, o),
        canary |-> IF CanaryKept(r, o, at) THEN r.canary ELSE o.canary]

(* normalizeStoredRow at the reader's time.                                    *)
Usable(r, at) ==
  /\ r.source >= r.started /\ r.source <= at
  /\ r.source - r.started < Window
  /\ r.canary \in Canaries \cup {NoCanary}

Status(r, at) ==
  IF at - r.source > Window THEN "stale"
  ELSE IF Failed(r.canary) THEN "failed"
  ELSE IF Passed(r.canary) \/ r.counts["admissions"] > 0 \/ r.counts["completed"] > 0 THEN "healthy"
  ELSE "no_usable_observation"

(* readRendezvousHealthSnapshot: no row, a malformed one, or what it says.      *)
Snapshot(r, at) ==
  IF r # None /\ Usable(r, at) THEN Status(r, at) ELSE "no_usable_observation"

-----------------------------------------------------------------------------
(* An admission, the end of a session or a canary, whose request began at `at'. *)
Record(o, at) ==
  /\ row' = Upserted(row, o, at)
  /\ evidence' = [kind \in Evidence |->
                    IF Shows(o, kind) THEN evidence[kind] \cup {at} ELSE evidence[kind]]

Init == row = None /\ evidence = [kind \in Evidence |-> {}]

Next == \E o \in Observations, at \in Times : Record(o, at)

Spec == Init /\ [][Next]_vars

-----------------------------------------------------------------------------
(* Whatever the order in which writes were applied, a reader is told `healthy'   *)
(* only on positive evidence and `failed' only on a canary that failed, which    *)
(* began less than two windows before the reader and less than one after it.    *)
(* (UPSERT_OBSERVATION, snapshotFromStoredRow)                                  *)
ReportHasEvidence ==
  \A at \in Times :
    Snapshot(row, at) \in Evidence =>
      \E e \in evidence[Snapshot(row, at)] : at - e < 2 * Window /\ e - at < Window
=============================================================================
