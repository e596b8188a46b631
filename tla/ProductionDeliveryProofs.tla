---------------------- MODULE ProductionDeliveryProofs ----------------------
(***************************************************************************)
(* Theorems about the delivery engine.  A run is the list of the calls it  *)
(* still has to make, `run.todo'; what it has made good is read off that   *)
(* list: every call of it has its place (`Rank'), a call that is no longer *)
(* in it was answered, and a call that changes a Worker has a fence or a   *)
(* check of the authority ahead of it.                                     *)
(***************************************************************************)
EXTENDS ProductionDelivery, TLAPS

-----------------------------------------------------------------------------
(* Lists of calls *)

Has(s, x) == \E i \in 1..Len(s) : s[i] = x
Some(s, X) == \E i \in 1..Len(s) : s[i] \in X

(* Every member of B has one of P ahead of it; between two there is one. *)
Guarded(s, B, P) ==
  \A i \in 1..Len(s) : s[i] \in B => \E k \in 1..i-1 : s[k] \in P
Separated(s, B, P) ==
  \A i, j \in 1..Len(s) : i < j /\ s[i] \in B /\ s[j] \in B =>
    \E k \in i+1..j-1 : s[k] \in P
Sound(s, B, P) == Guarded(s, B, P) /\ Separated(s, B, P)

LEMMA CatIndex ==
  ASSUME NEW X, NEW s \in Seq(X), NEW t \in Seq(X)
  PROVE  /\ s \o t \in Seq(X) /\ Len(s \o t) = Len(s) + Len(t)
         /\ Len(s) \in Nat /\ Len(t) \in Nat
         /\ \A i \in 1..Len(s) : i \in 1..Len(s \o t) /\ (s \o t)[i] = s[i]
         /\ \A i \in 1..Len(t) : i + Len(s) \in 1..Len(s \o t) /\ (s \o t)[i + Len(s)] = t[i]
         /\ \A i \in 1..Len(s \o t) : i \in 1..Len(s) \/ i - Len(s) \in 1..Len(t)
         /\ \A i \in 1..Len(s \o t) : i \notin 1..Len(s) => (s \o t)[i] = t[i - Len(s)]
OBVIOUS

LEMMA CatHas ==
  ASSUME NEW X, NEW s \in Seq(X), NEW t \in Seq(X)
  PROVE  /\ \A x : Has(s \o t, x) <=> Has(s, x) \/ Has(t, x)
         /\ \A Y : Some(s \o t, Y) <=> Some(s, Y) \/ Some(t, Y)
<1>1. PICK u : u = s \o t  OBVIOUS
<1>2. /\ \A i \in 1..Len(s) : i \in 1..Len(u) /\ u[i] = s[i]
      /\ \A i \in 1..Len(t) : i + Len(s) \in 1..Len(u) /\ u[i + Len(s)] = t[i]
      /\ \A i \in 1..Len(u) : i \in 1..Len(s) \/ i - Len(s) \in 1..Len(t)
      /\ \A i \in 1..Len(u) : i \notin 1..Len(s) => u[i] = t[i - Len(s)]
  BY <1>1, CatIndex
<1>3. ASSUME NEW Y PROVE Some(u, Y) <=> Some(s, Y) \/ Some(t, Y)
  <2>1. ASSUME NEW i \in 1..Len(u), u[i] \in Y PROVE Some(s, Y) \/ Some(t, Y)
    <3>1. CASE i \in 1..Len(s)  BY <1>2, <2>1, <3>1 DEF Some
    <3>2. CASE i \notin 1..Len(s)  BY <1>2, <2>1, <3>2 DEF Some
    <3> QED  BY <3>1, <3>2
  <2>2. ASSUME NEW i \in 1..Len(s), s[i] \in Y PROVE Some(u, Y)  BY <1>2, <2>2 DEF Some
  <2>3. ASSUME NEW i \in 1..Len(t), t[i] \in Y PROVE Some(u, Y)  BY <1>2, <2>3 DEF Some
  <2> QED  BY <2>1, <2>2, <2>3 DEF Some
<1>4. ASSUME NEW v, NEW x PROVE Has(v, x) <=> Some(v, {x})  BY DEF Has, Some
<1> QED  BY <1>1, <1>3, <1>4

LEMMA SoundCat ==
  ASSUME NEW X, NEW s \in Seq(X), NEW t \in Seq(X), NEW B, NEW P
  PROVE  /\ Guarded(s, B, P) /\ (Guarded(t, B, P) \/ Some(s, P)) => Guarded(s \o t, B, P)
         /\ Sound(s, B, P) /\ Sound(t, B, P) => Sound(s \o t, B, P)
<1>1. PICK u : u = s \o t  OBVIOUS
<1>2. /\ Len(u) = Len(s) + Len(t) /\ Len(s) \in Nat /\ Len(t) \in Nat
      /\ \A i \in 1..Len(s) : i \in 1..Len(u) /\ u[i] = s[i]
      /\ \A i \in 1..Len(t) : i + Len(s) \in 1..Len(u) /\ u[i + Len(s)] = t[i]
      /\ \A i \in 1..Len(u) : i \in 1..Len(s) \/ i - Len(s) \in 1..Len(t)
      /\ \A i \in 1..Len(u) : i \notin 1..Len(s) => u[i] = t[i - Len(s)]
  BY <1>1, CatIndex
<1>3. ASSUME Guarded(s, B, P), Guarded(t, B, P) \/ Some(s, P), NEW i \in 1..Len(u), u[i] \in B
      PROVE  \E k \in 1..i-1 : u[k] \in P
  <2>1. CASE i \in 1..Len(s)
    <3>1. PICK k \in 1..i-1 : s[k] \in P  BY <1>2, <1>3, <2>1 DEF Guarded
    <3>2. k \in 1..Len(s)  BY <1>2, <2>1
    <3> QED  BY <1>2, <3>1, <3>2
  <2>2. CASE i \notin 1..Len(s) /\ Some(s, P)
    <3>1. PICK k \in 1..Len(s) : s[k] \in P  BY <2>2 DEF Some
    <3>2. k \in 1..i-1  BY <1>2, <2>2
    <3> QED  BY <1>2, <3>1, <3>2
  <2>3. CASE i \notin 1..Len(s) /\ Guarded(t, B, P)
    <3>1. i - Len(s) \in 1..Len(t) /\ t[i - Len(s)] \in B  BY <1>2, <1>3, <2>3
    <3>2. PICK k \in 1..(i - Len(s)) - 1 : t[k] \in P  BY <2>3, <3>1 DEF Guarded
    <3>3. k \in 1..Len(t) /\ k + Len(s) \in 1..i-1  BY <1>2, <3>1, <3>2
    <3> QED  BY <1>2, <3>2, <3>3
  <2> QED  BY <1>3, <2>1, <2>2, <2>3
<1>4. ASSUME Sound(s, B, P), Sound(t, B, P), NEW i \in 1..Len(u), NEW j \in 1..Len(u),
             i < j, u[i] \in B, u[j] \in B
      PROVE  \E k \in i+1..j-1 : u[k] \in P
  <2>1. CASE j \in 1..Len(s)
    <3>1. i \in 1..Len(s)  BY <1>2, <1>4, <2>1
    <3>2. PICK k \in i+1..j-1 : s[k] \in P
      BY <1>2, <1>4, <2>1, <3>1 DEF Sound, Separated
    <3>3. k \in 1..Len(s)  BY <1>2, <2>1, <3>1
    <3> QED  BY <1>2, <3>2, <3>3
  <2>2. CASE j \notin 1..Len(s)
    <3>1. j - Len(s) \in 1..Len(t) /\ t[j - Len(s)] \in B  BY <1>2, <1>4, <2>2
    <3>2. CASE i \in 1..Len(s)
      <4>1. PICK k \in 1..(j - Len(s)) - 1 : t[k] \in P
        BY <1>4, <3>1 DEF Sound, Guarded
      <4>2. k \in 1..Len(t) /\ k + Len(s) \in i+1..j-1  BY <1>2, <3>1, <3>2, <4>1
      <4> QED  BY <1>2, <4>1, <4>2
    <3>3. CASE i \notin 1..Len(s)
      <4>1. i - Len(s) \in 1..Len(t) /\ t[i - Len(s)] \in B /\ i - Len(s) < j - Len(s)
        BY <1>2, <1>4, <3>3
      <4>2. PICK k \in (i - Len(s)) + 1..(j - Len(s)) - 1 : t[k] \in P
        BY <1>4, <3>1, <4>1 DEF Sound, Separated
      <4>3. k \in 1..Len(t) /\ k + Len(s) \in i+1..j-1  BY <1>2, <3>1, <4>1, <4>2
      <4> QED  BY <1>2, <4>2, <4>3
    <3> QED  BY <3>2, <3>3
  <2> QED  BY <2>1, <2>2
<1> QED  BY <1>1, <1>3, <1>4 DEF Guarded, Sound, Separated

LEMMA CatAssoc ==
  ASSUME NEW X, NEW s \in Seq(X), NEW t \in Seq(X), NEW u \in Seq(X)
  PROVE  (s \o t) \o u = s \o (t \o u)
OBVIOUS

(* A head is taken off. *)
LEMMA TailIndex ==
  ASSUME NEW X, NEW s \in Seq(X), s # <<>>
  PROVE  /\ Tail(s) \in Seq(X) /\ Head(s) \in X /\ Head(s) = s[1] /\ 1 \in 1..Len(s)
         /\ Len(s) \in Nat /\ Len(Tail(s)) = Len(s) - 1
         /\ \A i \in 1..Len(Tail(s)) : i + 1 \in 1..Len(s) /\ Tail(s)[i] = s[i + 1]
OBVIOUS

LEMMA TailHas ==
  ASSUME NEW X, NEW s \in Seq(X), s # <<>>, NEW x
  PROVE  /\ Has(Tail(s), x) => Has(s, x)
         /\ Has(s, x) => x = Head(s) \/ Has(Tail(s), x)
<1>1. PICK t : t = Tail(s)  OBVIOUS
<1>2. /\ Head(s) = s[1] /\ Len(s) \in Nat /\ Len(t) = Len(s) - 1
      /\ \A i \in 1..Len(t) : i + 1 \in 1..Len(s) /\ t[i] = s[i + 1]
  BY <1>1, TailIndex
<1>3. ASSUME NEW i \in 1..Len(s), s[i] = x, i # 1 PROVE Has(t, x)
  <2>1. i - 1 \in 1..Len(t) /\ t[i - 1] = s[(i - 1) + 1]  BY <1>2, <1>3
  <2> QED  BY <1>3, <2>1 DEF Has
<1> QED  BY <1>1, <1>2, <1>3 DEF Has

LEMMA TailSound ==
  ASSUME NEW X, NEW s \in Seq(X), s # <<>>, NEW B, NEW P
  PROVE  /\ Separated(s, B, P) => Separated(Tail(s), B, P)
         /\ Separated(s, B, P) /\ Head(s) \in B => Guarded(Tail(s), B, P)
         /\ Guarded(s, B, P) => Head(s) \notin B
         /\ Guarded(s, B, P) /\ Head(s) \notin P => Guarded(Tail(s), B, P)
<1>1. PICK t : t = Tail(s)  OBVIOUS
<1>2. /\ Head(s) = s[1] /\ Len(s) \in Nat /\ Len(t) = Len(s) - 1 /\ 1 \in 1..Len(s)
      /\ \A i \in 1..Len(t) : i + 1 \in 1..Len(s) /\ t[i] = s[i + 1]
  BY <1>1, TailIndex
<1>3. ASSUME Separated(s, B, P), NEW i \in 1..Len(t), NEW j \in 1..Len(t), i < j,
             t[i] \in B, t[j] \in B
      PROVE  \E k \in i+1..j-1 : t[k] \in P
  <2>1. PICK k \in (i + 1) + 1..(j + 1) - 1 : s[k] \in P
    <3>1. i + 1 \in 1..Len(s) /\ j + 1 \in 1..Len(s) /\ s[i + 1] \in B /\ s[j + 1] \in B /\ i + 1 < j + 1
      BY <1>2, <1>3
    <3> QED  BY <1>3, <3>1 DEF Separated
  <2>2. k - 1 \in i+1..j-1 /\ k - 1 \in 1..Len(t) /\ t[k - 1] = s[(k - 1) + 1]
    BY <1>2, <2>1
  <2> QED  BY <2>1, <2>2
<1>4. ASSUME Separated(s, B, P), s[1] \in B, NEW j \in 1..Len(t), t[j] \in B
      PROVE  \E k \in 1..j-1 : t[k] \in P
  <2>1. PICK k \in 1 + 1..(j + 1) - 1 : s[k] \in P
    <3>1. j + 1 \in 1..Len(s) /\ s[j + 1] \in B /\ 1 < j + 1  BY <1>2, <1>4
    <3> QED  BY <1>2, <1>4, <3>1 DEF Separated
  <2>2. k - 1 \in 1..j-1 /\ k - 1 \in 1..Len(t) /\ t[k - 1] = s[(k - 1) + 1]
    BY <1>2, <2>1
  <2> QED  BY <2>1, <2>2
<1>5. ASSUME Guarded(s, B, P), s[1] \notin P, NEW j \in 1..Len(t), t[j] \in B
      PROVE  \E k \in 1..j-1 : t[k] \in P
  <2>1. PICK k \in 1..(j + 1) - 1 : s[k] \in P
    <3>1. j + 1 \in 1..Len(s) /\ s[j + 1] \in B  BY <1>2, <1>5
    <3> QED  BY <1>5, <3>1 DEF Guarded
  <2>2. k - 1 \in 1..j-1 /\ k - 1 \in 1..Len(t) /\ t[k - 1] = s[(k - 1) + 1]
    BY <1>2, <1>5, <2>1
  <2> QED  BY <2>1, <2>2
<1>6. Separated(s, B, P) => Separated(t, B, P)  BY <1>3 DEF Separated
<1>7. Separated(s, B, P) /\ s[1] \in B => Guarded(t, B, P)  BY <1>4 DEF Guarded
<1>8. Guarded(s, B, P) /\ s[1] \notin P => Guarded(t, B, P)  BY <1>5 DEF Guarded
<1>9. ASSUME Guarded(s, B, P) PROVE s[1] \notin B
  <2>1. s[1] \in B => \E k \in 1..1-1 : s[k] \in P  BY <1>2, <1>9 DEF Guarded
  <2> QED  BY <2>1
<1> QED  BY <1>1, <1>2, <1>6, <1>7, <1>8, <1>9

(* Steps put in front of a list, a check after the last of B among them *)
LEMMA Inserted ==
  ASSUME NEW X, NEW u \in Seq(X), NEW v \in Seq(X), NEW t \in Seq(X), NEW B, NEW P,
         Sound(u, B, P), ~Some(v, B), Some(v, P) \/ ~Some(u, B)
  PROVE  /\ Separated(t, B, P) => Separated(u \o v \o t, B, P)
         /\ Guarded(t, B, P) => Guarded(u \o v \o t, B, P)
<1>1. \A s : ~Some(s, B) => Sound(s, B, P)  BY DEF Some, Sound, Guarded, Separated
<1>2. Sound(v, B, P)  BY <1>1
<1>3. PICK w \in Seq(X) : w = u \o v  BY CatIndex
<1>4. Sound(w, B, P)  BY <1>2, <1>3, SoundCat
<1>5. Guarded(t, B, P) => Guarded(w \o t, B, P)  BY <1>4, SoundCat DEF Sound
<1>6. ASSUME Separated(t, B, P) PROVE Separated(w \o t, B, P)
  <2>1. PICK z : z = w \o t  OBVIOUS
  <2>2. /\ Len(z) = Len(w) + Len(t) /\ Len(w) \in Nat /\ Len(t) \in Nat
        /\ \A i \in 1..Len(w) : i \in 1..Len(z) /\ z[i] = w[i]
        /\ \A i \in 1..Len(t) : i + Len(w) \in 1..Len(z) /\ z[i + Len(w)] = t[i]
        /\ \A i \in 1..Len(z) : i \in 1..Len(w) \/ i - Len(w) \in 1..Len(t)
        /\ \A i \in 1..Len(z) : i \notin 1..Len(w) => z[i] = t[i - Len(w)]
    BY <2>1, CatIndex
  <2>3. /\ Len(w) = Len(u) + Len(v) /\ Len(u) \in Nat /\ Len(v) \in Nat
        /\ \A i \in 1..Len(v) : i + Len(u) \in 1..Len(w) /\ w[i + Len(u)] = v[i]
        /\ \A i \in 1..Len(w) : i \in 1..Len(u) \/ i - Len(u) \in 1..Len(v)
        /\ \A i \in 1..Len(w) : i \notin 1..Len(u) => w[i] = v[i - Len(u)]
        /\ \A i \in 1..Len(u) : w[i] = u[i]
    BY <1>3, CatIndex
  <2> SUFFICES ASSUME NEW i \in 1..Len(z), NEW j \in 1..Len(z), i < j, z[i] \in B, z[j] \in B
      PROVE  \E k \in i+1..j-1 : z[k] \in P
      BY <2>1 DEF Separated
  <2>4. CASE j \in 1..Len(w)
    <3>1. i \in 1..Len(w) /\ w[i] \in B /\ w[j] \in B  BY <2>2, <2>4
    <3>2. PICK k \in i+1..j-1 : w[k] \in P  BY <1>4, <2>4, <3>1 DEF Sound, Separated
    <3>3. k \in 1..Len(w)  BY <2>2, <2>4, <3>1
    <3> QED  BY <2>2, <3>2, <3>3
  <2>5. CASE i \notin 1..Len(w)
    <3>1. /\ i - Len(w) \in 1..Len(t) /\ t[i - Len(w)] \in B /\ j \notin 1..Len(w)
          /\ j - Len(w) \in 1..Len(t) /\ t[j - Len(w)] \in B /\ i - Len(w) < j - Len(w)
      BY <2>2, <2>5
    <3>2. PICK k \in (i - Len(w)) + 1..(j - Len(w)) - 1 : t[k] \in P
      BY <1>6, <3>1 DEF Separated
    <3>3. i \in Nat /\ j \in Nat /\ Len(w) \in Nat /\ Len(t) \in Nat  BY <2>2
    <3>4. k \in 1..Len(t) /\ k + Len(w) \in i+1..j-1  BY <3>1, <3>2, <3>3, SMTT(40)
    <3> QED  BY <2>2, <3>2, <3>4
  <2>6. CASE i \in 1..Len(w) /\ j \notin 1..Len(w)
    <3>1. w[i] \in B  BY <2>2, <2>6
    <3>2. i \in 1..Len(u) /\ u[i] \in B  BY <2>3, <2>6, <3>1 DEF Some
    <3>3. PICK k \in 1..Len(v) : v[k] \in P  BY <3>2 DEF Some
    <3>4. k + Len(u) \in 1..Len(w) /\ k + Len(u) \in i+1..j-1 /\ w[k + Len(u)] \in P
      BY <2>2, <2>3, <2>6, <3>2, <3>3
    <3> QED  BY <2>2, <3>4
  <2> QED  BY <2>4, <2>5, <2>6
<1> QED  BY <1>3, <1>5, <1>6

-----------------------------------------------------------------------------
(* The calls of a run and their places *)

Mutations == {"stage", "activate", "patch", "recoverDeploy"} \X Workers
Checks == {"fence", "authorize"} \X Workers
Fences == {"fence"} \X Workers

Free == {"fence", "authorize", "readRetired"}          \* may come anywhere
Repeating == {"predecessor", "verifyStaged", "final", "reconcile", "canaries"}
Closing == {"final", "reconcile", "canaries", "report"}
Staging2 == {"callerPredecessor", "stage", "readStaged"}
Retiring == {"beginRetirement", "retireRead", "intent", "retireReread", "patch", "retireVerify",
             "receipt", "acceptRetirement", "completeRetirement", "observe",
             "completeObservation"}
Activating == {"handoff", "readObserved", "activate", "readActive"}
Inserting == Retiring \cup {"readObserved"}            \* not in the plan of a delivery
DeliverNames == Free \cup Repeating \cup Closing \cup Staging2 \cup Retiring \cup Activating
PlanNames == {"fence"} \cup (DeliverNames \ (Inserting \cup Free))

DeliverStep == DeliverNames \X Workers
PlanStep == PlanNames \X Workers
InsertStep == (Free \cup Inserting) \X Workers
QuietStep == (Closing \cup {"fence"}) \X Workers
PreStep == {"fence", "ledger", "inventory", "decide"} \X Workers
RecoverStep == {"fence", "recoverRead", "recoverDeploy", "recoverProve"} \X Workers
Step == DeliverStep \cup PreStep \cup RecoverStep

Place ==
  [fence |-> 0, authorize |-> 0, readRetired |-> 0, predecessor |-> 0,
   callerPredecessor |-> 1, stage |-> 2, readStaged |-> 3, observe |-> 4,
   completeObservation |-> 5, beginRetirement |-> 6, retireRead |-> 7, intent |-> 8,
   retireReread |-> 9, patch |-> 10, retireVerify |-> 11, receipt |-> 12,
   acceptRetirement |-> 13, completeRetirement |-> 14, verifyStaged |-> 60, handoff |-> 61,
   readObserved |-> 62, activate |-> 63, readActive |-> 64, final |-> 110,
   reconcile |-> 110, canaries |-> 110, report |-> 120]
StageTurn == [core |-> 0, publisher |-> 20, rendezvous |-> 40]
ActiveTurn == [publisher |-> 0, rendezvous |-> 20, core |-> 40]
Rank(x) ==
  Place[x[1]] + (IF x[1] \in Staging2 \cup Retiring THEN StageTurn[x[2]]
                 ELSE IF x[1] \in Activating THEN ActiveTurn[x[2]] ELSE 0)

(* x may stand before y: in rank, the plan behind what was inserted, and        *)
(* nothing but fences among the closing calls.                                  *)
Precedes(x, y) ==
  /\ x[1] \notin Free /\ y[1] \notin Free =>
       Rank(x) < Rank(y) \/ (Rank(x) = Rank(y) /\ x[1] \in Repeating)
  /\ x[1] \notin Free \cup Inserting => y[1] \notin Inserting
  /\ x[1] \in Closing => y[1] \in Closing \cup {"fence"}
Orderly(s) == \A i, j \in 1..Len(s) : i < j => Precedes(s[i], s[j])

-----------------------------------------------------------------------------
(* What a run has made good *)

RunFields ==
  {"src", "boot", "pred", "policy", "todo", "mode", "decision", "read", "api", "phase", "retired",
   "uncertain", "coreStaged", "message", "uploaded", "snapshot", "intent", "receipt", "own",
   "hand", "pending", "cohort", "transition", "hit", "patched", "outcome", "recovery"}
Shape(r) == DOMAIN r = RunFields

Types ==
  /\ Shape(run) /\ run.todo \in Seq(Step) /\ run.src \in Sources /\ run.pending \in Seq(Callers)
  /\ request # None => request.src \in Sources
  /\ live \in [Workers -> Version] /\ versions \in Nat
  /\ \A w \in Workers : live[w].version <= versions
  /\ fenced \in [Workers -> Nat] /\ \A w \in Workers : fenced[w] <= versions
  /\ authorized \in BOOLEAN /\ strange \subseteq Workers

(* An annotation names the code it was uploaded with. *)
Annotated == \A w \in Workers : live[w].note # None => live[w].note.source = live[w].code

(* At most one more mutation, and none while the list has one unguarded; what   *)
(* the recovery reads may bring one on.                                         *)
Pressing == Mutations \cup {<<"recoverRead", "core">>}
Lateness ==
  /\ Separated(run.todo, Pressing, Checks)
  /\ late = 0 \/ (late = 1 /\ ~authorized /\ Guarded(run.todo, Pressing, Checks))

(* The core is marked before it is touched, and recovered from then on. *)
Under(mode) == run.outcome = None /\ run.mode = mode
Modes ==
  /\ run.outcome # None => run.todo = <<>>
  /\ run.outcome = None => run.mode \in {"preflight", "deliver", "recover"}
  /\ Under("preflight") => run.todo \in Seq(PreStep) /\ run.hit = {}
  /\ Under("recover") => run.todo \in Seq(RecoverStep)
  /\ Under("deliver") =>
       /\ run.todo \in Seq(DeliverStep) /\ Orderly(run.todo)
       /\ run.decision \in {"deploy", "no-op"}
       /\ run.decision = "no-op" => run.todo \in Seq(QuietStep) /\ run.hit = {}
       /\ run.decision = "deploy" => Has(run.todo, <<"stage", "core">>) \/ run.coreStaged
       /\ "core" \in run.hit => run.coreStaged

(* A Worker is as the delivery wants it once no readback of it is left. *)
Good(w) == live[w].code = run.src /\ live[w].circuit = "enabled" /\ ~live[w].pair
Finals ==
  Under("deliver") => \A w \in Workers :
    Has(run.todo, <<"final", w>>) \/ (run.todo \in Seq(QuietStep) /\ (w \in strange \/ Good(w)))

CourseInv ==
  /\ Types /\ Annotated /\ Lateness /\ Modes /\ Finals
  /\ SuccessMeansCoherent /\ RecoveryHonest

-----------------------------------------------------------------------------
(* The lists the engine makes *)

LEMMA SeqWithin ==
  ASSUME NEW X, NEW Y, NEW s \in Seq(X), X \subseteq Y
  PROVE  s \in Seq(Y)
OBVIOUS

LEMMA OneIn ==
  ASSUME NEW X, NEW x \in X
  PROVE  /\ <<x>> \in Seq(X) /\ Len(<<x>>) = 1 /\ <<x>>[1] = x
         /\ \A y : Has(<<x>>, y) <=> y = x
         /\ \A Y : Some(<<x>>, Y) <=> x \in Y
<1>1. PICK u : u = <<x>>  OBVIOUS
<1>2. u \in Seq(X) /\ Len(u) = 1 /\ u[1] = x  BY <1>1
<1> QED  BY <1>1, <1>2 DEF Has, Some

LEMMA Joined ==
  ASSUME NEW x, NEW y
  PROVE  <<x>> \o <<y>> = <<x, y>>
<1>1. <<x>> \in Seq({x, y}) /\ <<y>> \in Seq({x, y}) /\ <<x, y>> \in Seq({x, y})  OBVIOUS
<1>2. PICK s \in Seq({x, y}) : s = <<x>>  BY <1>1
<1>3. PICK t \in Seq({x, y}) : t = <<y>>  BY <1>1
<1>4. Len(s) = 1 /\ Len(t) = 1 /\ s[1] = x /\ t[1] = y  BY <1>2, <1>3
<1>5. PICK u \in Seq({x, y}) : u = s \o t  BY CatIndex
<1>6. Len(u) = 2 /\ u[1] = x /\ u[2] = y
  <2>1. /\ Len(u) = Len(s) + Len(t)
        /\ \A i \in 1..Len(s) : u[i] = s[i]
        /\ \A i \in 1..Len(u) : i \notin 1..Len(s) => u[i] = t[i - Len(s)]
    BY <1>5, CatIndex
  <2>2. Len(u) = 2 /\ 2 \in 1..2 /\ 2 \notin 1..1 /\ 2 - 1 = 1 /\ 1 \in 1..1  BY <1>4, <2>1
  <2> QED  BY <1>4, <2>1, <2>2
<1>7. u = <<x, y>>  BY <1>6
<1> QED  BY <1>2, <1>3, <1>5, <1>7

LEMMA StepsAre ==
  ASSUME NEW name
  PROVE  Steps(name, DeploymentOrder) = << <<name, "core">>, <<name, "publisher">>, <<name, "rendezvous">> >>
BY DEF Steps, DeploymentOrder

LEMMA Ranks ==
  /\ StageTurn["core"] = 0 /\ StageTurn["publisher"] = 20 /\ StageTurn["rendezvous"] = 40
  /\ ActiveTurn["publisher"] = 0 /\ ActiveTurn["rendezvous"] = 20 /\ ActiveTurn["core"] = 40
  /\ \A w \in Workers :
       /\ StageTurn[w] \in {0, 20, 40} /\ ActiveTurn[w] \in {0, 20, 40}
       /\ Rank(<<"predecessor", w>>) = 0 /\ Rank(<<"verifyStaged", w>>) = 60
       /\ Rank(<<"final", w>>) = 110 /\ Rank(<<"reconcile", w>>) = 110
       /\ Rank(<<"canaries", w>>) = 110 /\ Rank(<<"report", w>>) = 120
       /\ Rank(<<"callerPredecessor", w>>) = 1 + StageTurn[w]
       /\ Rank(<<"stage", w>>) = 2 + StageTurn[w] /\ Rank(<<"readStaged", w>>) = 3 + StageTurn[w]
       /\ Rank(<<"observe", w>>) = 4 + StageTurn[w]
       /\ Rank(<<"completeObservation", w>>) = 5 + StageTurn[w]
       /\ Rank(<<"beginRetirement", w>>) = 6 + StageTurn[w]
       /\ Rank(<<"retireRead", w>>) = 7 + StageTurn[w] /\ Rank(<<"intent", w>>) = 8 + StageTurn[w]
       /\ Rank(<<"retireReread", w>>) = 9 + StageTurn[w] /\ Rank(<<"patch", w>>) = 10 + StageTurn[w]
       /\ Rank(<<"retireVerify", w>>) = 11 + StageTurn[w] /\ Rank(<<"receipt", w>>) = 12 + StageTurn[w]
       /\ Rank(<<"acceptRetirement", w>>) = 13 + StageTurn[w]
       /\ Rank(<<"completeRetirement", w>>) = 14 + StageTurn[w]
       /\ Rank(<<"handoff", w>>) = 61 + ActiveTurn[w] /\ Rank(<<"readObserved", w>>) = 62 + ActiveTurn[w]
       /\ Rank(<<"activate", w>>) = 63 + ActiveTurn[w] /\ Rank(<<"readActive", w>>) = 64 + ActiveTurn[w]
<1>1. /\ StageTurn["core"] = 0 /\ StageTurn["publisher"] = 20 /\ StageTurn["rendezvous"] = 40
      /\ ActiveTurn["publisher"] = 0 /\ ActiveTurn["rendezvous"] = 20 /\ ActiveTurn["core"] = 40
  BY DEF StageTurn, ActiveTurn
<1>2. \A w \in Workers : StageTurn[w] \in {0, 20, 40} /\ ActiveTurn[w] \in {0, 20, 40}
  BY <1>1 DEF Workers
<1> HIDE DEF StageTurn, ActiveTurn
<1>3. /\ Place["predecessor"] = 0 /\ Place["verifyStaged"] = 60 /\ Place["final"] = 110
      /\ Place["reconcile"] = 110 /\ Place["canaries"] = 110 /\ Place["report"] = 120
      /\ Place["callerPredecessor"] = 1 /\ Place["stage"] = 2 /\ Place["readStaged"] = 3
      /\ Place["observe"] = 4 /\ Place["completeObservation"] = 5 /\ Place["beginRetirement"] = 6
      /\ Place["retireRead"] = 7 /\ Place["intent"] = 8 /\ Place["retireReread"] = 9
      /\ Place["patch"] = 10 /\ Place["retireVerify"] = 11 /\ Place["receipt"] = 12
      /\ Place["acceptRetirement"] = 13 /\ Place["completeRetirement"] = 14
      /\ Place["handoff"] = 61 /\ Place["readObserved"] = 62 /\ Place["activate"] = 63
      /\ Place["readActive"] = 64
  BY DEF Place
<1> HIDE DEF Place
<1>4. ASSUME NEW n, NEW w PROVE <<n, w>>[1] = n /\ <<n, w>>[2] = w  OBVIOUS
<1> QED  BY <1>1, <1>2, <1>3, <1>4 DEF Rank, Staging2, Retiring, Activating

(* The same, in parts *)
LEMMA FixedRanks ==
  \A w \in Workers :
    /\ Rank(<<"verifyStaged", w>>) = 60 /\ Rank(<<"final", w>>) = 110
    /\ Rank(<<"reconcile", w>>) = 110 /\ Rank(<<"canaries", w>>) = 110
<1>1. /\ Place["verifyStaged"] = 60 /\ Place["final"] = 110
      /\ Place["reconcile"] = 110 /\ Place["canaries"] = 110
  BY DEF Place
<1> HIDE DEF Place
<1>2. ASSUME NEW n, NEW w PROVE <<n, w>>[1] = n /\ <<n, w>>[2] = w  OBVIOUS
<1> QED  BY <1>1, <1>2 DEF Rank, Staging2, Retiring, Activating

LEMMA ActiveRanks ==
  \A w \in Workers :
    /\ Rank(<<"handoff", w>>) = 61 + ActiveTurn[w] /\ Rank(<<"readObserved", w>>) = 62 + ActiveTurn[w]
    /\ Rank(<<"activate", w>>) = 63 + ActiveTurn[w] /\ Rank(<<"readActive", w>>) = 64 + ActiveTurn[w]
<1>1. /\ Place["handoff"] = 61 /\ Place["readObserved"] = 62
      /\ Place["activate"] = 63 /\ Place["readActive"] = 64
  BY DEF Place
<1> HIDE DEF Place
<1>2. ASSUME NEW n, NEW w PROVE <<n, w>>[1] = n /\ <<n, w>>[2] = w  OBVIOUS
<1> QED  BY <1>1, <1>2 DEF Rank, Staging2, Retiring, Activating

LEMMA TurnsNat == \A w \in Workers : StageTurn[w] \in Nat /\ ActiveTurn[w] \in Nat
<1>1. \A w \in Workers : StageTurn[w] \in {0, 20, 40} /\ ActiveTurn[w] \in {0, 20, 40}  BY Ranks
<1> QED  BY <1>1

LEMMA RankRange ==
  ASSUME NEW x \in DeliverStep
  PROVE  /\ Rank(x) \in Nat
         /\ x[1] \in DeliverNames /\ x[2] \in Workers /\ x = <<x[1], x[2]>>
         /\ x[1] \notin Free => (x[1] \in Closing <=> Rank(x) >= 110)
         /\ x[1] \notin Free /\ x[1] \notin Inserting =>
              \A w \in Workers : /\ Rank(x) > 3 + StageTurn[w] => Rank(x) > 14 + StageTurn[w]
                                 /\ Rank(x) > 61 + ActiveTurn[w] => Rank(x) > 62 + ActiveTurn[w]
<1>1. PICK n \in DeliverNames, w \in Workers : x = <<n, w>>  BY DEF DeliverStep
<1>2. x[1] = n /\ x[2] = w  BY <1>1
<1>3. CASE n \in Free
  BY <1>1, <1>2, <1>3, Ranks DEF Free, Rank, Staging2, Retiring, Activating, Place
<1>4. CASE n \notin Free
  <2>1. n \in Repeating \cup Closing \cup Staging2 \cup Retiring \cup Activating
    BY <1>4 DEF DeliverNames
  <2>2. \A v \in Workers : StageTurn[v] \in {0, 20, 40} /\ ActiveTurn[v] \in {0, 20, 40}
    BY Ranks
  <2>3. CASE n \in Repeating \cup Closing
    <3>0. Rank(x) = Place[n] + 0
      BY <1>1, <1>2, <2>3 DEF Rank, Repeating, Closing, Staging2, Retiring, Activating
    <3>1. /\ Place[n] \in {0, 60, 110, 120}
          /\ n \in Closing <=> Place[n] \in {110, 120}
      BY <2>3 DEF Repeating, Closing, Place
    <3> QED  BY <1>1, <1>2, <2>2, <3>0, <3>1
  <2>4. CASE n \in Staging2 \cup Retiring
    <3>0. Rank(x) = Place[n] + StageTurn[w]  BY <1>1, <1>2, <2>4 DEF Rank
    <3>1. Place[n] \in 1..14 /\ (n \notin Inserting => Place[n] \in 1..3)
      BY <2>4 DEF Staging2, Retiring, Inserting, Place
    <3>2. n \notin Closing  BY <2>4 DEF Staging2, Retiring, Closing
    <3> QED  BY <1>1, <1>2, <2>2, <3>0, <3>1, <3>2
  <2>5. CASE n \in Activating
    <3>0. Rank(x) = Place[n] + ActiveTurn[w]
      BY <1>1, <1>2, <2>5 DEF Rank, Activating, Staging2, Retiring
    <3>1. Place[n] \in 61..64 /\ (n \notin Inserting => Place[n] \in {61, 63, 64})
      BY <2>5 DEF Activating, Inserting, Place
    <3>2. n \notin Closing  BY <2>5 DEF Activating, Closing
    <3> QED  BY <1>1, <1>2, <2>2, <3>0, <3>1, <3>2
  <2> QED  BY <2>1, <2>3, <2>4, <2>5
<1> QED  BY <1>3, <1>4

LEMMA RankNat == \A x \in DeliverStep : Rank(x) \in Nat
BY RankRange

(* A stretch of a list whose ranks lie between l and m *)
Span(s, l, m) ==
  /\ \A i \in 1..Len(s) : s[i][1] \notin Free => l <= Rank(s[i]) /\ Rank(s[i]) <= m
  /\ \A i, j \in 1..Len(s) : i < j /\ s[i][1] \notin Free /\ s[j][1] \notin Free =>
       Rank(s[i]) < Rank(s[j]) \/ (Rank(s[i]) = Rank(s[j]) /\ s[i][1] \in Repeating)

LEMMA SpanOne ==
  ASSUME NEW x \in DeliverStep
  PROVE  /\ Span(<<x>>, Rank(x), Rank(x))
         /\ x[1] \in Free => \A l, m : Span(<<x>>, l, m)
<1>1. PICK u : u = <<x>>  OBVIOUS
<1>2. Len(u) = 1 /\ u[1] = x  BY <1>1
<1> QED  BY <1>1, <1>2, RankRange DEF Span

LEMMA SpanWider ==
  ASSUME NEW s \in Seq(DeliverStep), NEW l \in Nat, NEW m \in Nat, Span(s, l, m),
         NEW a \in Nat, NEW b \in Nat, a <= l, m <= b
  PROVE  Span(s, a, b)
<1>1. ASSUME NEW i \in 1..Len(s), s[i][1] \notin Free PROVE a <= Rank(s[i]) /\ Rank(s[i]) <= b
  <2>1. Rank(s[i]) \in Nat  BY RankNat
  <2>2. l <= Rank(s[i]) /\ Rank(s[i]) <= m  BY <1>1 DEF Span
  <2> QED  BY <2>1, <2>2
<1> QED  BY <1>1 DEF Span

LEMMA SpanCat ==
  ASSUME NEW s \in Seq(DeliverStep), NEW t \in Seq(DeliverStep),
         NEW l \in Nat, NEW m \in Nat, NEW k \in Nat, NEW n \in Nat,
         Span(s, l, m), Span(t, k, n), m < k, l <= m, k <= n
  PROVE  Span(s \o t, l, n)
<1>1. PICK u : u = s \o t  OBVIOUS
<1>2. /\ Len(u) = Len(s) + Len(t) /\ Len(s) \in Nat /\ Len(t) \in Nat
      /\ \A i \in 1..Len(s) : i \in 1..Len(u) /\ u[i] = s[i]
      /\ \A i \in 1..Len(u) : i \in 1..Len(s) \/ i - Len(s) \in 1..Len(t)
      /\ \A i \in 1..Len(u) : i \notin 1..Len(s) => u[i] = t[i - Len(s)]
  BY <1>1, CatIndex
<1>3. /\ \A i \in 1..Len(s) : Rank(s[i]) \in Nat
      /\ \A i \in 1..Len(t) : Rank(t[i]) \in Nat
  <2>1. ASSUME NEW i \in 1..Len(s) PROVE Rank(s[i]) \in Nat
    <3>1. s[i] \in DeliverStep  OBVIOUS
    <3> QED  BY <3>1, RankNat
  <2>2. ASSUME NEW i \in 1..Len(t) PROVE Rank(t[i]) \in Nat
    <3>1. t[i] \in DeliverStep  OBVIOUS
    <3> QED  BY <3>1, RankNat
  <2> QED  BY <2>1, <2>2
<1>4. ASSUME NEW i \in 1..Len(u), u[i][1] \notin Free
      PROVE  /\ l <= Rank(u[i]) /\ Rank(u[i]) <= n
             /\ i \in 1..Len(s) => Rank(u[i]) <= m
             /\ i \notin 1..Len(s) => k <= Rank(u[i])
  <2>1. CASE i \in 1..Len(s)
    <3>1. PICK h \in 1..Len(s) : u[i] = s[h]  BY <1>2, <2>1
    <3>2. Rank(s[h]) \in Nat  BY <1>3
    <3>3. l <= Rank(s[h]) /\ Rank(s[h]) <= m  BY <1>4, <3>1 DEF Span
    <3>4. Rank(s[h]) <= n  BY <3>2, <3>3
    <3> QED  BY <2>1, <3>1, <3>3, <3>4
  <2>2. CASE i \notin 1..Len(s)
    <3>1. PICK h \in 1..Len(t) : u[i] = t[h]  BY <1>2, <2>2
    <3>2. Rank(t[h]) \in Nat  BY <1>3
    <3>3. k <= Rank(t[h]) /\ Rank(t[h]) <= n  BY <1>4, <3>1 DEF Span
    <3>4. l <= Rank(t[h])  BY <3>2, <3>3
    <3> QED  BY <2>2, <3>1, <3>3, <3>4
  <2> QED  BY <2>1, <2>2
<1>5. ASSUME NEW i \in 1..Len(u), NEW j \in 1..Len(u), i < j, u[i][1] \notin Free, u[j][1] \notin Free
      PROVE  Rank(u[i]) < Rank(u[j]) \/ (Rank(u[i]) = Rank(u[j]) /\ u[i][1] \in Repeating)
  <2>1. CASE j \in 1..Len(s)
    <3>1. i \in 1..Len(s)  BY <1>2, <1>5, <2>1
    <3>2. u[i] = s[i] /\ u[j] = s[j]  BY <1>2, <2>1, <3>1
    <3> QED  BY <1>5, <2>1, <3>1, <3>2 DEF Span
  <2>2. CASE i \notin 1..Len(s)
    <3>1. j \notin 1..Len(s)  BY <1>2, <1>5, <2>2
    <3>2. i - Len(s) \in 1..Len(t) /\ j - Len(s) \in 1..Len(t) /\ i - Len(s) < j - Len(s)
      BY <1>2, <1>5, <2>2, <3>1
    <3>3. PICK g \in 1..Len(t), h \in 1..Len(t) : g < h /\ u[i] = t[g] /\ u[j] = t[h]
      BY <1>2, <2>2, <3>1, <3>2
    <3> QED  BY <1>5, <3>3 DEF Span
  <2>3. CASE i \in 1..Len(s) /\ j \notin 1..Len(s)
    <3>1. Rank(u[i]) \in Nat /\ Rank(u[j]) \in Nat  BY <1>2, <1>3, <2>3
    <3>2. Rank(u[i]) <= m  BY <1>4, <1>5, <2>3
    <3>3. k <= Rank(u[j])  BY <1>4, <1>5, <2>3
    <3> QED  BY <3>1, <3>2, <3>3
  <2> QED  BY <2>1, <2>2, <2>3
<1>6. Span(u, l, n)  BY <1>4, <1>5 DEF Span
<1> QED  BY <1>1, <1>6

(* Fences and authorities may stand before or after any stretch. *)
LEMMA SpanFree ==
  ASSUME NEW s \in Seq(DeliverStep), NEW t \in Seq(DeliverStep), NEW l, NEW m,
         \A i \in 1..Len(s) : s[i][1] \in Free, Span(t, l, m)
  PROVE  Span(s \o t, l, m) /\ Span(t \o s, l, m)
<1>1. PICK u : u = s \o t  OBVIOUS
<1>2. /\ Len(u) = Len(s) + Len(t) /\ Len(s) \in Nat /\ Len(t) \in Nat
      /\ \A i \in 1..Len(u) : i \in 1..Len(s) => u[i] = s[i]
      /\ \A i \in 1..Len(u) : i \notin 1..Len(s) => u[i] = t[i - Len(s)] /\ i - Len(s) \in 1..Len(t)
  BY <1>1, CatIndex
<1>3. Span(u, l, m)
  <2>1. \A i \in 1..Len(u) : u[i][1] \notin Free => i - Len(s) \in 1..Len(t) /\ u[i] = t[i - Len(s)]
    BY <1>2
  <2> SUFFICES ASSUME NEW i \in 1..Len(u), NEW j \in 1..Len(u), i < j,
                      u[i][1] \notin Free, u[j][1] \notin Free
               PROVE  Rank(u[i]) < Rank(u[j]) \/ (Rank(u[i]) = Rank(u[j]) /\ u[i][1] \in Repeating)
    BY <2>1 DEF Span
  <2>2. PICK g \in 1..Len(t), h \in 1..Len(t) : g < h /\ u[i] = t[g] /\ u[j] = t[h]
    <3>1. i - Len(s) < j - Len(s)  BY <1>2
    <3> QED  BY <2>1, <3>1
  <2> QED  BY <2>2 DEF Span
<1>4. PICK v : v = t \o s  OBVIOUS
<1>5. /\ Len(v) = Len(t) + Len(s) /\ Len(s) \in Nat /\ Len(t) \in Nat
      /\ \A i \in 1..Len(v) : i \in 1..Len(t) => v[i] = t[i]
      /\ \A i \in 1..Len(v) : i \notin 1..Len(t) => v[i] = s[i - Len(t)] /\ i - Len(t) \in 1..Len(s)
  BY <1>4, CatIndex
<1>6. Span(v, l, m)
  <2>1. \A i \in 1..Len(v) : v[i][1] \notin Free => i \in 1..Len(t) /\ v[i] = t[i]
    BY <1>5
  <2> QED  BY <2>1 DEF Span
<1> QED  BY <1>1, <1>3, <1>4, <1>6

(* A stretch of the plan, or of what is inserted, is in order. *)
LEMMA SpanOrderly ==
  ASSUME NEW s \in Seq(DeliverStep), NEW l, NEW m, Span(s, l, m),
         s \in Seq(PlanStep) \/ s \in Seq(InsertStep)
  PROVE  Orderly(s)
<1> SUFFICES ASSUME NEW i \in 1..Len(s), NEW j \in 1..Len(s), i < j
             PROVE  Precedes(s[i], s[j])
  BY DEF Orderly
<1>1. s[i] \in DeliverStep /\ s[j] \in DeliverStep  OBVIOUS
<1>2. s[i][1] \notin Free /\ s[j][1] \notin Free =>
        Rank(s[i]) < Rank(s[j]) \/ (Rank(s[i]) = Rank(s[j]) /\ s[i][1] \in Repeating)
  BY DEF Span
<1>3. CASE s \in Seq(InsertStep)
  <2>1. s[i] \in InsertStep  BY <1>3
  <2>2. s[i][1] \in Free \cup Inserting  BY <2>1 DEF InsertStep
  <2>3. s[i][1] \notin Closing  BY <2>2 DEF Free, Inserting, Closing, Retiring
  <2> QED  BY <1>2, <2>2, <2>3 DEF Precedes
<1>4. CASE s \in Seq(PlanStep)
  <2>1. s[i] \in PlanStep /\ s[j] \in PlanStep  BY <1>4
  <2>2. s[i][1] \in PlanNames /\ s[j][1] \in PlanNames  BY <2>1 DEF PlanStep
  <2>3. s[j][1] \notin Inserting  BY <2>2 DEF PlanNames, Inserting, Retiring
  <2>4. s[j][1] \in Free => s[j][1] = "fence"  BY <2>2 DEF PlanNames
  <2>5. s[i][1] \in Closing => s[i][1] \notin Free  BY DEF Closing, Free
  <2>6. s[i][1] \in Closing /\ s[j][1] \notin Free => s[j][1] \in Closing
    BY <1>1, <1>2, <2>5, RankRange
  <2> QED  BY <1>2, <2>3, <2>4, <2>6 DEF Precedes
<1> QED  BY <1>3, <1>4

LEMMA SpanLevel ==
  ASSUME NEW s \in Seq(DeliverStep), NEW n \in Nat,
         \A i \in 1..Len(s) : s[i][1] \in Free \/ (Rank(s[i]) = n /\ s[i][1] \in Repeating)
  PROVE  Span(s, n, n)
BY DEF Span

(* Steps without a mutation are sound, and a check ahead guards what follows. *)
LEMMA SoundPut ==
  ASSUME NEW X, NEW s \in Seq(X), NEW t \in Seq(X), NEW B, NEW P, ~Some(s, B)
  PROVE  /\ Sound(s, B, P)
         /\ Separated(t, B, P) => Separated(s \o t, B, P)
         /\ Some(s, P) /\ Separated(t, B, P) => Sound(s \o t, B, P)
<1>1. Sound(s, B, P)  BY DEF Some, Sound, Guarded, Separated
<1>2. /\ <<>> \in Seq(X) /\ <<>> \o s \o t = s \o t
      /\ Sound(<<>>, B, P) /\ ~Some(<<>>, B)
  BY DEF Some, Sound, Guarded, Separated
<1>3. Separated(t, B, P) => Separated(s \o t, B, P)
  <2>1. PICK e : e = <<>>  OBVIOUS
  <2>2. e \in Seq(X) /\ e \o s \o t = s \o t /\ Sound(e, B, P) /\ ~Some(e, B)  BY <1>2, <2>1
  <2> QED  BY <2>2, Inserted
<1>4. Some(s, P) => Guarded(s \o t, B, P)  BY <1>1, SoundCat DEF Sound
<1> QED  BY <1>1, <1>3, <1>4 DEF Sound

LEMMA OneSound ==
  ASSUME NEW x, NEW B, NEW P
  PROVE  Separated(<<x>>, B, P) /\ (x \notin B => Sound(<<x>>, B, P))
<1>1. PICK u : u = <<x>>  OBVIOUS
<1>2. Len(u) = 1 /\ u[1] = x  BY <1>1
<1> QED  BY <1>1, <1>2 DEF Separated, Guarded, Sound

LEMMA StepSets ==
  /\ PlanStep \subseteq DeliverStep /\ InsertStep \subseteq DeliverStep
  /\ QuietStep \subseteq PlanStep /\ QuietStep \subseteq DeliverStep
  /\ DeliverStep \subseteq Step /\ PreStep \subseteq Step /\ RecoverStep \subseteq Step
  /\ <<"fence", "core">> \in QuietStep \cap PlanStep \cap InsertStep \cap DeliverStep \cap PreStep \cap RecoverStep
  /\ <<"fence", "core">> \in Checks \cap Fences /\ <<"fence", "core">> \notin Pressing
  /\ <<"fence", "core">>[1] = "fence" /\ "fence" \in Free
<1>1. /\ QuietStep \subseteq PlanStep
  BY DEF QuietStep, PlanStep, PlanNames, DeliverNames, Closing, Inserting, Retiring, Free
<1>2. PlanStep \subseteq DeliverStep  BY DEF PlanStep, DeliverStep, PlanNames, DeliverNames, Free
<1>3. InsertStep \subseteq DeliverStep
  BY DEF InsertStep, DeliverStep, DeliverNames, Inserting, Activating
<1>4. <<"fence", "core">> \in QuietStep \cap PreStep \cap RecoverStep \cap InsertStep
  BY DEF QuietStep, PreStep, RecoverStep, InsertStep, Free, Workers
<1>5. <<"fence", "core">> \in Checks \cap Fences /\ <<"fence", "core">> \notin Pressing
  BY DEF Checks, Fences, Pressing, Mutations, Workers
<1>6. <<"fence", "core">>[1] = "fence" /\ "fence" \in Free  BY DEF Free
<1> QED  BY <1>1, <1>2, <1>3, <1>4, <1>5, <1>6 DEF Step

LEMMA FenceFacts ==
  /\ Fence \in Seq(QuietStep) /\ Fence \in Seq(PlanStep) /\ Fence \in Seq(InsertStep)
  /\ Fence \in Seq(DeliverStep)
  /\ \A i \in 1..Len(Fence) : Fence[i][1] \in Free
  /\ Some(Fence, Checks) /\ ~Some(Fence, Pressing)
  /\ Sound(Fence, Pressing, Checks) /\ \A l, m : Span(Fence, l, m)
<1>1. PICK f \in DeliverStep : f = <<"fence", "core">>  BY StepSets
<1>2. Fence = <<f>>  BY <1>1 DEF Fence
<1>3. /\ f \in QuietStep /\ f \in PlanStep /\ f \in InsertStep /\ f[1] \in Free
      /\ f \in Checks /\ f \notin Pressing
  BY <1>1, StepSets
<1> QED  BY <1>2, <1>3, OneIn, OneSound, SpanOne

(* A stretch of the plan whose mutations are guarded *)
Piece(s, l, m) ==
  s \in Seq(PlanStep) /\ s \in Seq(DeliverStep) /\ Span(s, l, m) /\ Sound(s, Pressing, Checks)

LEMMA PieceOne ==
  ASSUME NEW n \in PlanNames, n # "fence", NEW w \in Workers, <<n, w>> \notin Pressing
  PROVE  Piece(<< <<n, w>> >>, Rank(<<n, w>>), Rank(<<n, w>>))
<1>1. PICK x \in PlanStep : x = <<n, w>>  BY DEF PlanStep
<1>2. x \in DeliverStep /\ x \notin Pressing  BY <1>1, StepSets
<1> QED  BY <1>1, <1>2, OneIn, OneSound, SpanOne DEF Piece

LEMMA PieceCat ==
  ASSUME NEW s, NEW t, NEW l \in Nat, NEW m \in Nat, NEW k \in Nat, NEW n \in Nat,
         Piece(s, l, m), Piece(t, k, n), m < k, l <= m, k <= n
  PROVE  Piece(s \o t, l, n)
<1>1. s \o t \in Seq(PlanStep) /\ s \o t \in Seq(DeliverStep)  BY CatIndex DEF Piece
<1>2. Span(s \o t, l, n)  BY SpanCat DEF Piece
<1>3. Sound(s \o t, Pressing, Checks)  BY SoundCat DEF Piece
<1> QED  BY <1>1, <1>2, <1>3 DEF Piece

LEMMA PieceFence ==
  ASSUME NEW s, NEW l \in Nat, NEW m \in Nat, Piece(s, l, m)
  PROVE  Piece(Fence \o s, l, m) /\ Piece(s \o Fence, l, m)
<1>1. s \in Seq(PlanStep) /\ s \in Seq(DeliverStep) /\ Span(s, l, m) /\ Sound(s, Pressing, Checks)
  BY DEF Piece
<1>2. /\ Fence \o s \in Seq(PlanStep) /\ Fence \o s \in Seq(DeliverStep)
      /\ s \o Fence \in Seq(PlanStep) /\ s \o Fence \in Seq(DeliverStep)
  BY <1>1, FenceFacts, CatIndex
<1>3. Span(Fence \o s, l, m) /\ Span(s \o Fence, l, m)  BY <1>1, FenceFacts, SpanFree
<1>4. Sound(Fence \o s, Pressing, Checks) /\ Sound(s \o Fence, Pressing, Checks)
  BY <1>1, FenceFacts, SoundCat
<1> QED  BY <1>2, <1>3, <1>4 DEF Piece

LEMMA PieceWider ==
  ASSUME NEW s, NEW l \in Nat, NEW m \in Nat, Piece(s, l, m), NEW a \in Nat, NEW b \in Nat,
         a <= l, m <= b
  PROVE  Piece(s, a, b)
BY SpanWider DEF Piece

(* A mutation under a check *)
LEMMA PieceMutation ==
  ASSUME NEW s, NEW l \in Nat, NEW m \in Nat, Piece(s, l, m), l <= m,
         Some(s, Checks), ~Some(s, Pressing),
         NEW n \in PlanNames, n # "fence", NEW w \in Workers, m < Rank(<<n, w>>)
  PROVE  Piece(s \o << <<n, w>> >>, l, Rank(<<n, w>>))
<1>1. PICK x \in PlanStep : x = <<n, w>>  BY DEF PlanStep
<1>2. x \in DeliverStep /\ Rank(x) \in Nat  BY <1>1, StepSets, RankRange
<1>3. /\ s \in Seq(PlanStep) /\ s \in Seq(DeliverStep) /\ Span(s, l, m)
      /\ <<x>> \in Seq(PlanStep) /\ <<x>> \in Seq(DeliverStep)
  BY <1>2, OneIn DEF Piece
<1>4. s \o <<x>> \in Seq(PlanStep) /\ s \o <<x>> \in Seq(DeliverStep)  BY <1>3, CatIndex
<1>5. Span(s \o <<x>>, l, Rank(x))
  <2>1. Span(<<x>>, Rank(x), Rank(x))  BY <1>2, SpanOne
  <2>2. PICK k \in Nat : k = Rank(x)  BY <1>2
  <2>3. m < k  BY <1>1, <2>2
  <2>4. PICK t : t = <<x>>  OBVIOUS
  <2>5. t \in Seq(DeliverStep) /\ Span(t, k, k)  BY <1>3, <2>1, <2>2, <2>4
  <2>6. Span(s \o t, l, k)  BY <1>3, <2>3, <2>5, SpanCat
  <2> QED  BY <2>2, <2>4, <2>6
<1>6. Sound(s \o <<x>>, Pressing, Checks)
  <2>1. Separated(<<x>>, Pressing, Checks)  BY OneSound
  <2> QED  BY <1>3, <2>1, SoundPut
<1> QED  BY <1>1, <1>4, <1>5, <1>6 DEF Piece

(* Calls that all have the last rank but one *)
LEMMA LevelPiece ==
  ASSUME NEW s \in Seq({"fence", "final", "reconcile", "canaries"} \X Workers)
  PROVE  /\ s \in Seq(QuietStep) /\ Piece(s, 110, 110) /\ ~Some(s, Pressing)
<1>1. \A i \in 1..Len(s) : s[i][1] \in {"fence", "final", "reconcile", "canaries"} /\ s[i][2] \in Workers
                           /\ s[i] = <<s[i][1], s[i][2]>>
  OBVIOUS
<1>2. s \in Seq(QuietStep)
  <2>1. {"fence", "final", "reconcile", "canaries"} \X Workers \subseteq QuietStep
    BY DEF QuietStep, Closing
  <2> QED  BY <2>1, SeqWithin
<1>3. s \in Seq(PlanStep) /\ s \in Seq(DeliverStep)  BY <1>2, StepSets, SeqWithin
<1>4. Span(s, 110, 110)
  <2>1. ASSUME NEW n \in {"fence", "final", "reconcile", "canaries"}, NEW w \in Workers
        PROVE  n \in Free \/ (Rank(<<n, w>>) = 110 /\ n \in Repeating)
    <3>1. /\ Rank(<<"final", w>>) = 110 /\ Rank(<<"reconcile", w>>) = 110
          /\ Rank(<<"canaries", w>>) = 110
      BY FixedRanks
    <3>2. CASE n = "fence"  BY <3>2 DEF Free
    <3>3. CASE n # "fence"
      <4>1. n \in {"final", "reconcile", "canaries"}  BY <3>3
      <4>2. n \in Repeating  BY <4>1 DEF Repeating
      <4> QED  BY <3>1, <4>1, <4>2
    <3> QED  BY <3>2, <3>3
  <2>2. \A i \in 1..Len(s) : s[i][1] \in Free \/ (Rank(s[i]) = 110 /\ s[i][1] \in Repeating)
    BY <1>1, <2>1
  <2> QED  BY <1>3, <2>2, SpanLevel
<1>5. ~Some(s, Pressing)  BY <1>1 DEF Some, Pressing, Mutations
<1> QED  BY <1>2, <1>3, <1>4, <1>5, SoundPut DEF Piece

LEMMA ClosingPiece ==
  /\ ClosingSteps \in Seq(QuietStep) /\ Piece(ClosingSteps, 110, 120) /\ ~Some(ClosingSteps, Pressing)
  /\ \A w \in Workers : Has(ClosingSteps, <<"final", w>>)
<1> DEFINE L == {"fence", "final", "reconcile", "canaries"} \X Workers
           a == FinalSteps \o Fence \o <<<<"reconcile", "core">>>>
           b == a \o FinalSteps \o Fence \o <<<<"canaries", "core">>>> \o Fence
<1>1. /\ FinalSteps \in Seq(L) /\ Fence \in Seq(L)
      /\ \A w \in Workers : Has(FinalSteps, <<"final", w>>)
  <2>1. Fence \in Seq(L)  BY DEF Fence, Workers
  <2>2. PICK u : u = Steps("final", DeploymentOrder)  OBVIOUS
  <2>3. /\ Len(u) = 3 /\ u[1] = <<"final", "core">> /\ u[2] = <<"final", "publisher">>
        /\ u[3] = <<"final", "rendezvous">> /\ u \in Seq(L)
    <3>1. u = << <<"final", "core">>, <<"final", "publisher">>, <<"final", "rendezvous">> >>
      BY <2>2, StepsAre
    <3>2. /\ <<"final", "core">> \in L /\ <<"final", "publisher">> \in L
          /\ <<"final", "rendezvous">> \in L
      BY DEF Workers
    <3> QED  BY <3>1, <3>2
  <2>4. \A w \in Workers : Has(u, <<"final", w>>)  BY <2>3 DEF Has, Workers
  <2>5. FinalSteps = Fence \o u  BY <2>2 DEF FinalSteps
  <2> QED  BY <2>1, <2>3, <2>4, <2>5, CatIndex, CatHas
<1>2. <<<<"reconcile", "core">>>> \in Seq(L) /\ <<<<"canaries", "core">>>> \in Seq(L)
  BY DEF Workers
<1> HIDE DEF L
<1>3. a \in Seq(L)  BY <1>1, <1>2, CatIndex
<1>4. \A w \in Workers : Has(a, <<"final", w>>)
  <2>1. FinalSteps \o Fence \in Seq(L)  BY <1>1, CatIndex
  <2>2. \A w \in Workers : Has(FinalSteps \o Fence, <<"final", w>>)  BY <1>1, CatHas
  <2> QED  BY <1>2, <2>1, <2>2, CatHas
<1> HIDE DEF a
<1>5. /\ b \in Seq(L)
      /\ \A w \in Workers : Has(b, <<"final", w>>)
  <2>1. /\ a \o FinalSteps \in Seq(L) /\ a \o FinalSteps \o Fence \in Seq(L)
        /\ a \o FinalSteps \o Fence \o <<<<"canaries", "core">>>> \in Seq(L)
    BY <1>1, <1>2, <1>3, CatIndex
  <2>2. b \in Seq(L)  BY <1>1, <2>1, CatIndex
  <2>3. ASSUME NEW x, Has(a, x) PROVE Has(b, x)
    <3>1. Has(a \o FinalSteps, x)  BY <1>1, <1>3, <2>3, CatHas
    <3>2. Has(a \o FinalSteps \o Fence, x)  BY <1>1, <2>1, <3>1, CatHas
    <3>3. Has(a \o FinalSteps \o Fence \o <<<<"canaries", "core">>>>, x)
      BY <1>2, <2>1, <3>2, CatHas
    <3> QED  BY <1>1, <2>1, <3>3, CatHas
  <2> QED  BY <1>4, <2>2, <2>3
<1>6. ClosingSteps = b \o <<<<"report", "core">>>>
  BY DEF ClosingSteps, a
<1> HIDE DEF b
<1>7. b \in Seq(QuietStep) /\ Piece(b, 110, 110) /\ ~Some(b, Pressing)  BY <1>5, LevelPiece DEF L
<1>8. PICK x \in QuietStep : x = <<"report", "core">>  BY DEF QuietStep, Closing, Workers
<1>9. x \notin Pressing /\ Piece(<<x>>, 120, 120)
  <2>1. "report" \in PlanNames /\ "report" # "fence" /\ "core" \in Workers
    BY DEF PlanNames, DeliverNames, Closing, Inserting, Retiring, Free, Workers
  <2>2. x \notin Pressing  BY <1>8 DEF Pressing, Mutations
  <2>3. Rank(<<"report", "core">>) = 120  BY <2>1, Ranks
  <2>4. Piece(<< <<"report", "core">> >>, 120, 120)  BY <1>8, <2>1, <2>2, <2>3, PieceOne
  <2> QED  BY <1>8, <2>2, <2>4
<1>10. Piece(b \o <<x>>, 110, 120)  BY <1>7, <1>9, PieceCat
<1>11. /\ b \o <<x>> \in Seq(QuietStep) /\ ~Some(b \o <<x>>, Pressing)
       /\ \A w \in Workers : Has(b \o <<x>>, <<"final", w>>)
  <2>1. PICK t : t = <<x>>  OBVIOUS
  <2>2. t \in Seq(QuietStep) /\ ~Some(t, Pressing)  BY <1>9, <2>1, OneIn
  <2> QED  BY <1>5, <1>7, <2>1, <2>2, CatIndex, CatHas
<1> QED  BY <1>6, <1>8, <1>10, <1>11

LEMMA PlanKinds ==
  /\ \A w \in Workers : \A n \in {"predecessor", "callerPredecessor", "stage", "readStaged", "verifyStaged",
                                  "handoff", "activate", "readActive"} :
       n \in PlanNames /\ n # "fence" /\ <<n, w>> \in PlanStep
  /\ \A w \in Workers : \A n \in {"predecessor", "callerPredecessor", "readStaged", "verifyStaged",
                                  "handoff", "readActive"} : <<n, w>> \notin Pressing
<1>1. {"predecessor", "callerPredecessor", "stage", "readStaged", "verifyStaged",
       "handoff", "activate", "readActive"} \subseteq PlanNames \ {"fence"}
  BY DEF PlanNames, DeliverNames, Repeating, Staging2, Activating, Inserting, Retiring, Free
<1> QED  BY <1>1 DEF PlanStep, Pressing, Mutations

(* A call of each Worker in turn *)
LEMMA TurnsPiece ==
  ASSUME NEW n \in {"predecessor", "verifyStaged"}
  PROVE  /\ Piece(Steps(n, DeploymentOrder), Rank(<<n, "core">>), Rank(<<n, "core">>))
         /\ ~Some(Steps(n, DeploymentOrder), Pressing)
<1>1. PICK s : s = Steps(n, DeploymentOrder)  OBVIOUS
<1>2. s = << <<n, "core">>, <<n, "publisher">>, <<n, "rendezvous">> >>  BY <1>1, StepsAre
<1>3. \A w \in Workers : <<n, w>> \in PlanStep /\ <<n, w>> \notin Pressing  BY PlanKinds
<1>4. /\ Len(s) = 3 /\ \A i \in 1..3 : \E w \in Workers : s[i] = <<n, w>>
      /\ s \in Seq(PlanStep)
  <2>1. <<n, "core">> \in PlanStep /\ <<n, "publisher">> \in PlanStep /\ <<n, "rendezvous">> \in PlanStep
    BY <1>3 DEF Workers
  <2>2. Len(s) = 3 /\ s[1] = <<n, "core">> /\ s[2] = <<n, "publisher">> /\ s[3] = <<n, "rendezvous">>
    BY <1>2
  <2> QED  BY <1>2, <2>1, <2>2 DEF Workers
<1>5. s \in Seq(DeliverStep)  BY <1>4, StepSets, SeqWithin
<1>6. ~Some(s, Pressing)  BY <1>3, <1>4 DEF Some
<1>7. \E k \in Nat : \A w \in Workers : Rank(<<n, w>>) = k
  <2>1. \A w \in Workers : Rank(<<"predecessor", w>>) = 0 /\ Rank(<<"verifyStaged", w>>) = 60
    BY Ranks
  <2>2. CASE n = "predecessor"  BY <2>1, <2>2
  <2>3. CASE n = "verifyStaged"  BY <2>1, <2>3
  <2> QED  BY <2>2, <2>3
<1>8. PICK k \in Nat : \A w \in Workers : Rank(<<n, w>>) = k  BY <1>7
<1>9. Span(s, k, k)
  <2>1. n \in Repeating  BY DEF Repeating
  <2>2. \A i \in 1..Len(s) : Rank(s[i]) = k /\ s[i][1] = n
    <3> SUFFICES ASSUME NEW i \in 1..Len(s) PROVE Rank(s[i]) = k /\ s[i][1] = n  OBVIOUS
    <3>1. PICK w \in Workers : s[i] = <<n, w>>  BY <1>4
    <3>2. Rank(<<n, w>>) = k /\ <<n, w>>[1] = n  BY <1>8
    <3> QED  BY <3>1, <3>2
  <2> QED  BY <1>5, <2>1, <2>2, SpanLevel
<1>10. Rank(<<n, "core">>) = k  BY <1>8 DEF Workers
<1>11. Sound(s, Pressing, Checks)  BY <1>4, <1>6, SoundPut
<1> QED  BY <1>1, <1>4, <1>5, <1>6, <1>9, <1>10, <1>11 DEF Piece

LEMMA StagedPiece ==
  ASSUME NEW r, NEW w \in Workers
  PROVE  /\ Piece(StagedSteps(r, w), StageTurn[w], StageTurn[w] + 3)
         /\ Has(StagedSteps(r, w), <<"stage", w>>) /\ Has(StagedSteps(r, w), <<"readStaged", w>>)
<1> DEFINE T == StageTurn[w]
           p == When(w = "core", Steps("predecessor", DeploymentOrder))
           c == When(HandedOff(r, w), <<<<"callerPredecessor", w>>>>)
           a == Fence \o p \o c
           b == a \o <<<<"stage", w>>>>
           d == b \o Fence \o <<<<"readStaged", w>>>>
<1>1. /\ T \in Nat /\ (w = "core" => T = 0) /\ T < T + 1
      /\ Rank(<<"callerPredecessor", w>>) = T + 1
      /\ Rank(<<"stage", w>>) = T + 2 /\ Rank(<<"readStaged", w>>) = T + 3
      /\ Rank(<<"predecessor", "core">>) = 0
  <2>1. T \in {0, 20, 40} /\ (w = "core" => T = 0)  BY Ranks
  <2>2. /\ Rank(<<"callerPredecessor", w>>) = 1 + T /\ Rank(<<"stage", w>>) = 2 + T
        /\ Rank(<<"readStaged", w>>) = 3 + T /\ Rank(<<"predecessor", w>>) = 0
    BY Ranks
  <2>3. "core" \in Workers  BY DEF Workers
  <2>4. Rank(<<"predecessor", "core">>) = 0  BY <2>3, Ranks
  <2> QED  BY <2>1, <2>2, <2>4
<1>2. /\ "callerPredecessor" \in PlanNames /\ "callerPredecessor" # "fence"
      /\ <<"callerPredecessor", w>> \notin Pressing
      /\ "readStaged" \in PlanNames /\ "readStaged" # "fence" /\ <<"readStaged", w>> \notin Pressing
      /\ "stage" \in PlanNames /\ "stage" # "fence" /\ <<"stage", w>> \in PlanStep
      /\ <<"readStaged", w>> \in PlanStep
  BY PlanKinds
<1> HIDE DEF T
<1>3. /\ Piece(<<>>, T, T) /\ ~Some(<<>>, Pressing)
  BY DEF Piece, Span, Sound, Guarded, Separated, Some
<1>4. Piece(p, T, T) /\ ~Some(p, Pressing) /\ (w # "core" => p = <<>>)
  BY <1>1, <1>3, TurnsPiece DEF When
<1>5. \/ c = <<>>
      \/ w # "core" /\ c = <<<<"callerPredecessor", w>>>> /\ Piece(c, T + 1, T + 1) /\ ~Some(c, Pressing)
  <2>1. CASE HandedOff(r, w)
    <3>1. c = <<<<"callerPredecessor", w>>>> /\ w # "core"  BY <2>1 DEF When, HandedOff, Callers
    <3>2. Piece(<<<<"callerPredecessor", w>>>>, T + 1, T + 1)  BY <1>1, <1>2, PieceOne
    <3>3. PICK x \in PlanStep : x = <<"callerPredecessor", w>>  BY <1>2 DEF PlanStep
    <3>4. ~Some(<<x>>, Pressing)  BY <1>2, <3>3, OneIn
    <3> QED  BY <3>1, <3>2, <3>3, <3>4
  <2>2. CASE ~HandedOff(r, w)  BY <2>2 DEF When
  <2> QED  BY <2>1, <2>2
<1> HIDE DEF p, c
<1>6. Piece(a, T, T + 1) /\ ~Some(a, Pressing) /\ Some(a, Checks)
  <2>1. Piece(Fence \o p, T, T)  BY <1>1, <1>4, PieceFence
  <2>2. p \in Seq(PlanStep) /\ Fence \in Seq(PlanStep) /\ Fence \o p \in Seq(PlanStep)
    BY <1>4, <2>1, FenceFacts DEF Piece
  <2>3. ~Some(Fence \o p, Pressing) /\ Some(Fence \o p, Checks)  BY <1>4, <2>2, FenceFacts, CatHas
  <2>4. CASE c = <<>>
    <3>1. a = Fence \o p  BY <2>2, <2>4
    <3> QED  BY <1>1, <2>1, <2>3, <3>1, PieceWider
  <2>5. CASE c # <<>>
    <3>1. Piece(c, T + 1, T + 1) /\ ~Some(c, Pressing) /\ c \in Seq(PlanStep)
      BY <1>5, <2>5 DEF Piece
    <3>2. Piece(a, T, T + 1)  BY <1>1, <2>1, <3>1, PieceCat
    <3>3. PICK q : q = Fence \o p  OBVIOUS
    <3>4. /\ q \in Seq(PlanStep) /\ c \in Seq(PlanStep)
          /\ ~Some(q, Pressing) /\ Some(q, Checks) /\ ~Some(c, Pressing)
      BY <2>2, <2>3, <3>1, <3>3
    <3>5. ~Some(q \o c, Pressing) /\ Some(q \o c, Checks)  BY <3>4, CatHas
    <3> QED  BY <3>2, <3>3, <3>5
  <2> QED  BY <2>4, <2>5
<1> HIDE DEF a
<1>7. Piece(b, T, T + 2)
  <2>1. Piece(b, T, Rank(<<"stage", w>>))  BY <1>1, <1>2, <1>6, PieceMutation
  <2> QED  BY <1>1, <2>1
<1>8. Has(b, <<"stage", w>>)
  <2>1. PICK x \in PlanStep : x = <<"stage", w>>  BY <1>2
  <2>2. <<x>> \in Seq(PlanStep) /\ Has(<<x>>, x)  BY OneIn
  <2>3. Has(a \o <<x>>, x)  BY <1>6, <2>2, CatHas DEF Piece
  <2> QED  BY <2>1, <2>3
<1> HIDE DEF b
<1>9. Piece(b \o Fence, T, T + 2)  BY <1>1, <1>7, PieceFence
<1>10. Piece(<<<<"readStaged", w>>>>, T + 3, T + 3)  BY <1>1, <1>2, PieceOne
<1>11. Piece(d, T, T + 3)  BY <1>1, <1>9, <1>10, PieceCat
<1>12. Has(d, <<"stage", w>>) /\ Has(d, <<"readStaged", w>>)
  <2>1. Has(b \o Fence, <<"stage", w>>)  BY <1>7, <1>8, FenceFacts, CatHas DEF Piece
  <2>2. PICK x \in PlanStep : x = <<"readStaged", w>>  BY <1>2
  <2>3. <<x>> \in Seq(PlanStep) /\ Has(<<x>>, x)  BY OneIn
  <2>4. Has(b \o Fence \o <<x>>, <<"stage", w>>) /\ Has(b \o Fence \o <<x>>, x)
    BY <1>9, <2>1, <2>3, CatHas DEF Piece
  <2> QED  BY <2>2, <2>4
<1>13. StagedSteps(r, w) = d  BY DEF StagedSteps, d, b, a, p, c
<1> QED  BY <1>11, <1>12, <1>13 DEF T

LEMMA ActivePiece ==
  ASSUME NEW r, NEW w \in Workers
  PROVE  /\ Piece(ActiveSteps(r, w), ActiveTurn[w] + 61, ActiveTurn[w] + 64)
         /\ Has(ActiveSteps(r, w), <<"activate", w>>)
         /\ HandedOff(r, w) => Has(ActiveSteps(r, w), <<"handoff", w>>)
<1> DEFINE T == ActiveTurn[w]
           c == When(HandedOff(r, w), <<<<"handoff", w>>>>)
           a == Fence \o c
           b == a \o <<<<"activate", w>>>>
           d == b \o Fence \o <<<<"readActive", w>>>>
<1>1. /\ T \in Nat /\ Rank(<<"handoff", w>>) = T + 61
      /\ Rank(<<"activate", w>>) = T + 63 /\ Rank(<<"readActive", w>>) = T + 64
  <2>1. T \in {0, 20, 40}  BY Ranks
  <2>2. /\ Rank(<<"handoff", w>>) = 61 + T /\ Rank(<<"activate", w>>) = 63 + T
        /\ Rank(<<"readActive", w>>) = 64 + T
    BY Ranks
  <2> QED  BY <2>1, <2>2
<1>2. /\ "handoff" \in PlanNames /\ "handoff" # "fence" /\ <<"handoff", w>> \notin Pressing
      /\ "readActive" \in PlanNames /\ "readActive" # "fence" /\ <<"readActive", w>> \notin Pressing
      /\ "activate" \in PlanNames /\ "activate" # "fence" /\ <<"activate", w>> \in PlanStep
      /\ <<"readActive", w>> \in PlanStep /\ <<"handoff", w>> \in PlanStep
  BY PlanKinds
<1> HIDE DEF T
<1>3. /\ Piece(c, T + 61, T + 61) /\ ~Some(c, Pressing)
      /\ HandedOff(r, w) => Has(c, <<"handoff", w>>)
  <2>1. CASE HandedOff(r, w)
    <3>1. c = <<<<"handoff", w>>>>  BY <2>1 DEF When
    <3>2. Piece(<<<<"handoff", w>>>>, T + 61, T + 61)  BY <1>1, <1>2, PieceOne
    <3>3. PICK x \in PlanStep : x = <<"handoff", w>>  BY <1>2
    <3>4. ~Some(<<x>>, Pressing) /\ Has(<<x>>, x)  BY <1>2, <3>3, OneIn
    <3> QED  BY <3>1, <3>2, <3>3, <3>4
  <2>2. CASE ~HandedOff(r, w)
    <3>1. c = <<>>  BY <2>2 DEF When
    <3>2. /\ Piece(<<>>, T + 61, T + 61) /\ ~Some(<<>>, Pressing)
      BY DEF Piece, Span, Sound, Guarded, Separated, Some
    <3> QED  BY <2>2, <3>1, <3>2
  <2> QED  BY <2>1, <2>2
<1> HIDE DEF c
<1>4. /\ Piece(a, T + 61, T + 61) /\ ~Some(a, Pressing) /\ Some(a, Checks)
      /\ HandedOff(r, w) => Has(a, <<"handoff", w>>)
  <2>1. Piece(a, T + 61, T + 61)  BY <1>1, <1>3, PieceFence
  <2> QED  BY <1>3, <2>1, FenceFacts, CatHas DEF Piece
<1> HIDE DEF a
<1>5. Piece(b, T + 61, T + 63)
  <2>1. Piece(b, T + 61, Rank(<<"activate", w>>))  BY <1>1, <1>2, <1>4, PieceMutation
  <2> QED  BY <1>1, <2>1
<1>6. /\ Has(b, <<"activate", w>>)
      /\ HandedOff(r, w) => Has(b, <<"handoff", w>>)
  <2>1. PICK x \in PlanStep : x = <<"activate", w>>  BY <1>2
  <2>2. <<x>> \in Seq(PlanStep) /\ Has(<<x>>, x)  BY OneIn
  <2>3. a \in Seq(PlanStep)  BY <1>4 DEF Piece
  <2>4. Has(a \o <<x>>, x) /\ (HandedOff(r, w) => Has(a \o <<x>>, <<"handoff", w>>))
    BY <1>4, <2>2, <2>3, CatHas
  <2> QED  BY <2>1, <2>4
<1> HIDE DEF b
<1>7. Piece(b \o Fence, T + 61, T + 63)  BY <1>1, <1>5, PieceFence
<1>8. Piece(<<<<"readActive", w>>>>, T + 64, T + 64)  BY <1>1, <1>2, PieceOne
<1>9. Piece(d, T + 61, T + 64)  BY <1>1, <1>7, <1>8, PieceCat
<1>10. /\ Has(d, <<"activate", w>>)
       /\ HandedOff(r, w) => Has(d, <<"handoff", w>>)
  <2>1. /\ Has(b \o Fence, <<"activate", w>>)
        /\ HandedOff(r, w) => Has(b \o Fence, <<"handoff", w>>)
    BY <1>5, <1>6, FenceFacts, CatHas DEF Piece
  <2> QED  BY <1>7, <1>8, <2>1, CatHas DEF Piece
<1>11. ActiveSteps(r, w) = d  BY DEF ActiveSteps, d, b, a, c
<1> QED  BY <1>9, <1>10, <1>11 DEF T

LEMMA DeliveryPiece ==
  ASSUME NEW r
  PROVE  /\ Delivery(r, "no-op") = ClosingSteps
         /\ Piece(Delivery(r, "deploy"), 0, 120)
         /\ \A w \in Workers : Has(Delivery(r, "deploy"), <<"final", w>>)
         /\ Has(Delivery(r, "deploy"), <<"stage", "core">>)
         /\ Has(Delivery(r, "deploy"), <<"activate", "core">>)
         /\ r.boot => \A c \in Callers : Has(Delivery(r, "deploy"), <<"handoff", c>>)
<1> DEFINE a1 == StagedSteps(r, "core")
           a2 == a1 \o StagedSteps(r, "publisher")
           a3 == a2 \o StagedSteps(r, "rendezvous")
           a4 == a3 \o Fence
           a5 == a4 \o Steps("verifyStaged", DeploymentOrder)
           b1 == ActiveSteps(r, "publisher")
           b2 == ActiveSteps(r, "rendezvous")
           b3 == ActiveSteps(r, "core")
           c1 == a5 \o b1
           c2 == c1 \o b2
           c3 == c2 \o b3
           d == c3 \o ClosingSteps
<1>1. /\ DeploymentOrder[1] = "core" /\ DeploymentOrder[2] = "publisher" /\ DeploymentOrder[3] = "rendezvous"
      /\ ActivationOrder[1] = "publisher" /\ ActivationOrder[2] = "rendezvous" /\ ActivationOrder[3] = "core"
  BY DEF DeploymentOrder, ActivationOrder
<1>2. Delivery(r, "deploy") = d
  BY <1>1 DEF Delivery, When
<1>3. Delivery(r, "no-op") = ClosingSteps
  <2>1. Delivery(r, "no-op") = <<>> \o ClosingSteps  BY DEF Delivery, When
  <2>2. ClosingSteps \in Seq(QuietStep)  BY ClosingPiece
  <2> QED  BY <2>1, <2>2
<1>4. /\ Piece(a1, 0, 3) /\ Has(a1, <<"stage", "core">>)
      /\ Piece(StagedSteps(r, "publisher"), 20, 23) /\ Piece(StagedSteps(r, "rendezvous"), 40, 43)
  <2>1. \A w \in Workers : /\ Piece(StagedSteps(r, w), StageTurn[w], StageTurn[w] + 3)
                           /\ Has(StagedSteps(r, w), <<"stage", w>>)
    BY StagedPiece
  <2>2. StageTurn["core"] = 0 /\ StageTurn["publisher"] = 20 /\ StageTurn["rendezvous"] = 40  BY Ranks
  <2> QED  BY <2>1, <2>2 DEF Workers
<1>5. /\ Piece(b1, 61, 64) /\ Piece(b2, 81, 84) /\ Piece(b3, 101, 104)
      /\ Has(b3, <<"activate", "core">>)
      /\ r.boot => Has(b1, <<"handoff", "publisher">>) /\ Has(b2, <<"handoff", "rendezvous">>)
  <2>1. \A w \in Workers : /\ Piece(ActiveSteps(r, w), ActiveTurn[w] + 61, ActiveTurn[w] + 64)
                           /\ Has(ActiveSteps(r, w), <<"activate", w>>)
                           /\ HandedOff(r, w) => Has(ActiveSteps(r, w), <<"handoff", w>>)
    BY ActivePiece
  <2>2. ActiveTurn["publisher"] = 0 /\ ActiveTurn["rendezvous"] = 20 /\ ActiveTurn["core"] = 40  BY Ranks
  <2>3. r.boot => HandedOff(r, "publisher") /\ HandedOff(r, "rendezvous")  BY DEF HandedOff, Callers
  <2> QED  BY <2>1, <2>2, <2>3 DEF Workers
<1>6. Piece(Steps("verifyStaged", DeploymentOrder), 60, 60)
  <2>1. Rank(<<"verifyStaged", "core">>) = 60  BY Ranks DEF Workers
  <2> QED  BY <2>1, TurnsPiece
<1> HIDE DEF a1, b1, b2, b3
<1>7. Piece(a2, 0, 23)  BY <1>4, PieceCat
<1>8. Piece(a3, 0, 43)
  <2> HIDE DEF a2
  <2> QED  BY <1>4, <1>7, PieceCat
<1>9. Piece(a4, 0, 43)
  <2> HIDE DEF a3
  <2> QED  BY <1>8, PieceFence
<1>10. Piece(a5, 0, 60)
  <2> HIDE DEF a4
  <2> QED  BY <1>6, <1>9, PieceCat
<1>11. Has(a5, <<"stage", "core">>)
  <2>1. Has(a2, <<"stage", "core">>)  BY <1>4, CatHas DEF Piece
  <2>2. Has(a3, <<"stage", "core">>)
    <3> HIDE DEF a2
    <3> QED  BY <1>4, <1>7, <2>1, CatHas DEF Piece
  <2>3. Has(a4, <<"stage", "core">>)
    <3> HIDE DEF a3
    <3> QED  BY <1>8, <2>2, FenceFacts, CatHas DEF Piece
  <2> HIDE DEF a4
  <2> QED  BY <1>6, <1>9, <2>3, CatHas DEF Piece
<1> HIDE DEF a5
<1>12. Piece(c1, 0, 64)  BY <1>5, <1>10, PieceCat
<1>13. Has(c1, <<"stage", "core">>) /\ (r.boot => Has(c1, <<"handoff", "publisher">>))
  BY <1>5, <1>10, <1>11, CatHas DEF Piece
<1> HIDE DEF c1
<1>14. Piece(c2, 0, 84)  BY <1>5, <1>12, PieceCat
<1>15. /\ Has(c2, <<"stage", "core">>)
       /\ r.boot => Has(c2, <<"handoff", "publisher">>) /\ Has(c2, <<"handoff", "rendezvous">>)
  BY <1>5, <1>12, <1>13, CatHas DEF Piece
<1> HIDE DEF c2
<1>16. Piece(c3, 0, 104)  BY <1>5, <1>14, PieceCat
<1>17. /\ Has(c3, <<"stage", "core">>) /\ Has(c3, <<"activate", "core">>)
       /\ r.boot => Has(c3, <<"handoff", "publisher">>) /\ Has(c3, <<"handoff", "rendezvous">>)
  BY <1>5, <1>14, <1>15, CatHas DEF Piece
<1> HIDE DEF c3
<1>18. Piece(d, 0, 120)  BY <1>16, ClosingPiece, PieceCat
<1>19. /\ Has(d, <<"stage", "core">>) /\ Has(d, <<"activate", "core">>)
       /\ \A w \in Workers : Has(d, <<"final", w>>)
       /\ r.boot => Has(d, <<"handoff", "publisher">>) /\ Has(d, <<"handoff", "rendezvous">>)
  BY <1>16, <1>17, ClosingPiece, CatHas DEF Piece
<1> QED  BY <1>2, <1>3, <1>18, <1>19 DEF Callers

(* Everything a run may have inserted: in order, its patch under the authority *)
Insertion(s) ==
  /\ s \in Seq(InsertStep)
  /\ \A t \in Seq(Step) :
       /\ Separated(t, Pressing, Checks) => Separated(s \o t, Pressing, Checks)
       /\ Guarded(t, Pressing, Checks) => Guarded(s \o t, Pressing, Checks)

LEMMA InsertQuiet ==
  ASSUME NEW s \in Seq(InsertStep), ~Some(s, Pressing)
  PROVE  Insertion(s)
<1> SUFFICES ASSUME NEW t \in Seq(Step)
             PROVE  /\ Separated(t, Pressing, Checks) => Separated(s \o t, Pressing, Checks)
                    /\ Guarded(t, Pressing, Checks) => Guarded(s \o t, Pressing, Checks)
  BY DEF Insertion
<1>1. s \in Seq(Step)  BY StepSets, SeqWithin
<1>2. Sound(s, Pressing, Checks)  BY <1>1, SoundPut
<1> QED  BY <1>1, <1>2, SoundPut, SoundCat DEF Sound

LEMMA InsertBoth ==
  ASSUME NEW s, NEW t, Insertion(s), Insertion(t)
  PROVE  Insertion(s \o t)
<1>1. s \in Seq(InsertStep) /\ t \in Seq(InsertStep)  BY DEF Insertion
<1>2. s \o t \in Seq(InsertStep)  BY <1>1, CatIndex
<1>3. s \in Seq(Step) /\ t \in Seq(Step)  BY <1>1, StepSets, SeqWithin
<1> SUFFICES ASSUME NEW u \in Seq(Step)
             PROVE  /\ Separated(u, Pressing, Checks) => Separated((s \o t) \o u, Pressing, Checks)
                    /\ Guarded(u, Pressing, Checks) => Guarded((s \o t) \o u, Pressing, Checks)
  BY <1>2 DEF Insertion
<1>4. (s \o t) \o u = s \o (t \o u)  BY <1>3
<1>5. t \o u \in Seq(Step)  BY <1>3, CatIndex
<1> QED  BY <1>4, <1>5 DEF Insertion

(* A stretch of calls that is inserted *)
Batch(s, l, m) == s \in Seq(DeliverStep) /\ Span(s, l, m) /\ Insertion(s)

LEMMA BatchCat ==
  ASSUME NEW s, NEW t, NEW l \in Nat, NEW m \in Nat, NEW k \in Nat, NEW n \in Nat,
         Batch(s, l, m), Batch(t, k, n), m < k, l <= m, k <= n
  PROVE  Batch(s \o t, l, n)
<1>1. s \o t \in Seq(DeliverStep)  BY CatIndex DEF Batch
<1>2. Span(s \o t, l, n)  BY SpanCat DEF Batch
<1>3. Insertion(s \o t)  BY InsertBoth DEF Batch
<1> QED  BY <1>1, <1>2, <1>3 DEF Batch

LEMMA BatchFence ==
  /\ \A l, m : Batch(Fence, l, m)
  /\ \A s, l, m : Batch(s, l, m) => Batch(s \o Fence, l, m) /\ Batch(Fence \o s, l, m)
<1>1. Insertion(Fence)  BY FenceFacts, InsertQuiet
<1>2. ASSUME NEW s, NEW l, NEW m, Batch(s, l, m)
      PROVE  Batch(s \o Fence, l, m) /\ Batch(Fence \o s, l, m)
  <2>1. s \o Fence \in Seq(DeliverStep) /\ Fence \o s \in Seq(DeliverStep)
    BY <1>2, FenceFacts, CatIndex DEF Batch
  <2>2. Span(s \o Fence, l, m) /\ Span(Fence \o s, l, m)  BY <1>2, FenceFacts, SpanFree DEF Batch
  <2>3. Insertion(s \o Fence) /\ Insertion(Fence \o s)  BY <1>1, <1>2, InsertBoth DEF Batch
  <2> QED  BY <2>1, <2>2, <2>3 DEF Batch
<1> QED  BY <1>1, <1>2, FenceFacts DEF Batch

LEMMA BatchOne ==
  ASSUME NEW n \in Free \cup Inserting, n # "patch", NEW w \in Workers
  PROVE  Batch(<< <<n, w>> >>, Rank(<<n, w>>), Rank(<<n, w>>))
<1>1. PICK x \in InsertStep : x = <<n, w>>  BY DEF InsertStep
<1>2. x \in DeliverStep  BY StepSets
<1>3. x \notin Pressing
  BY <1>1 DEF Pressing, Mutations, Free, Inserting, Retiring
<1>4. PICK u : u = <<x>>  OBVIOUS
<1>5. u \in Seq(InsertStep) /\ u \in Seq(DeliverStep) /\ ~Some(u, Pressing)
  BY <1>2, <1>3, <1>4, OneIn
<1>6. Insertion(u)  BY <1>5, InsertQuiet
<1>7. Span(u, Rank(x), Rank(x))  BY <1>2, <1>4, SpanOne
<1> QED  BY <1>1, <1>4, <1>5, <1>6, <1>7 DEF Batch

LEMMA InsertKinds ==
  /\ Inserting = {"beginRetirement", "retireRead", "intent", "retireReread", "patch", "retireVerify",
                  "receipt", "acceptRetirement", "completeRetirement", "observe",
                  "completeObservation", "readObserved"}
  /\ Free = {"fence", "authorize", "readRetired"}
BY DEF Inserting, Retiring, Free

LEMMA RetireBatch ==
  ASSUME NEW w \in Workers
  PROVE  Batch(RetireSteps(w), StageTurn[w] + 7, StageTurn[w] + 14)
<1> DEFINE T == StageTurn[w]
           b1 == <<<<"retireRead", w>>, <<"intent", w>>>>
           b2 == <<<<"retireReread", w>>, <<"authorize", w>>, <<"patch", w>>, <<"retireVerify", w>>>>
           b3 == <<<<"receipt", w>>, <<"acceptRetirement", w>>>>
           b4 == <<<<"completeRetirement", w>>>>
           d1 == Fence \o b1 \o Fence
           d2 == d1 \o b2 \o Fence
           d3 == d2 \o b3 \o Fence
<1>1. /\ T \in Nat /\ Rank(<<"retireRead", w>>) = T + 7 /\ Rank(<<"intent", w>>) = T + 8
      /\ Rank(<<"retireReread", w>>) = T + 9 /\ Rank(<<"patch", w>>) = T + 10
      /\ Rank(<<"retireVerify", w>>) = T + 11 /\ Rank(<<"receipt", w>>) = T + 12
      /\ Rank(<<"acceptRetirement", w>>) = T + 13 /\ Rank(<<"completeRetirement", w>>) = T + 14
  <2>1. T \in {0, 20, 40}  BY Ranks
  <2>2. /\ Rank(<<"retireRead", w>>) = 7 + T /\ Rank(<<"intent", w>>) = 8 + T
        /\ Rank(<<"retireReread", w>>) = 9 + T /\ Rank(<<"patch", w>>) = 10 + T
        /\ Rank(<<"retireVerify", w>>) = 11 + T /\ Rank(<<"receipt", w>>) = 12 + T
        /\ Rank(<<"acceptRetirement", w>>) = 13 + T /\ Rank(<<"completeRetirement", w>>) = 14 + T
    BY Ranks, ZenonT(60)
  <2> QED  BY <2>1, <2>2
<1> HIDE DEF T
<1>2. Batch(b1, T + 7, T + 8)
  <2>1. Batch(<<<<"retireRead", w>>>>, T + 7, T + 7) /\ Batch(<<<<"intent", w>>>>, T + 8, T + 8)
    BY <1>1, BatchOne, InsertKinds
  <2>2. b1 = <<<<"retireRead", w>>>> \o <<<<"intent", w>>>>  OBVIOUS
  <2> HIDE DEF b1
  <2> QED  BY <1>1, <2>1, <2>2, BatchCat
<1>3. Batch(b3, T + 12, T + 13)
  <2>1. Batch(<<<<"receipt", w>>>>, T + 12, T + 12) /\ Batch(<<<<"acceptRetirement", w>>>>, T + 13, T + 13)
    BY <1>1, BatchOne, InsertKinds
  <2>2. b3 = <<<<"receipt", w>>>> \o <<<<"acceptRetirement", w>>>>  OBVIOUS
  <2> HIDE DEF b3
  <2> QED  BY <1>1, <2>1, <2>2, BatchCat
<1>4. Batch(b4, T + 14, T + 14)  BY <1>1, BatchOne, InsertKinds
<1>5. /\ b2 \in Seq(InsertStep) /\ b2 \in Seq(DeliverStep)
      /\ Span(b2, T + 9, T + 11) /\ Sound(b2, Pressing, Checks)
  <2>1. PICK u : u = b2  OBVIOUS
  <2>2. /\ Len(u) = 4 /\ u[1] = <<"retireReread", w>> /\ u[2] = <<"authorize", w>>
        /\ u[3] = <<"patch", w>> /\ u[4] = <<"retireVerify", w>>
    BY <2>1
  <2>3. /\ <<"retireReread", w>> \in InsertStep /\ <<"authorize", w>> \in InsertStep
        /\ <<"patch", w>> \in InsertStep /\ <<"retireVerify", w>> \in InsertStep
    BY InsertKinds DEF InsertStep
  <2>4. u \in Seq(InsertStep)  BY <2>1, <2>3
  <2>5. Span(u, T + 9, T + 11)
    <3>1. u[1][1] \notin Free /\ u[2][1] \in Free /\ u[3][1] \notin Free /\ u[4][1] \notin Free
      BY <2>2, InsertKinds
    <3>2. Rank(u[1]) = T + 9 /\ Rank(u[3]) = T + 10 /\ Rank(u[4]) = T + 11  BY <1>1, <2>2
    <3>3. 1..Len(u) = {1, 2, 3, 4}  BY <2>2
    <3>4. ASSUME NEW i \in 1..Len(u), u[i][1] \notin Free PROVE i = 1 \/ i = 3 \/ i = 4
      BY <3>1, <3>3, <3>4
    <3>5. ASSUME NEW i \in 1..Len(u), u[i][1] \notin Free
          PROVE  T + 9 <= Rank(u[i]) /\ Rank(u[i]) <= T + 11
      BY <1>1, <3>2, <3>4, <3>5
    <3>6. ASSUME NEW i \in 1..Len(u), NEW j \in 1..Len(u), i < j,
                 u[i][1] \notin Free, u[j][1] \notin Free
          PROVE  Rank(u[i]) < Rank(u[j])
      <4>1. (i = 1 \/ i = 3) /\ (j = 3 \/ j = 4)  BY <3>4, <3>6
      <4> QED  BY <1>1, <3>2, <3>6, <4>1, SMTT(40)
    <3> QED  BY <3>5, <3>6 DEF Span
  <2>6. Sound(u, Pressing, Checks)
    <3>1. u[1] \notin Pressing /\ u[2] \notin Pressing /\ u[4] \notin Pressing /\ u[2] \in Checks
      BY <2>2 DEF Pressing, Mutations, Checks
    <3>2. 1..Len(u) = {1, 2, 3, 4}  BY <2>2
    <3>3. Guarded(u, Pressing, Checks)
      <4>1. 2 \in 1..3-1  OBVIOUS
      <4> QED  BY <3>1, <3>2, <4>1 DEF Guarded
    <3>4. Separated(u, Pressing, Checks)  BY <3>1, <3>2 DEF Separated
    <3> QED  BY <3>3, <3>4 DEF Sound
  <2> QED  BY <2>1, <2>4, <2>5, <2>6, StepSets, SeqWithin
<1> HIDE DEF b1, b2, b3, b4
<1>6. Insertion(b2 \o Fence)
  <2>1. b2 \o Fence \in Seq(InsertStep)  BY <1>5, FenceFacts, CatIndex
  <2>2. b2 \in Seq(Step) /\ Fence \in Seq(Step)  BY <1>5, FenceFacts, StepSets, SeqWithin
  <2>3. ASSUME NEW t \in Seq(Step)
        PROVE  /\ Separated(t, Pressing, Checks) => Separated(b2 \o Fence \o t, Pressing, Checks)
               /\ Guarded(t, Pressing, Checks) => Guarded(b2 \o Fence \o t, Pressing, Checks)
    BY <1>5, <2>2, FenceFacts, Inserted
  <2> QED  BY <2>1, <2>3 DEF Insertion
<1>7. Batch(b2 \o Fence, T + 9, T + 11)
  <2>1. b2 \o Fence \in Seq(DeliverStep)  BY <1>5, FenceFacts, CatIndex
  <2>2. Span(b2 \o Fence, T + 9, T + 11)  BY <1>5, FenceFacts, SpanFree
  <2> QED  BY <1>6, <2>1, <2>2 DEF Batch
<1>8. Batch(d1, T + 7, T + 8)  BY <1>2, BatchFence
<1> HIDE DEF d1
<1>9. Batch(d2, T + 7, T + 11)
  <2>1. d2 = d1 \o (b2 \o Fence)  BY <1>5, <1>8, FenceFacts, SMTT(40) DEF Batch
  <2> HIDE DEF d2
  <2> QED  BY <1>1, <1>7, <1>8, <2>1, BatchCat
<1> HIDE DEF d2
<1>10. Batch(d3, T + 7, T + 13)
  <2>1. Batch(d2 \o b3, T + 7, T + 13)  BY <1>1, <1>3, <1>9, BatchCat
  <2> QED  BY <2>1, BatchFence
<1>11. RetireSteps(w) = d3 \o b4
  BY DEF RetireSteps, d1, d2, d3, b1, b2, b3, b4
<1> HIDE DEF d3
<1>12. Batch(d3 \o b4, T + 7, T + 14)  BY <1>1, <1>4, <1>10, BatchCat
<1> QED  BY <1>11, <1>12 DEF T

LEMMA ObserveBatch ==
  ASSUME NEW w \in Workers
  PROVE  Batch(ObserveSteps(w), StageTurn[w] + 4, StageTurn[w] + 5)
<1> DEFINE T == StageTurn[w]
           a == Fence \o <<<<"observe", w>>>> \o Fence \o Fence
           b == <<<<"completeObservation", w>>>>
<1>1. T \in Nat /\ Rank(<<"observe", w>>) = T + 4 /\ Rank(<<"completeObservation", w>>) = T + 5
  <2>1. T \in {0, 20, 40}  BY Ranks
  <2>2. Rank(<<"observe", w>>) = 4 + T /\ Rank(<<"completeObservation", w>>) = 5 + T  BY Ranks
  <2> QED  BY <2>1, <2>2
<1> HIDE DEF T
<1>2. Batch(<<<<"observe", w>>>>, T + 4, T + 4) /\ Batch(b, T + 5, T + 5)
  BY <1>1, BatchOne, InsertKinds
<1>3. Batch(a, T + 4, T + 4)  BY <1>2, BatchFence
<1>4. ObserveSteps(w) = a \o b  BY DEF ObserveSteps
<1> HIDE DEF a, b
<1>5. Batch(a \o b, T + 4, T + 5)  BY <1>1, <1>2, <1>3, BatchCat
<1> QED  BY <1>4, <1>5 DEF T

LEMMA OrderlyTail ==
  ASSUME NEW s \in Seq(DeliverStep), s # <<>>, Orderly(s)
  PROVE  /\ Orderly(Tail(s)) /\ Tail(s) \in Seq(DeliverStep) /\ Head(s) \in DeliverStep
         /\ \A i \in 1..Len(Tail(s)) : Precedes(Head(s), Tail(s)[i])
         /\ \A x : Has(Tail(s), x) => Precedes(Head(s), x)
<1>1. PICK t : t = Tail(s)  OBVIOUS
<1>2. /\ t \in Seq(DeliverStep) /\ Head(s) \in DeliverStep
      /\ Head(s) = s[1] /\ Len(s) \in Nat /\ Len(t) = Len(s) - 1 /\ 1 \in 1..Len(s)
      /\ \A i \in 1..Len(t) : i + 1 \in 1..Len(s) /\ t[i] = s[i + 1]
  BY <1>1, TailIndex
<1>3. ASSUME NEW i \in 1..Len(t) PROVE Precedes(s[1], t[i])
  <2>1. i + 1 \in 1..Len(s) /\ t[i] = s[i + 1] /\ 1 < i + 1  BY <1>2
  <2> QED  BY <1>2, <2>1 DEF Orderly
<1>4. ASSUME NEW i \in 1..Len(t), NEW j \in 1..Len(t), i < j PROVE Precedes(t[i], t[j])
  <2>1. i + 1 \in 1..Len(s) /\ j + 1 \in 1..Len(s) /\ i + 1 < j + 1
        /\ t[i] = s[i + 1] /\ t[j] = s[j + 1]
    BY <1>2, <1>4
  <2> QED  BY <2>1 DEF Orderly
<1> QED  BY <1>1, <1>2, <1>3, <1>4 DEF Orderly, Has

LEMMA OrderlyInsert ==
  ASSUME NEW l \in Nat, NEW m \in Nat, NEW s, Batch(s, l, m),
         NEW t \in Seq(DeliverStep), Orderly(t),
         \A i \in 1..Len(t) : t[i][1] \notin Free => m < Rank(t[i])
  PROVE  Orderly(s \o t) /\ s \o t \in Seq(DeliverStep)
<1>1. /\ s \in Seq(DeliverStep) /\ s \in Seq(InsertStep) /\ Span(s, l, m)
  BY DEF Batch, Insertion
<1>2. PICK u \in Seq(DeliverStep) : u = s \o t  BY <1>1, CatIndex
<1>3. /\ Len(u) = Len(s) + Len(t) /\ Len(s) \in Nat /\ Len(t) \in Nat
      /\ \A i \in 1..Len(s) : i \in 1..Len(u) /\ u[i] = s[i]
      /\ \A i \in 1..Len(u) : i \in 1..Len(s) \/ i - Len(s) \in 1..Len(t)
      /\ \A i \in 1..Len(u) : i \notin 1..Len(s) => u[i] = t[i - Len(s)]
  BY <1>1, <1>2, CatIndex
<1>4. Orderly(s)  BY <1>1, SpanOrderly
<1>5. ASSUME NEW i \in 1..Len(u), NEW j \in 1..Len(u), i < j PROVE Precedes(u[i], u[j])
  <2>1. CASE j \in 1..Len(s)
    <3>1. i \in 1..Len(s)  BY <1>3, <1>5, <2>1
    <3> QED  BY <1>3, <1>4, <1>5, <2>1, <3>1 DEF Orderly
  <2>2. CASE i \notin 1..Len(s)
    <3>1. j \notin 1..Len(s)  BY <1>3, <1>5, <2>2
    <3>2. i - Len(s) \in 1..Len(t) /\ j - Len(s) \in 1..Len(t) /\ i - Len(s) < j - Len(s)
      BY <1>3, <1>5, <2>2, <3>1
    <3> QED  BY <1>3, <2>2, <3>1, <3>2 DEF Orderly
  <2>3. CASE i \in 1..Len(s) /\ j \notin 1..Len(s)
    <3>1. u[i] \in InsertStep /\ u[i] \in DeliverStep  BY <1>1, <1>3, <2>3
    <3>2. u[i][1] \in Free \cup Inserting  BY <3>1 DEF InsertStep
    <3>3. u[i][1] \notin Closing  BY <3>2 DEF Free, Inserting, Closing, Retiring
    <3>4. u[i][1] \notin Free => Rank(u[i]) <= m  BY <1>1, <1>3, <2>3 DEF Span
    <3>5. u[j][1] \notin Free => m < Rank(u[j])
      <4>1. j - Len(s) \in 1..Len(t) /\ u[j] = t[j - Len(s)]  BY <1>3, <2>3
      <4> QED  BY <4>1
    <3>6. Rank(u[i]) \in Nat /\ Rank(u[j]) \in Nat  BY RankRange
    <3>7. u[i][1] \notin Free /\ u[j][1] \notin Free => Rank(u[i]) < Rank(u[j])
      BY <3>4, <3>5, <3>6
    <3> QED  BY <3>2, <3>3, <3>7 DEF Precedes
  <2> QED  BY <2>1, <2>2, <2>3
<1> QED  BY <1>2, <1>5 DEF Orderly

-----------------------------------------------------------------------------
(* What a step does to the run *)

Keeps(r, r2, F) == Shape(r2) /\ \A f \in RunFields \ F : r2[f] = r[f]

(* The rest of what the variables are, in the next state *)
Around ==
  /\ request # None => request.src \in Sources
  /\ live \in [Workers -> Version] /\ versions \in Nat
  /\ \A w \in Workers : live[w].version <= versions
  /\ fenced \in [Workers -> Nat] /\ \A w \in Workers : fenced[w] <= versions
  /\ authorized \in BOOLEAN /\ strange \subseteq Workers

(* A run has stopped, with or without a recovery before it. *)
LEMMA Stopping ==
  ASSUME CourseInv, NEW r, run.outcome = None, Shape(r), run' = Stop(r),
         r.src = run.src, r.mode = run.mode, r.decision = run.decision, r.outcome = None,
         r.pending = run.pending,
         Under("preflight") => r.hit = {},
         Under("deliver") => ("core" \in r.hit => r.coreStaged) /\ (run.decision = "no-op" => r.hit = {}),
         Around', Annotated', late' = 0 \/ (late' = 1 /\ ~authorized')
  PROVE  CourseInv'
<1>1. run.src \in Sources /\ run.mode \in {"preflight", "deliver", "recover"}
      /\ r.pending \in Seq(Callers)
      /\ (run.mode = "deliver" => run.decision \in {"deploy", "no-op"})
  BY DEF CourseInv, Types, Modes, Under
<1>2. CASE run.mode = "deliver" /\ run.decision = "deploy" /\ r.coreStaged
  <2>1. PICK t : t = Fence \o <<<<"recoverRead", "core">>>>  OBVIOUS
  <2>2. t = << <<"fence", "core">>, <<"recoverRead", "core">> >>  BY <2>1, Joined DEF Fence
  <2>3. /\ Len(t) = 2 /\ t[1] = <<"fence", "core">> /\ t[2] = <<"recoverRead", "core">>
        /\ t \in Seq(RecoverStep)
    <3>1. <<"fence", "core">> \in RecoverStep /\ <<"recoverRead", "core">> \in RecoverStep
      BY DEF RecoverStep, Workers
    <3> QED  BY <2>2, <3>1
  <2>4. t \in Seq(Step)  BY <2>3, StepSets, SeqWithin
  <2>5. Sound(t, Pressing, Checks)
    <3>1. t[1] \in Checks /\ t[1] \notin Pressing  BY <2>3, StepSets
    <3>2. 1..Len(t) = {1, 2} /\ 1 \in 1..2-1  BY <2>3
    <3> QED  BY <3>1, <3>2 DEF Sound, Guarded, Separated
  <2>6. /\ Shape(run') /\ run'.todo = t /\ run'.mode = "recover" /\ run'.src = run.src
        /\ run'.outcome = None /\ run'.pending = r.pending
    <3>1. run' = [r EXCEPT !.mode = "recover", !.todo = t]  BY <1>2, <2>1 DEF Stop
    <3> QED  BY <3>1 DEF Shape, RunFields
  <2>7. Types'  BY <1>1, <2>4, <2>6 DEF Types, Around
  <2>8. Lateness'  BY <2>5, <2>6 DEF Lateness, Sound
  <2>9. Modes' /\ Finals'  BY <2>3, <2>6 DEF Modes, Finals, Under
  <2>10. SuccessMeansCoherent' /\ RecoveryHonest'
    BY <2>6, NoneAssumption DEF SuccessMeansCoherent, RecoveryHonest
  <2> QED  BY <2>7, <2>8, <2>9, <2>10 DEF CourseInv
<1>3. CASE ~(run.mode = "deliver" /\ run.decision = "deploy" /\ r.coreStaged)
  <2>1. /\ Shape(run') /\ run'.todo = <<>> /\ run'.src = run.src /\ run'.outcome = "stopped"
        /\ run'.hit = r.hit /\ run'.pending = r.pending /\ run'.recovery = (IF run.mode = "recover" THEN "failed" ELSE "not-needed")
    <3>1. run' = End(r, "stopped", IF run.mode = "recover" THEN "failed" ELSE "not-needed")
      BY <1>3 DEF Stop
    <3> QED  BY <3>1 DEF End, Shape, RunFields
  <2>2. run.mode # "recover" => "core" \notin r.hit
    BY <1>1, <1>3 DEF Under
  <2>3. Types'  BY <1>1, <2>1 DEF Types, Around
  <2>4. Lateness'  BY <2>1 DEF Lateness, Separated, Guarded
  <2>5. Modes' /\ Finals'  BY <2>1, NoneAssumption DEF Modes, Finals, Under
  <2>6. SuccessMeansCoherent'  BY <2>1 DEF SuccessMeansCoherent
  <2>7. RecoveryHonest'  BY <2>1, <2>2 DEF RecoveryHonest
  <2> QED  BY <2>3, <2>4, <2>5, <2>6, <2>7 DEF CourseInv
<1> QED  BY <1>2, <1>3

LEMMA NothingInserted == Insertion(<<>>)
<1>1. <<>> \in Seq(InsertStep) /\ ~Some(<<>>, Pressing)  BY DEF Some
<1> QED  BY <1>1, InsertQuiet

(* What stays of the run's course in every step that does not end it *)
Same(r) ==
  /\ Shape(r) /\ r.src = run.src /\ r.boot = run.boot /\ r.mode = run.mode
  /\ r.decision = run.decision /\ r.outcome = run.outcome /\ r.pending \in Seq(Callers)

(* A call that changes no Worker was answered, and the run goes on. *)
LEMMA GoingOn ==
  ASSUME CourseInv, run.outcome = None, run.todo # <<>>, Same(run'),
         run'.hit = run.hit, run'.coreStaged = run.coreStaged,
         NEW s, Insertion(s), run'.todo = s \o Tail(run.todo),
         Head(run.todo) \notin Pressing, Head(run.todo) \in Checks => authorized,
         live' = live, authorized' = authorized, late' = late, Around',
         Under("deliver") => Orderly(run'.todo) /\ run'.todo \in Seq(DeliverStep),
         s = <<>> \/ (Under("deliver") /\ Head(run.todo) \notin QuietStep),
         \/ Head(run.todo) \notin QuietStep
         \/ strange' = strange /\ \A w \in Workers : Head(run.todo) # <<"final", w>>
         \/ \E w \in Workers : Head(run.todo) = <<"final", w>> /\ strange' = strange \ {w} /\ Good(w)
  PROVE  CourseInv'
<1>1. PICK t : t = run.todo  OBVIOUS
<1>2. PICK x : x = Head(t)  OBVIOUS
<1>3. PICK v : v = Tail(t)  OBVIOUS
<1>4. t \in Seq(Step) /\ t # <<>>  BY <1>1 DEF CourseInv, Types
<1>5. v \in Seq(Step) /\ x \in Step  BY <1>2, <1>3, <1>4, TailIndex
<1>6. s \in Seq(Step) /\ s \in Seq(InsertStep)  BY StepSets, SeqWithin DEF Insertion
<1>7. PICK u : u = run'.todo  OBVIOUS
<1>8. u = s \o v  BY <1>1, <1>3, <1>7
<1>9. u \in Seq(Step)  BY <1>5, <1>6, <1>8, CatIndex
<1>10. s = <<>> => u = v  BY <1>5, <1>8
<1>11. Types'  BY <1>7, <1>9 DEF Types, Around, Same, CourseInv
<1>12. Annotated'  BY DEF Annotated, CourseInv
<1>13. Lateness'
  <2>1. Separated(t, Pressing, Checks)  BY <1>1 DEF CourseInv, Lateness
  <2>2. Separated(v, Pressing, Checks)  BY <1>3, <1>4, <2>1, TailSound
  <2>3. Separated(u, Pressing, Checks)  BY <1>5, <1>8, <2>2 DEF Insertion
  <2>4. CASE late = 0  BY <1>7, <2>3, <2>4 DEF Lateness
  <2>5. CASE late = 1 /\ ~authorized
    <3>1. Guarded(t, Pressing, Checks)  BY <1>1, <2>5 DEF CourseInv, Lateness
    <3>2. x \notin Checks  BY <1>1, <1>2, <2>5
    <3>3. Guarded(v, Pressing, Checks)  BY <1>2, <1>3, <1>4, <3>1, <3>2, TailSound
    <3>4. Guarded(u, Pressing, Checks)  BY <1>5, <1>8, <3>3 DEF Insertion
    <3> QED  BY <1>7, <2>3, <2>5, <3>4 DEF Lateness
  <2> QED  BY <2>4, <2>5 DEF CourseInv, Lateness
<1>14. ASSUME NEW X, t \in Seq(X) PROVE v \in Seq(X) /\ x \in X
  BY <1>2, <1>3, <1>4, <1>14, TailIndex
<1>15. ASSUME NEW y, y # x PROVE Has(t, y) => Has(u, y)
  <2>1. Has(t, y) => Has(v, y)  BY <1>2, <1>3, <1>4, <1>15, TailHas
  <2> QED  BY <1>5, <1>6, <1>8, <2>1, CatHas
<1>16. Modes'
  <2>1. run'.outcome = None /\ run'.mode = run.mode /\ run'.decision = run.decision  BY DEF Same
  <2>2. /\ run.mode \in {"preflight", "deliver", "recover"}
        /\ run.mode = "preflight" => t \in Seq(PreStep) /\ run.hit = {}
        /\ run.mode = "recover" => t \in Seq(RecoverStep)
        /\ run.mode = "deliver" =>
             /\ run.decision \in {"deploy", "no-op"}
             /\ run.decision = "no-op" => t \in Seq(QuietStep) /\ run.hit = {}
             /\ run.decision = "deploy" => Has(t, <<"stage", "core">>) \/ run.coreStaged
             /\ "core" \in run.hit => run.coreStaged
    BY <1>1 DEF CourseInv, Modes, Under
  <2>3. x # <<"stage", "core">>
    <3>1. <<"stage", "core">> \in Pressing  BY DEF Pressing, Mutations, Workers
    <3> QED  BY <1>1, <1>2, <3>1
  <2>4. run.mode = "preflight" => u \in Seq(PreStep)  BY <1>10, <1>14, <2>2 DEF Under
  <2>5. run.mode = "recover" => u \in Seq(RecoverStep)  BY <1>10, <1>14, <2>2 DEF Under
  <2>6. run.mode = "deliver" /\ run.decision = "no-op" => u \in Seq(QuietStep)
    BY <1>1, <1>2, <1>10, <1>14, <2>2
  <2>7. Has(t, <<"stage", "core">>) => Has(u, <<"stage", "core">>)  BY <1>15, <2>3
  <2>8. run.mode = "deliver" => Orderly(u) /\ u \in Seq(DeliverStep)  BY <1>7 DEF Under
  <2> QED  BY <1>7, <2>1, <2>2, <2>4, <2>5, <2>6, <2>7, <2>8 DEF Modes, Under
<1>17. Finals'
  <2> SUFFICES ASSUME run.mode = "deliver", NEW w \in Workers
               PROVE  Has(u, <<"final", w>>) \/ (u \in Seq(QuietStep) /\ (w \in strange' \/ Good(w)))
    BY <1>7 DEF Finals, Under, Same, Good
  <2>1. Has(t, <<"final", w>>) \/ (t \in Seq(QuietStep) /\ (w \in strange \/ Good(w)))
    BY <1>1 DEF CourseInv, Finals, Under
  <2>2. <<"final", w>> \in QuietStep  BY DEF QuietStep, Closing
  <2>3. CASE x \notin QuietStep
    <3>1. t \notin Seq(QuietStep)  BY <1>14, <2>3
    <3>2. x # <<"final", w>>  BY <2>2, <2>3
    <3> QED  BY <1>15, <2>1, <3>1, <3>2
  <2>4. CASE x \in QuietStep
    <3>1. u = v  BY <1>1, <1>2, <1>10, <2>4
    <3>2. CASE x = <<"final", w>>
      <4>1. Good(w)
        <5>1. PICK z \in Workers : Head(run.todo) = <<"final", z>> /\ Good(z)
          BY <1>1, <1>2, <2>4, <3>2
        <5>2. z = w  BY <1>1, <1>2, <3>2, <5>1
        <5> QED  BY <5>1, <5>2
      <4>2. /\ t \in Seq(DeliverStep) /\ Orderly(t)  BY <1>1 DEF CourseInv, Modes, Under
      <4>3. /\ v \in Seq(DeliverStep)
            /\ \A i \in 1..Len(v) : Precedes(x, v[i])
        BY <1>2, <1>3, <1>4, <4>2, OrderlyTail
      <4>4. x[1] \in Closing  BY <3>2 DEF Closing
      <4>5. \A i \in 1..Len(v) : v[i] \in QuietStep
        <5> SUFFICES ASSUME NEW i \in 1..Len(v) PROVE v[i] \in QuietStep  OBVIOUS
        <5>1. v[i][1] \in Closing \cup {"fence"}  BY <4>3, <4>4 DEF Precedes
        <5>2. v[i] \in DeliverStep  BY <4>3
        <5> QED  BY <5>1, <5>2, RankRange DEF QuietStep
      <4>6. v \in Seq(QuietStep)  BY <4>3, <4>5
      <4> QED  BY <3>1, <4>1, <4>6
    <3>3. CASE x # <<"final", w>>
      <4>1. CASE Has(t, <<"final", w>>)  BY <1>15, <3>3, <4>1
      <4>2. CASE t \in Seq(QuietStep) /\ (w \in strange \/ Good(w))
        <5>1. u \in Seq(QuietStep)  BY <1>14, <3>1, <4>2
        <5>2. w \in strange => w \in strange'  BY <1>1, <1>2, <2>4, <3>3
        <5> QED  BY <4>2, <5>1, <5>2
      <4> QED  BY <2>1, <4>1, <4>2
    <3> QED  BY <3>2, <3>3
  <2> QED  BY <2>3, <2>4
<1>18. SuccessMeansCoherent' /\ RecoveryHonest'
  BY NoneAssumption DEF SuccessMeansCoherent, RecoveryHonest, Same
<1> QED  BY <1>11, <1>12, <1>13, <1>16, <1>17, <1>18 DEF CourseInv

LEMMA KindsOfMutation ==
  ASSUME NEW n, NEW w \in Workers, <<n, w>> \in Mutations
  PROVE  /\ <<n, w>> \notin PreStep /\ <<n, w>> \notin QuietStep /\ <<n, w>> \in Pressing
         /\ <<n, w>> \in DeliverStep => n \in {"stage", "activate", "patch"}
BY DEF Mutations, PreStep, QuietStep, Closing, Pressing, DeliverStep, DeliverNames, Free, Repeating,
       Staging2, Retiring, Activating

(* A call that changes a Worker took effect, and the run goes on. *)
LEMMA Striking ==
  ASSUME CourseInv, run.outcome = None, run.todo # <<>>, Same(run'), run'.todo = Tail(run.todo),
         NEW n, NEW w \in Workers, Head(run.todo) = <<n, w>>, <<n, w>> \in Mutations,
         n = "patch" => w # "core",
         run'.hit = run.hit \cup {w}, run.coreStaged => run'.coreStaged,
         <<n, w>> = <<"stage", "core">> => run'.coreStaged,
         Around', Annotated', authorized' = authorized, late' = IF authorized THEN late ELSE late + 1
  PROVE  CourseInv'
<1>1. PICK t : t = run.todo  OBVIOUS
<1>2. PICK x : x = <<n, w>>  OBVIOUS
<1>3. PICK u : u = Tail(t)  OBVIOUS
<1>4. t \in Seq(Step) /\ t # <<>> /\ Head(t) = x  BY <1>1, <1>2 DEF CourseInv, Types
<1>5. u \in Seq(Step) /\ x \in Step  BY <1>3, <1>4, TailIndex
<1>6. run'.todo = u  BY <1>1, <1>3
<1>7. /\ x \notin PreStep /\ x \notin QuietStep /\ x \in Pressing
      /\ x \in DeliverStep => n \in {"stage", "activate", "patch"}
  BY <1>2, KindsOfMutation
<1>8. Types'  BY <1>5, <1>6 DEF Types, Around, Same, CourseInv
<1>9. Lateness'
  <2>1. Separated(t, Pressing, Checks)  BY <1>1 DEF CourseInv, Lateness
  <2>2. Separated(u, Pressing, Checks) /\ Guarded(u, Pressing, Checks)
    BY <1>3, <1>4, <1>7, <2>1, TailSound
  <2>3. CASE late = 0  BY <1>6, <2>2, <2>3 DEF Lateness, CourseInv, Types
  <2>4. CASE late = 1 /\ ~authorized
    <3>1. Guarded(t, Pressing, Checks)  BY <1>1, <2>4 DEF CourseInv, Lateness
    <3>2. x \notin Pressing  BY <1>4, <3>1, TailSound
    <3> QED  BY <1>7, <3>2
  <2> QED  BY <2>3, <2>4 DEF CourseInv, Lateness
<1>10. ASSUME NEW X, t \in Seq(X) PROVE u \in Seq(X) /\ x \in X
  BY <1>3, <1>4, <1>10, TailIndex
<1>11. ASSUME NEW y, y # x PROVE Has(t, y) => Has(u, y)
  BY <1>3, <1>4, <1>11, TailHas
<1>12. /\ run.mode \in {"preflight", "deliver", "recover"}
       /\ run.mode = "preflight" => t \in Seq(PreStep)
       /\ run.mode = "recover" => t \in Seq(RecoverStep)
       /\ run.mode = "deliver" =>
            /\ t \in Seq(DeliverStep) /\ Orderly(t)
            /\ run.decision \in {"deploy", "no-op"}
            /\ run.decision = "no-op" => t \in Seq(QuietStep)
            /\ run.decision = "deploy" => Has(t, <<"stage", "core">>) \/ run.coreStaged
            /\ "core" \in run.hit => run.coreStaged
  BY <1>1 DEF CourseInv, Modes, Under
<1>13. /\ run'.outcome = None /\ run'.mode = run.mode /\ run'.decision = run.decision
       /\ run'.src = run.src
  BY DEF Same
<1>14. Modes'
  <2>1. run.mode # "preflight"  BY <1>7, <1>10, <1>12
  <2>2. run.mode = "recover" => u \in Seq(RecoverStep)  BY <1>10, <1>12
  <2>3. CASE run.mode = "deliver"
    <3>1. run.decision = "deploy"  BY <1>7, <1>10, <1>12, <2>3
    <3>2. u \in Seq(DeliverStep) /\ Orderly(u) /\ x \in DeliverStep
          /\ \A y : Has(u, y) => Precedes(x, y)
      BY <1>3, <1>4, <1>12, <2>3, OrderlyTail
    <3>3. Has(u, <<"stage", "core">>) \/ run'.coreStaged  BY <1>2, <1>11, <1>12, <2>3, <3>1
    <3>4. "core" \in run'.hit => run'.coreStaged
      <4>1. CASE "core" \in run.hit  BY <1>12, <2>3, <4>1
      <4>2. CASE w = "core"
        <5>1. n = "stage" \/ n = "activate"  BY <1>7, <3>2, <4>2
        <5>2. CASE n = "stage"  BY <4>2, <5>2
        <5>3. CASE n = "activate"
          <6>1. Rank(<<"activate", "core">>) = 63 + 40 /\ Rank(<<"stage", "core">>) = 2 + 0
            <7>1. "core" \in Workers  BY DEF Workers
            <7>2. \A z \in Workers : /\ Rank(<<"activate", z>>) = 63 + ActiveTurn[z]
                                     /\ Rank(<<"stage", z>>) = 2 + StageTurn[z]
              BY Ranks
            <7>3. ActiveTurn["core"] = 40 /\ StageTurn["core"] = 0  BY Ranks
            <7> QED  BY <7>1, <7>2, <7>3
          <6>2. /\ <<"activate", "core">>[1] \notin Free /\ <<"stage", "core">>[1] \notin Free
                /\ <<"activate", "core">>[1] \notin Repeating
            BY DEF Free, Repeating
          <6>3. ~Precedes(<<"activate", "core">>, <<"stage", "core">>)
            BY <6>1, <6>2 DEF Precedes
          <6>4. ~Has(u, <<"stage", "core">>)  BY <1>2, <3>2, <4>2, <5>3, <6>3
          <6> QED  BY <3>3, <6>4
        <5> QED  BY <5>1, <5>2, <5>3
      <4> QED  BY <4>1, <4>2
    <3> QED  BY <1>6, <1>13, <2>3, <3>1, <3>2, <3>3, <3>4 DEF Modes, Under
  <2> QED  BY <1>6, <1>12, <1>13, <2>1, <2>2, <2>3 DEF Modes, Under
<1>15. Finals'
  <2> SUFFICES ASSUME run.mode = "deliver", NEW v \in Workers PROVE Has(u, <<"final", v>>)
    BY <1>6, <1>13 DEF Finals, Under
  <2>1. t \notin Seq(QuietStep)  BY <1>7, <1>10
  <2>2. Has(t, <<"final", v>>)  BY <1>1, <2>1 DEF CourseInv, Finals, Under
  <2>3. <<"final", v>> \in QuietStep  BY DEF QuietStep, Closing
  <2> QED  BY <1>7, <1>11, <2>2, <2>3
<1>16. SuccessMeansCoherent' /\ RecoveryHonest'
  BY <1>13, NoneAssumption DEF SuccessMeansCoherent, RecoveryHonest
<1> QED  BY <1>8, <1>9, <1>14, <1>15, <1>16 DEF CourseInv

(* A run has ended with a report of its own. *)
LEMMA Ending ==
  ASSUME CourseInv, run.outcome = None, Around', Annotated',
         late' = late, authorized' \in BOOLEAN, authorized' => authorized,
         NEW o \in {"deploy", "no-op", "stopped", "killed"}, NEW e, run' = End(run, o, e),
         SuccessMeansCoherent', RecoveryHonest'
  PROVE  CourseInv'
<1>1. /\ Shape(run') /\ run'.todo = <<>> /\ run'.src = run.src /\ run'.outcome = o
      /\ run'.pending = run.pending
  BY DEF End, Shape, RunFields, CourseInv, Types
<1>2. Types'  BY <1>1 DEF Types, Around, CourseInv
<1>3. Lateness'
  <2>1. Separated(<<>>, Pressing, Checks) /\ Guarded(<<>>, Pressing, Checks)
    BY DEF Separated, Guarded
  <2> QED  BY <1>1, <2>1 DEF Lateness, CourseInv
<1>4. Modes' /\ Finals'  BY <1>1, NoneAssumption DEF Modes, Finals, Under
<1> QED  BY <1>2, <1>3, <1>4 DEF CourseInv

(* Nothing happened to the run; what another writer changed is strange. *)
LEMMA Elsewhere ==
  ASSUME CourseInv, run' = run, Around', Annotated', late' = late,
         authorized' \in BOOLEAN, authorized' => authorized,
         strange \subseteq strange', \A w \in Workers : w \in strange' \/ live'[w] = live[w]
  PROVE  CourseInv'
<1>1. Types'  BY DEF Types, Around, CourseInv
<1>2. Lateness'  BY DEF Lateness, CourseInv
<1>3. Modes'  BY DEF Modes, Under, CourseInv
<1>4. Finals'  BY DEF Finals, Under, Good, CourseInv
<1>5. SuccessMeansCoherent'  BY DEF SuccessMeansCoherent, CourseInv
<1>6. RecoveryHonest'
  <2>1. "core" \in Workers  BY DEF Workers
  <2> QED  BY <2>1 DEF RecoveryHonest, CourseInv
<1> QED  BY <1>1, <1>2, <1>3, <1>4, <1>5, <1>6 DEF CourseInv

-----------------------------------------------------------------------------
(* The run after each call *)

LEMMA KeepsOn ==
  ASSUME NEW a, NEW b, NEW c, NEW F, NEW G, Keeps(a, b, F), Keeps(b, c, G)
  PROVE  Keeps(a, c, F \cup G)
BY DEF Keeps

LEMMA LearnKeeps ==
  ASSUME NEW r, Shape(r), NEW X
  PROVE  Keeps(r, LearnCohort(r, X), {"cohort", "transition"})
<1>1. CASE LearnCohort(r, X) = r  BY <1>1 DEF Keeps
<1>2. CASE LearnCohort(r, X) =
             [r EXCEPT !.cohort[r.transition.worker] = live[r.transition.worker], !.transition = None]
  BY <1>2 DEF Keeps, Shape, RunFields
<1> QED  BY <1>1, <1>2 DEF LearnCohort

LEMMA RunAdvance ==
  ASSUME Shape(run)
  PROVE  Keeps(run, Advance(run), {"todo"}) /\ Advance(run).todo = Tail(run.todo)
BY DEF Advance, Shape, RunFields, Keeps

LEMMA WithoutIn ==
  ASSUME NEW X, NEW s \in Seq(X), NEW w
  PROVE  Without(s, w) \in Seq(X)
<1>1. CASE Contains(s, w)
  <2>1. PICK i \in 1..Len(s) : i = (CHOOSE j \in 1..Len(s) : s[j] = w)  BY <1>1 DEF Contains
  <2>2. SubSeq(s, 1, i - 1) \in Seq(X) /\ SubSeq(s, i + 1, Len(s)) \in Seq(X)  OBVIOUS
  <2>3. Without(s, w) = SubSeq(s, 1, i - 1) \o SubSeq(s, i + 1, Len(s))
    BY <1>1, <2>1 DEF Without, RemoveAt
  <2> QED  BY <2>2, <2>3, CatIndex
<1>2. CASE ~Contains(s, w)  BY <1>2 DEF Without
<1> QED  BY <1>1, <1>2

LEMMA RunCalls ==
  ASSUME Shape(run), NEW c, NEW r
  PROVE  /\ r = [Advance(run) EXCEPT !.read[c] = live[c]] =>
              Keeps(run, r, {"todo", "read"}) /\ r.todo = Tail(run.todo)
         /\ r = [Advance(run) EXCEPT !.uncertain = c] =>
              Keeps(run, r, {"todo", "uncertain"}) /\ r.todo = Tail(run.todo)
         /\ r = [Advance(run) EXCEPT !.intent = @ \cup {c}] =>
              /\ Keeps(run, r, {"todo", "intent"}) /\ r.todo = Tail(run.todo)
              /\ r.intent = run.intent \cup {c}
         /\ r = [Advance(run) EXCEPT !.receipt = @ \cup {c}] =>
              /\ Keeps(run, r, {"todo", "receipt"}) /\ r.todo = Tail(run.todo)
              /\ r.receipt = run.receipt \cup {c}
         /\ r = [Advance(run) EXCEPT !.own[c] = Snapshot[c], !.snapshot = Snapshot] =>
              /\ Keeps(run, r, {"todo", "own", "snapshot"}) /\ r.todo = Tail(run.todo)
              /\ r.own = [run.own EXCEPT ![c] = live[c]]
         /\ r = [Advance(run) EXCEPT !.pending = Without(@, c)] =>
              Keeps(run, r, {"todo", "pending"}) /\ r.todo = Tail(run.todo)
<1>1. PICK a : a = Advance(run)  OBVIOUS
<1>2. DOMAIN a = RunFields /\ a.todo = Tail(run.todo) /\ \A f \in RunFields \ {"todo"} : a[f] = run[f]
  BY <1>1 DEF Advance, Shape, RunFields
<1>3. ASSUME r = [a EXCEPT !.read[c] = live[c]]
      PROVE  Keeps(run, r, {"todo", "read"}) /\ r.todo = Tail(run.todo)
  BY <1>2, <1>3 DEF Keeps, Shape, RunFields
<1>4. ASSUME r = [a EXCEPT !.uncertain = c]
      PROVE  Keeps(run, r, {"todo", "uncertain"}) /\ r.todo = Tail(run.todo)
  BY <1>2, <1>4 DEF Keeps, Shape, RunFields
<1>5. ASSUME r = [a EXCEPT !.intent = @ \cup {c}]
      PROVE  /\ Keeps(run, r, {"todo", "intent"}) /\ r.todo = Tail(run.todo)
             /\ r.intent = run.intent \cup {c}
  BY <1>2, <1>5 DEF Keeps, Shape, RunFields
<1>6. ASSUME r = [a EXCEPT !.receipt = @ \cup {c}]
      PROVE  /\ Keeps(run, r, {"todo", "receipt"}) /\ r.todo = Tail(run.todo)
             /\ r.receipt = run.receipt \cup {c}
  BY <1>2, <1>6 DEF Keeps, Shape, RunFields
<1>7. ASSUME r = [a EXCEPT !.own[c] = Snapshot[c], !.snapshot = Snapshot]
      PROVE  /\ Keeps(run, r, {"todo", "own", "snapshot"}) /\ r.todo = Tail(run.todo)
             /\ r.own = [run.own EXCEPT ![c] = live[c]]
  <2>1. r = [a EXCEPT !.own[c] = live[c], !.snapshot = live]  BY <1>7 DEF Snapshot
  <2>2. Keeps(run, r, {"todo", "own", "snapshot"}) /\ r.todo = Tail(run.todo)
    BY <1>2, <2>1 DEF Keeps, Shape, RunFields
  <2>3. r.own = [a.own EXCEPT ![c] = live[c]] /\ a.own = run.own
    BY <1>2, <2>1 DEF RunFields
  <2> QED  BY <2>2, <2>3
<1>8. ASSUME r = [a EXCEPT !.pending = Without(@, c)]
      PROVE  Keeps(run, r, {"todo", "pending"}) /\ r.todo = Tail(run.todo)
  BY <1>2, <1>8 DEF Keeps, Shape, RunFields
<1> QED  BY <1>1, <1>3, <1>4, <1>5, <1>6, <1>7, <1>8

LEMMA RunLearns ==
  ASSUME Shape(run), NEW c, NEW r
  PROVE  /\ \A X : r = LearnCohort(Advance(run), X) =>
              Keeps(run, r, {"todo", "cohort", "transition"}) /\ r.todo = Tail(run.todo)
         /\ r = LearnCohort([Advance(run) EXCEPT !.snapshot = Snapshot], {}) =>
              /\ Keeps(run, r, {"todo", "cohort", "transition", "snapshot"})
              /\ r.todo = Tail(run.todo) /\ r.snapshot = live
         /\ r = [LearnCohort(Advance(run), {c}) EXCEPT
                   !.cohort = IF @ = None THEN live ELSE [@ EXCEPT ![c] = live[c]],
                   !.retired = @ \cup {c}, !.uncertain = None] =>
              /\ Keeps(run, r, {"todo", "cohort", "transition", "retired", "uncertain"})
              /\ r.todo = Tail(run.todo)
<1>1. /\ Keeps(run, Advance(run), {"todo"}) /\ Advance(run).todo = Tail(run.todo)
      /\ Shape(Advance(run))
  BY RunAdvance DEF Keeps
<1>2. ASSUME NEW X, NEW l, l = LearnCohort(Advance(run), X)
      PROVE  Keeps(run, l, {"todo", "cohort", "transition"}) /\ l.todo = Tail(run.todo)
  <2>1. Keeps(Advance(run), l, {"cohort", "transition"})  BY <1>1, <1>2, LearnKeeps
  <2>2. l.todo = Tail(run.todo)  BY <1>1, <2>1 DEF Keeps, RunFields
  <2>3. Keeps(run, l, {"todo"} \cup {"cohort", "transition"})  BY <1>1, <2>1, KeepsOn
  <2> QED  BY <2>2, <2>3 DEF Keeps
<1>3. ASSUME r = LearnCohort([Advance(run) EXCEPT !.snapshot = Snapshot], {})
      PROVE  /\ Keeps(run, r, {"todo", "cohort", "transition", "snapshot"})
             /\ r.todo = Tail(run.todo) /\ r.snapshot = live
  <2>1. PICK a : a = [Advance(run) EXCEPT !.snapshot = Snapshot]  OBVIOUS
  <2>2. Keeps(run, a, {"todo", "snapshot"}) /\ a.todo = Tail(run.todo) /\ a.snapshot = live /\ Shape(a)
    <3>1. PICK b : b = Advance(run)  OBVIOUS
    <3>2. /\ Shape(b) /\ b.todo = Tail(run.todo) /\ \A f \in RunFields \ {"todo"} : b[f] = run[f]
      BY <1>1, <3>1 DEF Keeps
    <3> QED  BY <2>1, <3>1, <3>2 DEF Keeps, Shape, RunFields, Snapshot
  <2>3. Keeps(a, r, {"cohort", "transition"})  BY <1>3, <2>1, <2>2, LearnKeeps
  <2>4. r.todo = a.todo /\ r.snapshot = a.snapshot  BY <2>3 DEF Keeps, RunFields
  <2>5. Keeps(run, r, {"todo", "snapshot"} \cup {"cohort", "transition"})  BY <2>2, <2>3, KeepsOn
  <2> QED  BY <2>2, <2>4, <2>5 DEF Keeps
<1>4. ASSUME r = [LearnCohort(Advance(run), {c}) EXCEPT
                   !.cohort = IF @ = None THEN live ELSE [@ EXCEPT ![c] = live[c]],
                   !.retired = @ \cup {c}, !.uncertain = None]
      PROVE  /\ Keeps(run, r, {"todo", "cohort", "transition", "retired", "uncertain"})
             /\ r.todo = Tail(run.todo)
  <2>1. PICK l : l = LearnCohort(Advance(run), {c})  OBVIOUS
  <2>2. Shape(l) /\ l.todo = Tail(run.todo)
        /\ \A f \in RunFields \ {"todo", "cohort", "transition"} : l[f] = run[f]
    BY <1>2, <2>1 DEF Keeps
  <2>3. \E g, h : r = [l EXCEPT !.cohort = g, !.retired = h, !.uncertain = None]
    BY <1>4, <2>1
  <2>4. PICK g, h : r = [l EXCEPT !.cohort = g, !.retired = h, !.uncertain = None]
    BY <2>3
  <2> QED  BY <2>2, <2>4 DEF Keeps, Shape, RunFields
<1> QED  BY <1>2, <1>3, <1>4

LEMMA RunHandsOff ==
  ASSUME Shape(run), run.pending \in Seq(Callers), NEW c \in Callers, NEW r
  PROVE  /\ r = [HandOff(LearnCohort(Advance(run), {}), c, "retired") EXCEPT
                   !.pending = Append(@, c), !.snapshot = None] =>
              /\ Keeps(run, r, {"todo", "cohort", "transition", "hand", "api", "pending", "snapshot"})
              /\ r.todo = Tail(run.todo)
              /\ r.pending \in Seq(Callers) /\ r.pending = Append(run.pending, c)
              /\ r.hand = [run.hand EXCEPT ![c] = [kind |-> "retired", version |-> live[c].version,
                                                   via |-> live[c].via]]
         /\ r = HandOff(Advance(run), c, "observed") =>
              /\ Keeps(run, r, {"todo", "hand", "api"}) /\ r.todo = Tail(run.todo)
              /\ r.hand = [run.hand EXCEPT ![c] = [kind |-> "observed", version |-> live[c].version,
                                                   via |-> live[c].via]]
<1>1. ASSUME r = [HandOff(LearnCohort(Advance(run), {}), c, "retired") EXCEPT
                   !.pending = Append(@, c), !.snapshot = None]
      PROVE  /\ Keeps(run, r, {"todo", "cohort", "transition", "hand", "api", "pending", "snapshot"})
             /\ r.todo = Tail(run.todo)
             /\ r.pending \in Seq(Callers) /\ r.pending = Append(run.pending, c)
             /\ r.hand = [run.hand EXCEPT ![c] = [kind |-> "retired", version |-> live[c].version,
                                                  via |-> live[c].via]]
  <2>1. PICK l : l = LearnCohort(Advance(run), {})  OBVIOUS
  <2>2. Shape(l) /\ l.todo = Tail(run.todo) /\ l.pending = run.pending /\ l.hand = run.hand
        /\ Keeps(run, l, {"todo", "cohort", "transition"})
    <3>1. Keeps(run, l, {"todo", "cohort", "transition"}) /\ l.todo = Tail(run.todo)
      BY <2>1, RunLearns
    <3> QED  BY <3>1 DEF Keeps, RunFields
  <2>3. PICK h : h = HandOff(l, c, "retired")  OBVIOUS
  <2>4. /\ Keeps(l, h, {"hand", "api"})
        /\ h.hand = [run.hand EXCEPT ![c] = [kind |-> "retired", version |-> live[c].version,
                                             via |-> live[c].via]]
    <3>1. PICK g : g = [l.hand EXCEPT ![c] = [kind |-> "retired", version |-> live[c].version,
                                              via |-> live[c].via]]
      OBVIOUS
    <3>2. PICK a : a = Provenance(l, c, live[c].via)  OBVIOUS
    <3>3. h = [l EXCEPT !.hand = g, !.api = a]  BY <2>3, <3>1, <3>2 DEF HandOff
    <3>4. Keeps(l, h, {"hand", "api"}) /\ h.hand = g  BY <2>2, <3>3 DEF Keeps, Shape, RunFields
    <3> QED  BY <2>2, <3>1, <3>4
  <2>5. h.todo = Tail(run.todo) /\ h.pending = run.pending  BY <2>2, <2>4 DEF Keeps, RunFields
  <2>6. Keeps(run, h, {"todo", "cohort", "transition"} \cup {"hand", "api"})
    BY <2>2, <2>4, KeepsOn
  <2>7. PICK p \in Seq(Callers) : p = Append(run.pending, c)
    <3>1. Append(run.pending, c) \in Seq(Callers)  OBVIOUS
    <3> QED  BY <3>1
  <2>8. r = [h EXCEPT !.pending = Append(@, c), !.snapshot = None]  BY <1>1, <2>1, <2>3
  <2>9. r = [h EXCEPT !.pending = p, !.snapshot = None]  BY <2>5, <2>7, <2>8
  <2>10. Keeps(h, r, {"pending", "snapshot"}) /\ r.pending = p /\ r.todo = h.todo /\ r.hand = h.hand
    <3>1. Shape(h)  BY <2>4 DEF Keeps
    <3> QED  BY <2>9, <3>1 DEF Keeps, Shape, RunFields
  <2>11. Keeps(run, r, ({"todo", "cohort", "transition"} \cup {"hand", "api"}) \cup {"pending", "snapshot"})
    BY <2>6, <2>10, KeepsOn
  <2> QED  BY <2>4, <2>5, <2>7, <2>10, <2>11 DEF Keeps
<1>2. ASSUME r = HandOff(Advance(run), c, "observed")
      PROVE  /\ Keeps(run, r, {"todo", "hand", "api"}) /\ r.todo = Tail(run.todo)
             /\ r.hand = [run.hand EXCEPT ![c] = [kind |-> "observed", version |-> live[c].version,
                                                  via |-> live[c].via]]
  <2>1. PICK a : a = Advance(run)  OBVIOUS
  <2>2. Shape(a) /\ a.todo = Tail(run.todo) /\ a.hand = run.hand /\ Keeps(run, a, {"todo"})
    BY <2>1, RunAdvance DEF Keeps, RunFields
  <2>3. /\ Keeps(a, r, {"hand", "api"})
        /\ r.hand = [run.hand EXCEPT ![c] = [kind |-> "observed", version |-> live[c].version,
                                             via |-> live[c].via]]
    <3>1. PICK g : g = [a.hand EXCEPT ![c] = [kind |-> "observed", version |-> live[c].version,
                                              via |-> live[c].via]]
      OBVIOUS
    <3>2. PICK p : p = Provenance(a, c, live[c].via)  OBVIOUS
    <3>3. r = [a EXCEPT !.hand = g, !.api = p]  BY <1>2, <2>1, <3>1, <3>2 DEF HandOff
    <3>4. Keeps(a, r, {"hand", "api"}) /\ r.hand = g  BY <2>2, <3>3 DEF Keeps, Shape, RunFields
    <3> QED  BY <2>2, <3>1, <3>4
  <2>4. r.todo = a.todo  BY <2>3 DEF Keeps, RunFields
  <2>5. Keeps(run, r, {"todo"} \cup {"hand", "api"})  BY <2>2, <2>3, KeepsOn
  <2> QED  BY <2>2, <2>3, <2>4, <2>5 DEF Keeps
<1> QED  BY <1>1, <1>2

(* What a readback may insert: the retirement or the observation of the caller, *)
(* and a read of the oldest retired caller.                                     *)
LEMMA RereadBatch ==
  ASSUME NEW c \in Workers
  PROVE  Batch(Fence \o <<<<"readRetired", c>>>>, 0, 0)
<1>1. PICK x \in InsertStep : x = <<"readRetired", c>>  BY InsertKinds DEF InsertStep
<1>2. x \in DeliverStep /\ x[1] \in Free  BY <1>1, StepSets, InsertKinds
<1>3. PICK u : u = <<x>>  OBVIOUS
<1>4. x \notin Pressing  BY <1>1 DEF Pressing, Mutations
<1>5. /\ u \in Seq(InsertStep) /\ u \in Seq(DeliverStep) /\ ~Some(u, Pressing)
      /\ Span(u, 0, 0)
  BY <1>2, <1>3, <1>4, OneIn, SpanOne
<1>6. Batch(u, 0, 0)  BY <1>5, InsertQuiet DEF Batch
<1> QED  BY <1>1, <1>3, <1>6, BatchFence

LEMMA EmptyBatch == \A l, m : Batch(<<>>, l, m)
BY NothingInserted DEF Batch, Span

Reread(p) == IF p = <<>> THEN <<>> ELSE Fence \o <<<<"readRetired", Head(p)>>>>

LEMMA RecordsUpload ==
  ASSUME NEW r, Shape(r), r.pending \in Seq(Callers), r.todo \in Seq(Step), NEW w, NEW phase
  PROVE  /\ Keeps(r, RecordUpload(r, w, phase), {"todo", "transition"})
         /\ RecordUpload(r, w, phase).todo = Reread(r.pending) \o r.todo
         /\ Batch(Reread(r.pending), 0, 0)
<1>1. CASE r.pending = <<>>
  <2>1. RecordUpload(r, w, phase) = r  BY <1>1 DEF RecordUpload
  <2>2. r.todo = <<>> \o r.todo  OBVIOUS
  <2>3. Reread(r.pending) = <<>>  BY <1>1 DEF Reread
  <2> QED  BY <2>1, <2>2, <2>3, EmptyBatch DEF Keeps
<1>2. CASE r.pending # <<>>
  <2>1. PICK c \in Callers : c = Head(r.pending)  BY <1>2
  <2>2. PICK s : s = Fence \o <<<<"readRetired", c>>>>  OBVIOUS
  <2>3. PICK e : e = [worker |-> w, version |-> live[w].version, phase |-> phase]  OBVIOUS
  <2>4. RecordUpload(r, w, phase) = Before([r EXCEPT !.transition = e], s)
    BY <1>2, <2>1, <2>2, <2>3 DEF RecordUpload
  <2>5. PICK q : q = RecordUpload(r, w, phase)  OBVIOUS
  <2>6. Keeps(r, q, {"todo", "transition"}) /\ q.todo = s \o r.todo
    BY <2>4, <2>5 DEF Before, Keeps, Shape, RunFields
  <2>7. Batch(s, 0, 0)  BY <2>2, RereadBatch DEF Callers, Workers
  <2>8. s = Reread(r.pending)  BY <1>2, <2>1, <2>2 DEF Reread
  <2> QED  BY <2>5, <2>6, <2>7, <2>8
<1> QED  BY <1>1, <1>2

Handing(w) ==
  IF RetirePair(run, w) THEN <<<<"beginRetirement", w>>>> \o RetireSteps(w)
  ELSE IF ObserveSecretFree(run, w) THEN ObserveSteps(w) ELSE <<>>

LEMMA HandingBatch ==
  ASSUME NEW w \in Workers
  PROVE  Batch(Handing(w), StageTurn[w] + 4, StageTurn[w] + 14)
<1>1. StageTurn[w] \in Nat  BY TurnsNat
<1>2. ASSUME NEW s, NEW l \in Nat, NEW m \in Nat, Batch(s, l, m),
             StageTurn[w] + 4 <= l, m <= StageTurn[w] + 14
      PROVE  Batch(s, StageTurn[w] + 4, StageTurn[w] + 14)
  BY <1>1, <1>2, SpanWider DEF Batch
<1>3. CASE RetirePair(run, w)
  <2>1. PICK T \in Nat : T = StageTurn[w]  BY <1>1
  <2>2. Rank(<<"beginRetirement", w>>) = 6 + T  BY <2>1, Ranks
  <2>3. Batch(<<<<"beginRetirement", w>>>>, T + 6, T + 6)
    <3>1. Rank(<<"beginRetirement", w>>) = T + 6  BY <2>2
    <3> QED  BY <3>1, BatchOne, InsertKinds
  <2>4. Batch(RetireSteps(w), T + 7, T + 14)  BY <2>1, RetireBatch
  <2>5. Batch(<<<<"beginRetirement", w>>>> \o RetireSteps(w), T + 6, T + 14)
    BY <2>3, <2>4, BatchCat
  <2> QED  BY <1>2, <1>3, <2>1, <2>5 DEF Handing
<1>4. CASE ~RetirePair(run, w) /\ ObserveSecretFree(run, w)
  <2>1. Batch(ObserveSteps(w), StageTurn[w] + 4, StageTurn[w] + 5)  BY ObserveBatch
  <2> QED  BY <1>1, <1>2, <1>4, <2>1 DEF Handing
<1>5. CASE ~RetirePair(run, w) /\ ~ObserveSecretFree(run, w)
  BY <1>5, EmptyBatch DEF Handing
<1> QED  BY <1>3, <1>4, <1>5

LEMMA RunHands ==
  ASSUME Shape(run), run.todo \in Seq(Step), run.todo # <<>>, NEW w \in Workers
  PROVE  /\ Keeps(run, BeginHandoff(Advance(run), w), {"todo", "uploaded"})
         /\ BeginHandoff(Advance(run), w).todo = Handing(w) \o Tail(run.todo)
<1>1. PICK a : a = Advance(run)  OBVIOUS
<1>2. /\ Keeps(run, a, {"todo"}) /\ a.todo = Tail(run.todo) /\ Shape(a)
      /\ a.boot = run.boot /\ a.policy = run.policy
  BY <1>1, RunAdvance DEF Keeps, RunFields
<1>3. RetirePair(a, w) = RetirePair(run, w) /\ ObserveSecretFree(a, w) = ObserveSecretFree(run, w)
  BY <1>2 DEF RetirePair, ObserveSecretFree
<1>4. PICK t \in Seq(Step) : t = Tail(run.todo)  BY TailIndex
<1>5. PICK b : b = [a EXCEPT !.uploaded[w] = live[w].version]  OBVIOUS
<1>6. Keeps(a, b, {"uploaded"}) /\ b.todo = t
  BY <1>2, <1>4, <1>5 DEF Keeps, Shape, RunFields
<1>7. ASSUME NEW s, NEW q, q = Before(b, s)
      PROVE  Keeps(run, q, {"todo", "uploaded"}) /\ q.todo = s \o t
  <2>1. Shape(b)  BY <1>6 DEF Keeps
  <2>2. Keeps(b, q, {"todo"}) /\ q.todo = s \o t
    BY <1>6, <1>7, <2>1 DEF Before, Keeps, Shape, RunFields
  <2>3. Keeps(run, b, {"todo"} \cup {"uploaded"})  BY <1>2, <1>6, KeepsOn
  <2>4. Keeps(run, q, ({"todo"} \cup {"uploaded"}) \cup {"todo"})  BY <2>2, <2>3, KeepsOn
  <2> QED  BY <2>2, <2>4 DEF Keeps
<1>8. PICK q : q = BeginHandoff(a, w)  OBVIOUS
<1>9. CASE RetirePair(run, w)
  <2>1. q = Before(b, Handing(w))  BY <1>3, <1>5, <1>8, <1>9 DEF BeginHandoff, Handing
  <2> QED  BY <1>1, <1>4, <1>7, <1>8, <2>1
<1>10. CASE ~RetirePair(run, w) /\ ObserveSecretFree(run, w)
  <2>1. q = Before(b, Handing(w))  BY <1>3, <1>5, <1>8, <1>10 DEF BeginHandoff, Handing
  <2> QED  BY <1>1, <1>4, <1>7, <1>8, <2>1
<1>11. CASE ~RetirePair(run, w) /\ ~ObserveSecretFree(run, w)
  <2>1. q = a /\ Handing(w) = <<>>  BY <1>3, <1>8, <1>11 DEF BeginHandoff, Handing
  <2>2. t = <<>> \o t  OBVIOUS
  <2> QED  BY <1>1, <1>2, <1>4, <1>8, <2>1, <2>2 DEF Keeps
<1> QED  BY <1>9, <1>10, <1>11

LEMMA RunReadsBack ==
  ASSUME Shape(run), run.todo \in Seq(Step), run.todo # <<>>, run.pending \in Seq(Callers),
         NEW w \in Workers, NEW r
  PROVE  /\ r = RecordUpload(BeginHandoff(Advance(run), w), w, "staged") =>
              /\ Keeps(run, r, {"todo", "uploaded", "transition"})
              /\ r.todo = (Reread(run.pending) \o Handing(w)) \o Tail(run.todo)
              /\ Batch(Reread(run.pending) \o Handing(w), 0, StageTurn[w] + 14)
         /\ \A a : a = [Advance(run) EXCEPT !.pending = Without(@, w)] /\ r = RecordUpload(a, w, "active") =>
              /\ Keeps(run, r, {"todo", "pending", "transition"})
              /\ r.pending \in Seq(Callers) /\ r.pending = Without(run.pending, w)
              /\ Batch(Reread(r.pending), 0, 0) /\ r.todo = Reread(r.pending) \o Tail(run.todo)
<1>1. PICK t \in Seq(Step) : t = Tail(run.todo)  BY TailIndex
<1>2. ASSUME r = RecordUpload(BeginHandoff(Advance(run), w), w, "staged")
      PROVE  /\ Keeps(run, r, {"todo", "uploaded", "transition"})
             /\ r.todo = (Reread(run.pending) \o Handing(w)) \o t
             /\ Batch(Reread(run.pending) \o Handing(w), 0, StageTurn[w] + 14)
  <2>1. PICK b : b = BeginHandoff(Advance(run), w)  OBVIOUS
  <2>2. Keeps(run, b, {"todo", "uploaded"}) /\ b.todo = Handing(w) \o t
    BY <1>1, <2>1, RunHands
  <2>3. Batch(Handing(w), StageTurn[w] + 4, StageTurn[w] + 14) /\ StageTurn[w] \in Nat
    BY HandingBatch, TurnsNat
  <2>4. Handing(w) \in Seq(Step)  BY <2>3, StepSets, SeqWithin DEF Batch
  <2>5. Shape(b) /\ b.pending = run.pending /\ b.pending \in Seq(Callers) /\ b.todo \in Seq(Step)
    BY <1>1, <2>2, <2>4, CatIndex DEF Keeps, RunFields
  <2>6. PICK s : s = Reread(run.pending)  OBVIOUS
  <2>7. Keeps(b, r, {"todo", "transition"}) /\ Batch(s, 0, 0) /\ r.todo = s \o b.todo
    BY <1>2, <2>1, <2>5, <2>6, RecordsUpload
  <2>8. s \in Seq(Step)  BY <2>7, StepSets, SeqWithin DEF Batch
  <2>9. r.todo = (s \o Handing(w)) \o t
    <3>1. (s \o Handing(w)) \o t = s \o (Handing(w) \o t)  BY <2>4, <2>8, CatAssoc, SMTT(40)
    <3> QED  BY <2>2, <2>7, <3>1
  <2>10. Batch(s \o Handing(w), 0, StageTurn[w] + 14)
    <3>1. PICK h : h = Handing(w)  OBVIOUS
    <3>2. PICK k \in Nat, m \in Nat : k = StageTurn[w] + 4 /\ m = StageTurn[w] + 14
      BY <2>3
    <3>3. 0 < k /\ k <= m  BY <2>3, <3>2
    <3>4. Batch(h, k, m) /\ Batch(s, 0, 0)  BY <2>3, <2>7, <3>1, <3>2
    <3>5. Batch(s \o h, 0, m)  BY <3>3, <3>4, BatchCat
    <3> QED  BY <3>1, <3>2, <3>5
  <2>11. Keeps(run, r, {"todo", "uploaded"} \cup {"todo", "transition"})  BY <2>2, <2>7, KeepsOn
  <2> QED  BY <2>6, <2>9, <2>10, <2>11 DEF Keeps
<1>3. ASSUME NEW a, a = [Advance(run) EXCEPT !.pending = Without(@, w)], r = RecordUpload(a, w, "active")
      PROVE  /\ Keeps(run, r, {"todo", "pending", "transition"})
             /\ r.pending \in Seq(Callers) /\ r.pending = Without(run.pending, w)
             /\ Batch(Reread(r.pending), 0, 0) /\ r.todo = Reread(r.pending) \o t
  <2>1. Keeps(run, a, {"todo", "pending"}) /\ a.todo = t  BY <1>1, <1>3, RunCalls
  <2>2. a.pending \in Seq(Callers) /\ a.pending = Without(run.pending, w)
    <3>1. PICK d : d = Advance(run)  OBVIOUS
    <3>2. Shape(d) /\ d.pending = run.pending  BY <3>1, RunAdvance DEF Keeps, RunFields
    <3>3. a = [d EXCEPT !.pending = Without(@, w)]  BY <1>3, <3>1
    <3>4. a.pending = Without(run.pending, w)  BY <3>2, <3>3 DEF Shape, RunFields
    <3> QED  BY <3>4, WithoutIn
  <2>3. Shape(a)  BY <2>1 DEF Keeps
  <2>4. /\ Keeps(a, r, {"todo", "transition"}) /\ Batch(Reread(a.pending), 0, 0)
        /\ r.todo = Reread(a.pending) \o a.todo
    BY <1>1, <1>3, <2>1, <2>2, <2>3, RecordsUpload
  <2>5. r.pending = a.pending  BY <2>4 DEF Keeps, RunFields
  <2>6. Keeps(run, r, {"todo", "pending"} \cup {"todo", "transition"})  BY <2>1, <2>4, KeepsOn
  <2> QED  BY <2>1, <2>2, <2>4, <2>5, <2>6 DEF Keeps
<1> QED  BY <1>1, <1>2, <1>3

-----------------------------------------------------------------------------
(* The course of a run *)

LEMMA AroundStays ==
  ASSUME Types, UNCHANGED <<live, request, authorized, versions, fenced>>,
         strange' \subseteq strange
  PROVE  Around'
BY DEF Types, Around

LEMMA CheckFails ==
  ASSUME CourseInv, run.outcome = None, run' = Stop(run),
         UNCHANGED <<live, request, authorized, versions, fenced, late, strange>>
  PROVE  CourseInv'
<1>1. Around'  BY AroundStays DEF CourseInv
<1>2. Annotated'  BY DEF CourseInv, Annotated
<1>3. late' = 0 \/ (late' = 1 /\ ~authorized')  BY DEF CourseInv, Lateness
<1>4. Shape(run)  BY DEF CourseInv, Types
<1>5. /\ Under("preflight") => run.hit = {}
      /\ Under("deliver") => ("core" \in run.hit => run.coreStaged)
                             /\ (run.decision = "no-op" => run.hit = {})
  BY DEF CourseInv, Modes
<1> QED  BY <1>1, <1>2, <1>3, <1>4, <1>5, Stopping

(* The two ways a check ends *)
Failed ==
  run' = Stop(run) /\ UNCHANGED <<live, request, authorized, versions, fenced, late, strange>>
Answered(r, acc) ==
  /\ run' = r /\ strange' = strange \ acc
  /\ UNCHANGED <<live, request, authorized, versions, fenced, late>>

LEMMA KeepsSame ==
  ASSUME NEW r, NEW F, Keeps(run, r, F),
         F \cap {"src", "boot", "mode", "decision", "outcome", "hit", "coreStaged"} = {},
         "pending" \in F => r.pending \in Seq(Callers), run.pending \in Seq(Callers)
  PROVE  Same(r) /\ r.hit = run.hit /\ r.coreStaged = run.coreStaged
BY DEF Keeps, Same, RunFields

(* A call that is only answered, or fails. *)
LEMMA PlainCall ==
  ASSUME CourseInv, NEW n, NEW w \in Workers, Todo(n, w), <<n, w>> \notin Pressing, n # "fence",
         NEW r, NEW acc,
         \/ Failed
         \/ /\ Answered(r, acc) /\ (n = "authorize" => authorized)
            /\ Same(r) /\ r.hit = run.hit /\ r.coreStaged = run.coreStaged /\ r.todo = Tail(run.todo)
            /\ n = "final" => acc = {w} /\ Good(w)
            /\ n \in Closing \ {"final"} => acc = {}
  PROVE  CourseInv'
<1>1. run.outcome = None /\ run.todo # <<>> /\ Head(run.todo) = <<n, w>>  BY DEF Todo
<1>2. CASE Failed  BY <1>1, <1>2, CheckFails DEF Failed
<1>3. CASE ~Failed
  <2> USE <1>3
  <2>1. run' = r /\ strange' = strange \ acc /\ UNCHANGED <<live, request, authorized, versions, fenced, late>>
    BY DEF Answered
  <2>2. Around'  BY <2>1, AroundStays DEF CourseInv
  <2>3. run.todo \in Seq(Step)  BY DEF CourseInv, Types
  <2>4. PICK e : e = <<>>  OBVIOUS
  <2>5. Tail(run.todo) \in Seq(Step)  BY <1>1, <2>3, TailIndex
  <2>6. run'.todo = e \o Tail(run.todo)  BY <2>1, <2>4, <2>5
  <2>7. Insertion(e)  BY <2>4, NothingInserted
  <2>8. Head(run.todo) \notin Pressing  BY <1>1
  <2>9. Head(run.todo) \in Checks => authorized  BY <1>1 DEF Checks
  <2>10. Under("deliver") => Orderly(run'.todo) /\ run'.todo \in Seq(DeliverStep)
    <3> SUFFICES ASSUME Under("deliver") PROVE Orderly(run'.todo) /\ run'.todo \in Seq(DeliverStep)
      OBVIOUS
    <3>1. run.todo \in Seq(DeliverStep) /\ Orderly(run.todo)  BY DEF CourseInv, Modes
    <3>2. run'.todo = Tail(run.todo)  BY <2>1
    <3> QED  BY <1>1, <3>1, <3>2, OrderlyTail
  <2>11. \/ Head(run.todo) \notin QuietStep
         \/ strange' = strange /\ \A v \in Workers : Head(run.todo) # <<"final", v>>
         \/ \E v \in Workers : Head(run.todo) = <<"final", v>> /\ strange' = strange \ {v} /\ Good(v)
    <3>1. CASE n = "final"  BY <1>1, <2>1, <3>1
    <3>2. CASE n # "final"
      <4>1. \A v \in Workers : Head(run.todo) # <<"final", v>>  BY <1>1, <3>2
      <4>2. CASE n \in Closing
        <5>1. strange' = strange  BY <2>1, <3>2, <4>2
        <5> QED  BY <4>1, <5>1
      <4>3. CASE n \notin Closing
        <5>1. Head(run.todo) \notin QuietStep  BY <1>1, <4>3 DEF QuietStep
        <5> QED  BY <5>1
      <4> QED  BY <4>2, <4>3
    <3> QED  BY <3>1, <3>2
  <2>12. Same(run') /\ run'.hit = run.hit /\ run'.coreStaged = run.coreStaged  BY <2>1
  <2>13. live' = live /\ authorized' = authorized /\ late' = late  BY <2>1
  <2> QED  BY <1>1, <2>2, <2>4, <2>6, <2>7, <2>8, <2>9, <2>10, <2>11, <2>12, <2>13, GoingOn
<1> QED  BY <1>2, <1>3

(* What an inserting call leaves ahead is in order. *)
LEMMA BehindHead ==
  ASSUME NEW t \in Seq(DeliverStep), t # <<>>, Orderly(t), NEW n, NEW w \in Workers,
         Head(t) = <<n, w>>, n \in {"readStaged", "readActive", "verifyStaged", "handoff"},
         NEW m \in Nat,
         \/ m = 0
         \/ n = "readStaged" /\ m <= StageTurn[w] + 14
         \/ n = "handoff" /\ m <= ActiveTurn[w] + 62
  PROVE  \A i \in 1..Len(Tail(t)) : Tail(t)[i][1] \notin Free => m < Rank(Tail(t)[i])
<1> SUFFICES ASSUME NEW i \in 1..Len(Tail(t)), Tail(t)[i][1] \notin Free
             PROVE  m < Rank(Tail(t)[i])
  OBVIOUS
<1>1. PICK y : y = Tail(t)[i]  OBVIOUS
<1>2. y \in DeliverStep /\ Precedes(<<n, w>>, y)  BY <1>1, OrderlyTail
<1>3. <<n, w>>[1] = n /\ n \notin Free /\ n \notin Inserting  BY InsertKinds
<1>4. /\ Rank(<<n, w>>) < Rank(y) \/ (Rank(<<n, w>>) = Rank(y) /\ n \in Repeating)
      /\ y[1] \notin Inserting
  BY <1>1, <1>2, <1>3 DEF Precedes
<1>5. /\ Rank(y) \in Nat
      /\ Rank(y) > 3 + StageTurn[w] => Rank(y) > 14 + StageTurn[w]
      /\ Rank(y) > 61 + ActiveTurn[w] => Rank(y) > 62 + ActiveTurn[w]
  BY <1>1, <1>2, <1>4, RankRange
<1>6. StageTurn[w] \in Nat /\ ActiveTurn[w] \in Nat  BY TurnsNat
<1>7. CASE n = "readStaged"
  <2>1. Rank(<<"readStaged", w>>) = 3 + StageTurn[w]  BY Ranks
  <2>2. n \notin Repeating  BY <1>7 DEF Repeating
  <2> QED  BY <1>1, <1>4, <1>5, <1>6, <1>7, <2>1, <2>2
<1>8. CASE n = "handoff"
  <2>1. Rank(<<"handoff", w>>) = 61 + ActiveTurn[w]  BY Ranks
  <2>2. n \notin Repeating  BY <1>8 DEF Repeating
  <2> QED  BY <1>1, <1>4, <1>5, <1>6, <1>8, <2>1, <2>2
<1>9. CASE n = "readActive"
  <2>1. Rank(<<"readActive", w>>) = 64 + ActiveTurn[w]  BY Ranks
  <2> QED  BY <1>1, <1>4, <1>5, <1>6, <1>9, <2>1
<1>10. CASE n = "verifyStaged"
  <2>1. Rank(<<"verifyStaged", w>>) = 60  BY Ranks
  <2> QED  BY <1>1, <1>4, <1>5, <1>10, <2>1
<1> QED  BY <1>7, <1>8, <1>9, <1>10

LEMMA InsertingCall ==
  ASSUME CourseInv, NEW n \in {"readStaged", "readActive", "verifyStaged", "handoff"},
         NEW w \in Workers, Todo(n, w), NEW r, NEW acc,
         NEW m \in Nat, NEW s,
         \/ m = 0
         \/ n = "readStaged" /\ m <= StageTurn[w] + 14
         \/ n = "handoff" /\ m <= ActiveTurn[w] + 62,
         \/ Failed
         \/ /\ Answered(r, acc) /\ Same(r) /\ r.hit = run.hit /\ r.coreStaged = run.coreStaged
            /\ r.todo = s \o Tail(run.todo) /\ Batch(s, 0, m)
  PROVE  CourseInv'
<1>1. run.outcome = None /\ run.todo # <<>> /\ Head(run.todo) = <<n, w>>  BY DEF Todo
<1>2. CASE Failed  BY <1>1, <1>2, CheckFails DEF Failed
<1>3. CASE ~Failed
  <2> USE <1>3
  <2>1. run' = r /\ strange' = strange \ acc /\ UNCHANGED <<live, request, authorized, versions, fenced, late>>
    BY DEF Answered
  <2>2. Around'  BY <2>1, AroundStays DEF CourseInv
  <2>3. run.todo \in Seq(Step)  BY DEF CourseInv, Types
  <2>4. <<n, w>> \notin PreStep \cup RecoverStep \cup QuietStep \cup Pressing \cup Checks
    BY DEF PreStep, RecoverStep, QuietStep, Closing, Pressing, Mutations, Checks
  <2>5. Under("deliver")
    <3>1. \A X : run.todo \in Seq(X) => <<n, w>> \in X  BY <1>1, TailIndex
    <3> QED  BY <1>1, <2>4, <3>1 DEF CourseInv, Modes, Under
  <2>6. run.todo \in Seq(DeliverStep) /\ Orderly(run.todo)  BY <2>5 DEF CourseInv, Modes
  <2>7. PICK t \in Seq(DeliverStep) : t = Tail(run.todo)  BY <1>1, <2>6, TailIndex
  <2>8. Orderly(t)  BY <1>1, <2>6, <2>7, OrderlyTail
  <2>9. \A i \in 1..Len(t) : t[i][1] \notin Free => m < Rank(t[i])
    BY <1>1, <2>6, <2>7, BehindHead
  <2>10. Batch(s, 0, m) /\ run'.todo = s \o t  BY <2>1, <2>7
  <2>11. Orderly(run'.todo) /\ run'.todo \in Seq(DeliverStep)
    BY <2>8, <2>9, <2>10, OrderlyInsert
  <2>12. Insertion(s)  BY <2>10 DEF Batch
  <2>13. Same(run') /\ run'.hit = run.hit /\ run'.coreStaged = run.coreStaged  BY <2>1
  <2>14. live' = live /\ authorized' = authorized /\ late' = late  BY <2>1
  <2>15. Head(run.todo) \notin QuietStep /\ Head(run.todo) \notin Pressing /\ Head(run.todo) \notin Checks
    BY <1>1, <2>4
  <2>16. run'.todo = s \o Tail(run.todo)  BY <2>7, <2>10
  <2> QED  BY <1>1, <2>2, <2>5, <2>11, <2>12, <2>13, <2>14, <2>15, <2>16, GoingOn
<1> QED  BY <1>2, <1>3

PlainNames ==
  {"ledger", "inventory", "predecessor", "callerPredecessor", "verifyStaged", "final", "authorize",
   "readRetired", "beginRetirement", "retireRead", "intent", "retireReread", "retireVerify",
   "receipt", "acceptRetirement", "completeRetirement", "observe", "completeObservation",
   "readObserved", "reconcile", "canaries"}

LEMMA PlainKeeps ==
  ASSUME CourseInv, NEW n \in PlainNames, NEW w \in Workers, Todo(n, w), NEW F, NEW r, NEW acc,
         F \cap {"src", "boot", "mode", "decision", "outcome", "hit", "coreStaged"} = {},
         \/ Failed
         \/ /\ Answered(r, acc) /\ (n = "authorize" => authorized)
            /\ Keeps(run, r, F) /\ r.todo = Tail(run.todo)
            /\ "pending" \in F => r.pending \in Seq(Callers)
            /\ n = "final" => acc = {w} /\ Good(w)
            /\ n \in {"reconcile", "canaries"} => acc = {}
  PROVE  CourseInv'
<1>1. <<n, w>> \notin Pressing /\ n # "fence" /\ (n \in Closing \ {"final"} => n \in {"reconcile", "canaries"})
  BY DEF PlainNames, Pressing, Mutations, Closing
<1>2. run.pending \in Seq(Callers)  BY DEF CourseInv, Types
<1>3. Keeps(run, r, F) /\ ("pending" \in F => r.pending \in Seq(Callers)) =>
        Same(r) /\ r.hit = run.hit /\ r.coreStaged = run.coreStaged
  BY <1>2, KeepsSame
<1> QED  BY <1>1, <1>3, PlainCall

LEMMA OnlyTodo ==
  /\ {"todo"} \cap {"src", "boot", "mode", "decision", "outcome", "hit", "coreStaged"} = {}
  /\ "pending" \notin {"todo"}
OBVIOUS

LEMMA PreflightCourse ==
  ASSUME CourseInv, CheckLedger \/ \E w \in Workers : Inventory(w)
  PROVE  CourseInv'
<1>1. Shape(run) /\ "core" \in Workers  BY DEF CourseInv, Types, Workers
<1>2. CASE CheckLedger
  <2>1. PICK r : r = Advance(run)  OBVIOUS
  <2>2. Todo("ledger", "core") /\ (Failed \/ Answered(r, {}))
    BY <1>2, <2>1 DEF CheckLedger, Check, Failed, Answered
  <2>3. Keeps(run, r, {"todo"}) /\ r.todo = Tail(run.todo)  BY <1>1, <2>1, RunAdvance
  <2> QED  BY <1>1, <2>2, <2>3, OnlyTodo, PlainKeeps DEF PlainNames
<1>3. CASE \E w \in Workers : Inventory(w)
  <2>1. PICK w \in Workers : Inventory(w)  BY <1>3
  <2>2. PICK r : r = [Advance(run) EXCEPT !.read[w] = live[w]]  OBVIOUS
  <2>3. Todo("inventory", w) /\ (Failed \/ Answered(r, {}))
    BY <2>1, <2>2 DEF Inventory, Check, Failed, Answered
  <2>4. Keeps(run, r, {"todo", "read"}) /\ r.todo = Tail(run.todo)  BY <1>1, <2>2, RunCalls
  <2> QED  BY <2>3, <2>4, PlainKeeps, SMTT(40) DEF PlainNames
<1> QED  BY <1>2, <1>3

LEMMA StagingChecksCourse ==
  ASSUME CourseInv, NEW w \in Workers,
         CheckPredecessor(w) \/ CheckCallerPredecessor(w) \/ Authorize(w)
  PROVE  CourseInv'
<1>1. Shape(run)  BY DEF CourseInv, Types
<1>2. PICK r : r = Advance(run)  OBVIOUS
<1>6. Keeps(run, r, {"todo"}) /\ r.todo = Tail(run.todo)  BY <1>1, <1>2, RunAdvance
<1>3. CASE CheckPredecessor(w)
  <2>1. Todo("predecessor", w) /\ (Failed \/ Answered(r, {}))
    BY <1>2, <1>3 DEF CheckPredecessor, Check, Failed, Answered
  <2> QED  BY <1>6, <2>1, OnlyTodo, PlainKeeps DEF PlainNames
<1>4. CASE CheckCallerPredecessor(w)
  <2>1. Todo("callerPredecessor", w) /\ (Failed \/ Answered(r, {}))
    BY <1>2, <1>4 DEF CheckCallerPredecessor, Check, Failed, Answered
  <2> QED  BY <1>6, <2>1, OnlyTodo, PlainKeeps DEF PlainNames
<1>5. CASE Authorize(w)
  <2>1. Todo("authorize", w) /\ (Failed \/ (authorized /\ Answered(r, {})))
    BY <1>2, <1>5 DEF Authorize, Check, Failed, Answered
  <2> QED  BY <1>6, <2>1, OnlyTodo, PlainKeeps DEF PlainNames
<1> QED  BY <1>3, <1>4, <1>5

LEMMA RetirementReadsCourse ==
  ASSUME CourseInv, NEW c \in Callers,
         \/ ReadRetired(c) \/ BeginRetirement(c) \/ RetireRead(c) \/ RetireReread(c)
         \/ RetireVerify(c) \/ AcceptRetirement(c)
  PROVE  CourseInv'
<1>1. Shape(run) /\ c \in Workers  BY DEF CourseInv, Types, Callers, Workers
<1>2. CASE ReadRetired(c)
  <2>1. PICK r : r = LearnCohort(Advance(run), {})  OBVIOUS
  <2>2. Todo("readRetired", c) /\ (Failed \/ Answered(r, {c}))
    BY <1>2, <2>1 DEF ReadRetired, Check, Failed, Answered
  <2>3. Keeps(run, r, {"todo", "cohort", "transition"}) /\ r.todo = Tail(run.todo)
    BY <1>1, <2>1, RunLearns
  <2> QED  BY <1>1, <2>2, <2>3, PlainKeeps DEF PlainNames
<1>3. CASE BeginRetirement(c)
  <2>1. PICK r : r = [Advance(run) EXCEPT !.uncertain = c]  OBVIOUS
  <2>2. Todo("beginRetirement", c) /\ (Failed \/ Answered(r, {}))
    BY <1>3, <2>1 DEF BeginRetirement, Check, Failed, Answered
  <2>3. Keeps(run, r, {"todo", "uncertain"}) /\ r.todo = Tail(run.todo)  BY <1>1, <2>1, RunCalls
  <2> QED  BY <1>1, <2>2, <2>3, PlainKeeps DEF PlainNames
<1>4. CASE RetireRead(c)
  <2>1. PICK r : r = LearnCohort([Advance(run) EXCEPT !.snapshot = Snapshot], {})  OBVIOUS
  <2>2. Todo("retireRead", c) /\ (Failed \/ Answered(r, {c}))
    BY <1>4, <2>1 DEF RetireRead, Check, Failed, Answered
  <2>3. Keeps(run, r, {"todo", "cohort", "transition", "snapshot"}) /\ r.todo = Tail(run.todo)
    BY <1>1, <2>1, RunLearns
  <2> QED  BY <1>1, <2>2, <2>3, PlainKeeps DEF PlainNames
<1>5. CASE RetireReread(c)
  <2>1. PICK r : r = LearnCohort(Advance(run), {})  OBVIOUS
  <2>2. Todo("retireReread", c) /\ (Failed \/ Answered(r, {c}))
    BY <1>5, <2>1 DEF RetireReread, Check, Failed, Answered
  <2>3. Keeps(run, r, {"todo", "cohort", "transition"}) /\ r.todo = Tail(run.todo)
    BY <1>1, <2>1, RunLearns
  <2> QED  BY <1>1, <2>2, <2>3, PlainKeeps DEF PlainNames
<1>6. CASE RetireVerify(c)
  <2>1. PICK r : r = [Advance(run) EXCEPT !.own[c] = Snapshot[c], !.snapshot = Snapshot]  OBVIOUS
  <2>2. Todo("retireVerify", c) /\ (Failed \/ Answered(r, {c}))
    BY <1>6, <2>1 DEF RetireVerify, Check, Failed, Answered
  <2>3. Keeps(run, r, {"todo", "own", "snapshot"}) /\ r.todo = Tail(run.todo)  BY <1>1, <2>1, RunCalls
  <2> QED  BY <1>1, <2>2, <2>3, PlainKeeps DEF PlainNames
<1>7. CASE AcceptRetirement(c)
  <2>1. PICK r : r = [LearnCohort(Advance(run), {c}) EXCEPT
                        !.cohort = IF @ = None THEN live ELSE [@ EXCEPT ![c] = live[c]],
                        !.retired = @ \cup {c}, !.uncertain = None]
    OBVIOUS
  <2>2. Todo("acceptRetirement", c) /\ (Failed \/ Answered(r, {c}))
    BY <1>7, <2>1 DEF AcceptRetirement, Check, Failed, Answered
  <2>3. Keeps(run, r, {"todo", "cohort", "transition", "retired", "uncertain"}) /\ r.todo = Tail(run.todo)
    BY <1>1, <2>1, RunLearns
  <2> QED  BY <1>1, <2>2, <2>3, PlainKeeps DEF PlainNames
<1> QED  BY <1>2, <1>3, <1>4, <1>5, <1>6, <1>7

LEMMA StopsElsewhere ==
  ASSUME CourseInv, run.outcome = None, NEW r, NEW F, Keeps(run, r, F), run' = Stop(r),
         F \cap {"src", "mode", "decision", "outcome", "pending", "hit", "coreStaged"} = {},
         UNCHANGED <<live, request, authorized, versions, fenced, late, strange>>
  PROVE  CourseInv'
<1>1. Around'  BY AroundStays DEF CourseInv
<1>2. Annotated'  BY DEF CourseInv, Annotated
<1>3. late' = 0 \/ (late' = 1 /\ ~authorized')  BY DEF CourseInv, Lateness
<1>4. /\ Shape(r) /\ r.src = run.src /\ r.mode = run.mode /\ r.decision = run.decision
      /\ r.outcome = None /\ r.pending = run.pending /\ r.hit = run.hit
      /\ r.coreStaged = run.coreStaged
  BY DEF Keeps, RunFields
<1>5. /\ Under("preflight") => run.hit = {}
      /\ Under("deliver") => ("core" \in run.hit => run.coreStaged)
                             /\ (run.decision = "no-op" => run.hit = {})
  BY DEF CourseInv, Modes
<1> QED  BY <1>1, <1>2, <1>3, <1>4, <1>5, Stopping

LEMMA RecordsCourse ==
  ASSUME CourseInv, NEW c \in Callers, RecordIntent(c) \/ RecordReceipt(c)
  PROVE  CourseInv'
<1>1. Shape(run) /\ c \in Workers  BY DEF CourseInv, Types, Callers, Workers
<1>2. CASE RecordIntent(c)
  <2>1. CASE Answer([Advance(run) EXCEPT !.intent = @ \cup {c}])
    <3>1. PICK r : r = [Advance(run) EXCEPT !.intent = @ \cup {c}]  OBVIOUS
    <3>2. Todo("intent", c) /\ (Failed \/ Answered(r, {}))
      BY <1>2, <2>1, <3>1 DEF RecordIntent, Answer, Check, Failed, Answered
    <3>3. Keeps(run, r, {"todo", "intent"}) /\ r.todo = Tail(run.todo)  BY <1>1, <3>1, RunCalls
    <3> QED  BY <1>1, <3>2, <3>3, PlainKeeps DEF PlainNames
  <2>2. CASE ~Answer([Advance(run) EXCEPT !.intent = @ \cup {c}])
    <3>1. PICK d : run' = Stop([run EXCEPT !.intent = @ \cup d])  BY <1>2, <2>2 DEF RecordIntent
    <3>2. PICK r : r = [run EXCEPT !.intent = @ \cup d]  OBVIOUS
    <3>3. Keeps(run, r, {"intent"})  BY <1>1, <3>2 DEF Keeps, Shape, RunFields
    <3>4. run' = Stop(r)  BY <3>1, <3>2
    <3>5. UNCHANGED <<live, request, authorized, versions, strange, fenced, late>> /\ run.outcome = None
      BY <1>2, <2>2 DEF RecordIntent, Todo
    <3> QED  BY <3>3, <3>4, <3>5, StopsElsewhere
  <2> QED  BY <2>1, <2>2
<1>3. CASE RecordReceipt(c)
  <2>1. PICK r : r = [Advance(run) EXCEPT !.receipt = @ \cup {c}]  OBVIOUS
  <2>2. Todo("receipt", c) /\ (Failed \/ Answered(r, {}))
    BY <1>3, <2>1 DEF RecordReceipt, Check, Failed, Answered
  <2>3. Keeps(run, r, {"todo", "receipt"}) /\ r.todo = Tail(run.todo)  BY <1>1, <2>1, RunCalls
  <2> QED  BY <1>1, <2>2, <2>3, PlainKeeps DEF PlainNames
<1> QED  BY <1>2, <1>3

LEMMA HandoverCourse ==
  ASSUME CourseInv, NEW c \in Callers, CompleteRetirement(c) \/ Observe(c) \/ CompleteObservation(c)
  PROVE  CourseInv'
<1>1. Shape(run) /\ c \in Workers /\ run.pending \in Seq(Callers)
  BY DEF CourseInv, Types, Callers, Workers
<1>2. CASE CompleteRetirement(c)
  <2>1. PICK r : r = [HandOff(LearnCohort(Advance(run), {}), c, "retired") EXCEPT
                        !.pending = Append(@, c), !.snapshot = None]
    OBVIOUS
  <2>2. Todo("completeRetirement", c) /\ (Failed \/ Answered(r, {c}))
    BY <1>2, <2>1 DEF CompleteRetirement, Check, Failed, Answered
  <2>3. /\ Keeps(run, r, {"todo", "cohort", "transition", "hand", "api", "pending", "snapshot"})
        /\ r.todo = Tail(run.todo) /\ r.pending \in Seq(Callers)
    BY <1>1, <2>1, RunHandsOff
  <2> QED  BY <1>1, <2>2, <2>3, PlainKeeps DEF PlainNames
<1>3. CASE Observe(c)
  <2>1. PICK r : r = LearnCohort(Advance(run), {})  OBVIOUS
  <2>2. Todo("observe", c) /\ (Failed \/ Answered(r, {c}))
    BY <1>3, <2>1 DEF Observe, Check, Failed, Answered
  <2>3. Keeps(run, r, {"todo", "cohort", "transition"}) /\ r.todo = Tail(run.todo)
    BY <1>1, <2>1, RunLearns
  <2>4. "observe" \in PlainNames  BY DEF PlainNames
  <2>5. "pending" \notin {"todo", "cohort", "transition"}  OBVIOUS
  <2> QED  BY <1>1, <2>2, <2>3, <2>4, <2>5, PlainKeeps
<1>4. CASE CompleteObservation(c)
  <2>1. PICK r : r = HandOff(Advance(run), c, "observed")  OBVIOUS
  <2>2. Todo("completeObservation", c) /\ (Failed \/ Answered(r, {c}))
    BY <1>4, <2>1 DEF CompleteObservation, Check, Failed, Answered
  <2>3. Keeps(run, r, {"todo", "hand", "api"}) /\ r.todo = Tail(run.todo)
    BY <1>1, <2>1, RunHandsOff
  <2> QED  BY <1>1, <2>2, <2>3, PlainKeeps DEF PlainNames
<1> QED  BY <1>2, <1>3, <1>4

(* What a readback of the active configuration shows, the annotation proves. *)
LEMMA ReadGood ==
  ASSUME Types, Annotated, NEW w \in Workers, ReadsActive(run, live[w])
  PROVE  Good(w)
<1>1. run.src \in Sources /\ live[w].note = Note(run.src, "active")
  BY DEF Types, ReadsActive
<1>2. Note(run.src, "active") # None /\ Note(run.src, "active").source = run.src
  BY <1>1, NoneAssumption DEF Note
<1>3. live[w].note.source = live[w].code  BY <1>1, <1>2 DEF Annotated
<1> QED  BY <1>1, <1>2, <1>3 DEF Good, ReadsActive, HasConfiguration

LEMMA ActiveReadsCourse ==
  ASSUME CourseInv, (\E w \in Workers : VerifyFinal(w))
                    \/ (\E c \in Callers : ReadObserved(c)) \/ Prove
  PROVE  CourseInv'
<1>1. Shape(run) /\ "core" \in Workers  BY DEF CourseInv, Types, Workers
<1>2. PICK r : r = Advance(run)  OBVIOUS
<1>3. Keeps(run, r, {"todo"}) /\ r.todo = Tail(run.todo)  BY <1>1, <1>2, RunAdvance
<1>4. CASE \E w \in Workers : VerifyFinal(w)
  <2>1. PICK w \in Workers : VerifyFinal(w)  BY <1>4
  <2>2. Todo("final", w) /\ (Failed \/ (ReadsActive(run, live[w]) /\ Answered(r, {w})))
    BY <1>2, <2>1 DEF VerifyFinal, Check, Failed, Answered
  <2>3. ReadsActive(run, live[w]) => Good(w)  BY ReadGood DEF CourseInv
  <2> QED  BY <1>3, <2>2, <2>3, OnlyTodo, PlainKeeps DEF PlainNames
<1>5. CASE \E c \in Callers : ReadObserved(c)
  <2>1. PICK c \in Callers : ReadObserved(c)  BY <1>5
  <2>2. Todo("readObserved", c) /\ (Failed \/ Answered(r, {c}))
    BY <1>2, <2>1 DEF ReadObserved, Check, Failed, Answered
  <2>3. c \in Workers  BY DEF Callers, Workers
  <2> QED  BY <1>3, <2>2, <2>3, OnlyTodo, PlainKeeps DEF PlainNames
<1>6. CASE Prove
  <2>1. Failed \/ Answered(r, {})  BY <1>2, <1>6 DEF Prove, Answer, Check, Failed, Answered
  <2>2. CASE Todo("reconcile", "core")
    BY <1>1, <1>3, <2>1, <2>2, OnlyTodo, PlainKeeps DEF PlainNames
  <2>3. CASE Todo("canaries", "core")
    BY <1>1, <1>3, <2>1, <2>3, OnlyTodo, PlainKeeps DEF PlainNames
  <2> QED  BY <1>6, <2>2, <2>3 DEF Prove
<1> QED  BY <1>1, <1>4, <1>5, <1>6

(* The readbacks after an upload, and the handoffs before an activation. *)
LEMMA ReadbacksCourse ==
  ASSUME CourseInv, NEW w \in Workers, ReadStaged(w) \/ ReadActive(w)
  PROVE  CourseInv'
<1>1. Shape(run) /\ run.todo \in Seq(Step) /\ run.pending \in Seq(Callers)
  BY DEF CourseInv, Types
<1>2. StageTurn[w] \in Nat  BY TurnsNat
<1>3. CASE ReadStaged(w)
  <2>1. PICK r : r = RecordUpload(BeginHandoff(Advance(run), w), w, "staged")  OBVIOUS
  <2>2. Todo("readStaged", w) /\ (Failed \/ Answered(r, {w}))
    BY <1>3, <2>1 DEF ReadStaged, Check, Failed, Answered
  <2>3. run.todo # <<>>  BY <2>2 DEF Todo
  <2>4. Keeps(run, r, {"todo", "uploaded", "transition"})
    BY <1>1, <2>1, <2>3, RunReadsBack
  <2>5. PICK s : /\ r.todo = (s \o Handing(w)) \o Tail(run.todo)
                 /\ Batch(s \o Handing(w), 0, StageTurn[w] + 14)
    <3>1. /\ r.todo = (Reread(run.pending) \o Handing(w)) \o Tail(run.todo)
          /\ Batch(Reread(run.pending) \o Handing(w), 0, StageTurn[w] + 14)
      BY <1>1, <2>1, <2>3, RunReadsBack
    <3> QED  BY <3>1
  <2>6. PICK v : v = s \o Handing(w)  OBVIOUS
  <2>7. PICK m \in Nat : m = StageTurn[w] + 14  BY <1>2
  <2>8. r.todo = v \o Tail(run.todo) /\ Batch(v, 0, m)  BY <2>5, <2>6, <2>7
  <2>11. m <= StageTurn[w] + 14  BY <1>2, <2>7
  <2>9. Same(r) /\ r.hit = run.hit /\ r.coreStaged = run.coreStaged
    BY <1>1, <2>4, KeepsSame
  <2>10. "readStaged" \in {"readStaged", "readActive", "verifyStaged", "handoff"}  OBVIOUS
  <2>12. PICK acc : acc = {w}  OBVIOUS
  <2>13. Failed \/ Answered(r, acc)  BY <2>2, <2>12
  <2> QED  BY <2>2, <2>8, <2>9, <2>10, <2>11, <2>13, InsertingCall
<1>4. CASE ReadActive(w)
  <2>1. PICK a : a = [Advance(run) EXCEPT !.pending = Without(@, w)]  OBVIOUS
  <2>2. PICK r : r = RecordUpload(a, w, "active")  OBVIOUS
  <2>3. Todo("readActive", w) /\ (Failed \/ Answered(r, {w}))
    <3>1. PICK b \in {[Advance(run) EXCEPT !.pending = Without(@, w)]} :
            Check(ReadsActive(run, live[w]) /\ MayRecord(b, w), RecordUpload(b, w, "active"), {w})
      BY <1>4 DEF ReadActive
    <3>2. b = a  BY <2>1, <3>1
    <3> QED  BY <1>4, <2>2, <3>1, <3>2 DEF ReadActive, Check, Failed, Answered
  <2>4. run.todo # <<>>  BY <2>3 DEF Todo
  <2>5. Keeps(run, r, {"todo", "pending", "transition"}) /\ r.pending \in Seq(Callers)
    BY <1>1, <2>1, <2>2, <2>4, RunReadsBack
  <2>6. PICK s : Batch(s, 0, 0) /\ r.todo = s \o Tail(run.todo)
    <3>1. Batch(Reread(r.pending), 0, 0) /\ r.todo = Reread(r.pending) \o Tail(run.todo)
      BY <1>1, <2>1, <2>2, <2>4, RunReadsBack
    <3> QED  BY <3>1
  <2>7. Same(r) /\ r.hit = run.hit /\ r.coreStaged = run.coreStaged
    BY <1>1, <2>5, KeepsSame
  <2>8. "readActive" \in {"readStaged", "readActive", "verifyStaged", "handoff"}  OBVIOUS
  <2> QED  BY <2>3, <2>6, <2>7, <2>8, InsertingCall
<1> QED  BY <1>3, <1>4

(* A call that only puts others before the rest. *)
LEMMA RunBefore ==
  ASSUME Shape(run), NEW s, NEW r, r = Before(Advance(run), s)
  PROVE  Keeps(run, r, {"todo"}) /\ r.todo = s \o Tail(run.todo)
<1>1. PICK a : a = Advance(run)  OBVIOUS
<1>2. Keeps(run, a, {"todo"}) /\ a.todo = Tail(run.todo) /\ Shape(a)
  BY <1>1, RunAdvance DEF Keeps
<1>3. PICK t : t = s \o Tail(run.todo)  OBVIOUS
<1>4. r = [a EXCEPT !.todo = t]  BY <1>1, <1>2, <1>3 DEF Before
<1> QED  BY <1>2, <1>3, <1>4 DEF Keeps, Shape, RunFields

LEMMA VerifyCourse ==
  ASSUME CourseInv, NEW w \in Workers, VerifyStaged(w)
  PROVE  CourseInv'
<1>1. Shape(run) /\ run.pending \in Seq(Callers)  BY DEF CourseInv, Types
<1>2. CASE RetiredHand(run, w)
  <2>1. PICK s : s = Fence \o <<<<"readRetired", w>>>>  OBVIOUS
  <2>2. PICK r : r = Before(Advance(run), s)  OBVIOUS
  <2>3. Todo("verifyStaged", w) /\ (Failed \/ Answered(r, {}))
    BY <1>2, <2>1, <2>2 DEF VerifyStaged, Answer, Check, Failed, Answered
  <2>4. Keeps(run, r, {"todo"}) /\ r.todo = s \o Tail(run.todo)  BY <1>1, <2>2, RunBefore
  <2>5. Batch(s, 0, 0)  BY <2>1, RereadBatch
  <2>6. Same(r) /\ r.hit = run.hit /\ r.coreStaged = run.coreStaged
    BY <1>1, <2>4, OnlyTodo, KeepsSame
  <2>7. "verifyStaged" \in {"readStaged", "readActive", "verifyStaged", "handoff"}  OBVIOUS
  <2> QED  BY <2>3, <2>4, <2>5, <2>6, <2>7, InsertingCall
<1>3. CASE ~RetiredHand(run, w)
  <2>1. PICK r : r = Advance(run)  OBVIOUS
  <2>2. Todo("verifyStaged", w) /\ (Failed \/ Answered(r, {w}))
    BY <1>3, <2>1 DEF VerifyStaged, Check, Failed, Answered
  <2>3. Keeps(run, r, {"todo"}) /\ r.todo = Tail(run.todo)  BY <1>1, <2>1, RunAdvance
  <2> QED  BY <2>2, <2>3, OnlyTodo, PlainKeeps DEF PlainNames
<1> QED  BY <1>2, <1>3

(* A read of the caller's version and the authority, before the activation.     *)
LEMMA ProofBatch ==
  ASSUME NEW w \in Workers
  PROVE  /\ Batch(Fence \o <<<<"readRetired", w>>, <<"authorize", w>>>>, 0, 0)
         /\ Batch(<<<<"readObserved", w>>, <<"authorize", w>>>>, 0, ActiveTurn[w] + 62)
<1>1. PICK z : z = <<"authorize", w>>  OBVIOUS
<1>2. z \in InsertStep /\ z \in DeliverStep /\ z[1] \in Free /\ z \notin Pressing
  <2>1. z \in InsertStep  BY <1>1, InsertKinds DEF InsertStep
  <2>2. z \in DeliverStep /\ z[1] \in Free  BY <1>1, <2>1, StepSets, InsertKinds
  <2> QED  BY <1>1, <2>1, <2>2 DEF Pressing, Mutations
<1>3. ASSUME NEW s, NEW l, NEW m, Batch(s, l, m) PROVE Batch(s \o <<z>>, l, m)
  <2>1. PICK u : u = <<z>>  OBVIOUS
  <2>2. /\ u \in Seq(InsertStep) /\ u \in Seq(DeliverStep) /\ ~Some(u, Pressing)
        /\ \A i \in 1..Len(u) : u[i][1] \in Free
    BY <1>2, <2>1, OneIn
  <2>3. Insertion(u)  BY <2>2, InsertQuiet
  <2>4. s \o u \in Seq(DeliverStep)  BY <1>3, <2>2, CatIndex DEF Batch
  <2>5. Span(s \o u, l, m)  BY <1>3, <2>2, SpanFree DEF Batch
  <2>6. Insertion(s \o u)  BY <1>3, <2>3, InsertBoth DEF Batch
  <2> QED  BY <2>1, <2>4, <2>5, <2>6 DEF Batch
<1>4. Batch(Fence \o <<<<"readRetired", w>>, <<"authorize", w>>>>, 0, 0)
  <2>1. PICK u : u = Fence \o <<<<"readRetired", w>>>>  OBVIOUS
  <2>2. Batch(u, 0, 0)  BY <2>1, RereadBatch
  <2>3. PICK v : v = <<z>>  OBVIOUS
  <2>4. Batch(u \o v, 0, 0)  BY <1>3, <2>2, <2>3
  <2>5. u = << <<"fence", "core">>, <<"readRetired", w>> >>  BY <2>1, Joined DEF Fence
  <2>6. u \o v = Fence \o <<<<"readRetired", w>>, <<"authorize", w>>>>
    BY <1>1, <2>3, <2>5 DEF Fence
  <2> QED  BY <2>4, <2>6
<1>5. Batch(<<<<"readObserved", w>>, <<"authorize", w>>>>, 0, ActiveTurn[w] + 62)
  <2>1. PICK T \in Nat : T = ActiveTurn[w]  BY TurnsNat
  <2>2. Rank(<<"readObserved", w>>) = 62 + T  BY <2>1, Ranks
  <2>3. PICK u : u = <<<<"readObserved", w>>>>  OBVIOUS
  <2>4. Batch(u, T + 62, T + 62)
    <3>1. Rank(<<"readObserved", w>>) = T + 62  BY <2>2
    <3> QED  BY <2>3, <3>1, BatchOne, InsertKinds
  <2>5. PICK v : v = <<z>>  OBVIOUS
  <2>6. Batch(u \o v, T + 62, T + 62)  BY <1>3, <2>4, <2>5
  <2>7. Batch(u \o v, 0, T + 62)
    <3>1. T + 62 \in Nat /\ 0 <= T + 62 /\ T + 62 <= T + 62  OBVIOUS
    <3>2. u \o v \in Seq(DeliverStep) /\ Span(u \o v, T + 62, T + 62)  BY <2>6 DEF Batch
    <3>3. Span(u \o v, 0, T + 62)  BY <3>1, <3>2, SpanWider
    <3> QED  BY <2>6, <3>3 DEF Batch
  <2>8. u \o v = <<<<"readObserved", w>>, <<"authorize", w>>>>  BY <1>1, <2>3, <2>5, Joined
  <2> QED  BY <2>1, <2>7, <2>8
<1> QED  BY <1>4, <1>5

LEMMA ActivationCourse ==
  ASSUME CourseInv, NEW w \in Workers, ActivationHandoff(w)
  PROVE  CourseInv'
<1>1. Shape(run) /\ run.pending \in Seq(Callers)  BY DEF CourseInv, Types
<1>2. "handoff" \in {"readStaged", "readActive", "verifyStaged", "handoff"}  OBVIOUS
<1>3. CASE RetiredHand(run, w)
  <2>1. PICK s : s = Fence \o <<<<"readRetired", w>>, <<"authorize", w>>>>  OBVIOUS
  <2>2. PICK r : r = Before(Advance(run), s)  OBVIOUS
  <2>3. Todo("handoff", w) /\ (Failed \/ Answered(r, {}))
    BY <1>3, <2>1, <2>2 DEF ActivationHandoff, Answer, Check, Failed, Answered
  <2>4. Keeps(run, r, {"todo"}) /\ r.todo = s \o Tail(run.todo)  BY <1>1, <2>2, RunBefore
  <2>5. Batch(s, 0, 0)  BY <2>1, ProofBatch
  <2>6. Same(r) /\ r.hit = run.hit /\ r.coreStaged = run.coreStaged
    BY <1>1, <2>4, OnlyTodo, KeepsSame
  <2> QED  BY <1>2, <2>3, <2>4, <2>5, <2>6, InsertingCall
<1>4. CASE ~RetiredHand(run, w)
  <2>1. PICK s : s = <<<<"readObserved", w>>, <<"authorize", w>>>>  OBVIOUS
  <2>2. PICK r : r = Before(Advance(run), s)  OBVIOUS
  <2>3. Todo("handoff", w) /\ (Failed \/ Answered(r, {}))
    BY <1>4, <2>1, <2>2 DEF ActivationHandoff, Answer, Check, Failed, Answered
  <2>4. Keeps(run, r, {"todo"}) /\ r.todo = s \o Tail(run.todo)  BY <1>1, <2>2, RunBefore
  <2>5. PICK m \in Nat : m = ActiveTurn[w] + 62
    <3>1. ActiveTurn[w] \in Nat  BY TurnsNat
    <3> QED  BY <3>1
  <2>8. m <= ActiveTurn[w] + 62
    <3>1. ActiveTurn[w] \in Nat  BY TurnsNat
    <3> QED  BY <2>5, <3>1
  <2>6. Batch(s, 0, m)  BY <2>1, <2>5, ProofBatch
  <2>7. Same(r) /\ r.hit = run.hit /\ r.coreStaged = run.coreStaged
    BY <1>1, <2>4, OnlyTodo, KeepsSame
  <2> QED  BY <1>2, <2>3, <2>4, <2>6, <2>7, <2>8, InsertingCall, ZenonT(60)
<1> QED  BY <1>3, <1>4

LEMMA FenceCourse ==
  ASSUME CourseInv, PassFence
  PROVE  CourseInv'
<1>1. Shape(run) /\ run.todo \in Seq(Step) /\ run.pending \in Seq(Callers)
  BY DEF CourseInv, Types
<1>2. PICK w \in Workers : Todo("fence", w)  BY DEF PassFence
<1>3. run.outcome = None /\ run.todo # <<>> /\ Head(run.todo) = <<"fence", w>>  BY <1>2 DEF Todo
<1>4. CASE ~FencePasses(run)
  BY <1>3, <1>4, CheckFails DEF PassFence
<1>5. CASE FencePasses(run)
  <2>1. /\ run' = AfterFence(run) /\ fenced' = [v \in Workers |-> live[v].version]
        /\ UNCHANGED <<live, request, authorized, versions, strange, late>>
    BY <1>5 DEF PassFence
  <2>2. PICK r : r = (IF run.boot /\ ObservedPhase(run) = "added" THEN [run EXCEPT !.phase = "added"] ELSE run)
    OBVIOUS
  <2>3. Keeps(run, r, {"phase"}) /\ r.todo = run.todo
    BY <1>1, <2>2 DEF Keeps, Shape, RunFields
  <2>4. run' = [r EXCEPT !.todo = Tail(@)]  BY <2>1, <2>2 DEF AfterFence, Advance
  <2>5. Keeps(run, run', {"phase", "todo"}) /\ run'.todo = Tail(run.todo)
    BY <2>3, <2>4 DEF Keeps, Shape, RunFields
  <2>6. Same(run') /\ run'.hit = run.hit /\ run'.coreStaged = run.coreStaged
    BY <1>1, <2>5, KeepsSame
  <2>7. Around'
    <3>1. \A v \in Workers : live[v].version \in Nat /\ live[v].version <= versions
      BY DEF CourseInv, Types, Version
    <3> QED  BY <2>1, <3>1 DEF Around, CourseInv, Types
  <2>8. PICK e : e = <<>>  OBVIOUS
  <2>9. Tail(run.todo) \in Seq(Step)  BY <1>1, <1>3, TailIndex
  <2>10. run'.todo = e \o Tail(run.todo) /\ Insertion(e)  BY <2>5, <2>8, <2>9, NothingInserted
  <2>11. Head(run.todo) \notin Pressing  BY <1>3 DEF Pressing, Mutations
  <2>12. authorized  BY <1>5 DEF FencePasses
  <2>13. Under("deliver") => Orderly(run'.todo) /\ run'.todo \in Seq(DeliverStep)
    <3> SUFFICES ASSUME Under("deliver") PROVE Orderly(run'.todo) /\ run'.todo \in Seq(DeliverStep)
      OBVIOUS
    <3>1. run.todo \in Seq(DeliverStep) /\ Orderly(run.todo)  BY DEF CourseInv, Modes
    <3> QED  BY <1>3, <2>5, <3>1, OrderlyTail
  <2>14. strange' = strange /\ \A v \in Workers : Head(run.todo) # <<"final", v>>
    BY <1>3, <2>1
  <2>15. live' = live /\ authorized' = authorized /\ late' = late  BY <2>1
  <2> QED
    BY <1>3, <2>6, <2>7, <2>8, <2>10, <2>11, <2>12, <2>13, <2>14, <2>15, GoingOn
<1> QED  BY <1>4, <1>5

(* The mode that a head belongs to *)
LEMMA HeadMode ==
  ASSUME CourseInv, NEW n, NEW w, Todo(n, w)
  PROVE  /\ run.outcome = None /\ run.todo # <<>> /\ Head(run.todo) = <<n, w>>
         /\ <<n, w>> \notin PreStep => run.mode # "preflight"
         /\ <<n, w>> \notin RecoverStep => run.mode # "recover"
         /\ <<n, w>> \notin DeliverStep => run.mode # "deliver"
         /\ run.mode \in {"preflight", "deliver", "recover"}
         /\ run.mode = "deliver" /\ <<n, w>> \notin QuietStep => run.decision = "deploy"
         /\ <<n, w>> \in Pressing => late = 0
         /\ Head(run.todo) \in Step
<1>1. run.outcome = None /\ run.todo # <<>> /\ Head(run.todo) = <<n, w>> /\ run.todo \in Seq(Step)
  BY DEF Todo, CourseInv, Types
<1>2. \A X : run.todo \in Seq(X) => <<n, w>> \in X  BY <1>1, TailIndex
<1>3. <<n, w>> \in Pressing => late = 0
  <2>1. Guarded(run.todo, Pressing, Checks) => Head(run.todo) \notin Pressing  BY <1>1, TailSound
  <2> QED  BY <1>1, <2>1 DEF CourseInv, Lateness
<1> QED  BY <1>1, <1>2, <1>3 DEF CourseInv, Modes, Under

LEMMA DecideCourse ==
  ASSUME CourseInv, Decide
  PROVE  CourseInv'
<1>1. Shape(run) /\ run.todo \in Seq(Step) /\ run.pending \in Seq(Callers) /\ run.src \in Sources
  BY DEF CourseInv, Types
<1>2. Todo("decide", "core")  BY DEF Decide
<1>3. run.mode = "preflight" /\ run.outcome = None
  <2>1. <<"decide", "core">> \notin DeliverStep \cup RecoverStep
    BY DEF RecoverStep, DeliverStep, DeliverNames, Free, Repeating, Closing, Staging2, Retiring, Activating
  <2> QED  BY <1>2, <2>1, HeadMode
<1>4. PICK d : d = DeliveryDecision(run)  OBVIOUS
<1>5. d \in {"deploy", "no-op"}  BY <1>4 DEF DeliveryDecision
<1>6. PICK t : t = Delivery(run, d)  OBVIOUS
<1>7. PICK a : a = ApiHandoffRoles(run)  OBVIOUS
<1>8. PICK r : r = [run EXCEPT !.mode = "deliver", !.decision = d, !.api = a, !.todo = t]  OBVIOUS
<1>9. Failed \/ Answered(r, {})
  BY <1>4, <1>6, <1>7, <1>8 DEF Decide, Check, Failed, Answered
<1>10. CASE Failed  BY <1>3, <1>10, CheckFails DEF Failed
<1>11. CASE Answered(r, {})
  <2>1. /\ run' = r /\ UNCHANGED <<live, request, authorized, versions, fenced, late, strange>>
    BY <1>11 DEF Answered
  <2>2. /\ Shape(run') /\ run'.todo = t /\ run'.mode = "deliver" /\ run'.decision = d
        /\ run'.src = run.src /\ run'.pending = run.pending /\ run'.outcome = None
        /\ run'.hit = run.hit
    BY <1>1, <1>3, <1>8, <2>1 DEF Shape, RunFields
  <2>3. run.hit = {}  BY <1>3 DEF CourseInv, Modes, Under
  <2>4. /\ t \in Seq(PlanStep) /\ t \in Seq(DeliverStep) /\ Orderly(t)
        /\ Sound(t, Pressing, Checks)
        /\ d = "no-op" => t \in Seq(QuietStep)
        /\ d = "deploy" => Has(t, <<"stage", "core">>)
        /\ \A w \in Workers : Has(t, <<"final", w>>)
    <3>1. CASE d = "no-op"
      <4>1. t = ClosingSteps  BY <1>6, <3>1, DeliveryPiece
      <4>2. Piece(t, 110, 120) /\ t \in Seq(QuietStep) /\ \A w \in Workers : Has(t, <<"final", w>>)
        BY <4>1, ClosingPiece
      <4> QED  BY <3>1, <4>2, SpanOrderly DEF Piece
    <3>2. CASE d = "deploy"
      <4>1. Piece(t, 0, 120) /\ Has(t, <<"stage", "core">>) /\ \A w \in Workers : Has(t, <<"final", w>>)
        BY <1>6, <3>2, DeliveryPiece
      <4> QED  BY <3>2, <4>1, SpanOrderly DEF Piece
    <3> QED  BY <1>5, <3>1, <3>2
  <2>5. t \in Seq(Step)  BY <2>4, StepSets, SeqWithin
  <2>6. Types'  BY <1>1, <2>1, <2>2, <2>5 DEF Types, CourseInv
  <2>7. Annotated'  BY <2>1 DEF Annotated, CourseInv
  <2>8. Lateness'  BY <2>1, <2>2, <2>4 DEF Lateness, CourseInv, Sound
  <2>9. Modes' /\ Finals'  BY <1>5, <2>2, <2>3, <2>4 DEF Modes, Finals, Under
  <2>10. SuccessMeansCoherent' /\ RecoveryHonest'
    BY <2>2, NoneAssumption DEF SuccessMeansCoherent, RecoveryHonest
  <2> QED  BY <2>6, <2>7, <2>8, <2>9, <2>10 DEF CourseInv
<1> QED  BY <1>9, <1>10, <1>11

(* A new version of a Worker keeps the rest in order. *)
LEMMA AroundNew ==
  ASSUME CourseInv, NEW w \in Workers, NEW v \in Version, v.version = versions + 1,
         v.note # None => v.note.source = v.code,
         live' = [live EXCEPT ![w] = v], versions' = versions + 1,
         UNCHANGED <<authorized, fenced, request>>, strange' \subseteq Workers
  PROVE  Around' /\ Annotated'
<1>1. /\ live \in [Workers -> Version] /\ versions \in Nat
      /\ \A u \in Workers : live[u].version <= versions /\ live[u].version \in Nat
      /\ fenced \in [Workers -> Nat] /\ \A u \in Workers : fenced[u] <= versions
  BY DEF CourseInv, Types, Version
<1>2. live' \in [Workers -> Version]  BY <1>1
<1>3. \A u \in Workers : live'[u] = IF u = w THEN v ELSE live[u]  BY <1>1
<1>4. Around'
  <2>1. \A u \in Workers : live'[u].version <= versions'  BY <1>1, <1>3
  <2>2. versions' \in Nat /\ fenced' \in [Workers -> Nat] /\ \A u \in Workers : fenced'[u] <= versions'
    BY <1>1
  <2> QED  BY <1>2, <2>1, <2>2 DEF Around, CourseInv, Types
<1>5. Annotated'  BY <1>3 DEF Annotated, CourseInv
<1> QED  BY <1>4, <1>5

LEMMA UploadedIs ==
  ASSUME Types, NEW w \in Workers, NEW phase \in {"staged", "active"}
  PROVE  LET v == Uploaded(run.src, w, phase) IN
         /\ v \in Version /\ v.version = versions + 1 /\ v.circuit = Circuit(phase)
         /\ v.note = Note(run.src, phase) /\ v.note # None /\ v.note.source = v.code
         /\ v.pair = live[w].pair
<1>1. PICK l \in Version : l = live[w]  BY DEF Types
<1>2. PICK v : v = Uploaded(run.src, w, phase)  OBVIOUS
<1>3. PICK b \in BOOLEAN : b = (l.rate \/ w = "core")  OBVIOUS
<1>4. PICK k : k = Note(run.src, phase)  OBVIOUS
<1>5. PICK e \in {"enabled", "disabled"} : e = Circuit(phase)  BY DEF Circuit
<1>6. run.src \in Sources /\ versions + 1 \in Nat  BY DEF Types
<1>7. k \in [source : Sources, phase : {"staged", "active"}] /\ k # None /\ k.source = run.src
  BY <1>4, <1>6, NoneAssumption DEF Note
<1>8. v = [l EXCEPT !.version = versions + 1, !.note = k, !.circuit = e, !.rate = b,
                    !.via = "wrangler", !.code = run.src]
  BY <1>1, <1>2, <1>3, <1>4, <1>5 DEF Uploaded
<1>9. v \in Version /\ v.version = versions + 1 /\ v.circuit = e /\ v.note = k /\ v.code = run.src
      /\ v.pair = l.pair
  BY <1>6, <1>7, <1>8 DEF Version
<1> QED  BY <1>1, <1>2, <1>4, <1>5, <1>7, <1>9

(* The core is marked when it is activated. *)
LEMMA ActivatedMarked ==
  ASSUME CourseInv, Todo("activate", "core")
  PROVE  run.coreStaged
<1>1. /\ run.todo # <<>> /\ Head(run.todo) = <<"activate", "core">> /\ run.outcome = None
      /\ run.mode = "deliver" /\ run.decision = "deploy"
  <2>1. <<"activate", "core">> \notin PreStep \cup RecoverStep \cup QuietStep
    BY DEF PreStep, RecoverStep, QuietStep, Closing
  <2> QED  BY <2>1, HeadMode
<1>2. /\ run.todo \in Seq(DeliverStep) /\ Orderly(run.todo)
      /\ Has(run.todo, <<"stage", "core">>) \/ run.coreStaged
  BY <1>1 DEF CourseInv, Modes, Under
<1>3. Rank(<<"activate", "core">>) = 103 /\ Rank(<<"stage", "core">>) = 2
  <2>1. "core" \in Workers  BY DEF Workers
  <2>2. \A z \in Workers : /\ Rank(<<"activate", z>>) = 63 + ActiveTurn[z]
                           /\ Rank(<<"stage", z>>) = 2 + StageTurn[z]
    BY Ranks
  <2>3. ActiveTurn["core"] = 40 /\ StageTurn["core"] = 0  BY Ranks
  <2> QED  BY <2>1, <2>2, <2>3
<1>4. ~Precedes(<<"activate", "core">>, <<"stage", "core">>)
  <2>1. /\ <<"activate", "core">>[1] \notin Free /\ <<"stage", "core">>[1] \notin Free
        /\ <<"activate", "core">>[1] \notin Repeating
    BY DEF Free, Repeating
  <2> QED  BY <1>3, <2>1 DEF Precedes
<1>5. ~Has(Tail(run.todo), <<"stage", "core">>)  BY <1>1, <1>2, <1>4, OrderlyTail
<1>6. <<"stage", "core">> # <<"activate", "core">>  OBVIOUS
<1>7. ~Has(run.todo, <<"stage", "core">>)  BY <1>1, <1>2, <1>5, <1>6, TailHas
<1> QED  BY <1>2, <1>7

(* A mutation that took effect, its answer lost. *)
LEMMA LostAnswer ==
  ASSUME CourseInv, NEW n, NEW w \in Workers, Todo(n, w), <<n, w>> \in Mutations,
         NEW r, NEW q, Keeps(run, q, {"coreStaged", "phase"}), run.coreStaged => q.coreStaged,
         w = "core" /\ run.mode = "deliver" => q.coreStaged,
         Keeps(q, r, {"hit", "patched"}), r.hit = run.hit \cup {w}, run' = Stop(r),
         Around', Annotated', authorized' = authorized, late' = IF authorized THEN late ELSE late + 1
  PROVE  CourseInv'
<1>1. /\ run.outcome = None /\ run.mode # "preflight" /\ late = 0 /\ run.mode \in {"preflight", "deliver", "recover"}
      /\ run.mode = "deliver" => run.decision = "deploy"
  <2>1. <<n, w>> \notin PreStep /\ <<n, w>> \notin QuietStep /\ <<n, w>> \in Pressing
    BY KindsOfMutation
  <2> QED  BY <2>1, HeadMode
<1>2. /\ Shape(r) /\ r.src = run.src /\ r.mode = run.mode /\ r.decision = run.decision
      /\ r.outcome = None /\ r.pending = run.pending /\ r.coreStaged = q.coreStaged
  BY <1>1 DEF Keeps, RunFields
<1>3. Under("deliver") => ("core" \in r.hit => r.coreStaged) /\ (run.decision = "no-op" => r.hit = {})
  BY <1>1, <1>2 DEF CourseInv, Modes, Under
<1>4. authorized \in BOOLEAN  BY DEF CourseInv, Types
<1>5. Under("preflight") => r.hit = {}  BY <1>1 DEF Under
<1>6. late' = 0 \/ (late' = 1 /\ ~authorized')  BY <1>1, <1>4
<1> QED  BY <1>1, <1>2, <1>3, <1>5, <1>6, Stopping

LEMMA UploadCourse ==
  ASSUME CourseInv, NEW n, NEW w \in Workers, Todo(n, w), <<n, w>> \in Mutations, n # "patch",
         NEW phase \in {"staged", "active"}, NEW strict, NEW done, NEW q,
         Upload(w, phase, strict, done, q),
         Keeps(run, q, {"coreStaged", "phase"}), run.coreStaged => q.coreStaged,
         w = "core" /\ run.mode = "deliver" => q.coreStaged,
         Keeps(q, done, {"todo", "message"}), done.todo = Tail(run.todo)
  PROVE  CourseInv'
<1>1. run.outcome = None /\ run.todo # <<>> /\ Head(run.todo) = <<n, w>>  BY DEF Todo
<1>2. run.pending \in Seq(Callers)  BY DEF CourseInv, Types
<1>3. /\ q.hit = run.hit /\ done.hit = run.hit /\ Shape(q) /\ Shape(done)
      /\ done.coreStaged = q.coreStaged
  BY DEF Keeps, RunFields
<1>4. CASE /\ live' = [live EXCEPT ![w] = Uploaded(run.src, w, phase)]
           /\ versions' = versions + 1
           /\ late' = IF authorized THEN late ELSE late + 1
           /\ strange' = strange \ {w}
           /\ \/ run' = [done EXCEPT !.hit = @ \cup {w}]
              \/ run' = Stop([q EXCEPT !.hit = @ \cup {w}])
           /\ UNCHANGED <<schema, request, authorized, fenced>>
  <2>1. PICK v \in Version : /\ v = Uploaded(run.src, w, phase) /\ v.version = versions + 1
                             /\ v.note # None => v.note.source = v.code
    BY UploadedIs DEF CourseInv
  <2>2. Around' /\ Annotated'
    <3>1. strange' \subseteq Workers  BY <1>4 DEF CourseInv, Types
    <3> QED  BY <1>4, <2>1, <3>1, AroundNew
  <2>3. CASE run' = [done EXCEPT !.hit = @ \cup {w}]
    <3>1. PICK r : r = [done EXCEPT !.hit = @ \cup {w}]  OBVIOUS
    <3>2. /\ Keeps(done, r, {"hit"}) /\ r.hit = run.hit \cup {w}
      BY <1>3, <3>1 DEF Keeps, Shape, RunFields
    <3>3. /\ Same(r) /\ r.todo = Tail(run.todo) /\ r.coreStaged = q.coreStaged
      BY <1>2, <3>2 DEF Keeps, Same, RunFields
    <3>4. <<n, w>> = <<"stage", "core">> => r.coreStaged
      <4> SUFFICES ASSUME <<n, w>> = <<"stage", "core">> PROVE r.coreStaged  OBVIOUS
      <4>1. <<n, w>> \notin PreStep \cup RecoverStep  BY DEF PreStep, RecoverStep
      <4>2. run.mode = "deliver"  BY <4>1, HeadMode
      <4> QED  BY <3>3, <4>2
    <3>5. run' = r  BY <2>3, <3>1
    <3>6. n = "patch" => w # "core"  OBVIOUS
    <3>7. run.coreStaged => run'.coreStaged  BY <3>3, <3>5
    <3>8. authorized' = authorized /\ late' = IF authorized THEN late ELSE late + 1  BY <1>4
    <3> HIDE <1>4
    <3> QED  BY <1>1, <2>2, <3>2, <3>3, <3>4, <3>5, <3>6, <3>7, <3>8, Striking
  <2>4. CASE run' = Stop([q EXCEPT !.hit = @ \cup {w}])
    <3>1. PICK r : r = [q EXCEPT !.hit = @ \cup {w}]  OBVIOUS
    <3>2. Keeps(q, r, {"hit", "patched"}) /\ r.hit = run.hit \cup {w}
      BY <1>3, <3>1 DEF Keeps, Shape, RunFields
    <3>3. run' = Stop(r)  BY <2>4, <3>1
    <3>4. authorized' = authorized /\ late' = IF authorized THEN late ELSE late + 1  BY <1>4
    <3> QED  BY <2>2, <3>2, <3>3, <3>4, LostAnswer
  <2> QED  BY <1>4, <2>3, <2>4
<1>5. CASE /\ run' = Stop(q)
           /\ UNCHANGED <<live, schema, request, authorized, versions, strange, fenced, late>>
  <2>1. Around'  BY <1>5, AroundStays DEF CourseInv
  <2>2. Annotated'  BY <1>5 DEF CourseInv, Annotated
  <2>3. late' = 0 \/ (late' = 1 /\ ~authorized')  BY <1>5 DEF CourseInv, Lateness
  <2>4. /\ q.src = run.src /\ q.mode = run.mode /\ q.decision = run.decision
        /\ q.outcome = None /\ q.pending = run.pending
    BY <1>1 DEF Keeps, RunFields
  <2>5. /\ Under("preflight") => q.hit = {}
        /\ Under("deliver") => ("core" \in q.hit => q.coreStaged)
                               /\ (run.decision = "no-op" => q.hit = {})
    BY <1>3 DEF CourseInv, Modes
  <2>6. run' = Stop(q)  BY <1>5
  <2> QED  BY <1>1, <1>3, <2>1, <2>2, <2>3, <2>4, <2>5, <2>6, Stopping
<1> QED  BY <1>4, <1>5 DEF Upload

LEMMA UploadsCourse ==
  ASSUME CourseInv, RecoverDeploy \/ \E w \in Workers : DeployStaged(w) \/ DeployActive(w)
  PROVE  CourseInv'
<1>1. Shape(run) /\ "core" \in Workers  BY DEF CourseInv, Types, Workers
<1>2. PICK a : a = Advance(run)  OBVIOUS
<1>3. Keeps(run, a, {"todo"}) /\ a.todo = Tail(run.todo) /\ Shape(a)
  BY <1>1, <1>2, RunAdvance DEF Keeps
<1>4. Keeps(run, run, {"coreStaged", "phase"})  BY <1>1 DEF Keeps
<1>5. ASSUME NEW w \in Workers, DeployStaged(w) PROVE CourseInv'
  <2>1. Todo("stage", w)  BY <1>5 DEF DeployStaged
  <2>2. <<"stage", w>> \in Mutations  BY DEF Mutations
  <2>3. CASE run.boot /\ w = "core" /\ run.phase # "baseline"
    <3>1. run.outcome = None  BY <2>1 DEF Todo
    <3>2. Failed  BY <1>5, <2>3 DEF DeployStaged, Answer, Check, Failed
    <3> QED  BY <3>1, <3>2, CheckFails DEF Failed
  <2>4. CASE ~(run.boot /\ w = "core" /\ run.phase # "baseline")
    <3>1. PICK q : q = Staging(run, w)  OBVIOUS
    <3>2. PICK d : d = [Advance(q) EXCEPT !.message = @ \/ w = "core"]  OBVIOUS
    <3>3. Upload(w, "staged", w \notin run.api, d, q)
      BY <1>5, <2>4, <3>1, <3>2 DEF DeployStaged
    <3>4. Keeps(run, q, {"coreStaged", "phase"}) /\ (run.coreStaged => q.coreStaged)
          /\ (w = "core" => q.coreStaged) /\ q.todo = run.todo
      <4>1. CASE w = "core"
        <5>1. PICK p : p = (IF run.boot THEN "uploading" ELSE run.phase)  OBVIOUS
        <5>2. q = [run EXCEPT !.coreStaged = TRUE, !.phase = p]
          BY <1>1, <3>1, <4>1, <5>1 DEF Staging, Shape, RunFields
        <5> QED  BY <1>1, <5>2 DEF Keeps, Shape, RunFields
      <4>2. CASE w # "core"  BY <1>1, <3>1, <4>2 DEF Staging, Keeps
      <4> QED  BY <4>1, <4>2
    <3>5. Keeps(q, d, {"todo", "message"}) /\ d.todo = Tail(run.todo)
      <4>1. PICK b : b = Advance(q)  OBVIOUS
      <4>2. b = [q EXCEPT !.todo = Tail(@)] /\ Shape(q)  BY <3>4, <4>1 DEF Advance, Keeps
      <4>3. Keeps(q, b, {"todo"}) /\ b.todo = Tail(run.todo)
        BY <3>4, <4>2 DEF Keeps, Shape, RunFields
      <4>4. d = [b EXCEPT !.message = @ \/ w = "core"] /\ Shape(b)
        BY <3>2, <4>1, <4>3 DEF Keeps
      <4>5. Keeps(b, d, {"message"}) /\ d.todo = b.todo
        BY <4>4 DEF Keeps, Shape, RunFields
      <4> QED  BY <4>3, <4>5 DEF Keeps
    <3>6. "staged" \in {"staged", "active"} /\ "stage" # "patch"  OBVIOUS
    <3> QED  BY <2>1, <2>2, <3>3, <3>4, <3>5, <3>6, UploadCourse
  <2> QED  BY <2>3, <2>4
<1>6. ASSUME NEW w \in Workers, DeployActive(w) PROVE CourseInv'
  <2>1. Todo("activate", w) /\ Upload(w, "active", ~ByApi(run, w), a, run)
    BY <1>2, <1>6 DEF DeployActive
  <2>2. PICK s : s = (~ByApi(run, w))  OBVIOUS
  <2>3. <<"activate", w>> \in Mutations  BY DEF Mutations
  <2>4. Keeps(run, a, {"todo", "message"})  BY <1>3 DEF Keeps
  <2>5. w = "core" => run.coreStaged  BY <2>1, ActivatedMarked
  <2>6. "active" \in {"staged", "active"} /\ "activate" # "patch"  OBVIOUS
  <2>7. Upload(w, "active", s, a, run)  BY <2>1, <2>2
  <2> QED  BY <1>3, <1>4, <2>1, <2>3, <2>4, <2>5, <2>6, <2>7, UploadCourse
<1>7. CASE RecoverDeploy
  <2>1. PICK d : d = [Advance(run) EXCEPT !.message = TRUE]  OBVIOUS
  <2>2. PICK s : s = ("core" \notin run.api)  OBVIOUS
  <2>3. Todo("recoverDeploy", "core") /\ Upload("core", "staged", s, d, run)
    BY <1>7, <2>1, <2>2 DEF RecoverDeploy
  <2>4. <<"recoverDeploy", "core">> \in Mutations  BY DEF Mutations, Workers
  <2>5. Keeps(run, d, {"todo", "message"}) /\ d.todo = Tail(run.todo)
    <3>1. d = [a EXCEPT !.message = TRUE]  BY <1>2, <2>1
    <3>2. Keeps(a, d, {"message"}) /\ d.todo = a.todo
      BY <1>3, <3>1 DEF Keeps, Shape, RunFields
    <3> QED  BY <1>3, <3>2 DEF Keeps
  <2>6. run.mode # "deliver"
    <3>1. <<"recoverDeploy", "core">> \notin DeliverStep
      BY DEF DeliverStep, DeliverNames, Free, Repeating, Closing, Staging2, Retiring, Activating
    <3> QED  BY <2>3, <3>1, HeadMode
  <2>7. "staged" \in {"staged", "active"} /\ "recoverDeploy" # "patch"  OBVIOUS
  <2> QED  BY <1>1, <1>4, <2>3, <2>4, <2>5, <2>6, <2>7, UploadCourse
<1> QED  BY <1>5, <1>6, <1>7

LEMMA PatchedIs ==
  ASSUME Types, Annotated, NEW c \in Callers, NEW via \in {live[c].via, "api"}
  PROVE  LET v == Patched(c, via) IN
         v \in Version /\ v.version = versions + 1 /\ v.note = None /\ ~v.pair
<1>1. PICK l \in Version : l = live[c]  BY DEF Types, Callers, Workers
<1>2. via \in {"wrangler", "api"}  BY <1>1 DEF Version
<1>3. versions + 1 \in Nat  BY DEF Types
<1>4. Patched(c, via) = [l EXCEPT !.version = versions + 1, !.note = None, !.pair = FALSE, !.via = via]
  BY <1>1 DEF Patched
<1> QED  BY <1>2, <1>3, <1>4 DEF Version

LEMMA PatchCourse ==
  ASSUME CourseInv, NEW c \in Callers, RetirePatch(c)
  PROVE  CourseInv'
<1>1. Shape(run) /\ c \in Workers /\ c # "core" /\ run.pending \in Seq(Callers)
  BY DEF CourseInv, Types, Callers, Workers
<1>2. Todo("patch", c)  BY DEF RetirePatch
<1>3. run.outcome = None /\ run.todo # <<>> /\ Head(run.todo) = <<"patch", c>>
  BY <1>2 DEF Todo
<1>4. <<"patch", c>> \in Mutations  BY <1>1 DEF Mutations
<1>5. CASE \E via \in {live[c].via, "api"} :
             /\ live' = [live EXCEPT ![c] = Patched(c, via)]
             /\ versions' = versions + 1
             /\ late' = IF authorized THEN late ELSE late + 1
             /\ \/ run' = [Advance(run) EXCEPT !.patched = @ \cup {c}, !.hit = @ \cup {c}]
                \/ run' = Stop([run EXCEPT !.patched = @ \cup {c}, !.hit = @ \cup {c}])
             /\ UNCHANGED <<schema, request, authorized, strange, fenced>>
  <2>1. PICK via \in {live[c].via, "api"} :
             /\ live' = [live EXCEPT ![c] = Patched(c, via)]
             /\ versions' = versions + 1
             /\ late' = IF authorized THEN late ELSE late + 1
             /\ \/ run' = [Advance(run) EXCEPT !.patched = @ \cup {c}, !.hit = @ \cup {c}]
                \/ run' = Stop([run EXCEPT !.patched = @ \cup {c}, !.hit = @ \cup {c}])
             /\ UNCHANGED <<schema, request, authorized, strange, fenced>>
    BY <1>5
  <2>2. PICK v \in Version : v = Patched(c, via) /\ v.version = versions + 1 /\ v.note = None
    BY PatchedIs DEF CourseInv
  <2>3. Around' /\ Annotated'
    <3>1. strange' \subseteq Workers  BY <2>1 DEF CourseInv, Types
    <3> QED  BY <1>1, <2>1, <2>2, <3>1, AroundNew
  <2>4. authorized' = authorized /\ late' = IF authorized THEN late ELSE late + 1  BY <2>1
  <2>5. CASE run' = [Advance(run) EXCEPT !.patched = @ \cup {c}, !.hit = @ \cup {c}]
    <3>1. PICK a : a = Advance(run)  OBVIOUS
    <3>2. Keeps(run, a, {"todo"}) /\ a.todo = Tail(run.todo) /\ Shape(a)
      BY <1>1, <3>1, RunAdvance DEF Keeps
    <3>3. PICK r : r = [a EXCEPT !.patched = @ \cup {c}, !.hit = @ \cup {c}]  OBVIOUS
    <3>4. Keeps(a, r, {"patched", "hit"}) /\ r.hit = a.hit \cup {c}
      BY <3>2, <3>3 DEF Keeps, Shape, RunFields
    <3>5. /\ Same(r) /\ r.todo = Tail(run.todo) /\ r.coreStaged = run.coreStaged
          /\ r.hit = run.hit \cup {c}
      BY <1>1, <3>2, <3>4 DEF Keeps, Same, RunFields
    <3>6. run' = r  BY <2>5, <3>1, <3>3
    <3>7. <<"patch", c>> # <<"stage", "core">> /\ ("patch" = "patch" => c # "core")  BY <1>1
    <3> QED  BY <1>1, <1>3, <1>4, <2>3, <2>4, <3>5, <3>6, <3>7, Striking
  <2>6. CASE run' = Stop([run EXCEPT !.patched = @ \cup {c}, !.hit = @ \cup {c}])
    <3>1. PICK r : r = [run EXCEPT !.patched = @ \cup {c}, !.hit = @ \cup {c}]  OBVIOUS
    <3>2. Keeps(run, r, {"hit", "patched"}) /\ r.hit = run.hit \cup {c}
      BY <1>1, <3>1 DEF Keeps, Shape, RunFields
    <3>3. Keeps(run, run, {"coreStaged", "phase"})  BY <1>1 DEF Keeps
    <3>4. run' = Stop(r)  BY <2>6, <3>1
    <3> QED  BY <1>1, <1>2, <1>4, <2>3, <2>4, <3>2, <3>3, <3>4, LostAnswer
  <2> QED  BY <2>1, <2>5, <2>6
<1>6. CASE run' = Stop(run) /\ UNCHANGED <<live, schema, request, authorized, versions, strange, fenced, late>>
  BY <1>3, <1>6, CheckFails
<1> QED  BY <1>5, <1>6 DEF RetirePatch

(* A report is only reached when no readback is left. *)
LEMMA ReportCourse ==
  ASSUME CourseInv, Report
  PROVE  CourseInv'
<1>1. Todo("report", "core") /\ run' = End(run, run.decision, run.recovery)
      /\ UNCHANGED <<live, request, authorized, versions, fenced, late, strange>>
  BY DEF Report, Answer, Check
<1>2. /\ run.outcome = None /\ run.todo # <<>> /\ Head(run.todo) = <<"report", "core">>
      /\ run.mode = "deliver"
  <2>1. <<"report", "core">> \notin PreStep \cup RecoverStep  BY DEF PreStep, RecoverStep
  <2> QED  BY <1>1, <2>1, HeadMode
<1>3. Under("deliver")  BY <1>2 DEF Under
<1>4. run.decision \in {"deploy", "no-op"} /\ run.todo \in Seq(DeliverStep) /\ Orderly(run.todo)
  BY <1>3 DEF CourseInv, Modes
<1>5. ASSUME NEW w \in Workers PROVE w \in strange \/ Good(w)
  <2>1. ~Has(run.todo, <<"final", w>>)
    <3>1. ~Precedes(<<"report", "core">>, <<"final", w>>)
      <4>1. Rank(<<"report", "core">>) = 120 /\ Rank(<<"final", w>>) = 110
        <5>1. "core" \in Workers  BY DEF Workers
        <5> QED  BY <5>1, Ranks, ZenonT(60)
      <4>2. /\ <<"report", "core">>[1] \notin Free /\ <<"final", w>>[1] \notin Free
        BY DEF Free
      <4> QED  BY <4>1, <4>2 DEF Precedes
    <3>2. ~Has(Tail(run.todo), <<"final", w>>)  BY <1>2, <1>4, <3>1, OrderlyTail
    <3>3. <<"final", w>> # <<"report", "core">>  OBVIOUS
    <3> QED  BY <1>2, <1>4, <3>2, <3>3, TailHas
  <2> QED  BY <1>3, <2>1 DEF CourseInv, Finals
<1>6. /\ run'.outcome = run.decision /\ run'.src = run.src
  BY <1>1 DEF End, CourseInv, Types, Shape, RunFields
<1>7. SuccessMeansCoherent'  BY <1>1, <1>5, <1>6 DEF SuccessMeansCoherent, Good
<1>8. RecoveryHonest'  BY <1>4, <1>6 DEF RecoveryHonest
<1>9. Around' /\ Annotated'
  <2>1. Around'  BY <1>1, AroundStays DEF CourseInv
  <2> QED  BY <1>1, <2>1 DEF Annotated, CourseInv
<1>10. PICK o \in {"deploy", "no-op", "stopped", "killed"} : o = run.decision  BY <1>4
<1>11. run' = End(run, o, run.recovery)  BY <1>1, <1>10
<1>12. late' = late /\ authorized' = authorized /\ authorized' \in BOOLEAN
  BY <1>1 DEF CourseInv, Types
<1> QED  BY <1>2, <1>7, <1>8, <1>9, <1>11, <1>12, Ending

LEMMA RecoveryCourse ==
  ASSUME CourseInv, RecoverRead \/ RecoverProve
  PROVE  CourseInv'
<1>1. /\ Shape(run) /\ run.pending \in Seq(Callers) /\ run.src \in Sources
      /\ authorized \in BOOLEAN /\ run.outcome = None
  BY DEF CourseInv, Types, RecoverRead, RecoverProve, Todo
<1>2. ASSUME Failed PROVE CourseInv'  BY <1>1, <1>2, CheckFails DEF Failed
<1>3. ASSUME ProvenDisabled(run, live["core"]), Answered(End(run, "stopped", "proven"), {"core"})
      PROVE  CourseInv'
  <2>1. /\ run' = End(run, "stopped", "proven") /\ strange' = strange \ {"core"}
        /\ UNCHANGED <<live, request, authorized, versions, fenced, late>>
    BY <1>3 DEF Answered
  <2>2. run'.outcome = "stopped" /\ run'.recovery = "proven"
    BY <1>1, <2>1 DEF End, Shape, RunFields
  <2>3. live'["core"].circuit = "disabled"
    BY <1>3, <2>1 DEF ProvenDisabled, HasConfiguration
  <2>4. SuccessMeansCoherent' /\ RecoveryHonest'
    BY <2>2, <2>3 DEF SuccessMeansCoherent, RecoveryHonest
  <2>5. Around' /\ Annotated'
    <3>1. Around'  BY <2>1, AroundStays DEF CourseInv
    <3> QED  BY <2>1, <3>1 DEF Annotated, CourseInv
  <2> QED  BY <1>1, <2>1, <2>4, <2>5, Ending
<1>4. CASE RecoverProve
  <2>1. Failed \/ (ProvenDisabled(run, live["core"]) /\ Answered(End(run, "stopped", "proven"), {"core"}))
    BY <1>4 DEF RecoverProve, Check, Failed, Answered
  <2> QED  BY <1>2, <1>3, <2>1
<1>5. CASE RecoverRead /\ live["core"].note = ExpectedMessage(run)
  <2>1. Failed \/ (ProvenDisabled(run, live["core"]) /\ Answered(End(run, "stopped", "proven"), {"core"}))
    BY <1>5 DEF RecoverRead, Check, Failed, Answered
  <2> QED  BY <1>2, <1>3, <2>1
<1>6. CASE RecoverRead /\ live["core"].note # ExpectedMessage(run)
  <2>1. Todo("recoverRead", "core")  BY <1>6 DEF RecoverRead
  <2>2. late = 0 /\ run.mode = "recover"
    <3>1. /\ <<"recoverRead", "core">> \notin PreStep \cup DeliverStep
          /\ <<"recoverRead", "core">> \in Pressing
      BY DEF PreStep, DeliverStep, DeliverNames, Free, Repeating, Closing, Staging2, Retiring,
             Activating, Pressing
    <3> QED  BY <2>1, <3>1, HeadMode
  <2>3. PICK t : t = <<<<"recoverDeploy", "core">>>> \o Fence \o <<<<"recoverProve", "core">>>>
    OBVIOUS
  <2>4. t \in Seq(RecoverStep) /\ Separated(t, Pressing, Checks)
    <3>1. PICK x, y : x = <<"recoverDeploy", "core">> /\ y = <<"recoverProve", "core">>  OBVIOUS
    <3>2. x \in RecoverStep /\ y \in RecoverStep  BY <3>1 DEF RecoverStep, Workers
    <3>3. PICK f \in RecoverStep : f = <<"fence", "core">> /\ f \notin Pressing  BY StepSets
    <3>4. PICK u : u = <<x>> \o <<f>>  OBVIOUS
    <3>5. u = <<x, f>>  BY <3>4, Joined
    <3>6. t = u \o <<y>>  BY <2>3, <3>1, <3>3, <3>4 DEF Fence
    <3>7. PICK v : v = <<y>> /\ v \in Seq(RecoverStep) /\ Len(v) = 1 /\ v[1] = y
      <4>1. PICK z : z = <<y>>  OBVIOUS
      <4>2. z \in Seq(RecoverStep) /\ Len(z) = 1 /\ z[1] = y  BY <3>2, <4>1
      <4> QED  BY <4>1, <4>2
    <3>8. u \in Seq(RecoverStep) /\ Len(u) = 2 /\ u[1] = x /\ u[2] = f  BY <3>2, <3>3, <3>5
    <3>13. t = u \o v  BY <3>6, <3>7
    <3>9. t \in Seq(RecoverStep) /\ Len(t) = 3 /\ t[1] = x /\ t[2] = f /\ t[3] = y
      <4>0. u \in Seq(RecoverStep) /\ v \in Seq(RecoverStep)  BY <3>7, <3>8
      <4>1. /\ t \in Seq(RecoverStep) /\ Len(t) = Len(u) + Len(v)
            /\ \A i \in 1..Len(u) : t[i] = u[i]
            /\ \A i \in 1..Len(v) : t[i + Len(u)] = v[i]
        BY <3>13, <4>0, CatIndex, SMTT(40)
      <4>2. 1 \in 1..2 /\ 2 \in 1..2 /\ 1 \in 1..1 /\ 1 + 2 = 3  OBVIOUS
      <4> QED  BY <3>7, <3>8, <4>1, <4>2
    <3>10. f \notin Pressing /\ y \notin Pressing  BY <3>1, <3>3 DEF Pressing, Mutations
    <3>11. \A i \in 1..Len(t) : t[i] \in Pressing => i = 1  BY <3>9, <3>10
    <3>12. Separated(t, Pressing, Checks)  BY <3>11 DEF Separated
    <3> QED  BY <3>9, <3>12
  <2>5. t \in Seq(Step)  BY <2>4, StepSets, SeqWithin
  <2>6. PICK r : r = [run EXCEPT !.todo = t]  OBVIOUS
  <2>7. /\ run' = r /\ UNCHANGED <<live, request, authorized, versions, fenced, late, strange>>
    BY <1>6, <2>3, <2>6 DEF RecoverRead, Answer, Check
  <2>8. /\ Shape(run') /\ run'.todo = t /\ run'.mode = "recover" /\ run'.src = run.src
        /\ run'.outcome = None /\ run'.pending = run.pending
    BY <1>1, <2>2, <2>6, <2>7 DEF Shape, RunFields
  <2>9. Types'  BY <1>1, <2>5, <2>7, <2>8 DEF Types, CourseInv
  <2>10. Annotated'  BY <2>7 DEF Annotated, CourseInv
  <2>11. Lateness'  BY <2>2, <2>4, <2>7, <2>8 DEF Lateness
  <2>12. Modes' /\ Finals'  BY <2>4, <2>8 DEF Modes, Finals, Under
  <2>13. SuccessMeansCoherent' /\ RecoveryHonest'
    BY <2>8, NoneAssumption DEF SuccessMeansCoherent, RecoveryHonest
  <2> QED  BY <2>9, <2>10, <2>11, <2>12, <2>13 DEF CourseInv
<1> QED  BY <1>4, <1>5, <1>6

(* What another writer makes of a Worker is a version like any other. *)
LEMMA ForeignIs ==
  ASSUME Types, Annotated, NEW w \in Workers, NEW v \in ForeignVersions(w)
  PROVE  v \in Version /\ v.version = versions + 1 /\ (v.note # None => v.note.source = v.code)
<1>1. PICK l \in Version : l = live[w]  BY DEF Types
<1>2. PICK k \in Nat : k = versions + 1  BY DEF Types
<1>3. l.note # None => l.note.source = l.code  BY <1>1 DEF Annotated
<1>4. ASSUME NEW c \in {"enabled", "disabled"}, NEW n \in {live[w].note, None}, v = Edited(w, c, n)
      PROVE  v \in Version /\ v.version = k /\ (v.note # None => v.note.source = v.code)
  <2>1. v = [l EXCEPT !.version = k, !.circuit = c, !.note = n, !.via = "api"]
    BY <1>1, <1>2, <1>4 DEF Edited
  <2>2. n \in [source : Sources, phase : {"staged", "active"}] \cup {None}  BY <1>1 DEF Version
  <2>3. v \in Version /\ v.version = k /\ v.note = n /\ v.code = l.code  BY <2>1, <2>2 DEF Version
  <2> QED  BY <1>1, <1>3, <2>3
<1>5. ASSUME NEW c \in {"enabled", "disabled"}, NEW s \in Sources, v = Redeployed(w, c, s)
      PROVE  v \in Version /\ v.version = k /\ v.note = None
  <2>1. v = [l EXCEPT !.version = k, !.circuit = c, !.note = None, !.via = "wrangler", !.code = s]
    BY <1>1, <1>2, <1>5 DEF Redeployed
  <2> QED  BY <2>1 DEF Version
<1>6. ASSUME v = PairRestored(w)
      PROVE  v \in Version /\ v.version = k /\ v.note = None
  <2>1. v = [l EXCEPT !.version = k, !.pair = TRUE, !.note = None, !.via = "api"]
    BY <1>1, <1>2, <1>6 DEF PairRestored
  <2> QED  BY <2>1 DEF Version
<1> QED  BY <1>2, <1>4, <1>5, <1>6 DEF ForeignVersions

LEMMA EnvironmentCourse ==
  ASSUME CourseInv,
         \/ \E s \in Sources, boot \in BOOLEAN : Dispatch(s, boot)
         \/ Revoke \/ Kill \/ (\E w \in Workers : ForeignChange(w)) \/ Migrate
         \/ UNCHANGED vars
  PROVE  CourseInv'
<1>1. Types /\ Annotated  BY DEF CourseInv
<1>2. CASE \E s \in Sources, boot \in BOOLEAN : Dispatch(s, boot)
  <2>1. PICK s \in Sources, boot \in BOOLEAN : Dispatch(s, boot)  BY <1>2
  <2>2. /\ request'.src = s
        /\ UNCHANGED <<live, run, authorized, versions, strange, fenced, late>>
    BY <2>1 DEF Dispatch, Request
  <2>3. Around'  BY <1>1, <2>2 DEF Around, Types
  <2>4. Annotated'  BY <1>1, <2>2 DEF Annotated
  <2> QED  BY <1>1, <2>2, <2>3, <2>4, Elsewhere DEF Types
<1>3. CASE Revoke
  <2>1. UNCHANGED <<live, request, run, versions, strange, fenced, late>> /\ authorized' = FALSE
    BY <1>3 DEF Revoke
  <2>2. Around'  BY <1>1, <2>1 DEF Around, Types
  <2>3. Annotated'  BY <1>1, <2>1 DEF Annotated
  <2> QED  BY <2>1, <2>2, <2>3, Elsewhere
<1>4. CASE Kill
  <2>1. /\ run.outcome = None /\ run' = End(run, "killed", "unknown")
        /\ UNCHANGED <<live, request, authorized, versions, strange, fenced, late>>
    BY <1>4 DEF Kill
  <2>2. Around'  BY <1>1, <2>1, AroundStays
  <2>3. Annotated'  BY <1>1, <2>1 DEF Annotated
  <2>4. run'.outcome = "killed"  BY <1>1, <2>1 DEF End, Types, Shape, RunFields
  <2>5. SuccessMeansCoherent' /\ RecoveryHonest'
    BY <2>4 DEF SuccessMeansCoherent, RecoveryHonest
  <2> QED  BY <1>1, <2>1, <2>2, <2>3, <2>5, Ending DEF Types
<1>5. CASE \E w \in Workers : ForeignChange(w)
  <2>1. PICK w \in Workers : ForeignChange(w)  BY <1>5
  <2>2. PICK v \in ForeignVersions(w) :
          /\ live' = [live EXCEPT ![w] = v] /\ versions' = versions + 1
          /\ strange' = strange \cup {w}
          /\ UNCHANGED <<request, run, authorized, fenced, late>>
    BY <2>1 DEF ForeignChange
  <2>3. v \in Version /\ v.version = versions + 1 /\ (v.note # None => v.note.source = v.code)
    BY <1>1, ForeignIs
  <2>4. strange' \subseteq Workers  BY <1>1, <2>2 DEF Types
  <2>5. Around' /\ Annotated'  BY <2>2, <2>3, <2>4, AroundNew
  <2>6. strange \subseteq strange' /\ \A u \in Workers : u \in strange' \/ live'[u] = live[u]
    BY <1>1, <2>2 DEF Types
  <2> QED  BY <1>1, <2>2, <2>5, <2>6, Elsewhere DEF Types
<1>6. CASE Migrate \/ UNCHANGED vars
  <2>1. UNCHANGED <<live, request, run, authorized, versions, strange, fenced, late>>
    BY <1>6 DEF Migrate, vars
  <2>2. Around'  BY <1>1, <2>1, AroundStays
  <2>3. Annotated'  BY <1>1, <2>1 DEF Annotated
  <2> QED  BY <1>1, <2>1, <2>2, <2>3, Elsewhere DEF Types
<1> QED  BY <1>2, <1>3, <1>4, <1>5, <1>6

(* A run that begins has only its inventory ahead. *)
LEMMA BeginIs ==
  ASSUME NEW q
  PROVE  LET r == Begin(q) IN
         /\ Shape(r) /\ r.src = q.src /\ r.todo \in Seq(PreStep) /\ r.mode = "preflight"
         /\ r.hit = {} /\ r.pending = <<>> /\ r.outcome = None
<1>1. PICK t : t = Fence \o <<<<"ledger", "core">>>> \o Steps("inventory", DeploymentOrder)
                   \o <<<<"decide", "core">>>>
  OBVIOUS
<1>2. t \in Seq(PreStep)
  <2>1. Fence \in Seq(PreStep) /\ <<<<"ledger", "core">>>> \in Seq(PreStep)
        /\ <<<<"decide", "core">>>> \in Seq(PreStep)
    <3>1. <<"fence", "core">> \in PreStep /\ <<"ledger", "core">> \in PreStep /\ <<"decide", "core">> \in PreStep
      BY DEF PreStep, Workers
    <3> QED  BY <3>1 DEF Fence
  <2>2. Steps("inventory", DeploymentOrder) \in Seq(PreStep)
    <3>1. PICK u : u = Steps("inventory", DeploymentOrder)  OBVIOUS
    <3>3. u = << <<"inventory", "core">>, <<"inventory", "publisher">>, <<"inventory", "rendezvous">> >>
      BY <3>1, StepsAre
    <3>2. /\ <<"inventory", "core">> \in PreStep /\ <<"inventory", "publisher">> \in PreStep
          /\ <<"inventory", "rendezvous">> \in PreStep
      BY DEF PreStep, Workers
    <3>4. u \in Seq(PreStep)  BY <3>2, <3>3
    <3> QED  BY <3>1, <3>4
  <2> QED  BY <1>1, <2>1, <2>2, CatIndex
<1>3. PICK r : r = Begin(q)  OBVIOUS
<1>4. r.todo = t /\ r.src = q.src /\ r.mode = "preflight" /\ r.hit = {} /\ r.pending = <<>>
      /\ r.outcome = None
  BY <1>1, <1>3 DEF Begin
<1>5. Shape(r)  BY <1>3 DEF Shape, RunFields, Begin
<1> QED  BY <1>2, <1>3, <1>4, <1>5

LEMMA StartCourse ==
  ASSUME CourseInv, Start
  PROVE  CourseInv'
<1>1. /\ request # None /\ run' = Begin(request) /\ request' = None /\ authorized' = TRUE /\ late' = 0
      /\ UNCHANGED <<live, versions, strange, fenced>>
  BY DEF Start
<1>2. /\ Shape(run') /\ run'.src = request.src /\ run'.todo \in Seq(PreStep)
      /\ run'.mode = "preflight" /\ run'.hit = {} /\ run'.pending = <<>> /\ run'.outcome = None
  BY <1>1, BeginIs
<1>3. run'.todo \in Seq(Step)  BY <1>2, StepSets, SeqWithin
<1>4. Types'
  <2>1. run'.pending \in Seq(Callers)  BY <1>2
  <2> QED  BY <1>1, <1>2, <1>3, <2>1 DEF Types, CourseInv
<1>5. Annotated'  BY <1>1 DEF Annotated, CourseInv
<1>6. Lateness'
  <2>1. PICK t \in Seq(PreStep) : t = run'.todo  BY <1>2
  <2>2. PreStep \cap Pressing = {}  BY DEF PreStep, Pressing, Mutations
  <2>3. Separated(t, Pressing, Checks)  BY <2>1, <2>2 DEF Separated
  <2> QED  BY <1>1, <2>1, <2>3 DEF Lateness
<1>7. Modes' /\ Finals'  BY <1>2 DEF Modes, Finals, Under
<1>8. SuccessMeansCoherent' /\ RecoveryHonest'
  BY <1>2, NoneAssumption DEF SuccessMeansCoherent, RecoveryHonest
<1> QED  BY <1>4, <1>5, <1>6, <1>7, <1>8 DEF CourseInv

LEMMA InitCourse ==
  ASSUME Init
  PROVE  CourseInv
<1>1. PICK s \in Sources : live \in {Delivered(s)} \cup {Legacy(s, P) : P \in SUBSET Callers}
  BY DEF Init
<1>2. /\ request = None /\ run = NoRun /\ authorized = FALSE /\ versions = 0 /\ strange = {}
      /\ fenced = [w \in Workers |-> 0] /\ late = 0
  BY DEF Init
<1>3. live \in [Workers -> Version] /\ \A w \in Workers : live[w].version = 0
  <2>1. ASSUME NEW p \in {"staged", "active"} PROVE Note(s, p) \in [source : Sources, phase : {"staged", "active"}]
    BY DEF Note
  <2>2. CASE live = Delivered(s)  BY <2>1, <2>2 DEF Delivered, Version
  <2>3. CASE \E P \in SUBSET Callers : live = Legacy(s, P)  BY <2>1, <2>3 DEF Legacy, Version
  <2> QED  BY <1>1, <2>2, <2>3
<1>4. Annotated
  BY <1>1 DEF Annotated, Delivered, Legacy, Note
<1>5. /\ Shape(run) /\ run.src \in Sources /\ run.todo = <<>> /\ run.hit = {} /\ run.pending = <<>>
      /\ run.outcome = "stopped" /\ run.recovery = "not-needed"
  <2>1. PICK t \in Sources : t = (CHOOSE u \in Sources : TRUE)  OBVIOUS
  <2>2. PICK q : q = Request(t, FALSE, Delivered(t))  OBVIOUS
  <2>3. q.src = t  BY <2>2 DEF Request
  <2>4. PICK r : r = Begin(q)  OBVIOUS
  <2>5. Shape(r) /\ r.src = t /\ r.hit = {} /\ r.pending = <<>>  BY <2>3, <2>4, BeginIs
  <2>6. run = [r EXCEPT !.todo = <<>>, !.outcome = "stopped", !.recovery = "not-needed"]
    BY <1>2, <2>1, <2>2, <2>4 DEF NoRun, End
  <2> QED  BY <2>5, <2>6 DEF Shape, RunFields
<1>6. Types
  <2>1. run.todo \in Seq(Step) /\ run.pending \in Seq(Callers)  BY <1>5
  <2>2. versions \in Nat /\ \A w \in Workers : live[w].version <= versions  BY <1>2, <1>3
  <2>3. fenced \in [Workers -> Nat] /\ \A w \in Workers : fenced[w] <= versions  BY <1>2
  <2>4. authorized \in BOOLEAN /\ strange \subseteq Workers  BY <1>2
  <2> QED  BY <1>2, <1>3, <1>5, <2>1, <2>2, <2>3, <2>4 DEF Types
<1>7. Lateness
  <2>1. Separated(<<>>, Pressing, Checks)  BY DEF Separated
  <2> QED  BY <1>2, <1>5, <2>1 DEF Lateness
<1>8. Modes /\ Finals  BY <1>5, NoneAssumption DEF Modes, Finals, Under
<1>9. SuccessMeansCoherent /\ RecoveryHonest
  BY <1>5 DEF SuccessMeansCoherent, RecoveryHonest
<1> QED  BY <1>4, <1>6, <1>7, <1>8, <1>9 DEF CourseInv

LEMMA StepCourse ==
  ASSUME CourseInv, [Next]_vars
  PROVE  CourseInv'
<1>1. CASE \E s \in Sources, boot \in BOOLEAN : Dispatch(s, boot)  BY <1>1, EnvironmentCourse
<1>2. CASE Start  BY <1>2, StartCourse
<1>3. CASE PassFence  BY <1>3, FenceCourse
<1>4. CASE CheckLedger \/ \E w \in Workers : Inventory(w)  BY <1>4, PreflightCourse
<1>5. CASE Decide  BY <1>5, DecideCourse
<1>6. CASE \E w \in Workers : CheckPredecessor(w) \/ CheckCallerPredecessor(w) \/ Authorize(w)
  BY <1>6, StagingChecksCourse
<1>7. CASE RecoverDeploy \/ \E w \in Workers : DeployStaged(w) \/ DeployActive(w)
  BY <1>7, UploadsCourse
<1>8. CASE \E w \in Workers : ReadStaged(w) \/ ReadActive(w)  BY <1>8, ReadbacksCourse
<1>9. CASE \E w \in Workers : VerifyStaged(w)  BY <1>9, VerifyCourse
<1>10. CASE \E w \in Workers : ActivationHandoff(w)  BY <1>10, ActivationCourse
<1>11. CASE (\E w \in Workers : VerifyFinal(w)) \/ (\E c \in Callers : ReadObserved(c)) \/ Prove
  BY <1>11, ActiveReadsCourse
<1>12. CASE \E c \in Callers : \/ ReadRetired(c) \/ BeginRetirement(c) \/ RetireRead(c)
                               \/ RetireReread(c) \/ RetireVerify(c) \/ AcceptRetirement(c)
  BY <1>12, RetirementReadsCourse
<1>13. CASE \E c \in Callers : RecordIntent(c) \/ RecordReceipt(c)  BY <1>13, RecordsCourse
<1>14. CASE \E c \in Callers : CompleteRetirement(c) \/ Observe(c) \/ CompleteObservation(c)
  BY <1>14, HandoverCourse
<1>15. CASE \E c \in Callers : RetirePatch(c)  BY <1>15, PatchCourse
<1>16. CASE Report  BY <1>16, ReportCourse
<1>17. CASE RecoverRead \/ RecoverProve  BY <1>17, RecoveryCourse
<1>18. CASE Revoke \/ Kill \/ (\E w \in Workers : ForeignChange(w)) \/ Migrate \/ UNCHANGED vars
  BY <1>18, EnvironmentCourse
<1> QED
  BY <1>1, <1>2, <1>3, <1>4, <1>5, <1>6, <1>7, <1>8, <1>9, <1>10, <1>11, <1>12, <1>13, <1>14,
     <1>15, <1>16, <1>17, <1>18
  DEF Next

(* Whatever is dispatched, revoked, killed, lost or written by another, a run    *)
(* keeps its course: the list of its calls stays in order and guarded, and what  *)
(* it has made good holds of every Worker nobody else has touched.              *)
THEOREM RunsKeepTheirCourse == Spec => []CourseInv
<1>1. Init => CourseInv  BY InitCourse
<1>2. CourseInv /\ [Next]_vars => CourseInv'  BY StepCourse
<1> QED  BY <1>1, <1>2, PTL DEF Spec

(* Once a promotion has lost its authority, at most the one mutation goes out    *)
(* whose fence had passed before (fenceDeliveryMutation and the authority before *)
(* every mutation of orchestrateDelivery, of the retirement and of the recovery).*)
THEOREM AuthorityBoundsMutations == Spec => []OneMutationAfterLoss
<1>1. CourseInv => OneMutationAfterLoss  BY DEF CourseInv, Lateness, OneMutationAfterLoss
<1> QED  BY <1>1, RunsKeepTheirCourse, PTL

(* A delivery that reports `deploy' or `no-op' leaves the approved source active *)
(* and without a legacy secret on every Worker nobody else has changed since     *)
(* (verifyFinal before the report).                                             *)
THEOREM ReportsAreCoherent == Spec => []SuccessMeansCoherent
<1>1. CourseInv => SuccessMeansCoherent  BY DEF CourseInv
<1> QED  BY <1>1, RunsKeepTheirCourse, PTL

(* A stopped delivery that reports the recovery as proven left the core          *)
(* disabled, and one that reports it as not needed never changed the core        *)
(* (recover, validateStaged).                                                   *)
THEOREM RecoveryEvidenceIsTrue == Spec => []RecoveryHonest
<1>1. CourseInv => RecoveryHonest  BY DEF CourseInv
<1> QED  BY <1>1, RunsKeepTheirCourse, PTL

=============================================================================
