---------------------- MODULE ProductionHandoverProofs ----------------------
(***************************************************************************)
(* Theorems about the retirement of a caller's legacy pair and about the   *)
(* handoff of a bootstrap's callers to their activation.  Both are about   *)
(* what stands ahead of a call in the list of a run: the PATCH comes after *)
(* its intent, right behind the second read of the snapshot; an activation *)
(* comes right behind a read of the version that was proven, and a fence   *)
(* stands between the proof of that version and the read.                  *)
(***************************************************************************)
EXTENDS ProductionDeliveryProofs

-----------------------------------------------------------------------------
(* What stands ahead of a call *)

(* Between a member of A and b, and ahead of b at all, there is one of P. *)
Between(s, A, b, P) ==
  \A i, j \in 1..Len(s) : i < j /\ s[i] \in A /\ s[j] = b => \E k \in i+1..j-1 : s[k] \in P
Led(s, b, P) == \A j \in 1..Len(s) : s[j] = b => \E k \in 1..j-1 : s[k] \in P
Kept(s, A, b, P) == Between(s, A, b, P) /\ Led(s, b, P)

(* Only an authority may come between one of P and what it leads. *)
Authorities == {"authorize"} \X Workers
Spoilers(P) == Step \ (P \cup Authorities)

Rereading(c) == {<<"retireReread", c>>}
Provers(c) == {<<"handoff", c>>, <<"readRetired", c>>, <<"readObserved", c>>}
Hands(c) == {<<"readStaged", c>>, <<"completeRetirement", c>>, <<"completeObservation", c>>}

-----------------------------------------------------------------------------
(* What a delivery has made good of its callers: s is what is left of it *)

(* The core stays off until no caller is left to be staged or patched. *)
CoreIsOff == "core" \in strange \/ live["core"].circuit = "disabled"
NoneStaged(s) == \A i \in 1..Len(s) : s[i][1] \notin {"readStaged", "patch"}
CoreDown(s) == NoneStaged(s) \/ Has(s, <<"readStaged", "core">>) \/ CoreIsOff

(* The PATCH of c: under its intent, once, over the snapshot that was read *)
SnapshotKept == \A w \in Workers : live[w] = run.snapshot[w] \/ live[w].version # fenced[w]
Intended(s, c) == Has(s, <<"patch", c>>) => c \in run.intent \/ Has(s, <<"intent", c>>)
Once(s, c) ==
  c \in run.patched \cup run.receipt => ~Has(s, <<"patch", c>>) /\ ~Has(s, <<"readStaged", c>>)
Snapped(s, c) == Led(s, <<"patch", c>>, Rereading(c)) \/ SnapshotKept
Retired(s, c) ==
  /\ Between(s, Spoilers(Rereading(c)), <<"patch", c>>, Rereading(c))
  /\ Intended(s, c) /\ Once(s, c) /\ Snapped(s, c)

(* Retired callers had the pair, observed ones had none. *)
Kinds(s, c) ==
  /\ Has(s, <<"completeObservation", c>>) => ~run.policy[c].pair
  /\ \A n \in {"retireVerify", "completeRetirement", "readRetired"} : Has(s, <<n, c>>) => run.policy[c].pair
Paired == {c \in Callers : run.policy[c].pair}
PendingPaired == run.pending \in Seq(Paired)

(* The proof of c is about the version that was handed off. *)
HandKnown(s, c) == run.hand[c] # None \/ Some(s, Hands(c))
HandProven(s, c) ==
  run.hand[c] # None =>
    /\ run.hand[c].version \in Nat /\ run.hand[c].version <= versions
    /\ run.hand[c].kind = "retired" => run.policy[c].pair
    /\ run.policy[c].pair => run.own[c].version = run.hand[c].version
    /\ ~Has(s, <<"retireVerify", c>>) /\ ~Has(s, <<"readStaged", c>>)

(* While that version is active it is the one last fenced: a version never      *)
(* comes back.                                                                  *)
Held(c) == run.hand[c] # None /\ live[c].version = run.hand[c].version => fenced[c] = live[c].version
HeldFenced(s, c) == Led(s, <<"activate", c>>, Fences) \/ Held(c)
Fresh(c) == run.hand[c] # None /\ fenced[c] = run.hand[c].version
FreshProven(s, c) == Led(s, <<"activate", c>>, Provers(c)) \/ Fresh(c)
Handed(s, c) ==
  /\ Between(s, Spoilers(Provers(c)), <<"activate", c>>, Provers(c))
  /\ Between(s, Hands(c), <<"activate", c>>, Fences)
  /\ Kinds(s, c) /\ HandKnown(s, c) /\ HandProven(s, c)
  /\ HeldFenced(s, c) /\ FreshProven(s, c)

Tables == DOMAIN run.hand = Callers /\ DOMAIN run.own = Callers
HandoverInv ==
  /\ Under("preflight") =>
       /\ Tables /\ run.pending = <<>>
       /\ \A c \in Callers : run.hand[c] = None /\ c \notin run.patched \cup run.receipt
  /\ Under("deliver") =>
       /\ Tables
       /\ CoreDown(run.todo) /\ \A c \in Callers : Retired(run.todo, c)
       /\ run.boot => PendingPaired /\ \A c \in Callers : Handed(run.todo, c)

-----------------------------------------------------------------------------
(* Lists whose calls are led *)

(* A call that is not in the list needs nothing ahead of it. *)
LEMMA LedNone ==
  ASSUME NEW s, NEW b, ~Has(s, b)
  PROVE  \A A, P : Kept(s, A, b, P)
BY DEF Has, Kept, Between, Led

(* What was said of a list holds of its tail, and the head leads it. *)
LEMMA TailLed ==
  ASSUME NEW X, NEW s \in Seq(X), s # <<>>, NEW A, NEW b, NEW P
  PROVE  /\ Between(s, A, b, P) => Between(Tail(s), A, b, P)
         /\ Between(s, A, b, P) /\ Head(s) \in A => Led(Tail(s), b, P)
         /\ Led(s, b, P) => Head(s) # b
         /\ Led(s, b, P) /\ Head(s) \notin P => Led(Tail(s), b, P)
<1>1. PICK t : t = Tail(s)  OBVIOUS
<1>2. /\ Head(s) = s[1] /\ Len(s) \in Nat /\ Len(t) = Len(s) - 1 /\ 1 \in 1..Len(s)
      /\ \A i \in 1..Len(t) : i + 1 \in 1..Len(s) /\ t[i] = s[i + 1]
  BY <1>1, TailIndex
<1>3. ASSUME Between(s, A, b, P), NEW i \in 1..Len(t), NEW j \in 1..Len(t), i < j, t[i] \in A, t[j] = b
      PROVE  \E k \in i+1..j-1 : t[k] \in P
  <2>1. i + 1 \in 1..Len(s) /\ j + 1 \in 1..Len(s) /\ s[i + 1] \in A /\ s[j + 1] = b /\ i + 1 < j + 1
    BY <1>2, <1>3
  <2>2. PICK k \in (i + 1) + 1..(j + 1) - 1 : s[k] \in P  BY <1>3, <2>1 DEF Between
  <2>3. k - 1 \in i+1..j-1 /\ k - 1 \in 1..Len(t) /\ t[k - 1] = s[(k - 1) + 1]
    BY <1>2, <2>2
  <2> QED  BY <2>2, <2>3
<1>4. ASSUME Between(s, A, b, P), s[1] \in A, NEW j \in 1..Len(t), t[j] = b
      PROVE  \E k \in 1..j-1 : t[k] \in P
  <2>1. j + 1 \in 1..Len(s) /\ s[j + 1] = b /\ 1 < j + 1  BY <1>2, <1>4
  <2>2. PICK k \in 1 + 1..(j + 1) - 1 : s[k] \in P  BY <1>2, <1>4, <2>1 DEF Between
  <2>3. k - 1 \in 1..j-1 /\ k - 1 \in 1..Len(t) /\ t[k - 1] = s[(k - 1) + 1]
    BY <1>2, <1>4, <2>2
  <2> QED  BY <2>2, <2>3
<1>5. ASSUME Led(s, b, P), s[1] \notin P, NEW j \in 1..Len(t), t[j] = b
      PROVE  \E k \in 1..j-1 : t[k] \in P
  <2>1. j + 1 \in 1..Len(s) /\ s[j + 1] = b  BY <1>2, <1>5
  <2>2. PICK k \in 1..(j + 1) - 1 : s[k] \in P  BY <1>5, <2>1 DEF Led
  <2>3. k - 1 \in 1..j-1 /\ k - 1 \in 1..Len(t) /\ t[k - 1] = s[(k - 1) + 1]
    BY <1>2, <1>5, <2>2
  <2> QED  BY <2>2, <2>3
<1>6. Led(s, b, P) => s[1] # b  BY <1>2 DEF Led
<1> QED  BY <1>1, <1>2, <1>3, <1>4, <1>5, <1>6 DEF Between, Led

(* Two lists in a row *)
LEMMA CatLed ==
  ASSUME NEW X, NEW u \in Seq(X), NEW t \in Seq(X), NEW A, NEW b, NEW P
  PROVE  /\ Between(u, A, b, P) /\ Between(t, A, b, P) /\ (Led(t, b, P) \/ ~Some(u, A)) =>
              Between(u \o t, A, b, P)
         /\ Led(u, b, P) /\ (Led(t, b, P) \/ Some(u, P)) => Led(u \o t, b, P)
<1>1. PICK z : z = u \o t  OBVIOUS
<1>2. /\ Len(z) = Len(u) + Len(t) /\ Len(u) \in Nat /\ Len(t) \in Nat
      /\ \A i \in 1..Len(u) : i \in 1..Len(z) /\ z[i] = u[i]
      /\ \A i \in 1..Len(t) : i + Len(u) \in 1..Len(z) /\ z[i + Len(u)] = t[i]
      /\ \A i \in 1..Len(z) : i \in 1..Len(u) \/ i - Len(u) \in 1..Len(t)
      /\ \A i \in 1..Len(z) : i \notin 1..Len(u) => z[i] = t[i - Len(u)]
  BY <1>1, CatIndex
<1>3. ASSUME Between(u, A, b, P), Between(t, A, b, P), Led(t, b, P) \/ ~Some(u, A),
             NEW i \in 1..Len(z), NEW j \in 1..Len(z), i < j, z[i] \in A, z[j] = b
      PROVE  \E k \in i+1..j-1 : z[k] \in P
  <2>1. CASE j \in 1..Len(u)
    <3>1. i \in 1..Len(u)  BY <1>2, <1>3, <2>1
    <3>2. PICK k \in i+1..j-1 : u[k] \in P  BY <1>2, <1>3, <2>1, <3>1 DEF Between
    <3>3. k \in 1..Len(u)  BY <1>2, <2>1, <3>1
    <3> QED  BY <1>2, <3>2, <3>3
  <2>2. CASE i \notin 1..Len(u)
    <3>1. /\ i - Len(u) \in 1..Len(t) /\ t[i - Len(u)] \in A /\ j \notin 1..Len(u)
          /\ j - Len(u) \in 1..Len(t) /\ t[j - Len(u)] = b /\ i - Len(u) < j - Len(u)
      BY <1>2, <1>3, <2>2
    <3>2. PICK k \in (i - Len(u)) + 1..(j - Len(u)) - 1 : t[k] \in P
      BY <1>3, <3>1 DEF Between
    <3>3. k \in 1..Len(t) /\ k + Len(u) \in i+1..j-1  BY <1>2, <3>1, <3>2
    <3> QED  BY <1>2, <3>2, <3>3
  <2>3. CASE i \in 1..Len(u) /\ j \notin 1..Len(u)
    <3>1. Some(u, A)  BY <1>2, <1>3, <2>3 DEF Some
    <3>2. j - Len(u) \in 1..Len(t) /\ t[j - Len(u)] = b  BY <1>2, <1>3, <2>3
    <3>3. PICK k \in 1..(j - Len(u)) - 1 : t[k] \in P  BY <1>3, <3>1, <3>2 DEF Led
    <3>4. k \in 1..Len(t) /\ k + Len(u) \in i+1..j-1  BY <1>2, <2>3, <3>2, <3>3
    <3> QED  BY <1>2, <3>3, <3>4
  <2> QED  BY <2>1, <2>2, <2>3
<1>4. ASSUME Led(u, b, P), Led(t, b, P) \/ Some(u, P), NEW j \in 1..Len(z), z[j] = b
      PROVE  \E k \in 1..j-1 : z[k] \in P
  <2>1. CASE j \in 1..Len(u)
    <3>1. PICK k \in 1..j-1 : u[k] \in P  BY <1>2, <1>4, <2>1 DEF Led
    <3>2. k \in 1..Len(u)  BY <1>2, <2>1
    <3> QED  BY <1>2, <3>1, <3>2
  <2>2. CASE j \notin 1..Len(u) /\ Some(u, P)
    <3>1. PICK k \in 1..Len(u) : u[k] \in P  BY <2>2 DEF Some
    <3>2. k \in 1..j-1  BY <1>2, <2>2
    <3> QED  BY <1>2, <3>1, <3>2
  <2>3. CASE j \notin 1..Len(u) /\ Led(t, b, P)
    <3>1. j - Len(u) \in 1..Len(t) /\ t[j - Len(u)] = b  BY <1>2, <1>4, <2>3
    <3>2. PICK k \in 1..(j - Len(u)) - 1 : t[k] \in P  BY <2>3, <3>1 DEF Led
    <3>3. k \in 1..Len(t) /\ k + Len(u) \in 1..j-1  BY <1>2, <3>1, <3>2
    <3> QED  BY <1>2, <3>2, <3>3
  <2> QED  BY <1>4, <2>1, <2>2, <2>3
<1> QED  BY <1>1, <1>3, <1>4 DEF Between, Led

LEMMA KeptCat ==
  ASSUME NEW X, NEW u \in Seq(X), NEW t \in Seq(X), NEW A, NEW b, NEW P,
         Kept(u, A, b, P), Kept(t, A, b, P)
  PROVE  Kept(u \o t, A, b, P)
BY CatLed DEF Kept

(* One call put in front of a list *)
LEMMA PutLed ==
  ASSUME NEW X, NEW x \in X, NEW t \in Seq(X), NEW A, NEW b, NEW P, Between(t, A, b, P)
  PROVE  /\ x \notin A \/ Led(t, b, P) => Between(<<x>> \o t, A, b, P)
         /\ x # b /\ (x \in P \/ Led(t, b, P)) => Led(<<x>> \o t, b, P)
<1>1. PICK u : u = <<x>>  OBVIOUS
<1>2. u \in Seq(X) /\ Len(u) = 1 /\ u[1] = x /\ \A Y : Some(u, Y) <=> x \in Y
  BY <1>1, OneIn
<1>3. Between(u, A, b, P) /\ (x # b => Led(u, b, P))  BY <1>2 DEF Between, Led
<1>4. /\ Between(u, A, b, P) /\ Between(t, A, b, P) /\ (Led(t, b, P) \/ ~Some(u, A)) =>
           Between(u \o t, A, b, P)
      /\ Led(u, b, P) /\ (Led(t, b, P) \/ Some(u, P)) => Led(u \o t, b, P)
  BY <1>2, CatLed
<1> QED  BY <1>1, <1>2, <1>3, <1>4

(* What leads the last of those that lead b, leads b. *)
LEMMA Releading ==
  ASSUME NEW s, Len(s) \in Nat, NEW A, NEW b, NEW P, NEW Q,
         Between(s, A, b, P), Led(s, b, Q), Q \subseteq A
  PROVE  Led(s, b, P)
<1> SUFFICES ASSUME NEW j \in 1..Len(s), s[j] = b PROVE \E k \in 1..j-1 : s[k] \in P  BY DEF Led
<1>1. PICK i \in 1..j-1 : s[i] \in Q  BY DEF Led
<1>2. i \in 1..Len(s) /\ i < j /\ s[i] \in A  BY <1>1
<1>3. PICK k \in i+1..j-1 : s[k] \in P  BY <1>2 DEF Between
<1> QED  BY <1>1, <1>3

(* What the head of an orderly list leaves behind it *)
LEMMA Gone ==
  ASSUME NEW s \in Seq(DeliverStep), s # <<>>, Orderly(s), Head(s)[1] \notin Free,
         NEW y \in DeliverStep, y[1] \notin Free
  PROVE  /\ Rank(y) < Rank(Head(s)) => ~Has(Tail(s), y)
         /\ Rank(y) = Rank(Head(s)) /\ Head(s)[1] \notin Repeating => ~Has(Tail(s), y)
         /\ Head(s)[1] \notin Inserting /\ y[1] \in Inserting => ~Has(Tail(s), y)
<1>1. Has(Tail(s), y) => Precedes(Head(s), y)  BY OrderlyTail
<1>2. Head(s) \in DeliverStep  BY OrderlyTail
<1>3. Rank(y) \in Nat /\ Rank(Head(s)) \in Nat  BY <1>2, RankRange
<1> QED  BY <1>1, <1>3 DEF Precedes

(* What has a lower place, if it is there at all, comes first. *)
LEMMA Ahead ==
  ASSUME NEW s \in Seq(DeliverStep), Orderly(s), NEW b \in DeliverStep, b[1] \notin Free, NEW A,
         \A a \in A : a \in DeliverStep /\ a[1] \notin Free /\ Rank(a) < Rank(b), Some(s, A)
  PROVE  Led(s, b, A)
<1> SUFFICES ASSUME NEW j \in 1..Len(s), s[j] = b PROVE \E k \in 1..j-1 : s[k] \in A  BY DEF Led
<1>1. PICK i \in 1..Len(s) : s[i] \in A  BY DEF Some
<1>2. Rank(s[i]) \in Nat /\ Rank(b) \in Nat /\ Rank(s[i]) < Rank(b) /\ s[i][1] \notin Free
  BY <1>1, RankRange
<1>3. j # i  BY <1>2
<1>4. ~(j < i)
  <2>1. j < i => Precedes(b, s[i])  BY DEF Orderly
  <2> QED  BY <1>2, <2>1 DEF Precedes
<1>5. i \in 1..j-1  BY <1>3, <1>4
<1> QED  BY <1>1, <1>5

LEMMA StagedLow ==
  \A w \in Workers :
    /\ <<"readStaged", w>> \in DeliverStep /\ <<"patch", w>> \in DeliverStep
    /\ Rank(<<"readStaged", w>>) < 60 /\ Rank(<<"patch", w>>) < 60
    /\ "readStaged" \notin Free /\ "patch" \notin Free
<1> SUFFICES ASSUME NEW w \in Workers
             PROVE  /\ <<"readStaged", w>> \in DeliverStep /\ <<"patch", w>> \in DeliverStep
                    /\ Rank(<<"readStaged", w>>) < 60 /\ Rank(<<"patch", w>>) < 60
                    /\ "readStaged" \notin Free /\ "patch" \notin Free
  OBVIOUS
<1>1. PICK T \in {0, 20, 40} : T = StageTurn[w]  BY Ranks
<1>2. Rank(<<"readStaged", w>>) = 3 + T  BY <1>1, Ranks
<1>3. Rank(<<"patch", w>>) = 10 + T  BY <1>1, Ranks
<1>4. "readStaged" \in Staging2 /\ "patch" \in Retiring  BY DEF Staging2, Retiring
<1> QED  BY <1>2, <1>3, <1>4 DEF DeliverStep, DeliverNames, Free

(* From the check of the staged cohort on, nothing is staged or patched. *)
LateNames == {"verifyStaged", "handoff", "readObserved", "activate", "readActive", "final", "reconcile",
              "canaries"}

(* Once such a call is due, no Worker is left to be staged or patched. *)
LEMMA LateHead ==
  ASSUME NEW s \in Seq(DeliverStep), s # <<>>, Orderly(s), NEW n \in LateNames, NEW w \in Workers,
         Head(s) = <<n, w>>
  PROVE  NoneStaged(Tail(s))
<1>1. n \notin Free /\ <<n, w>>[1] = n  BY DEF LateNames, Free
<1>2. Rank(<<n, w>>) >= 60
  <2>1. PICK T \in {0, 20, 40} : T = ActiveTurn[w]  BY Ranks
  <2>2. /\ Rank(<<"verifyStaged", w>>) = 60 /\ Rank(<<"final", w>>) = 110 /\ Rank(<<"reconcile", w>>) = 110
        /\ Rank(<<"canaries", w>>) = 110
    BY FixedRanks
  <2>3. /\ Rank(<<"handoff", w>>) = 61 + T /\ Rank(<<"readObserved", w>>) = 62 + T
        /\ Rank(<<"activate", w>>) = 63 + T /\ Rank(<<"readActive", w>>) = 64 + T
    BY <2>1, ActiveRanks
  <2>4. \/ n = "verifyStaged" \/ n = "handoff" \/ n = "readObserved" \/ n = "activate"
        \/ n = "readActive" \/ n = "final" \/ n = "reconcile" \/ n = "canaries"
    BY DEF LateNames
  <2>5. 61 + T >= 60 /\ 62 + T >= 60 /\ 63 + T >= 60 /\ 64 + T >= 60  BY <2>1
  <2>6. PICK R : R = Rank(<<n, w>>)  OBVIOUS
  <2>7. R = 60 \/ R = 110 \/ R = 61 + T \/ R = 62 + T \/ R = 63 + T \/ R = 64 + T
    <3>1. CASE n = "verifyStaged"  BY <2>2, <2>6, <3>1, Zenon
    <3>2. CASE n = "handoff"       BY <2>3, <2>6, <3>2, Zenon
    <3>3. CASE n = "readObserved"  BY <2>3, <2>6, <3>3, Zenon
    <3>4. CASE n = "activate"      BY <2>3, <2>6, <3>4, Zenon
    <3>5. CASE n = "readActive"    BY <2>3, <2>6, <3>5, Zenon
    <3>6. CASE n = "final"         BY <2>2, <2>6, <3>6, Zenon
    <3>7. CASE n = "reconcile"     BY <2>2, <2>6, <3>7, Zenon
    <3>8. CASE n = "canaries"      BY <2>2, <2>6, <3>8, Zenon
    <3> QED  BY <2>4, <3>1, <3>2, <3>3, <3>4, <3>5, <3>6, <3>7, <3>8, Zenon
  <2>8. R >= 60  BY <2>5, <2>7
  <2> QED  BY <2>6, <2>8, Zenon
<1>3. ASSUME NEW m \in {"readStaged", "patch"}, NEW v \in Workers PROVE ~Has(Tail(s), <<m, v>>)
  <2>1. /\ <<"readStaged", v>> \in DeliverStep /\ <<"patch", v>> \in DeliverStep
        /\ Rank(<<"readStaged", v>>) < 60 /\ Rank(<<"patch", v>>) < 60
        /\ "readStaged" \notin Free /\ "patch" \notin Free
    BY StagedLow
  <2>2. PICK y \in DeliverStep : y = <<m, v>> /\ Rank(y) < 60 /\ y[1] \notin Free  BY <2>1
  <2>3. PICK z \in DeliverStep : z = Head(s) /\ z = <<n, w>>  BY OrderlyTail
  <2>4. Rank(y) \in Nat /\ Rank(z) \in Nat  BY RankNat
  <2>5. Rank(z) >= 60  BY <1>2, <2>3
  <2>6. Rank(y) < Rank(z)  BY <2>2, <2>4, <2>5
  <2>7. Rank(y) < Rank(Head(s))  BY <2>3, <2>6
  <2> QED  BY <1>1, <2>2, <2>7, Gone
<1>4. \A i \in 1..Len(Tail(s)) : /\ Tail(s)[i] = <<Tail(s)[i][1], Tail(s)[i][2]>>
                                 /\ Tail(s)[i][2] \in Workers
  <2>1. Tail(s) \in Seq(DeliverStep)  BY OrderlyTail
  <2> QED  BY <2>1, RankRange
<1> QED  BY <1>3, <1>4 DEF NoneStaged, Has

(* A caller is handed off before it is activated. *)
LEMMA HandsAhead ==
  ASSUME NEW s \in Seq(DeliverStep), Orderly(s), NEW c \in Callers, Some(s, Hands(c))
  PROVE  Led(s, <<"activate", c>>, Hands(c))
<1>0. c \in Workers  BY DEF Callers, Workers
<1>1. PICK b : b = <<"activate", c>>  OBVIOUS
<1>2. b \in DeliverStep /\ b[1] \notin Free
  BY <1>0, <1>1 DEF DeliverStep, DeliverNames, Activating, Free
<1>3. PICK T \in {0, 20, 40} : T = StageTurn[c]  BY <1>0, Ranks
<1>4. PICK U \in {0, 20, 40} : U = ActiveTurn[c]  BY <1>0, Ranks
<1>5. Rank(b) = 63 + U  BY <1>0, <1>1, <1>4, Ranks
<1>6. Rank(<<"readStaged", c>>) = 3 + T  BY <1>0, <1>3, Ranks
<1>7. Rank(<<"completeRetirement", c>>) = 14 + T  BY <1>0, <1>3, Ranks
<1>8. Rank(<<"completeObservation", c>>) = 5 + T  BY <1>0, <1>3, Ranks
<1>9. \A a \in Hands(c) : a \in DeliverStep /\ a[1] \notin Free
  BY <1>0 DEF Hands, DeliverStep, DeliverNames, Staging2, Retiring, Free
<1>10. \A a \in Hands(c) : Rank(a) < Rank(b)
  <2>1. Rank(<<"readStaged", c>>) < Rank(b)  BY <1>5, <1>6
  <2>2. Rank(<<"completeRetirement", c>>) < Rank(b)  BY <1>5, <1>7
  <2>3. Rank(<<"completeObservation", c>>) < Rank(b)  BY <1>5, <1>8
  <2> QED  BY <2>1, <2>2, <2>3, Zenon DEF Hands
<1>11. \A a \in Hands(c) : a \in DeliverStep /\ a[1] \notin Free /\ Rank(a) < Rank(b)
  BY <1>9, <1>10
<1>12. Led(s, b, Hands(c))
  <2>1. PICK A : A = Hands(c)  OBVIOUS
  <2> QED  BY <1>2, <1>11, <2>1, Ahead
<1> QED  BY <1>1, <1>12

-----------------------------------------------------------------------------
(* The plan of a delivery *)

(* A stretch of the plan holds no call of a place outside it. *)
LEMMA PieceLacks ==
  ASSUME NEW s, NEW l \in Nat, NEW m \in Nat, Piece(s, l, m), NEW y \in DeliverStep, y[1] \notin Free,
         Rank(y) < l \/ m < Rank(y)
  PROVE  ~Has(s, y)
<1>1. Rank(y) \in Nat  BY RankRange
<1> QED  BY <1>1 DEF Piece, Span, Has

(* The plan of a deployment: the staging, then the three activations *)
LEMMA DeliveryParts ==
  ASSUME NEW r
  PROVE  \E a : /\ Piece(a, 0, 60) /\ \A w \in Workers : Has(a, <<"readStaged", w>>)
                /\ Delivery(r, "deploy") = a \o ActiveSteps(r, "publisher") \o ActiveSteps(r, "rendezvous")
                                             \o ActiveSteps(r, "core") \o ClosingSteps
<1> DEFINE a1 == StagedSteps(r, "core")
           s2 == StagedSteps(r, "publisher")
           s3 == StagedSteps(r, "rendezvous")
           a2 == a1 \o s2
           a3 == a2 \o s3
           a4 == a3 \o Fence
           v == Steps("verifyStaged", DeploymentOrder)
           a5 == a4 \o v
<1>1. /\ DeploymentOrder[1] = "core" /\ DeploymentOrder[2] = "publisher" /\ DeploymentOrder[3] = "rendezvous"
      /\ ActivationOrder[1] = "publisher" /\ ActivationOrder[2] = "rendezvous" /\ ActivationOrder[3] = "core"
  BY DEF DeploymentOrder, ActivationOrder
<1>2. Delivery(r, "deploy") = a5 \o ActiveSteps(r, "publisher") \o ActiveSteps(r, "rendezvous")
                                 \o ActiveSteps(r, "core") \o ClosingSteps
  BY <1>1 DEF Delivery, When
<1>3. /\ Piece(a1, 0, 3) /\ Piece(s2, 20, 23) /\ Piece(s3, 40, 43)
      /\ Has(a1, <<"readStaged", "core">>) /\ Has(s2, <<"readStaged", "publisher">>)
      /\ Has(s3, <<"readStaged", "rendezvous">>)
  <2>1. \A w \in Workers : /\ Piece(StagedSteps(r, w), StageTurn[w], StageTurn[w] + 3)
                           /\ Has(StagedSteps(r, w), <<"readStaged", w>>)
    BY StagedPiece
  <2>2. StageTurn["core"] = 0 /\ StageTurn["publisher"] = 20 /\ StageTurn["rendezvous"] = 40  BY Ranks
  <2> QED  BY <2>1, <2>2 DEF Workers
<1>4. Piece(v, 60, 60)
  <2>1. Rank(<<"verifyStaged", "core">>) = 60  BY Ranks DEF Workers
  <2> QED  BY <2>1, TurnsPiece
<1> HIDE DEF a1, s2, s3, v
<1>5. Piece(a2, 0, 23) /\ Has(a2, <<"readStaged", "core">>) /\ Has(a2, <<"readStaged", "publisher">>)
  <2>1. Piece(a2, 0, 23)  BY <1>3, PieceCat
  <2> QED  BY <1>3, <2>1, CatHas DEF Piece
<1> HIDE DEF a2
<1>6. /\ Piece(a3, 0, 43) /\ Has(a3, <<"readStaged", "core">>) /\ Has(a3, <<"readStaged", "publisher">>)
      /\ Has(a3, <<"readStaged", "rendezvous">>)
  <2>1. Piece(a3, 0, 43)  BY <1>3, <1>5, PieceCat
  <2> QED  BY <1>3, <1>5, <2>1, CatHas DEF Piece
<1> HIDE DEF a3
<1>7. /\ Piece(a4, 0, 43) /\ Has(a4, <<"readStaged", "core">>) /\ Has(a4, <<"readStaged", "publisher">>)
      /\ Has(a4, <<"readStaged", "rendezvous">>)
  <2>1. Piece(a4, 0, 43)  BY <1>6, PieceFence
  <2> QED  BY <1>6, <2>1, FenceFacts, CatHas DEF Piece
<1> HIDE DEF a4
<1>8. Piece(a5, 0, 60) /\ \A w \in Workers : Has(a5, <<"readStaged", w>>)
  <2>1. Piece(a5, 0, 60)  BY <1>4, <1>7, PieceCat
  <2>2. /\ Has(a5, <<"readStaged", "core">>) /\ Has(a5, <<"readStaged", "publisher">>)
        /\ Has(a5, <<"readStaged", "rendezvous">>)
    BY <1>4, <1>7, CatHas DEF Piece
  <2> QED  BY <2>1, <2>2 DEF Workers
<1> QED  BY <1>2, <1>8

(* What holds of the activation of c holds of the whole delivery. *)
LEMMA DeliveryKept ==
  ASSUME NEW r, NEW c \in Callers, NEW A, NEW P, NEW b, b = <<"activate", c>>,
         Kept(ActiveSteps(r, c), A, b, P)
  PROVE  Kept(Delivery(r, "deploy"), A, b, P)
<1>1. PICK a : /\ Piece(a, 0, 60)
               /\ Delivery(r, "deploy") = a \o ActiveSteps(r, "publisher") \o ActiveSteps(r, "rendezvous")
                                            \o ActiveSteps(r, "core") \o ClosingSteps
  BY DeliveryParts
<1>2. PICK b1 : b1 = ActiveSteps(r, "publisher")  OBVIOUS
<1>3. PICK b2 : b2 = ActiveSteps(r, "rendezvous")  OBVIOUS
<1>4. PICK b3 : b3 = ActiveSteps(r, "core")  OBVIOUS
<1>5. Piece(b1, 61, 64) /\ Piece(b2, 81, 84) /\ Piece(b3, 101, 104) /\ Piece(ClosingSteps, 110, 120)
  <2>1. \A w \in Workers : Piece(ActiveSteps(r, w), ActiveTurn[w] + 61, ActiveTurn[w] + 64)
    BY ActivePiece
  <2>2. ActiveTurn["publisher"] = 0 /\ ActiveTurn["rendezvous"] = 20 /\ ActiveTurn["core"] = 40  BY Ranks
  <2> QED  BY <1>2, <1>3, <1>4, <2>1, <2>2, ClosingPiece DEF Workers
<1>6. b \in DeliverStep /\ b[1] \notin Free
  BY DEF DeliverStep, DeliverNames, Activating, Free, Callers, Workers
<1>7. (c = "publisher" /\ Rank(b) = 63) \/ (c = "rendezvous" /\ Rank(b) = 83)
  <2>1. ActiveTurn["publisher"] = 0 /\ ActiveTurn["rendezvous"] = 20  BY Ranks
  <2>2. Rank(<<"activate", c>>) = 63 + ActiveTurn[c]  BY ActiveRanks DEF Callers, Workers
  <2> QED  BY <2>1, <2>2 DEF Callers
<1>8. Kept(a, A, b, P) /\ Kept(b3, A, b, P) /\ Kept(ClosingSteps, A, b, P)
  <2>1. /\ 60 \in Nat /\ 101 \in Nat /\ 104 \in Nat /\ 110 \in Nat /\ 120 \in Nat
        /\ 60 < Rank(b) /\ Rank(b) < 101 /\ Rank(b) < 110
    BY <1>7
  <2>2. ~Has(a, b)  BY <1>1, <1>6, <2>1, PieceLacks
  <2>3. ~Has(b3, b)  BY <1>5, <1>6, <2>1, PieceLacks
  <2>4. ~Has(ClosingSteps, b)  BY <1>5, <1>6, <2>1, PieceLacks
  <2> QED  BY <2>2, <2>3, <2>4, LedNone
<1>9. Kept(b1, A, b, P) /\ Kept(b2, A, b, P)
  <2>1. CASE c = "publisher"
    <3>1. ~Has(b2, b)  BY <1>5, <1>6, <1>7, <2>1, PieceLacks
    <3> QED  BY <1>2, <2>1, <3>1, LedNone
  <2>2. CASE c = "rendezvous"
    <3>1. ~Has(b1, b)  BY <1>5, <1>6, <1>7, <2>2, PieceLacks
    <3> QED  BY <1>3, <2>2, <3>1, LedNone
  <2> QED  BY <2>1, <2>2 DEF Callers
<1>10. PICK S : S = Seq(DeliverStep)  OBVIOUS
<1>11. a \in S /\ b1 \in S /\ b2 \in S /\ b3 \in S /\ ClosingSteps \in S
  BY <1>1, <1>5, <1>10 DEF Piece
<1>12. ASSUME NEW u \in S, NEW t \in S, Kept(u, A, b, P), Kept(t, A, b, P)
       PROVE  u \o t \in S /\ Kept(u \o t, A, b, P)
  BY <1>10, <1>12, KeptCat, CatIndex
<1>13. PICK d1 \in S : d1 = a \o b1 /\ Kept(d1, A, b, P)  BY <1>8, <1>9, <1>11, <1>12
<1>14. PICK d2 \in S : d2 = d1 \o b2 /\ Kept(d2, A, b, P)  BY <1>9, <1>11, <1>12, <1>13
<1>15. PICK d3 \in S : d3 = d2 \o b3 /\ Kept(d3, A, b, P)  BY <1>8, <1>11, <1>12, <1>14
<1>16. Kept(d3 \o ClosingSteps, A, b, P)  BY <1>8, <1>11, <1>12, <1>15
<1> QED  BY <1>1, <1>2, <1>3, <1>4, <1>13, <1>14, <1>15, <1>16

-----------------------------------------------------------------------------
(* What the call x does to a delivery: it is answered, and puts u before the   *)
(* rest                                                                         *)

Handling == {"readStaged", "readActive", "verifyStaged", "handoff"}
Listed(x, u) ==
  /\ Under("deliver") /\ run.todo # <<>> /\ Head(run.todo) = x
  /\ run'.todo = u \o Tail(run.todo) /\ run'.boot = run.boot /\ run'.policy = run.policy

(* A changed Worker has the newest version; a fence takes note of all. *)
Lives(x) ==
  /\ versions \in Nat /\ versions' \in Nat /\ versions <= versions'
  /\ x \in Fences => live' = live /\ \A w \in Workers : fenced'[w] = live[w].version
  /\ x \notin Fences => fenced' = fenced
  /\ \A w \in Workers :
       \/ live'[w] = live[w]
       \/ /\ x \in {<<"stage", w>>, <<"activate", w>>, <<"patch", w>>}
          /\ versions < versions' /\ live'[w].version = versions'
Cores(x) ==
  /\ CoreIsOff => CoreIsOff' \/ x[1] \in LateNames
  /\ x = <<"readStaged", "core">> => CoreIsOff'

Papers(x) ==
  /\ run.intent \subseteq run'.intent /\ \A c \in Callers : x = <<"intent", c>> => c \in run'.intent
  /\ \A c \in run'.patched \cup run'.receipt :
       c \in run.patched \cup run.receipt \/ x = <<"patch", c>> \/ x = <<"receipt", c>>
  /\ run'.snapshot = run.snapshot \/ x[1] \in {"retireRead", "retireVerify", "completeRetirement"}
  /\ x[1] = "retireReread" => live = run.snapshot

JustHanded(kind, c) ==
  /\ run'.hand[c] # None /\ run'.hand[c].kind = kind /\ run'.hand[c].version = live[c].version
Proofs(x) == \A c \in Callers :
  /\ run'.own[c] = run.own[c] \/ x = <<"retireVerify", c>>
  /\ \/ run'.hand[c] = run.hand[c] /\ x # <<"completeRetirement", c>> /\ x # <<"completeObservation", c>>
     \/ x = <<"completeRetirement", c>> /\ JustHanded("retired", c) /\ live[c] = run.own[c]
     \/ x = <<"completeObservation", c>> /\ JustHanded("observed", c)
  /\ x = <<"readRetired", c>> => live[c] = run.own[c]
  /\ x = <<"readObserved", c>> => live[c].version = run.hand[c].version
Waits(x) ==
  \/ run'.pending = run.pending
  \/ \E w \in Workers : run'.pending = Without(run.pending, w)
  \/ \E c \in Callers : x = <<"completeRetirement", c>> /\ run'.pending = Append(run.pending, c)

(* Only four kinds of calls put others before the rest. *)
Adds(x, u) ==
  /\ u \in Seq(DeliverStep)
  /\ u # <<>> => x[1] \in Handling
  /\ \A i \in 1..Len(u) : u[i][1] \notin {"readStaged", "activate"} /\ (u[i][1] = "patch" => x[1] = "readStaged")
  /\ \A c \in Callers :
       /\ Kept(u, Spoilers(Rereading(c)), <<"patch", c>>, Rereading(c))
       /\ Has(u, <<"patch", c>>) => Has(u, <<"intent", c>>)
       /\ Has(u, <<"patch", c>>) \/ Has(u, <<"retireVerify", c>>) \/ Some(u, Hands(c)) => x = <<"readStaged", c>>
AddsProofs(x, u) == \A c \in Callers :
  /\ Kinds(u, c)
  /\ x = <<"readStaged", c>> => Some(u, Hands(c))
  /\ x = <<"handoff", c>> => \E y \in Provers(c) :
       u = Fence \o (<<y>> \o <<<<"authorize", c>>>>) \/ u = <<y>> \o <<<<"authorize", c>>>>

-----------------------------------------------------------------------------
(* What a delivery has made good of its callers stays good *)

LEMMA NamesOf ==
  ASSUME NEW n, NEW w, NEW m, NEW v
  PROVE  <<n, w>>[1] = n /\ <<n, w>>[2] = w /\ (<<n, w>> = <<m, v>> <=> n = m /\ w = v)
OBVIOUS

(* The list before and after the call *)
Lists(s, t, x, u) ==
  /\ s \in Seq(DeliverStep) /\ t \in Seq(DeliverStep) /\ u \in Seq(DeliverStep)
  /\ s = run.todo /\ t = Tail(s) /\ s # <<>> /\ Head(s) = x /\ x \in DeliverStep
  /\ Orderly(s) /\ Orderly(t) /\ run'.todo = u \o t /\ (u = <<>> => u \o t = t)
  /\ \A y : Has(s, y) <=> y = x \/ Has(t, y)
  /\ \A Y : Some(s, Y) <=> x \in Y \/ Some(t, Y)
  /\ \A y : Has(u \o t, y) <=> Has(u, y) \/ Has(t, y)
  /\ \A Y : Some(u \o t, Y) <=> Some(u, Y) \/ Some(t, Y)

(* The lists of calls before and after an answer *)
LEMMA AfterCall ==
  ASSUME CourseInv, NEW x, NEW u, Listed(x, u), Adds(x, u)
  PROVE  \E s, t : Lists(s, t, x, u)
<1>1. PICK s \in Seq(DeliverStep) : s = run.todo /\ Orderly(s) /\ s # <<>> /\ Head(s) = x
  BY DEF CourseInv, Modes, Listed
<1>2. PICK t : t = Tail(s)  OBVIOUS
<1>3. t \in Seq(DeliverStep) /\ Orderly(t) /\ x \in DeliverStep  BY <1>1, <1>2, OrderlyTail
<1>4. u \in Seq(DeliverStep)  BY DEF Adds
<1>5. u \o t \in Seq(DeliverStep) /\ (u = <<>> => u \o t = t)  BY <1>3, <1>4
<1>6. /\ \A y : Has(s, y) <=> y = x \/ Has(t, y)
      /\ \A Y : Some(s, Y) <=> x \in Y \/ Some(t, Y)
  <2>1. /\ s[1] = x /\ 1 \in 1..Len(s) /\ Len(s) \in Nat /\ Len(t) = Len(s) - 1
        /\ \A i \in 1..Len(t) : i + 1 \in 1..Len(s) /\ t[i] = s[i + 1]
    BY <1>1, <1>2, TailIndex
  <2>2. \A i \in 1..Len(s) : i = 1 \/ (i - 1 \in 1..Len(t) /\ t[i - 1] = s[i])
    <3>1. ASSUME NEW i \in 1..Len(s), i # 1 PROVE i - 1 \in 1..Len(t) /\ t[i - 1] = s[i]
      <4>1. i - 1 \in 1..Len(t) /\ (i - 1) + 1 = i  BY <2>1, <3>1
      <4> QED  BY <2>1, <4>1
    <3> QED  BY <3>1
  <2> QED  BY <2>1, <2>2 DEF Has, Some
<1>7. /\ \A y : Has(u \o t, y) <=> Has(u, y) \/ Has(t, y)
      /\ \A Y : Some(u \o t, Y) <=> Some(u, Y) \/ Some(t, Y)
  BY <1>3, <1>4, CatHas
<1>8. run'.todo = u \o t  BY <1>1, <1>2 DEF Listed
<1> QED  BY <1>1, <1>2, <1>3, <1>4, <1>5, <1>6, <1>7, <1>8 DEF Lists

(* The core stays disabled until nothing is left to be staged or patched. *)
LEMMA CoreStaysDown ==
  ASSUME CourseInv, NEW x, NEW u, Listed(x, u), Adds(x, u), Cores(x), CoreDown(run.todo)
  PROVE  CoreDown(run.todo)'
<1>0. PICK s, t : Lists(s, t, x, u)  BY AfterCall
<1>1. /\ s \in Seq(DeliverStep) /\ t \in Seq(DeliverStep)
      /\ s = run.todo /\ t = Tail(s) /\ s # <<>> /\ Head(s) = x /\ x \in DeliverStep
      /\ Orderly(s) /\ run'.todo = u \o t
      /\ \A y : Has(s, y) <=> y = x \/ Has(t, y)
      /\ \A y : Has(u \o t, y) <=> Has(u, y) \/ Has(t, y)
  BY <1>0 DEF Lists
<1>2. x[1] \in DeliverNames /\ x[2] \in Workers /\ x = <<x[1], x[2]>>  BY <1>1, RankRange
<1>3. u \in Seq(DeliverStep)  BY DEF Adds
<1>4. ASSUME NoneStaged(t), x[1] # "readStaged" PROVE NoneStaged(u \o t)
  <2>1. \A i \in 1..Len(u) : u[i][1] \notin {"readStaged", "patch"}  BY <1>4 DEF Adds
  <2>2. PICK z : z = u \o t  OBVIOUS
  <2>3. /\ \A i \in 1..Len(z) : i \in 1..Len(u) \/ i - Len(u) \in 1..Len(t)
        /\ \A i \in 1..Len(u) : z[i] = u[i]
        /\ \A i \in 1..Len(z) : i \notin 1..Len(u) => z[i] = t[i - Len(u)]
    BY <1>1, <1>3, <2>2, CatIndex
  <2>4. \A i \in 1..Len(z) : z[i][1] \notin {"readStaged", "patch"}
    BY <1>4, <2>1, <2>3 DEF NoneStaged
  <2> QED  BY <2>2, <2>4 DEF NoneStaged
<1>5. CASE NoneStaged(s)
  <2>1. /\ Len(t) \in Nat /\ \A i \in 1..Len(t) : i + 1 \in 1..Len(s) /\ t[i] = s[i + 1]
        /\ x = s[1] /\ 1 \in 1..Len(s)
    BY <1>1, TailIndex
  <2>2. NoneStaged(t) /\ x[1] # "readStaged"  BY <1>5, <2>1 DEF NoneStaged
  <2> QED  BY <1>1, <1>4, <2>2 DEF CoreDown
<1>6. CASE Has(s, <<"readStaged", "core">>) \/ CoreIsOff
  <2>1. CASE x = <<"readStaged", "core">>  BY <2>1 DEF CoreDown, Cores
  <2>2. CASE x # <<"readStaged", "core">> /\ Has(s, <<"readStaged", "core">>)
    BY <1>1, <2>2 DEF CoreDown
  <2>3. CASE CoreIsOff /\ x[1] \in LateNames
    <3>1. NoneStaged(t)  BY <1>1, <1>2, <2>3, LateHead
    <3>2. x[1] # "readStaged"  BY <2>3 DEF LateNames
    <3> QED  BY <1>1, <1>4, <3>1, <3>2 DEF CoreDown
  <2>4. CASE CoreIsOff /\ x[1] \notin LateNames  BY <2>4 DEF CoreDown, Cores
  <2> QED  BY <1>6, <2>1, <2>2, <2>3, <2>4
<1> QED  BY <1>1, <1>5, <1>6 DEF CoreDown

(* The calls of a retirement, in their order *)
LEMMA RetiringPlaces ==
  ASSUME NEW c \in Callers
  PROVE  /\ c \in Workers
         /\ \A n \in {"readStaged", "intent", "patch", "retireVerify", "receipt", "completeRetirement",
                      "completeObservation"} :
              <<n, c>> \in DeliverStep /\ n \notin Free /\ n \notin Repeating /\ Rank(<<n, c>>) \in Nat
         /\ Rank(<<"readStaged", c>>) < Rank(<<"completeObservation", c>>)
         /\ Rank(<<"readStaged", c>>) < Rank(<<"patch", c>>)
         /\ Rank(<<"patch", c>>) < Rank(<<"retireVerify", c>>)
         /\ Rank(<<"retireVerify", c>>) < Rank(<<"receipt", c>>)
         /\ Rank(<<"receipt", c>>) < Rank(<<"completeRetirement", c>>)
<1>1. c \in Workers  BY DEF Callers, Workers
<1>2. PICK T \in Nat : T = StageTurn[c]  BY <1>1, TurnsNat
<1>3. Rank(<<"readStaged", c>>) = 3 + T  BY <1>1, <1>2, Ranks
<1>4. Rank(<<"completeObservation", c>>) = 5 + T  BY <1>1, <1>2, Ranks
<1>5. Rank(<<"intent", c>>) = 8 + T  BY <1>1, <1>2, Ranks
<1>6. Rank(<<"patch", c>>) = 10 + T  BY <1>1, <1>2, Ranks
<1>7. Rank(<<"retireVerify", c>>) = 11 + T  BY <1>1, <1>2, Ranks
<1>8. Rank(<<"receipt", c>>) = 12 + T  BY <1>1, <1>2, Ranks
<1>9. Rank(<<"completeRetirement", c>>) = 14 + T  BY <1>1, <1>2, Ranks
<1>10. ASSUME NEW n \in {"readStaged", "intent", "patch", "retireVerify", "receipt", "completeRetirement",
                         "completeObservation"}
       PROVE  <<n, c>> \in DeliverStep /\ n \notin Free /\ n \notin Repeating /\ Rank(<<n, c>>) \in Nat
  <2>1. n \in DeliverNames /\ n \notin Free /\ n \notin Repeating
    BY DEF DeliverNames, Staging2, Retiring, Free, Repeating
  <2>2. <<n, c>> \in DeliverStep  BY <1>1, <2>1 DEF DeliverStep
  <2> QED  BY <2>1, <2>2, RankRange
<1> QED  BY <1>1, <1>3, <1>4, <1>6, <1>7, <1>8, <1>9, <1>10

(* A call is behind: what has a lower place, or its own, is no longer left. *)
LEMMA GoneBehind ==
  ASSUME NEW s, NEW t, NEW x, NEW u, Lists(s, t, x, u), NEW n, NEW c \in Callers, x = <<n, c>>,
         n \in {"readStaged", "patch", "retireVerify", "receipt", "completeRetirement", "completeObservation"}
  PROVE  /\ ~Has(t, x) /\ ~Has(t, <<"readStaged", c>>)
         /\ n # "readStaged" /\ n # "completeObservation" => ~Has(t, <<"patch", c>>)
         /\ n \in {"receipt", "completeRetirement"} => ~Has(t, <<"retireVerify", c>>)
<1>1. /\ s \in Seq(DeliverStep) /\ s # <<>> /\ Orderly(s) /\ Head(s) = x /\ t = Tail(s)
  BY DEF Lists
<1>2. /\ \A m \in {"readStaged", "intent", "patch", "retireVerify", "receipt", "completeRetirement",
                      "completeObservation"} :
              <<m, c>> \in DeliverStep /\ m \notin Free /\ m \notin Repeating /\ Rank(<<m, c>>) \in Nat
      /\ Rank(<<"readStaged", c>>) < Rank(<<"completeObservation", c>>)
      /\ Rank(<<"readStaged", c>>) < Rank(<<"patch", c>>)
      /\ Rank(<<"patch", c>>) < Rank(<<"retireVerify", c>>)
      /\ Rank(<<"retireVerify", c>>) < Rank(<<"receipt", c>>)
      /\ Rank(<<"receipt", c>>) < Rank(<<"completeRetirement", c>>)
  BY RetiringPlaces
<1>3. n \notin Free /\ n \notin Repeating /\ Head(s)[1] = n  BY <1>1, <1>2
<1>4. ASSUME NEW m \in {"readStaged", "patch", "retireVerify", "receipt", "completeRetirement",
                        "completeObservation"},
             Rank(<<m, c>>) < Rank(x) \/ m = n
      PROVE  ~Has(t, <<m, c>>)
  <2>1. PICK y \in DeliverStep : y = <<m, c>> /\ y[1] \notin Free  BY <1>2
  <2>2. Rank(y) < Rank(Head(s)) \/ Rank(y) = Rank(Head(s))  BY <1>1, <1>4, <2>1
  <2>3. ~Has(Tail(s), y)  BY <1>1, <1>3, <2>1, <2>2, Gone
  <2> QED  BY <1>1, <2>1, <2>3
<1>5. ~Has(t, x)  BY <1>4
<1>6. ~Has(t, <<"readStaged", c>>)
  <2>1. n = "readStaged" \/ Rank(<<"readStaged", c>>) < Rank(x)  BY <1>2
  <2> QED  BY <1>4, <2>1
<1>7. n # "readStaged" /\ n # "completeObservation" => ~Has(t, <<"patch", c>>)
  <2>1. n = "patch" \/ n = "readStaged" \/ n = "completeObservation" \/ Rank(<<"patch", c>>) < Rank(x)
    BY <1>2
  <2> QED  BY <1>4, <2>1
<1>8. n \in {"receipt", "completeRetirement"} => ~Has(t, <<"retireVerify", c>>)
  <2>1. n \in {"receipt", "completeRetirement"} => Rank(<<"retireVerify", c>>) < Rank(x)  BY <1>2
  <2> QED  BY <1>4, <2>1
<1> QED  BY <1>5, <1>6, <1>7, <1>8

(* A call that puts others before the rest leaves none of theirs in it. *)
LEMMA NothingLeft ==
  ASSUME NEW s, NEW t, NEW x, NEW u, Lists(s, t, x, u), x[1] \in Handling, NEW c \in Callers
  PROVE  ~Has(t, <<"patch", c>>)
<1>1. PICK y \in DeliverStep : y = <<"patch", c>> /\ y[1] \notin Free /\ y[1] \in Inserting
  BY RetiringPlaces, InsertKinds
<1>2. x[1] \notin Free /\ x[1] \notin Inserting  BY InsertKinds DEF Handling
<1>3. ~Has(Tail(s), y)
  <2>1. s \in Seq(DeliverStep) /\ s # <<>> /\ Orderly(s) /\ Head(s) = x  BY DEF Lists
  <2> QED  BY <1>1, <1>2, <2>1, Gone
<1> QED  BY <1>1, <1>3 DEF Lists

LEMMA KindOfCall ==
  ASSUME NEW x \in DeliverStep, NEW P
  PROVE  x \in P \/ x \in Authorities \/ x \in Spoilers(P)
BY StepSets DEF Spoilers

(* What leads the PATCH of a caller, or holds behind it, does so after any call. *)
LEMMA RetirementStays ==
  ASSUME CourseInv, NEW x, NEW u, Listed(x, u), Adds(x, u), Lives(x), Papers(x),
         NEW c \in Callers, Retired(run.todo, c)
  PROVE  Retired(run.todo, c)'
<1>0. PICK s, t : Lists(s, t, x, u)  BY AfterCall
<1>1. /\ s \in Seq(DeliverStep) /\ t \in Seq(DeliverStep) /\ u \in Seq(DeliverStep)
      /\ s = run.todo /\ t = Tail(s) /\ s # <<>> /\ Head(s) = x /\ x \in DeliverStep
      /\ run'.todo = u \o t /\ (u = <<>> => u \o t = t)
      /\ \A y : Has(s, y) <=> y = x \/ Has(t, y)
      /\ \A y : Has(u \o t, y) <=> Has(u, y) \/ Has(t, y)
  BY <1>0 DEF Lists
<1>2. PICK P : P = Rereading(c)  OBVIOUS
<1>3. PICK A : A = Spoilers(P)  OBVIOUS
<1>4. PICK b : b = <<"patch", c>>  OBVIOUS
<1>5. /\ Between(s, A, b, P) /\ Intended(s, c) /\ Once(s, c)
      /\ Led(s, b, P) \/ SnapshotKept
  BY <1>1, <1>2, <1>3, <1>4 DEF Retired, Snapped
<1>6. /\ Between(t, A, b, P) /\ (x \in A => Led(t, b, P))
      /\ Led(s, b, P) /\ x \notin P => Led(t, b, P)
  BY <1>1, <1>5, TailLed
<1>7. Kept(u, A, b, P)  BY <1>2, <1>3, <1>4 DEF Adds
<1>8. u # <<>> => Kept(t, A, b, P)
  <2>1. u # <<>> => ~Has(t, b)  BY <1>0, <1>4, NothingLeft DEF Adds
  <2> QED  BY <2>1, LedNone
<1>9. Between(run'.todo, A, b, P)
  <2>1. CASE u = <<>>  BY <1>1, <1>6, <2>1
  <2>2. CASE u # <<>>  BY <1>1, <1>7, <1>8, <2>2, KeptCat DEF Kept
  <2> QED  BY <2>1, <2>2
<1>10. Intended(run.todo, c)'
  <2>1. Has(run'.todo, b) => c \in run'.intent \/ Has(run'.todo, <<"intent", c>>)
    <3>1. Has(u, b) => Has(u, <<"intent", c>>)  BY <1>4 DEF Adds
    <3>2. Has(s, b) => c \in run.intent \/ Has(s, <<"intent", c>>)  BY <1>4, <1>5 DEF Intended
    <3>3. run.intent \subseteq run'.intent /\ (x = <<"intent", c>> => c \in run'.intent)
      BY DEF Papers
    <3> QED  BY <1>1, <3>1, <3>2, <3>3
  <2> QED  BY <1>4, <2>1 DEF Intended
<1>11. Once(run.todo, c)'
  <2> SUFFICES ASSUME c \in run'.patched \cup run'.receipt
               PROVE  ~Has(run'.todo, b) /\ ~Has(run'.todo, <<"readStaged", c>>)
    BY <1>4 DEF Once
  <2>1. c \in run.patched \cup run.receipt \/ x = <<"patch", c>> \/ x = <<"receipt", c>>
    BY DEF Papers
  <2>2. ~Has(t, b) /\ ~Has(t, <<"readStaged", c>>)
    <3>1. CASE c \in run.patched \cup run.receipt
      <4>1. ~Has(s, b) /\ ~Has(s, <<"readStaged", c>>)  BY <1>4, <1>5, <3>1 DEF Once
      <4> QED  BY <1>1, <4>1
    <3>2. CASE x = <<"patch", c>>  BY <1>0, <1>4, <3>2, GoneBehind
    <3>3. CASE x = <<"receipt", c>>
      <4>1. PICK n \in {"receipt"} : x = <<n, c>>  BY <3>3
      <4>2. n # "readStaged" /\ n # "completeObservation"  BY <4>1
      <4> QED  BY <1>0, <1>4, <4>1, <4>2, GoneBehind
    <3> QED  BY <2>1, <3>1, <3>2, <3>3
  <2>3. ~Has(u, <<"readStaged", c>>)
    <3>1. \A i \in 1..Len(u) : u[i][1] # "readStaged"  BY DEF Adds
    <3> QED  BY <3>1 DEF Has
  <2>4. ~Has(u, b)
    <3>1. Has(u, b) => x = <<"readStaged", c>>  BY <1>4 DEF Adds
    <3>2. x = <<"readStaged", c>> => c \notin run.patched \cup run.receipt
      BY <1>1, <1>5 DEF Once
    <3> QED  BY <2>1, <3>1, <3>2
  <2> QED  BY <1>1, <2>2, <2>3, <2>4
<1>12. Led(run'.todo, b, P) \/ SnapshotKept'
  <2>1. CASE u # <<>>
    <3>1. Kept(u \o t, A, b, P)  BY <1>1, <1>7, <1>8, <2>1, KeptCat
    <3> QED  BY <1>1, <3>1 DEF Kept
  <2>2. CASE u = <<>> /\ x \in P
    <3>1. x = <<"retireReread", c>> /\ x[1] = "retireReread"  BY <1>2, <2>2 DEF Rereading
    <3>2. live = run.snapshot /\ run'.snapshot = run.snapshot  BY <3>1 DEF Papers
    <3>3. \A w \in Workers : live'[w] = live[w]  BY <3>1 DEF Lives
    <3> QED  BY <3>2, <3>3 DEF SnapshotKept
  <2>3. CASE u = <<>> /\ x \in Authorities /\ x \notin P
    <3>1. x[1] = "authorize"  BY <2>3 DEF Authorities
    <3>2. run'.snapshot = run.snapshot /\ fenced' = fenced
      BY <3>1 DEF Papers, Lives, Fences
    <3>3. \A w \in Workers : live'[w] = live[w]  BY <3>1 DEF Lives
    <3>4. SnapshotKept => SnapshotKept'  BY <3>2, <3>3 DEF SnapshotKept
    <3> QED  BY <1>1, <1>5, <1>6, <2>3, <3>4
  <2>4. CASE u = <<>> /\ x \in A  BY <1>1, <1>6, <2>4
  <2> QED  BY <1>1, <1>3, <2>1, <2>2, <2>3, <2>4, KindOfCall
<1> QED  BY <1>2, <1>3, <1>4, <1>9, <1>10, <1>11, <1>12 DEF Retired, Snapped

(* What leads an activation, once the call has been answered *)
LEMMA ActivationLed ==
  ASSUME CourseInv, NEW x, NEW u, NEW s, NEW t, Lists(s, t, x, u), Adds(x, u), AddsProofs(x, u),
         NEW c \in Callers, NEW b, b = <<"activate", c>>,
         Between(s, Spoilers(Provers(c)), b, Provers(c)), Between(s, Hands(c), b, Fences)
  PROVE  /\ Between(run'.todo, Spoilers(Provers(c)), b, Provers(c))
         /\ Between(run'.todo, Hands(c), b, Fences)
         /\ u # <<>> \/ x \in Spoilers(Provers(c)) \/ x = <<"handoff", c>> =>
              Led(run'.todo, b, Provers(c))
         /\ x \in Hands(c) \/ (Led(s, b, Fences) /\ x \notin Fences) => Led(run'.todo, b, Fences)
         /\ Between(t, Spoilers(Provers(c)), b, Provers(c))
<1>1. /\ s \in Seq(DeliverStep) /\ t \in Seq(DeliverStep) /\ u \in Seq(DeliverStep)
      /\ t = Tail(s) /\ s # <<>> /\ Head(s) = x /\ x \in DeliverStep
      /\ run'.todo = u \o t /\ (u = <<>> => u \o t = t)
  BY DEF Lists
<1>2. PICK P : P = Provers(c)  OBVIOUS
<1>3. PICK A : A = Spoilers(P)  OBVIOUS
<1>4. /\ Between(t, A, b, P) /\ (x \in A => Led(t, b, P))
      /\ Between(t, Hands(c), b, Fences) /\ (x \in Hands(c) => Led(t, b, Fences))
      /\ Led(s, b, Fences) /\ x \notin Fences => Led(t, b, Fences)
  BY <1>1, <1>2, <1>3, TailLed
<1>5. \A B, Q : Kept(u, B, b, Q)
  <2>1. \A i \in 1..Len(u) : u[i][1] # "activate"  BY DEF Adds
  <2>2. ~Has(u, b)  BY <2>1 DEF Has
  <2> QED  BY <2>2, LedNone
<1>6. Between(u \o t, Hands(c), b, Fences)
  <2>1. Some(u, Hands(c)) => x = <<"readStaged", c>>  BY DEF Adds
  <2>2. Some(u, Hands(c)) => Led(t, b, Fences)  BY <1>4, <2>1 DEF Hands
  <2> QED  BY <1>1, <1>4, <1>5, <2>2, CatLed DEF Kept
<1>7. Led(t, b, Fences) => Led(u \o t, b, Fences)
  <2>1. Led(u, b, Fences)  BY <1>5 DEF Kept
  <2> QED  BY <1>1, <2>1, CatLed
<1>8. CASE x = <<"handoff", c>>
  <2>1. PICK y \in Provers(c) :
          u = Fence \o (<<y>> \o <<<<"authorize", c>>>>) \/ u = <<y>> \o <<<<"authorize", c>>>>
    BY <1>8 DEF AddsProofs
  <2>2. PICK a : a = <<"authorize", c>>  OBVIOUS
  <2>3. PICK f : f = <<"fence", "core">>  OBVIOUS
  <2>4. a \in DeliverStep /\ f \in DeliverStep /\ y \in DeliverStep /\ a # b /\ f # b /\ y # b
    BY <2>1, <2>2, <2>3, InsertKinds
       DEF DeliverStep, DeliverNames, Provers, Activating, Free, Workers, Callers
  <2>5. a \notin A /\ y \in P  BY <1>2, <1>3, <2>1, <2>2 DEF Spoilers, Authorities, Callers, Workers
  <2>6. PICK z1 : z1 = <<a>> \o t  OBVIOUS
  <2>7. z1 \in Seq(DeliverStep) /\ Between(z1, A, b, P)
    <3>1. <<a>> \in Seq(DeliverStep)  BY <2>4
    <3>2. z1 \in Seq(DeliverStep)  BY <1>1, <2>6, <3>1, CatIndex
    <3>3. Between(z1, A, b, P)  BY <1>1, <1>4, <2>4, <2>5, <2>6, PutLed
    <3> QED  BY <3>2, <3>3
  <2>8. PICK z2 : z2 = <<y>> \o z1  OBVIOUS
  <2>9. z2 \in Seq(DeliverStep) /\ Between(z2, A, b, P) /\ Led(z2, b, P)
    <3>1. y \notin A  BY <1>3, <2>5 DEF Spoilers
    <3>2. <<y>> \in Seq(DeliverStep)  BY <2>4
    <3>3. z2 \in Seq(DeliverStep)  BY <2>7, <2>8, <3>2, CatIndex
    <3>4. Between(z2, A, b, P) /\ Led(z2, b, P)  BY <2>4, <2>5, <2>7, <2>8, <3>1, PutLed
    <3> QED  BY <3>3, <3>4
  <2>10. Between(<<f>> \o z2, A, b, P) /\ Led(<<f>> \o z2, b, P)  BY <2>4, <2>9, PutLed
  <2>11. PICK ya \in Seq(DeliverStep) : ya = <<y>> \o <<a>>
    <3>1. <<y>> \in Seq(DeliverStep) /\ <<a>> \in Seq(DeliverStep)  BY <2>4
    <3> QED  BY <3>1, CatIndex
  <2>12. ya \o t = z2
    <3>1. <<y>> \in Seq(DeliverStep) /\ <<a>> \in Seq(DeliverStep)  BY <2>4
    <3> QED  BY <1>1, <2>6, <2>8, <2>11, <3>1, CatAssoc
  <2>13. (Fence \o ya) \o t = <<f>> \o z2
    <3>1. PICK g \in Seq(DeliverStep) : g = <<f>>
      <4>1. <<f>> \in Seq(DeliverStep)  BY <2>4
      <4> QED  BY <4>1
    <3>2. Fence = g  BY <2>3, <3>1 DEF Fence
    <3>3. (g \o ya) \o t = g \o (ya \o t)
      <4>1. t \in Seq(DeliverStep)  BY <1>1
      <4> QED  BY <4>1, CatAssoc, SMTT(40)
    <3> QED  BY <2>12, <3>1, <3>2, <3>3
  <2>14. u \o t = z2 \/ u \o t = <<f>> \o z2  BY <2>1, <2>2, <2>11, <2>12, <2>13
  <2>15. Between(u \o t, A, b, P) /\ Led(u \o t, b, P)  BY <2>9, <2>10, <2>14
  <2> QED  BY <1>1, <1>2, <1>3, <1>4, <1>6, <1>7, <2>15
<1>9. CASE x # <<"handoff", c>>
  <2>1. u # <<>> => x \in A
    <3>1. u # <<>> => x[1] \in Handling  BY DEF Adds
    <3>2. x[1] \in Handling => x \notin Provers(c) /\ x \notin Authorities
      BY <1>9 DEF Handling, Provers, Authorities
    <3>3. x \in Step  BY <1>1, StepSets
    <3> QED  BY <1>2, <1>3, <3>1, <3>2, <3>3 DEF Spoilers
  <2>2. Led(t, b, P) => Led(u \o t, b, P) /\ Between(u \o t, A, b, P)
    <3>1. Led(t, b, P) => Kept(t, A, b, P)  BY <1>4 DEF Kept
    <3>2. Kept(u, A, b, P)  BY <1>5
    <3>3. Kept(t, A, b, P) => Kept(u \o t, A, b, P)  BY <1>1, <3>2, KeptCat
    <3> QED  BY <3>1, <3>3 DEF Kept
  <2>3. Between(u \o t, A, b, P)
    <3>1. CASE u = <<>>  BY <1>1, <1>4, <3>1
    <3>2. CASE u # <<>>  BY <1>4, <2>1, <2>2, <3>2
    <3> QED  BY <3>1, <3>2
  <2>4. u # <<>> \/ x \in A \/ x = <<"handoff", c>> => Led(u \o t, b, P)
    BY <1>4, <1>9, <2>1, <2>2
  <2>5. x \in Hands(c) \/ (Led(s, b, Fences) /\ x \notin Fences) => Led(u \o t, b, Fences)
    BY <1>4, <1>7
  <2> QED  BY <1>1, <1>2, <1>3, <1>4, <1>6, <2>3, <2>4, <2>5
<1> QED  BY <1>8, <1>9

(* The same of the activation of a caller, from its handoff on *)
LEMMA HandoverStays ==
  ASSUME CourseInv, NEW x, NEW u, Listed(x, u), Adds(x, u), AddsProofs(x, u), Lives(x), Proofs(x),
         NEW c \in Callers, Handed(run.todo, c)
  PROVE  Handed(run.todo, c)'
<1>0. PICK s, t : Lists(s, t, x, u)  BY AfterCall
<1>1. /\ s \in Seq(DeliverStep) /\ t \in Seq(DeliverStep) /\ u \in Seq(DeliverStep)
      /\ s = run.todo /\ t = Tail(s) /\ s # <<>> /\ Head(s) = x /\ x \in DeliverStep
      /\ Orderly(t) /\ run'.todo = u \o t /\ (u = <<>> => u \o t = t)
      /\ \A y : Has(s, y) <=> y = x \/ Has(t, y)
      /\ \A Y : Some(s, Y) <=> x \in Y \/ Some(t, Y)
      /\ \A y : Has(u \o t, y) <=> Has(u, y) \/ Has(t, y)
      /\ \A Y : Some(u \o t, Y) <=> Some(u, Y) \/ Some(t, Y)
  BY <1>0 DEF Lists
<1>2. PICK P : P = Provers(c)  OBVIOUS
<1>3. PICK A : A = Spoilers(P)  OBVIOUS
<1>4. PICK b : b = <<"activate", c>>  OBVIOUS
<1>5. /\ Between(s, A, b, P) /\ Between(s, Hands(c), b, Fences) /\ Kinds(s, c) /\ HandKnown(s, c)
      /\ HandProven(s, c) /\ (Led(s, b, Fences) \/ Held(c)) /\ (Led(s, b, P) \/ Fresh(c))
  BY <1>1, <1>2, <1>3, <1>4 DEF Handed, HeldFenced, FreshProven
<1>6. /\ Between(run'.todo, A, b, P) /\ Between(run'.todo, Hands(c), b, Fences)
      /\ u # <<>> \/ x \in A \/ x = <<"handoff", c>> => Led(run'.todo, b, P)
      /\ x \in Hands(c) \/ (Led(s, b, Fences) /\ x \notin Fences) => Led(run'.todo, b, Fences)
      /\ Between(t, A, b, P)
  BY <1>0, <1>2, <1>3, <1>4, <1>5, ActivationLed
<1>7. /\ run'.policy = run.policy /\ live[c].version \in Nat /\ live[c].version <= versions
      /\ versions \in Nat /\ versions' \in Nat /\ versions <= versions'
      /\ c \in Workers
  <2>1. live \in [Workers -> Version] /\ \A w \in Workers : live[w].version <= versions
    BY DEF CourseInv, Types
  <2>2. c \in Workers  BY DEF Callers, Workers
  <2> QED  BY <2>1, <2>2 DEF Lives, Listed, Version
<1>8. /\ \A i \in 1..Len(u) : u[i][1] # "readStaged"
      /\ Has(u, <<"retireVerify", c>>) => x = <<"readStaged", c>>
      /\ Kinds(u, c) /\ (x = <<"readStaged", c>> => Some(u, Hands(c)))
  BY DEF Adds, AddsProofs
<1>9. Kinds(run.todo, c)'
  <2>1. Kinds(u \o t, c)
    <3>1. Kinds(t, c)  BY <1>1, <1>5 DEF Kinds
    <3> QED  BY <1>1, <1>8, <3>1 DEF Kinds
  <2> QED  BY <1>1, <1>7, <2>1 DEF Kinds
<1>10. HandKnown(run.todo, c)'
  <2>1. run.hand[c] # None => run'.hand[c] # None  BY DEF Proofs, JustHanded
  <2>2. x \in Hands(c) => Some(u, Hands(c)) \/ run'.hand[c] # None
    BY <1>8 DEF Hands, Proofs, JustHanded
  <2>3. run.hand[c] # None \/ x \in Hands(c) \/ Some(t, Hands(c))  BY <1>1, <1>5 DEF HandKnown
  <2>4. run'.hand[c] # None \/ Some(run'.todo, Hands(c))  BY <1>1, <2>1, <2>2, <2>3
  <2> QED  BY <2>4 DEF HandKnown
<1>11. \/ run'.hand[c] = run.hand[c] /\ x # <<"completeRetirement", c>> /\ x # <<"completeObservation", c>>
       \/ x = <<"completeRetirement", c>> /\ JustHanded("retired", c) /\ live[c] = run.own[c]
       \/ x = <<"completeObservation", c>> /\ JustHanded("observed", c)
  BY DEF Proofs
<1>12. HandProven(run.todo, c)'
  <2> SUFFICES ASSUME run'.hand[c] # None
      PROVE  /\ run'.hand[c].version \in Nat /\ run'.hand[c].version <= versions'
             /\ run'.hand[c].kind = "retired" => run'.policy[c].pair
             /\ run'.policy[c].pair => run'.own[c].version = run'.hand[c].version
             /\ ~Has(run'.todo, <<"retireVerify", c>>) /\ ~Has(run'.todo, <<"readStaged", c>>)
    BY DEF HandProven
  <2>1. ~Has(u, <<"readStaged", c>>)  BY <1>8 DEF Has
  <2>2. CASE run'.hand[c] = run.hand[c] /\ x # <<"completeRetirement", c>> /\ x # <<"completeObservation", c>>
    <3>1. /\ run.hand[c].version \in Nat /\ run.hand[c].version <= versions
          /\ run.hand[c].kind = "retired" => run.policy[c].pair
          /\ run.policy[c].pair => run.own[c].version = run.hand[c].version
          /\ ~Has(s, <<"retireVerify", c>>) /\ ~Has(s, <<"readStaged", c>>)
      BY <1>5, <2>2 DEF HandProven
    <3>2. x # <<"retireVerify", c>> /\ x # <<"readStaged", c>>  BY <1>1, <3>1
    <3>3. run'.own[c] = run.own[c]  BY <3>2 DEF Proofs
    <3>4. ~Has(u, <<"retireVerify", c>>)  BY <1>8, <3>2
    <3> QED  BY <1>1, <1>7, <2>1, <2>2, <3>1, <3>3, <3>4
  <2>3. CASE x = <<"completeRetirement", c>> /\ JustHanded("retired", c) /\ live[c] = run.own[c]
    <3>1. PICK n \in {"completeRetirement"} : x = <<n, c>>  BY <2>3
    <3>2. ~Has(t, <<"retireVerify", c>>) /\ ~Has(t, <<"readStaged", c>>)
      BY <1>0, <3>1, GoneBehind
    <3>3. run.policy[c].pair  BY <1>1, <1>5, <2>3 DEF Kinds
    <3>4. x # <<"retireVerify", c>> /\ x # <<"readStaged", c>>  BY <2>3
    <3>5. run'.own[c] = run.own[c]  BY <3>4 DEF Proofs
    <3>6. ~Has(u, <<"retireVerify", c>>)  BY <1>8, <3>4
    <3> QED  BY <1>1, <1>7, <2>1, <2>3, <3>2, <3>3, <3>5, <3>6 DEF JustHanded
  <2>4. CASE x = <<"completeObservation", c>> /\ JustHanded("observed", c)
    <3>1. PICK n \in {"completeObservation"} : x = <<n, c>>  BY <2>4
    <3>2. ~Has(t, <<"readStaged", c>>)  BY <1>0, <3>1, GoneBehind
    <3>3. ~run.policy[c].pair  BY <1>1, <1>5, <2>4 DEF Kinds
    <3>4. ~Has(t, <<"retireVerify", c>>)  BY <1>1, <1>5, <3>3 DEF Kinds
    <3>5. x # <<"readStaged", c>>  BY <2>4
    <3>6. ~Has(u, <<"retireVerify", c>>)  BY <1>8, <3>5
    <3> QED  BY <1>1, <1>7, <2>1, <2>4, <3>2, <3>3, <3>4, <3>6 DEF JustHanded
  <2> QED  BY <1>11, <2>2, <2>3, <2>4
<1>13. Led(run'.todo, b, Fences) \/ Held(c)'
  <2>1. CASE x \in Fences
    <3>1. live' = live /\ fenced'[c] = live[c].version  BY <1>7, <2>1 DEF Lives
    <3> QED  BY <3>1 DEF Held
  <2>2. CASE x \notin Fences /\ x \notin Hands(c) /\ Held(c)
    <3>1. run'.hand[c] = run.hand[c]  BY <1>11, <2>2 DEF Hands
    <3>2. fenced' = fenced  BY <2>2 DEF Lives
    <3>3. live'[c] = live[c] \/ (versions < versions' /\ live'[c].version = versions')
      BY <1>7 DEF Lives
    <3>4. run.hand[c] # None => run.hand[c].version \in Nat /\ run.hand[c].version <= versions
      BY <1>5 DEF HandProven
    <3>5. ASSUME live'[c] # live[c], run.hand[c] # None PROVE live'[c].version # run.hand[c].version
      BY <1>7, <3>3, <3>4, <3>5
    <3>6. run'.hand[c] # None /\ live'[c].version = run'.hand[c].version => fenced'[c] = live'[c].version
      BY <2>2, <3>1, <3>2, <3>5 DEF Held
    <3> QED  BY <3>6 DEF Held
  <2> QED  BY <1>5, <1>6, <2>1, <2>2
<1>14. Led(run'.todo, b, P) \/ Fresh(c)'
  <2>1. CASE u # <<>> \/ x \in A \/ x = <<"handoff", c>>  BY <1>6, <2>1
  <2>2. CASE u = <<>> /\ x \notin A /\ x \in Authorities
    <3>1. x \notin P /\ x \notin Fences /\ x \notin Hands(c)
      BY <1>2, <2>2 DEF Authorities, Provers, Fences, Hands
    <3>2. run'.hand[c] = run.hand[c] /\ fenced' = fenced
      BY <1>11, <3>1 DEF Lives, Hands
    <3>3. Fresh(c) => Fresh(c)'  BY <3>2 DEF Fresh
    <3>4. Led(s, b, P) => Led(t, b, P)  BY <1>1, <3>1, TailLed
    <3> QED  BY <1>1, <1>5, <2>2, <3>3, <3>4
  <2>3. CASE u = <<>> /\ x \in P /\ x # <<"handoff", c>>
    <3>1. x # <<"handoff", c>>  BY <2>3
    <3>2. x \notin Fences /\ x \notin Hands(c)  BY <1>2, <2>3 DEF Provers, Fences, Hands
    <3>3. run'.hand[c] = run.hand[c] /\ fenced' = fenced  BY <1>11, <3>2 DEF Lives, Hands
    <3>4. Hands(c) \subseteq A /\ Fences \subseteq A
      BY <1>2, <1>3, <1>7, StepSets, InsertKinds
         DEF Hands, Fences, Spoilers, Provers, Authorities, Step, DeliverStep, DeliverNames,
             Staging2, Retiring
    <3>5. t \in Seq(DeliverStep) /\ Len(t) \in Nat  BY <1>1
    <3>6. CASE run.hand[c] = None
      <4>1. Some(t, Hands(c))  BY <1>1, <1>5, <3>2, <3>6 DEF HandKnown
      <4>2. Led(t, b, Hands(c))  BY <1>1, <1>4, <4>1, HandsAhead
      <4>3. Led(t, b, P)  BY <1>6, <3>4, <3>5, <4>2, Releading
      <4> QED  BY <1>1, <2>3, <4>3
    <3>7. CASE run.hand[c] # None
      <4>1. live[c].version = run.hand[c].version
        <5>1. CASE x = <<"readRetired", c>>
          <6>1. live[c] = run.own[c]  BY <5>1 DEF Proofs
          <6>2. run.policy[c].pair  BY <1>1, <1>5, <5>1 DEF Kinds
          <6> QED  BY <1>5, <3>7, <6>1, <6>2 DEF HandProven
        <5>2. CASE x = <<"readObserved", c>>  BY <5>2 DEF Proofs
        <5> QED  BY <1>2, <2>3, <3>1, <5>1, <5>2 DEF Provers
      <4>2. CASE Held(c)
        <5>1. fenced[c] = run.hand[c].version  BY <3>7, <4>1, <4>2 DEF Held
        <5> QED  BY <3>3, <3>7, <5>1 DEF Fresh
      <4>3. CASE Led(s, b, Fences)
        <5>1. Led(t, b, Fences)  BY <1>1, <3>2, <4>3, TailLed
        <5>2. Led(t, b, P)  BY <1>6, <3>4, <3>5, <5>1, Releading
        <5> QED  BY <1>1, <2>3, <5>2
      <4> QED  BY <1>5, <4>2, <4>3
    <3> QED  BY <3>6, <3>7
  <2> QED  BY <1>1, <1>3, <2>1, <2>2, <2>3, KindOfCall
<1> QED
  BY <1>2, <1>3, <1>4, <1>6, <1>9, <1>10, <1>12, <1>13, <1>14 DEF Handed, HeldFenced, FreshProven

(* Only callers that had the pair wait to be read again. *)
LEMMA PendingStays ==
  ASSUME CourseInv, NEW x, NEW u, Listed(x, u), Waits(x), PendingPaired,
         \A c \in Callers : Kinds(run.todo, c)
  PROVE  PendingPaired'
<1>1. PICK Q : Q = Paired  OBVIOUS
<1>2. run'.policy = run.policy /\ Paired' = Q  BY <1>1 DEF Listed, Paired
<1>3. run.pending \in Seq(Q)  BY <1>1 DEF PendingPaired
<1>4. ASSUME NEW w \in Workers, run'.pending = Without(run.pending, w) PROVE run'.pending \in Seq(Q)
  BY <1>3, <1>4, WithoutIn
<1>5. ASSUME NEW c \in Callers, x = <<"completeRetirement", c>>, run'.pending = Append(run.pending, c)
      PROVE  run'.pending \in Seq(Q)
  <2>1. Has(run.todo, x)
    <3>1. run.todo \in Seq(Step) /\ run.todo # <<>> /\ Head(run.todo) = x
      BY DEF CourseInv, Types, Listed
    <3> QED  BY <3>1, TailIndex DEF Has
  <2>2. c \in Q  BY <1>1, <1>5, <2>1 DEF Kinds, Paired
  <2> QED  BY <1>3, <1>5, <2>2
<1>6. run'.pending \in Seq(Q)  BY <1>3, <1>4, <1>5 DEF Waits
<1> QED  BY <1>2, <1>6 DEF PendingPaired

(* All of it: the next list of the delivery is as good as the last one. *)
Effect(x, u) ==
  /\ Listed(x, u) /\ Adds(x, u) /\ Lives(x) /\ Cores(x) /\ Papers(x) /\ Proofs(x) /\ Waits(x)
  /\ run.boot => AddsProofs(x, u)
  /\ Tables' /\ Under("deliver")'

(* So an answered call of a delivery keeps the invariant. *)
LEMMA DeliveryGoesOn ==
  ASSUME CourseInv, HandoverInv, NEW x, NEW u, Effect(x, u)
  PROVE  HandoverInv'
<1>1. /\ Listed(x, u) /\ Adds(x, u) /\ Lives(x) /\ Cores(x) /\ Papers(x) /\ Proofs(x) /\ Waits(x)
      /\ (run.boot => AddsProofs(x, u)) /\ Tables' /\ Under("deliver")'
  BY DEF Effect
<1>2. Under("deliver") /\ run'.boot = run.boot  BY <1>1 DEF Listed
<1>3. /\ CoreDown(run.todo) /\ \A c \in Callers : Retired(run.todo, c)
      /\ run.boot => PendingPaired /\ \A c \in Callers : Handed(run.todo, c)
  BY <1>2 DEF HandoverInv
<1>4. CoreDown(run.todo)'  BY <1>1, <1>3, CoreStaysDown
<1>5. ASSUME NEW c \in Callers PROVE Retired(run.todo, c)'  BY <1>1, <1>3, RetirementStays
<1>6. ASSUME run.boot, NEW c \in Callers PROVE Handed(run.todo, c)'
  BY <1>1, <1>3, <1>6, HandoverStays
<1>7. ASSUME run.boot PROVE PendingPaired'
  <2>1. \A c \in Callers : Kinds(run.todo, c)  BY <1>3, <1>7 DEF Handed
  <2> QED  BY <1>1, <1>3, <1>7, <2>1, PendingStays
<1>8. ~Under("preflight")'  BY <1>1 DEF Under
<1> QED  BY <1>1, <1>2, <1>4, <1>5, <1>6, <1>7, <1>8 DEF HandoverInv

-----------------------------------------------------------------------------
(* What each call does *)

(* A run that was stopped, or is no longer a delivery, has nothing to keep.     *)
LEMMA NothingToKeep ==
  ASSUME ~Under("preflight")', ~Under("deliver")'
  PROVE  HandoverInv'
BY DEF HandoverInv

(* An error ends the delivery: it stops, or recovers the core. *)
LEMMA StopIsAway ==
  ASSUME NEW r, Shape(r), run' = Stop(r)
  PROVE  ~Under("preflight")' /\ ~Under("deliver")'
<1>1. CASE r.mode = "recover"
  <2>1. run' = End(r, "stopped", "failed")  BY <1>1 DEF Stop
  <2>2. run'.outcome = "stopped"  BY <2>1 DEF End, Shape, RunFields
  <2> QED  BY <2>2, NoneAssumption DEF Under
<1>2. CASE r.mode # "recover" /\ r.mode = "deliver" /\ r.decision = "deploy" /\ r.coreStaged
  <2>1. run' = [r EXCEPT !.mode = "recover", !.todo = Fence \o <<<<"recoverRead", "core">>>>]
    BY <1>2 DEF Stop
  <2>2. run'.mode = "recover"  BY <2>1 DEF Shape, RunFields
  <2> QED  BY <2>2 DEF Under
<1>3. CASE r.mode # "recover" /\ ~(r.mode = "deliver" /\ r.decision = "deploy" /\ r.coreStaged)
  <2>1. run' = End(r, "stopped", "not-needed")  BY <1>3 DEF Stop
  <2>2. run'.outcome = "stopped"  BY <2>1 DEF End, Shape, RunFields
  <2> QED  BY <2>2, NoneAssumption DEF Under
<1> QED  BY <1>1, <1>2, <1>3

LEMMA StopsAway ==
  ASSUME NEW r, Shape(r), run' = Stop(r)
  PROVE  HandoverInv'
BY StopIsAway, NothingToKeep

LEMMA FailsAway ==
  ASSUME CourseInv, Failed
  PROVE  HandoverInv'
<1>1. Shape(run) /\ run' = Stop(run)  BY DEF CourseInv, Types, Failed
<1> QED  BY <1>1, StopsAway

(* Most calls add nothing. *)
LEMMA NothingAdded ==
  ASSUME NEW x, x[1] # "readStaged", x[1] # "handoff"
  PROVE  Adds(x, <<>>) /\ AddsProofs(x, <<>>)
<1>1. PICK e : e = <<>>  OBVIOUS
<1>2. e \in Seq(DeliverStep) /\ Len(e) = 0 /\ 1..Len(e) = {}  BY <1>1
<1>3. (\A y : ~Has(e, y)) /\ (\A Y : ~Some(e, Y))  BY <1>2 DEF Has, Some
<1>4. \A A, b, P : Kept(e, A, b, P)  BY <1>3, LedNone
<1>5. \A n, c : x = <<n, c>> => n # "readStaged" /\ n # "handoff"  OBVIOUS
<1>6. Adds(x, e)  BY <1>1, <1>2, <1>3, <1>4 DEF Adds
<1>7. AddsProofs(x, e)  BY <1>3, <1>5 DEF AddsProofs, Kinds
<1> QED  BY <1>1, <1>6, <1>7

(* What is not written stays; what is said of it then holds. *)
LEMMA PapersKept ==
  ASSUME NEW n, NEW w, NEW r, NEW F, Keeps(run, r, F), run' = r,
         F \cap {"intent", "patched", "receipt", "snapshot"} = {}, n \notin {"intent", "retireReread"}
  PROVE  Papers(<<n, w>>)
<1>1. /\ run'.intent = run.intent /\ run'.patched = run.patched /\ run'.receipt = run.receipt
      /\ run'.snapshot = run.snapshot
  BY DEF Keeps, RunFields
<1> QED  BY <1>1 DEF Papers

LEMMA ProofsKept ==
  ASSUME NEW n, NEW w, NEW r, NEW F, Keeps(run, r, F), run' = r, F \cap {"own", "hand"} = {}, Tables,
         n \notin {"completeRetirement", "completeObservation", "readRetired", "readObserved"}
  PROVE  Proofs(<<n, w>>) /\ Tables'
<1>1. run'.own = run.own /\ run'.hand = run.hand  BY DEF Keeps, RunFields
<1> QED  BY <1>1 DEF Proofs, Tables

LEMMA WaitsKept ==
  ASSUME NEW x, NEW r, NEW F, Keeps(run, r, F), run' = r, "pending" \notin F
  PROVE  Waits(x)
BY DEF Keeps, RunFields, Waits

LEMMA QuietLives ==
  ASSUME CourseInv, NEW x, x \notin Fences, live' = live, versions' = versions, fenced' = fenced
  PROVE  Lives(x)
<1>1. versions \in Nat  BY DEF CourseInv, Types
<1> QED  BY <1>1 DEF Lives

LEMMA QuietCores ==
  ASSUME NEW n, NEW w, live' = live, NEW acc, strange' = strange \ acc,
         "core" \in acc => n \in LateNames \/ live["core"].circuit = "disabled",
         n = "readStaged" /\ w = "core" => live["core"].circuit = "disabled"
  PROVE  Cores(<<n, w>>)
BY DEF Cores, CoreIsOff

(* The list of a delivery after a call *)
LEMMA CallListed ==
  ASSUME NEW n, NEW w, Todo(n, w), Under("deliver"), NEW r, NEW F, Keeps(run, r, F), run' = r, NEW u,
         r.todo = u \o Tail(run.todo), F \cap {"boot", "policy", "mode", "outcome"} = {}
  PROVE  Listed(<<n, w>>, u) /\ Under("deliver")'
<1>1. /\ run'.boot = run.boot /\ run'.policy = run.policy /\ run'.mode = run.mode
      /\ run'.outcome = run.outcome
  BY DEF Keeps, RunFields
<1> QED  BY <1>1 DEF Todo, Listed, Under

(* A call that puts nothing before the rest *)
LEMMA PlainEffect ==
  ASSUME CourseInv, HandoverInv, NEW n, NEW w, Todo(n, w), Under("deliver"), n \notin Handling \cup {"fence"},
         NEW r, NEW F, NEW acc, Answered(r, acc), Keeps(run, r, F), r.todo = Tail(run.todo),
         F \cap {"boot", "policy", "mode", "outcome"} = {},
         "core" \in acc => n \in LateNames,
         Papers(<<n, w>>), Proofs(<<n, w>>), Waits(<<n, w>>), Tables'
  PROVE  HandoverInv'
<1>1. PICK x : x = <<n, w>>  OBVIOUS
<1>2. x[1] = n /\ x \notin Fences  BY <1>1 DEF Fences
<1>3. /\ run' = r /\ live' = live /\ versions' = versions /\ fenced' = fenced
      /\ strange' = strange \ acc
  BY DEF Answered
<1>4. PICK e : e = <<>>  OBVIOUS
<1>5. r.todo = e \o Tail(run.todo)
  <2>1. Tail(run.todo) \in Seq(Step)  BY TailIndex DEF CourseInv, Types, Todo
  <2> QED  BY <1>4, <2>1
<1>6. Listed(x, e) /\ Under("deliver")'  BY <1>1, <1>3, <1>5, CallListed
<1>7. Adds(x, e) /\ AddsProofs(x, e)  BY <1>2, <1>4, NothingAdded DEF Handling
<1>8. Lives(x)  BY <1>2, <1>3, QuietLives
<1>9. Cores(x)
  <2>1. n # "readStaged"  BY DEF Handling
  <2> QED  BY <1>1, <1>3, <2>1, QuietCores
<1>10. Effect(x, e)  BY <1>1, <1>6, <1>7, <1>8, <1>9 DEF Effect
<1> QED  BY <1>10, DeliveryGoesOn

(* Only a delivery makes the calls of a delivery. *)
LEMMA CallOfDelivery ==
  ASSUME CourseInv, NEW n \in DeliverNames \ {"fence"}, NEW w, Todo(n, w)
  PROVE  Under("deliver")
<1>1. <<n, w>> \notin PreStep /\ <<n, w>> \notin RecoverStep
  BY DEF PreStep, RecoverStep, DeliverNames, Free, Repeating, Closing, Staging2, Retiring, Activating
<1> QED  BY <1>1, HeadMode DEF Under

(* A call that has nothing to do with retirement, handoff or proof *)
LEMMA UnrelatedCall ==
  ASSUME CourseInv, HandoverInv, NEW n \in DeliverNames, NEW w, Todo(n, w),
         n \notin Handling \cup {"fence", "intent", "retireReread", "completeRetirement",
                                 "completeObservation", "readRetired", "readObserved"},
         NEW r, NEW F, NEW acc, Failed \/ Answered(r, acc), Keeps(run, r, F), r.todo = Tail(run.todo),
         F \subseteq {"todo", "uncertain", "cohort", "transition", "retired"},
         "core" \in acc => n \in LateNames
  PROVE  HandoverInv'
<1>1. CASE Failed  BY <1>1, FailsAway
<1>2. CASE Answered(r, acc)
  <2>1. Under("deliver")  BY CallOfDelivery
  <2>2. Tables  BY <2>1 DEF HandoverInv
  <2>3. run' = r  BY <1>2 DEF Answered
  <2>4. /\ F \cap {"intent", "patched", "receipt", "snapshot"} = {} /\ F \cap {"own", "hand"} = {}
        /\ "pending" \notin F /\ F \cap {"boot", "policy", "mode", "outcome"} = {}
    OBVIOUS
  <2>5. Papers(<<n, w>>)  BY <2>3, <2>4, PapersKept
  <2>6. Proofs(<<n, w>>) /\ Tables'  BY <2>2, <2>3, <2>4, ProofsKept
  <2>7. Waits(<<n, w>>)  BY <2>3, <2>4, WaitsKept
  <2> QED  BY <1>2, <2>1, <2>4, <2>5, <2>6, <2>7, PlainEffect
<1> QED  BY <1>1, <1>2

(* The action lemmas: each call of the engine keeps the invariant. *)
LEMMA ChecksHandover ==
  ASSUME CourseInv, HandoverInv, NEW w \in Workers,
         CheckPredecessor(w) \/ CheckCallerPredecessor(w) \/ Authorize(w) \/ VerifyFinal(w)
  PROVE  HandoverInv'
<1>1. Shape(run)  BY DEF CourseInv, Types
<1>2. PICK r : r = Advance(run)  OBVIOUS
<1>3. Keeps(run, r, {"todo"}) /\ r.todo = Tail(run.todo)  BY <1>1, <1>2, RunAdvance
<1>4. PICK F : F = {"todo"}  OBVIOUS
<1>5. Keeps(run, r, F) /\ F \subseteq {"todo", "uncertain", "cohort", "transition", "retired"}
  BY <1>3, <1>4
<1>6. PICK none : none = {}  OBVIOUS
<1>7. PICK own : own = {w}  OBVIOUS
<1>12. "core" \notin none  BY <1>6
<1>8. CASE CheckPredecessor(w)
  <2>1. Todo("predecessor", w) /\ (Failed \/ Answered(r, none))
    BY <1>2, <1>6, <1>8 DEF CheckPredecessor, Check, Failed, Answered
  <2> QED  BY <1>3, <1>5, <1>12, <2>1, UnrelatedCall DEF DeliverNames, Repeating, Handling
<1>9. CASE CheckCallerPredecessor(w)
  <2>1. Todo("callerPredecessor", w) /\ (Failed \/ Answered(r, none))
    BY <1>2, <1>6, <1>9 DEF CheckCallerPredecessor, Check, Failed, Answered
  <2> QED  BY <1>3, <1>5, <1>12, <2>1, UnrelatedCall DEF DeliverNames, Staging2, Handling
<1>10. CASE Authorize(w)
  <2>1. Todo("authorize", w) /\ (Failed \/ Answered(r, none))
    BY <1>2, <1>6, <1>10 DEF Authorize, Check, Failed, Answered
  <2> QED  BY <1>3, <1>5, <1>12, <2>1, UnrelatedCall DEF DeliverNames, Free, Handling
<1>11. CASE VerifyFinal(w)
  <2>1. Todo("final", w) /\ (Failed \/ Answered(r, own))
    BY <1>2, <1>7, <1>11 DEF VerifyFinal, Check, Failed, Answered
  <2>2. "final" \in DeliverNames /\ "final" \in LateNames
    BY DEF DeliverNames, Closing, LateNames
  <2> QED  BY <1>3, <1>5, <2>1, <2>2, UnrelatedCall DEF Handling
<1> QED  BY <1>8, <1>9, <1>10, <1>11

LEMMA OtherCallers ==
  ASSUME NEW c \in Callers
  PROVE  c \in Workers /\ c # "core" /\ "core" \notin {c}
BY DEF Callers, Workers

LEMMA SettlingHandover ==
  ASSUME CourseInv, HandoverInv, NEW c \in Callers,
         BeginRetirement(c) \/ AcceptRetirement(c) \/ Observe(c)
  PROVE  HandoverInv'
<1>1. Shape(run) /\ c \in Workers  BY OtherCallers DEF CourseInv, Types
<1>2. PICK none : none = {}  OBVIOUS
<1>3. "core" \notin none  BY <1>2
<1>4. PICK own : own = {c}  OBVIOUS
<1>5. "core" \notin own  BY <1>4, OtherCallers
<1>6. CASE BeginRetirement(c)
  <2>1. PICK r : r = [Advance(run) EXCEPT !.uncertain = c]  OBVIOUS
  <2>2. Todo("beginRetirement", c) /\ (Failed \/ Answered(r, none))
    BY <1>2, <1>6, <2>1 DEF BeginRetirement, Check, Failed, Answered
  <2>3. PICK F : F = {"todo", "uncertain"}  OBVIOUS
  <2>4. Keeps(run, r, F) /\ r.todo = Tail(run.todo)  BY <1>1, <2>1, <2>3, RunCalls
  <2>5. F \subseteq {"todo", "uncertain", "cohort", "transition", "retired"}  BY <2>3
  <2>6. "beginRetirement" \in DeliverNames  BY DEF DeliverNames, Retiring
  <2> QED  BY <1>3, <2>2, <2>4, <2>5, <2>6, UnrelatedCall DEF Handling
<1>7. CASE AcceptRetirement(c)
  <2>1. PICK r : r = [LearnCohort(Advance(run), {c}) EXCEPT
                        !.cohort = IF @ = None THEN live ELSE [@ EXCEPT ![c] = live[c]],
                        !.retired = @ \cup {c}, !.uncertain = None]
    OBVIOUS
  <2>2. Todo("acceptRetirement", c) /\ (Failed \/ Answered(r, own))
    BY <1>4, <1>7, <2>1 DEF AcceptRetirement, Check, Failed, Answered
  <2>3. PICK F : F = {"todo", "cohort", "transition", "retired", "uncertain"}  OBVIOUS
  <2>4. Keeps(run, r, F) /\ r.todo = Tail(run.todo)  BY <1>1, <2>1, <2>3, RunLearns
  <2>5. F \subseteq {"todo", "uncertain", "cohort", "transition", "retired"}  BY <2>3
  <2>6. "acceptRetirement" \in DeliverNames  BY DEF DeliverNames, Retiring
  <2> QED  BY <1>5, <2>2, <2>4, <2>5, <2>6, UnrelatedCall DEF Handling
<1>8. CASE Observe(c)
  <2>1. PICK r : r = LearnCohort(Advance(run), {})  OBVIOUS
  <2>2. Todo("observe", c) /\ (Failed \/ Answered(r, own))
    BY <1>4, <1>8, <2>1 DEF Observe, Check, Failed, Answered
  <2>3. PICK F : F = {"todo", "cohort", "transition"}  OBVIOUS
  <2>4. Keeps(run, r, F) /\ r.todo = Tail(run.todo)  BY <1>1, <2>1, <2>3, RunLearns
  <2>5. F \subseteq {"todo", "uncertain", "cohort", "transition", "retired"}  BY <2>3
  <2>6. "observe" \in DeliverNames  BY DEF DeliverNames, Retiring
  <2> QED  BY <1>5, <2>2, <2>4, <2>5, <2>6, UnrelatedCall DEF Handling
<1> QED  BY <1>6, <1>7, <1>8

LEMMA ProofReadsHandover ==
  ASSUME CourseInv, HandoverInv, NEW c \in Callers,
         ReadRetired(c) \/ ReadObserved(c) \/ RetireRead(c) \/ RetireReread(c)
  PROVE  HandoverInv'
<1>1. Shape(run) /\ c \in Workers  BY OtherCallers DEF CourseInv, Types
<1>2. PICK own : own = {c}  OBVIOUS
<1>3. "core" \notin own  BY <1>2, OtherCallers
<1>4. CASE Failed  BY <1>4, FailsAway
<1>5. CASE ReadRetired(c) /\ ~Failed
  <2>1. PICK r : r = LearnCohort(Advance(run), {})  OBVIOUS
  <2>2. Todo("readRetired", c) /\ Answered(r, own) /\ live[c] = run.own[c]
    BY <1>2, <1>5, <2>1
       DEF ReadRetired, Check, Failed, Answered, RetiredUnchanged, OwnUnchanged, Snapshot
  <2>3. PICK F : F = {"todo", "cohort", "transition"}  OBVIOUS
  <2>4. Keeps(run, r, F) /\ r.todo = Tail(run.todo) /\ run' = r
    BY <1>1, <2>1, <2>2, <2>3, RunLearns DEF Answered
  <2>5. /\ F \cap {"intent", "patched", "receipt", "snapshot"} = {} /\ F \cap {"own", "hand"} = {}
        /\ "pending" \notin F /\ F \cap {"boot", "policy", "mode", "outcome"} = {}
    BY <2>3
  <2>6. Under("deliver")  BY <2>2, CallOfDelivery DEF DeliverNames, Free
  <2>7. Tables  BY <2>6 DEF HandoverInv
  <2>8. run'.own = run.own /\ run'.hand = run.hand  BY <2>4, <2>5 DEF Keeps, RunFields
  <2>9. Proofs(<<"readRetired", c>>) /\ Tables'  BY <2>2, <2>7, <2>8 DEF Proofs, Tables
  <2>10. Papers(<<"readRetired", c>>)  BY <2>4, <2>5, PapersKept
  <2>11. Waits(<<"readRetired", c>>)  BY <2>4, <2>5, WaitsKept
  <2> QED  BY <1>3, <2>2, <2>4, <2>5, <2>6, <2>9, <2>10, <2>11, PlainEffect DEF Handling
<1>6. CASE ReadObserved(c) /\ ~Failed
  <2>1. PICK r : r = Advance(run)  OBVIOUS
  <2>2. Todo("readObserved", c) /\ Answered(r, own) /\ live[c].version = run.hand[c].version
    BY <1>2, <1>6, <2>1 DEF ReadObserved, Check, Failed, Answered
  <2>3. PICK F : F = {"todo"}  OBVIOUS
  <2>4. Keeps(run, r, F) /\ r.todo = Tail(run.todo) /\ run' = r
    BY <1>1, <2>1, <2>2, <2>3, RunAdvance DEF Answered
  <2>5. /\ F \cap {"intent", "patched", "receipt", "snapshot"} = {} /\ F \cap {"own", "hand"} = {}
        /\ "pending" \notin F /\ F \cap {"boot", "policy", "mode", "outcome"} = {}
    BY <2>3
  <2>6. Under("deliver")  BY <2>2, CallOfDelivery DEF DeliverNames, Activating
  <2>7. Tables  BY <2>6 DEF HandoverInv
  <2>8. run'.own = run.own /\ run'.hand = run.hand  BY <2>4, <2>5 DEF Keeps, RunFields
  <2>9. Proofs(<<"readObserved", c>>) /\ Tables'  BY <2>2, <2>7, <2>8 DEF Proofs, Tables
  <2>10. Papers(<<"readObserved", c>>)  BY <2>4, <2>5, PapersKept
  <2>11. Waits(<<"readObserved", c>>)  BY <2>4, <2>5, WaitsKept
  <2> QED  BY <1>3, <2>2, <2>4, <2>5, <2>6, <2>9, <2>10, <2>11, PlainEffect DEF Handling
<1>7. CASE RetireRead(c) /\ ~Failed
  <2>1. PICK r : r = LearnCohort([Advance(run) EXCEPT !.snapshot = Snapshot], {})  OBVIOUS
  <2>2. Todo("retireRead", c) /\ Answered(r, own)
    BY <1>2, <1>7, <2>1 DEF RetireRead, Check, Failed, Answered
  <2>3. PICK F : F = {"todo", "cohort", "transition", "snapshot"}  OBVIOUS
  <2>4. Keeps(run, r, F) /\ r.todo = Tail(run.todo) /\ run' = r
    BY <1>1, <2>1, <2>2, <2>3, RunLearns DEF Answered
  <2>5. /\ F \cap {"own", "hand"} = {} /\ "pending" \notin F
        /\ F \cap {"boot", "policy", "mode", "outcome"} = {}
    BY <2>3
  <2>6. Under("deliver")  BY <2>2, CallOfDelivery DEF DeliverNames, Retiring
  <2>7. Tables  BY <2>6 DEF HandoverInv
  <2>8. Proofs(<<"retireRead", c>>) /\ Tables'  BY <2>4, <2>5, <2>7, ProofsKept
  <2>9. Papers(<<"retireRead", c>>)
    <3>1. run'.intent = run.intent /\ run'.patched = run.patched /\ run'.receipt = run.receipt
      BY <2>3, <2>4 DEF Keeps, RunFields
    <3> QED  BY <3>1 DEF Papers
  <2>10. Waits(<<"retireRead", c>>)  BY <2>4, <2>5, WaitsKept
  <2> QED  BY <1>3, <2>2, <2>4, <2>5, <2>6, <2>8, <2>9, <2>10, PlainEffect DEF Handling
<1>8. CASE RetireReread(c) /\ ~Failed
  <2>1. PICK r : r = LearnCohort(Advance(run), {})  OBVIOUS
  <2>2. Todo("retireReread", c) /\ Answered(r, own) /\ live = run.snapshot
    BY <1>2, <1>8, <2>1 DEF RetireReread, Check, Failed, Answered, Snapshot
  <2>3. PICK F : F = {"todo", "cohort", "transition"}  OBVIOUS
  <2>4. Keeps(run, r, F) /\ r.todo = Tail(run.todo) /\ run' = r
    BY <1>1, <2>1, <2>2, <2>3, RunLearns DEF Answered
  <2>5. /\ F \cap {"own", "hand"} = {} /\ "pending" \notin F
        /\ F \cap {"boot", "policy", "mode", "outcome"} = {}
    BY <2>3
  <2>6. Under("deliver")  BY <2>2, CallOfDelivery DEF DeliverNames, Retiring
  <2>7. Tables  BY <2>6 DEF HandoverInv
  <2>8. Proofs(<<"retireReread", c>>) /\ Tables'  BY <2>4, <2>5, <2>7, ProofsKept
  <2>9. Papers(<<"retireReread", c>>)
    <3>1. /\ run'.intent = run.intent /\ run'.patched = run.patched /\ run'.receipt = run.receipt
          /\ run'.snapshot = run.snapshot
      BY <2>3, <2>4 DEF Keeps, RunFields
    <3> QED  BY <2>2, <3>1 DEF Papers
  <2>10. Waits(<<"retireReread", c>>)  BY <2>4, <2>5, WaitsKept
  <2> QED  BY <1>3, <2>2, <2>4, <2>5, <2>6, <2>8, <2>9, <2>10, PlainEffect DEF Handling
<1> QED  BY <1>4, <1>5, <1>6, <1>7, <1>8

LEMMA RecordsHandover ==
  ASSUME CourseInv, HandoverInv, NEW c \in Callers,
         RetireVerify(c) \/ RecordIntent(c) \/ RecordReceipt(c)
  PROVE  HandoverInv'
<1>1. Shape(run) /\ c \in Workers  BY OtherCallers DEF CourseInv, Types
<1>2. PICK own : own = {c}  OBVIOUS
<1>3. PICK none : none = {}  OBVIOUS
<1>4. "core" \notin own /\ "core" \notin none  BY <1>2, <1>3, OtherCallers
<1>5. CASE Failed  BY <1>5, FailsAway
<1>6. CASE RetireVerify(c) /\ ~Failed
  <2>1. PICK r : r = [Advance(run) EXCEPT !.own[c] = Snapshot[c], !.snapshot = Snapshot]  OBVIOUS
  <2>2. Todo("retireVerify", c) /\ Answered(r, own)
    BY <1>2, <1>6, <2>1 DEF RetireVerify, Check, Failed, Answered
  <2>3. PICK F : F = {"todo", "own", "snapshot"}  OBVIOUS
  <2>4. Keeps(run, r, F) /\ r.todo = Tail(run.todo) /\ run' = r /\ r.own = [run.own EXCEPT ![c] = live[c]]
    BY <1>1, <2>1, <2>2, <2>3, RunCalls DEF Answered
  <2>5. "pending" \notin F /\ F \cap {"boot", "policy", "mode", "outcome"} = {}  BY <2>3
  <2>6. Under("deliver")  BY <2>2, CallOfDelivery DEF DeliverNames, Retiring
  <2>7. Tables  BY <2>6 DEF HandoverInv
  <2>8. /\ run'.intent = run.intent /\ run'.patched = run.patched /\ run'.receipt = run.receipt
        /\ run'.hand = run.hand
    BY <2>3, <2>4 DEF Keeps, RunFields
  <2>9. Proofs(<<"retireVerify", c>>) /\ Tables'  BY <2>4, <2>7, <2>8 DEF Proofs, Tables
  <2>10. Papers(<<"retireVerify", c>>)  BY <2>8 DEF Papers
  <2>11. Waits(<<"retireVerify", c>>)  BY <2>4, <2>5, WaitsKept
  <2> QED  BY <1>4, <2>2, <2>4, <2>5, <2>6, <2>9, <2>10, <2>11, PlainEffect DEF Handling
<1>7. CASE RecordIntent(c) /\ ~Failed
  <2>1. CASE Answer([Advance(run) EXCEPT !.intent = @ \cup {c}])
    <3>1. PICK r : r = [Advance(run) EXCEPT !.intent = @ \cup {c}]  OBVIOUS
    <3>2. Todo("intent", c) /\ Answered(r, none)
      BY <1>3, <1>7, <2>1, <3>1 DEF RecordIntent, Answer, Check, Failed, Answered
    <3>3. PICK F : F = {"todo", "intent"}  OBVIOUS
    <3>4. /\ Keeps(run, r, F) /\ r.todo = Tail(run.todo) /\ run' = r
          /\ r.intent = run.intent \cup {c}
      BY <1>1, <3>1, <3>2, <3>3, RunCalls DEF Answered
    <3>5. /\ F \cap {"own", "hand"} = {} /\ "pending" \notin F
          /\ F \cap {"boot", "policy", "mode", "outcome"} = {}
      BY <3>3
    <3>6. Under("deliver")  BY <3>2, CallOfDelivery DEF DeliverNames, Retiring
    <3>7. Tables  BY <3>6 DEF HandoverInv
    <3>8. Proofs(<<"intent", c>>) /\ Tables'  BY <3>4, <3>5, <3>7, ProofsKept
    <3>9. run'.patched = run.patched /\ run'.receipt = run.receipt /\ run'.snapshot = run.snapshot
      BY <3>3, <3>4 DEF Keeps, RunFields
    <3>10. Papers(<<"intent", c>>)  BY <3>4, <3>9 DEF Papers
    <3>11. Waits(<<"intent", c>>)  BY <3>4, <3>5, WaitsKept
    <3> QED  BY <1>4, <3>2, <3>4, <3>5, <3>6, <3>8, <3>10, <3>11, PlainEffect DEF Handling
  <2>2. CASE ~Answer([Advance(run) EXCEPT !.intent = @ \cup {c}])
    <3>1. PICK d : run' = Stop([run EXCEPT !.intent = @ \cup d])  BY <1>7, <2>2 DEF RecordIntent
    <3>2. PICK r : r = [run EXCEPT !.intent = @ \cup d]  OBVIOUS
    <3>3. Shape(r)  BY <1>1, <3>2 DEF Shape, RunFields
    <3> QED  BY <3>1, <3>2, <3>3, StopsAway
  <2> QED  BY <2>1, <2>2
<1>8. CASE RecordReceipt(c) /\ ~Failed
  <2>1. PICK r : r = [Advance(run) EXCEPT !.receipt = @ \cup {c}]  OBVIOUS
  <2>2. Todo("receipt", c) /\ Answered(r, none)
    BY <1>3, <1>8, <2>1 DEF RecordReceipt, Check, Failed, Answered
  <2>3. PICK F : F = {"todo", "receipt"}  OBVIOUS
  <2>4. Keeps(run, r, F) /\ r.todo = Tail(run.todo) /\ run' = r /\ r.receipt = run.receipt \cup {c}
    BY <1>1, <2>1, <2>2, <2>3, RunCalls DEF Answered
  <2>5. /\ F \cap {"own", "hand"} = {} /\ "pending" \notin F
        /\ F \cap {"boot", "policy", "mode", "outcome"} = {}
    BY <2>3
  <2>6. Under("deliver")  BY <2>2, CallOfDelivery DEF DeliverNames, Retiring
  <2>7. Tables  BY <2>6 DEF HandoverInv
  <2>8. Proofs(<<"receipt", c>>) /\ Tables'  BY <2>4, <2>5, <2>7, ProofsKept
  <2>9. run'.patched = run.patched /\ run'.intent = run.intent /\ run'.snapshot = run.snapshot
    BY <2>3, <2>4 DEF Keeps, RunFields
  <2>10. Papers(<<"receipt", c>>)  BY <2>4, <2>9 DEF Papers
  <2>11. Waits(<<"receipt", c>>)  BY <2>4, <2>5, WaitsKept
  <2> QED  BY <1>4, <2>2, <2>4, <2>5, <2>6, <2>8, <2>10, <2>11, PlainEffect DEF Handling
<1> QED  BY <1>5, <1>6, <1>7, <1>8

(* A handoff is a record, never None. *)
LEMMA HandMade ==
  ASSUME CourseInv, NEW c \in Callers, NEW kind \in {"retired", "observed"}, Tables,
         run'.hand = [run.hand EXCEPT ![c] = [kind |-> kind, version |-> live[c].version, via |-> live[c].via]]
  PROVE  /\ JustHanded(kind, c) /\ DOMAIN run'.hand = Callers
         /\ \A d \in Callers : d # c => run'.hand[d] = run.hand[d]
<1>1. live[c] \in Version  BY OtherCallers DEF CourseInv, Types
<1>2. PICK e : e = [kind |-> kind, version |-> live[c].version, via |-> live[c].via]  OBVIOUS
<1>3. e \in [kind : {"retired", "observed"}, version : Nat, via : {"wrangler", "api"}]
  BY <1>1, <1>2 DEF Version
<1>4. e # None  BY <1>3, NoneAssumption
<1> QED  BY <1>2, <1>4 DEF JustHanded, Tables

LEMMA CompletionsHandover ==
  ASSUME CourseInv, HandoverInv, NEW c \in Callers, CompleteRetirement(c) \/ CompleteObservation(c)
  PROVE  HandoverInv'
<1>1. Shape(run) /\ c \in Workers /\ run.pending \in Seq(Callers)  BY OtherCallers DEF CourseInv, Types
<1>2. PICK own : own = {c}  OBVIOUS
<1>3. "core" \notin own  BY <1>2, OtherCallers
<1>4. CASE Failed  BY <1>4, FailsAway
<1>5. CASE CompleteRetirement(c) /\ ~Failed
  <2>1. PICK r : r = [HandOff(LearnCohort(Advance(run), {}), c, "retired") EXCEPT
                        !.pending = Append(@, c), !.snapshot = None]
    OBVIOUS
  <2>2. Todo("completeRetirement", c) /\ Answered(r, own) /\ live[c] = run.own[c]
    BY <1>2, <1>5, <2>1
       DEF CompleteRetirement, Check, Failed, Answered, RetiredUnchanged, OwnUnchanged, Snapshot
  <2>3. PICK F : F = {"todo", "cohort", "transition", "hand", "api", "pending", "snapshot"}  OBVIOUS
  <2>4. /\ Keeps(run, r, F) /\ r.todo = Tail(run.todo) /\ run' = r
        /\ r.pending = Append(run.pending, c)
        /\ r.hand = [run.hand EXCEPT ![c] = [kind |-> "retired", version |-> live[c].version,
                                             via |-> live[c].via]]
    BY <1>1, <2>1, <2>2, <2>3, RunHandsOff DEF Answered
  <2>5. F \cap {"boot", "policy", "mode", "outcome"} = {}  BY <2>3
  <2>6. Under("deliver")  BY <2>2, CallOfDelivery DEF DeliverNames, Retiring
  <2>7. Tables  BY <2>6 DEF HandoverInv
  <2>8. /\ run'.intent = run.intent /\ run'.patched = run.patched /\ run'.receipt = run.receipt
        /\ run'.own = run.own
    BY <2>3, <2>4 DEF Keeps, RunFields
  <2>9. /\ JustHanded("retired", c) /\ DOMAIN run'.hand = Callers
        /\ \A d \in Callers : d # c => run'.hand[d] = run.hand[d]
    BY <2>4, <2>7, HandMade
  <2>10. Proofs(<<"completeRetirement", c>>) /\ Tables'  BY <2>2, <2>7, <2>8, <2>9 DEF Proofs, Tables
  <2>11. Papers(<<"completeRetirement", c>>)  BY <2>8 DEF Papers
  <2>12. Waits(<<"completeRetirement", c>>)  BY <2>4 DEF Waits
  <2> QED  BY <1>3, <2>2, <2>4, <2>5, <2>6, <2>10, <2>11, <2>12, PlainEffect DEF Handling
<1>6. CASE CompleteObservation(c) /\ ~Failed
  <2>1. PICK r : r = HandOff(Advance(run), c, "observed")  OBVIOUS
  <2>2. Todo("completeObservation", c) /\ Answered(r, own)
    BY <1>2, <1>6, <2>1 DEF CompleteObservation, Check, Failed, Answered
  <2>3. PICK F : F = {"todo", "hand", "api"}  OBVIOUS
  <2>4. /\ Keeps(run, r, F) /\ r.todo = Tail(run.todo) /\ run' = r
        /\ r.hand = [run.hand EXCEPT ![c] = [kind |-> "observed", version |-> live[c].version,
                                             via |-> live[c].via]]
    BY <1>1, <2>1, <2>2, <2>3, RunHandsOff DEF Answered
  <2>5. /\ F \cap {"intent", "patched", "receipt", "snapshot"} = {} /\ "pending" \notin F
        /\ F \cap {"boot", "policy", "mode", "outcome"} = {}
    BY <2>3
  <2>6. Under("deliver")  BY <2>2, CallOfDelivery DEF DeliverNames, Retiring
  <2>7. Tables  BY <2>6 DEF HandoverInv
  <2>8. run'.own = run.own  BY <2>3, <2>4 DEF Keeps, RunFields
  <2>9. /\ JustHanded("observed", c) /\ DOMAIN run'.hand = Callers
        /\ \A d \in Callers : d # c => run'.hand[d] = run.hand[d]
    BY <2>4, <2>7, HandMade
  <2>10. Proofs(<<"completeObservation", c>>) /\ Tables'  BY <2>7, <2>8, <2>9 DEF Proofs, Tables
  <2>11. Papers(<<"completeObservation", c>>)  BY <2>4, <2>5, PapersKept
  <2>12. Waits(<<"completeObservation", c>>)  BY <2>4, <2>5, WaitsKept
  <2> QED  BY <1>3, <2>2, <2>4, <2>5, <2>6, <2>10, <2>11, <2>12, PlainEffect DEF Handling
<1> QED  BY <1>4, <1>5, <1>6

LEMMA ProveHandover ==
  ASSUME CourseInv, HandoverInv, Prove
  PROVE  HandoverInv'
<1>1. Shape(run)  BY DEF CourseInv, Types
<1>2. PICK r : r = Advance(run)  OBVIOUS
<1>3. PICK F : F = {"todo"}  OBVIOUS
<1>4. /\ Keeps(run, r, F) /\ r.todo = Tail(run.todo)
      /\ F \subseteq {"todo", "uncertain", "cohort", "transition", "retired"}
  BY <1>1, <1>2, <1>3, RunAdvance
<1>5. PICK none : none = {}  OBVIOUS
<1>6. "core" \notin none  BY <1>5
<1>7. Failed \/ Answered(r, none)  BY <1>2, <1>5 DEF Prove, Answer, Check, Failed, Answered
<1>8. "reconcile" \in DeliverNames /\ "canaries" \in DeliverNames  BY DEF DeliverNames, Closing
<1>9. CASE Todo("reconcile", "core")
  BY <1>4, <1>6, <1>7, <1>8, <1>9, UnrelatedCall DEF Handling
<1>10. CASE Todo("canaries", "core")
  BY <1>4, <1>6, <1>7, <1>8, <1>10, UnrelatedCall DEF Handling
<1> QED  BY <1>9, <1>10 DEF Prove

(* A preflight only reads. *)
LEMMA PreflightStays ==
  ASSUME HandoverInv, Under("preflight"), NEW F, Keeps(run, run', F), F \subseteq {"todo", "read", "phase"}
  PROVE  HandoverInv'
<1>1. /\ run'.outcome = run.outcome /\ run'.mode = run.mode /\ run'.hand = run.hand
      /\ run'.own = run.own /\ run'.patched = run.patched /\ run'.receipt = run.receipt
      /\ run'.pending = run.pending
  BY DEF Keeps, RunFields
<1>2. Under("preflight")' /\ ~Under("deliver")'  BY <1>1 DEF Under
<1>3. Tables /\ run.pending = <<>> /\ \A c \in Callers : run.hand[c] = None /\ c \notin run.patched \cup run.receipt
  BY DEF HandoverInv
<1>4. Tables'  BY <1>1, <1>3 DEF Tables
<1> QED  BY <1>1, <1>2, <1>3, <1>4 DEF HandoverInv

LEMMA PreflightHandover ==
  ASSUME CourseInv, HandoverInv, CheckLedger \/ \E w \in Workers : Inventory(w)
  PROVE  HandoverInv'
<1>1. Shape(run)  BY DEF CourseInv, Types
<1>2. CASE Failed  BY <1>2, FailsAway
<1>3. CASE CheckLedger /\ ~Failed
  <2>1. Todo("ledger", "core") /\ run' = Advance(run)  BY <1>3 DEF CheckLedger, Check, Failed
  <2>2. <<"ledger", "core">> \notin DeliverStep \cup RecoverStep
    BY DEF RecoverStep, DeliverStep, DeliverNames, Free, Repeating, Closing, Staging2, Retiring, Activating
  <2>3. Under("preflight")  BY <2>1, <2>2, HeadMode DEF Under
  <2>4. PICK F : F = {"todo"}  OBVIOUS
  <2>5. Keeps(run, run', F)  BY <1>1, <2>1, <2>4, RunAdvance
  <2> QED  BY <2>3, <2>4, <2>5, PreflightStays
<1>4. CASE (\E w \in Workers : Inventory(w)) /\ ~Failed
  <2>1. PICK w \in Workers : Inventory(w)  BY <1>4
  <2>2. PICK r : r = [Advance(run) EXCEPT !.read[w] = live[w]]  OBVIOUS
  <2>3. Todo("inventory", w) /\ run' = r  BY <1>4, <2>1, <2>2 DEF Inventory, Check, Failed
  <2>4. <<"inventory", w>> \notin DeliverStep \cup RecoverStep
    BY DEF RecoverStep, DeliverStep, DeliverNames, Free, Repeating, Closing, Staging2, Retiring, Activating
  <2>5. Under("preflight")  BY <2>3, <2>4, HeadMode DEF Under
  <2>6. PICK F : F = {"todo", "read"}  OBVIOUS
  <2>7. Keeps(run, r, F)  BY <1>1, <2>2, <2>6, RunCalls
  <2> QED  BY <2>3, <2>5, <2>6, <2>7, PreflightStays
<1> QED  BY <1>2, <1>3, <1>4

LEMMA FenceHandover ==
  ASSUME CourseInv, HandoverInv, PassFence
  PROVE  HandoverInv'
<1>1. Shape(run) /\ versions \in Nat  BY DEF CourseInv, Types
<1>2. PICK w \in Workers : Todo("fence", w)  BY DEF PassFence
<1>3. CASE ~FencePasses(run)
  <2>1. run' = Stop(run)  BY <1>3 DEF PassFence
  <2> QED  BY <1>1, <2>1, StopsAway
<1>4. CASE FencePasses(run)
  <2>1. /\ run' = AfterFence(run) /\ fenced' = [v \in Workers |-> live[v].version]
        /\ UNCHANGED <<live, request, authorized, versions, strange, late>>
    BY <1>4 DEF PassFence
  <2>2. PICK r : r = (IF run.boot /\ ObservedPhase(run) = "added" THEN [run EXCEPT !.phase = "added"] ELSE run)
    OBVIOUS
  <2>3. Keeps(run, r, {"phase"}) /\ r.todo = run.todo
    BY <1>1, <2>2 DEF Keeps, Shape, RunFields
  <2>4. run' = [r EXCEPT !.todo = Tail(@)]  BY <2>1, <2>2 DEF AfterFence, Advance
  <2>5. PICK F : F = {"phase", "todo"}  OBVIOUS
  <2>6. Keeps(run, run', F) /\ run'.todo = Tail(run.todo)
    BY <2>3, <2>4, <2>5 DEF Keeps, Shape, RunFields
  <2>7. CASE Under("preflight")  BY <2>5, <2>6, <2>7, PreflightStays
  <2>8. CASE ~Under("preflight") /\ ~Under("deliver")
    <3>1. run'.outcome = run.outcome /\ run'.mode = run.mode  BY <2>5, <2>6 DEF Keeps, RunFields
    <3> QED  BY <2>8, <3>1, NothingToKeep DEF Under
  <2>9. CASE Under("deliver")
    <3>1. PICK x : x = <<"fence", w>>  OBVIOUS
    <3>2. x[1] = "fence" /\ x \in Fences  BY <3>1 DEF Fences
    <3>3. PICK e : e = <<>>  OBVIOUS
    <3>4. run'.todo = e \o Tail(run.todo)
      <4>1. Tail(run.todo) \in Seq(Step)  BY <1>2, TailIndex DEF CourseInv, Types, Todo
      <4> QED  BY <2>6, <3>3, <4>1
    <3>5. /\ F \cap {"intent", "patched", "receipt", "snapshot"} = {} /\ F \cap {"own", "hand"} = {}
          /\ "pending" \notin F /\ F \cap {"boot", "policy", "mode", "outcome"} = {}
      BY <2>5
    <3>6. Listed(x, e) /\ Under("deliver")'  BY <1>2, <2>6, <2>9, <3>1, <3>4, <3>5, CallListed
    <3>7. Adds(x, e) /\ AddsProofs(x, e)  BY <3>2, <3>3, NothingAdded
    <3>8. Lives(x)  BY <1>1, <2>1, <3>2 DEF Lives
    <3>9. Cores(x)
      <4>1. strange' = strange \ {} /\ live' = live  BY <2>1
      <4> QED  BY <3>1, <4>1, QuietCores
    <3>10. Papers(x)  BY <2>6, <3>1, <3>5, PapersKept
    <3>11. Proofs(x) /\ Tables'
      <4>1. Tables  BY <2>9 DEF HandoverInv
      <4> QED  BY <2>6, <3>1, <3>5, <4>1, ProofsKept
    <3>12. Waits(x)  BY <2>6, <3>5, WaitsKept
    <3>13. Effect(x, e)
      BY <3>6, <3>7, <3>8, <3>9, <3>10, <3>11, <3>12 DEF Effect
    <3> QED  BY <3>13, DeliveryGoesOn
  <2> QED  BY <2>7, <2>8, <2>9
<1> QED  BY <1>3, <1>4

(* A mutation makes a new version of one Worker. *)
LEMMA MutationLives ==
  ASSUME CourseInv, NEW n \in {"stage", "activate", "patch"}, NEW w \in Workers, NEW v, v.version = versions + 1,
         live' = [live EXCEPT ![w] = v], versions' = versions + 1, fenced' = fenced
  PROVE  /\ Lives(<<n, w>>) /\ live'[w] = v /\ \A o \in Workers : o # w => live'[o] = live[o]
<1>1. versions \in Nat /\ versions' \in Nat /\ versions < versions' /\ live \in [Workers -> Version]
  BY DEF CourseInv, Types
<1>2. live'[w] = v /\ \A o \in Workers : o # w => live'[o] = live[o]  BY <1>1
<1>3. <<n, w>> \notin Fences  BY DEF Fences
<1>4. ASSUME NEW o \in Workers
      PROVE  \/ live'[o] = live[o]
             \/ /\ <<n, w>> \in {<<"stage", o>>, <<"activate", o>>, <<"patch", o>>}
                /\ versions < versions' /\ live'[o].version = versions'
  <2>1. CASE o = w  BY <1>1, <1>2, <2>1
  <2>2. CASE o # w  BY <1>2, <2>2
  <2> QED  BY <2>1, <2>2
<1>5. versions <= versions'  BY <1>1
<1> QED  BY <1>1, <1>2, <1>3, <1>4, <1>5 DEF Lives

LEMMA UploadEffect ==
  ASSUME CourseInv, HandoverInv, NEW n \in {"stage", "activate"}, NEW w \in Workers, Todo(n, w),
         NEW phase \in {"staged", "active"}, n = "stage" => phase = "staged",
         live' = [live EXCEPT ![w] = Uploaded(run.src, w, phase)], versions' = versions + 1,
         fenced' = fenced, strange' = strange \ {w},
         NEW done, Keeps(run, done, {"todo", "message", "coreStaged", "phase"}), done.todo = Tail(run.todo),
         run' = [done EXCEPT !.hit = @ \cup {w}]
  PROVE  HandoverInv'
<1>1. PICK x : x = <<n, w>>  OBVIOUS
<1>2. x[1] = n /\ n # "readStaged" /\ n # "handoff"  BY <1>1
<1>3. PICK v \in Version : v = Uploaded(run.src, w, phase) /\ v.version = versions + 1 /\ v.circuit = Circuit(phase)
  BY UploadedIs DEF CourseInv
<1>4. Lives(x) /\ live'[w] = v /\ \A o \in Workers : o # w => live'[o] = live[o]
  BY <1>1, <1>3, MutationLives
<1>5. PICK F : F = {"todo", "message", "coreStaged", "phase", "hit"}  OBVIOUS
<1>6. Keeps(run, run', F) /\ run'.todo = Tail(run.todo)
  BY <1>5 DEF Keeps, Shape, RunFields
<1>7. Under("deliver")  BY CallOfDelivery DEF DeliverNames, Staging2, Activating
<1>8. /\ F \cap {"intent", "patched", "receipt", "snapshot"} = {} /\ F \cap {"own", "hand"} = {}
      /\ "pending" \notin F /\ F \cap {"boot", "policy", "mode", "outcome"} = {}
  BY <1>5
<1>9. PICK e : e = <<>>  OBVIOUS
<1>10. run'.todo = e \o Tail(run.todo)
  <2>1. Tail(run.todo) \in Seq(Step)  BY TailIndex DEF CourseInv, Types, Todo
  <2> QED  BY <1>6, <1>9, <2>1
<1>11. Listed(x, e) /\ Under("deliver")'  BY <1>1, <1>6, <1>7, <1>8, <1>10, CallListed
<1>12. Adds(x, e) /\ AddsProofs(x, e)  BY <1>2, <1>9, NothingAdded
<1>13. Cores(x)
  <2>1. CoreIsOff => CoreIsOff' \/ x[1] \in LateNames
    <3>1. CASE n = "activate"  BY <1>2, <3>1 DEF LateNames
    <3>2. CASE w # "core"
      <4>1. live'["core"] = live["core"]  BY <1>4, <3>2 DEF Workers
      <4> QED  BY <3>2, <4>1 DEF CoreIsOff
    <3>3. CASE n = "stage" /\ w = "core"
      <4>1. live'["core"].circuit = "disabled"  BY <1>3, <1>4, <3>3 DEF Circuit
      <4> QED  BY <4>1 DEF CoreIsOff
    <3> QED  BY <3>1, <3>2, <3>3
  <2>2. x # <<"readStaged", "core">>  BY <1>1
  <2> QED  BY <2>1, <2>2 DEF Cores
<1>14. Papers(x)  BY <1>1, <1>6, <1>8, PapersKept
<1>15. Proofs(x) /\ Tables'
  <2>1. Tables  BY <1>7 DEF HandoverInv
  <2> QED  BY <1>1, <1>6, <1>8, <2>1, ProofsKept
<1>16. Waits(x)  BY <1>6, <1>8, WaitsKept
<1>17. Effect(x, e)  BY <1>4, <1>11, <1>12, <1>13, <1>14, <1>15, <1>16 DEF Effect
<1> QED  BY <1>17, DeliveryGoesOn

(* An upload goes on, or its delivery stops. *)
LEMMA UploadHandover ==
  ASSUME CourseInv, HandoverInv, NEW n \in {"stage", "activate"}, NEW w \in Workers, Todo(n, w),
         NEW phase \in {"staged", "active"}, n = "stage" => phase = "staged", NEW strict,
         NEW q, Shape(q), NEW done, Keeps(run, done, {"todo", "message", "coreStaged", "phase"}),
         done.todo = Tail(run.todo), Upload(w, phase, strict, done, q)
  PROVE  HandoverInv'
<1>1. CASE run' = Stop(q)  BY <1>1, StopsAway
<1>2. CASE run' = Stop([q EXCEPT !.hit = @ \cup {w}])
  <2>1. PICK r : r = [q EXCEPT !.hit = @ \cup {w}]  OBVIOUS
  <2>2. Shape(r)  BY <2>1 DEF Shape, RunFields
  <2> QED  BY <1>2, <2>1, <2>2, StopsAway
<1>3. CASE /\ run' = [done EXCEPT !.hit = @ \cup {w}]
           /\ live' = [live EXCEPT ![w] = Uploaded(run.src, w, phase)] /\ versions' = versions + 1
           /\ fenced' = fenced /\ strange' = strange \ {w}
  BY <1>3, UploadEffect
<1> QED  BY <1>1, <1>2, <1>3 DEF Upload

LEMMA UploadsHandover ==
  ASSUME CourseInv, HandoverInv, RecoverDeploy \/ \E w \in Workers : DeployStaged(w) \/ DeployActive(w)
  PROVE  HandoverInv'
<1>1. Shape(run) /\ "core" \in Workers  BY DEF CourseInv, Types, Workers
<1>2. PICK a : a = Advance(run)  OBVIOUS
<1>3. Keeps(run, a, {"todo"}) /\ a.todo = Tail(run.todo) /\ Shape(a)
  BY <1>1, <1>2, RunAdvance DEF Keeps
<1>4. ASSUME NEW w \in Workers, DeployStaged(w) PROVE HandoverInv'
  <2>1. Todo("stage", w)  BY <1>4 DEF DeployStaged
  <2>2. CASE run.boot /\ w = "core" /\ run.phase # "baseline"
    <3>1. run' = Stop(run)  BY <1>4, <2>2 DEF DeployStaged, Answer, Check
    <3> QED  BY <1>1, <3>1, StopsAway
  <2>3. CASE ~(run.boot /\ w = "core" /\ run.phase # "baseline")
    <3>1. PICK q : q = Staging(run, w)  OBVIOUS
    <3>2. PICK d : d = [Advance(q) EXCEPT !.message = @ \/ w = "core"]  OBVIOUS
    <3>3. PICK s : s = (w \notin run.api)  OBVIOUS
    <3>4. Upload(w, "staged", s, d, q)
      BY <1>4, <2>3, <3>1, <3>2, <3>3 DEF DeployStaged
    <3>5. Keeps(run, q, {"coreStaged", "phase"}) /\ q.todo = run.todo /\ Shape(q)
      <4>1. CASE w = "core"
        <5>1. PICK p : p = (IF run.boot THEN "uploading" ELSE run.phase)  OBVIOUS
        <5>2. q = [run EXCEPT !.coreStaged = TRUE, !.phase = p]
          BY <1>1, <3>1, <4>1, <5>1 DEF Staging, Shape, RunFields
        <5> QED  BY <1>1, <5>2 DEF Keeps, Shape, RunFields
      <4>2. CASE w # "core"  BY <1>1, <3>1, <4>2 DEF Staging, Keeps
      <4> QED  BY <4>1, <4>2
    <3>6. PICK b : b = Advance(q)  OBVIOUS
    <3>7. b = [q EXCEPT !.todo = Tail(@)]  BY <3>6 DEF Advance
    <3>8. Keeps(q, b, {"todo"}) /\ b.todo = Tail(run.todo) /\ Shape(b)
      BY <3>5, <3>7 DEF Keeps, Shape, RunFields
    <3>9. d = [b EXCEPT !.message = @ \/ w = "core"]  BY <3>2, <3>6
    <3>10. Keeps(b, d, {"message"}) /\ d.todo = b.todo
      BY <3>8, <3>9 DEF Keeps, Shape, RunFields
    <3>11. Keeps(run, d, {"todo", "message", "coreStaged", "phase"}) /\ d.todo = Tail(run.todo)
      BY <3>5, <3>8, <3>10 DEF Keeps
    <3>12. "staged" \in {"staged", "active"} /\ "stage" \in {"stage", "activate"}  OBVIOUS
    <3> QED  BY <2>1, <3>4, <3>5, <3>11, <3>12, UploadHandover
  <2> QED  BY <2>2, <2>3
<1>5. ASSUME NEW w \in Workers, DeployActive(w) PROVE HandoverInv'
  <2>1. PICK s : s = (~ByApi(run, w))  OBVIOUS
  <2>2. Todo("activate", w) /\ Upload(w, "active", s, a, run)
    BY <1>2, <1>5, <2>1 DEF DeployActive
  <2>3. Keeps(run, a, {"todo", "message", "coreStaged", "phase"})  BY <1>3 DEF Keeps
  <2>4. "active" \in {"staged", "active"} /\ "activate" \in {"stage", "activate"} /\ "activate" # "stage"
    OBVIOUS
  <2> QED  BY <1>1, <1>3, <2>2, <2>3, <2>4, UploadHandover
<1>6. CASE RecoverDeploy
  <2>1. PICK d : d = [Advance(run) EXCEPT !.message = TRUE]  OBVIOUS
  <2>2. PICK s : s = ("core" \notin run.api)  OBVIOUS
  <2>3. Todo("recoverDeploy", "core") /\ Upload("core", "staged", s, d, run)
    BY <1>6, <2>1, <2>2 DEF RecoverDeploy
  <2>4. run.mode = "recover"
    <3>1. <<"recoverDeploy", "core">> \notin DeliverStep \cup PreStep
      BY DEF PreStep, DeliverStep, DeliverNames, Free, Repeating, Closing, Staging2, Retiring, Activating
    <3> QED  BY <2>3, <3>1, HeadMode
  <2>5. d.mode = "recover" /\ Shape(d)
    <3>1. d = [a EXCEPT !.message = TRUE]  BY <1>2, <2>1
    <3>2. a.mode = run.mode  BY <1>3 DEF Keeps, RunFields
    <3> QED  BY <1>3, <2>4, <3>1, <3>2 DEF Shape, RunFields
  <2>6. CASE run' = [d EXCEPT !.hit = @ \cup {"core"}]
    <3>1. run'.mode = "recover"  BY <2>5, <2>6 DEF Shape, RunFields
    <3> QED  BY <3>1, NothingToKeep DEF Under
  <2>7. CASE run' = Stop(run)  BY <1>1, <2>7, StopsAway
  <2>8. CASE run' = Stop([run EXCEPT !.hit = @ \cup {"core"}])
    <3>1. PICK r : r = [run EXCEPT !.hit = @ \cup {"core"}]  OBVIOUS
    <3>2. Shape(r)  BY <1>1, <3>1 DEF Shape, RunFields
    <3> QED  BY <2>8, <3>1, <3>2, StopsAway
  <2> QED  BY <2>3, <2>6, <2>7, <2>8 DEF Upload
<1> QED  BY <1>4, <1>5, <1>6

LEMMA PatchHandover ==
  ASSUME CourseInv, HandoverInv, NEW c \in Callers, RetirePatch(c)
  PROVE  HandoverInv'
<1>1. Shape(run) /\ c \in Workers /\ c # "core"  BY DEF CourseInv, Types, Callers, Workers
<1>2. Todo("patch", c)  BY DEF RetirePatch
<1>3. CASE run' = Stop(run)  BY <1>1, <1>3, StopsAway
<1>4. CASE run' = Stop([run EXCEPT !.patched = @ \cup {c}, !.hit = @ \cup {c}])
  <2>1. PICK r : r = [run EXCEPT !.patched = @ \cup {c}, !.hit = @ \cup {c}]  OBVIOUS
  <2>2. Shape(r)  BY <1>1, <2>1 DEF Shape, RunFields
  <2> QED  BY <1>4, <2>1, <2>2, StopsAway
<1>5. CASE \E via \in {live[c].via, "api"} :
             /\ live' = [live EXCEPT ![c] = Patched(c, via)]
             /\ versions' = versions + 1
             /\ run' = [Advance(run) EXCEPT !.patched = @ \cup {c}, !.hit = @ \cup {c}]
             /\ UNCHANGED <<strange, fenced>>
  <2>1. PICK via \in {live[c].via, "api"} :
             /\ live' = [live EXCEPT ![c] = Patched(c, via)]
             /\ versions' = versions + 1
             /\ run' = [Advance(run) EXCEPT !.patched = @ \cup {c}, !.hit = @ \cup {c}]
             /\ UNCHANGED <<strange, fenced>>
    BY <1>5
  <2>2. PICK v \in Version : v = Patched(c, via) /\ v.version = versions + 1
    BY PatchedIs DEF CourseInv
  <2>3. PICK n \in {"patch"} : TRUE  OBVIOUS
  <2>4. PICK x : x = <<n, c>>  OBVIOUS
  <2>5. Lives(x) /\ live'[c] = v /\ \A o \in Workers : o # c => live'[o] = live[o]
    <3>1. n \in {"stage", "activate", "patch"} /\ live' = [live EXCEPT ![c] = v] /\ fenced' = fenced
      BY <2>1, <2>2
    <3>2. c \in Workers /\ v.version = versions + 1 /\ versions' = versions + 1  BY <1>1, <2>1, <2>2
    <3>3. Lives(<<n, c>>) /\ live'[c] = v /\ \A o \in Workers : o # c => live'[o] = live[o]
      BY <3>1, <3>2, MutationLives
    <3> QED  BY <2>4, <3>3
  <2>6. PICK F : F = {"todo", "patched", "hit"}  OBVIOUS
  <2>7. Keeps(run, run', F) /\ run'.todo = Tail(run.todo) /\ run'.patched = run.patched \cup {c}
    <3>1. PICK a : a = Advance(run)  OBVIOUS
    <3>2. Keeps(run, a, {"todo"}) /\ a.todo = Tail(run.todo) /\ Shape(a)
      BY <1>1, <3>1, RunAdvance DEF Keeps
    <3>3. PICK r : r = [a EXCEPT !.patched = @ \cup {c}, !.hit = @ \cup {c}]  OBVIOUS
    <3>4. Keeps(a, r, {"patched", "hit"}) /\ r.patched = a.patched \cup {c} /\ r.todo = a.todo
      BY <3>2, <3>3 DEF Keeps, Shape, RunFields
    <3>5. a.patched = run.patched  BY <3>2 DEF Keeps, RunFields
    <3>6. Keeps(run, r, F)  BY <2>6, <3>2, <3>4 DEF Keeps
    <3> QED  BY <2>1, <3>1, <3>2, <3>3, <3>4, <3>5, <3>6
  <2>8. Under("deliver")  BY <1>2, CallOfDelivery DEF DeliverNames, Retiring
  <2>9. /\ F \cap {"own", "hand"} = {} /\ "pending" \notin F /\ F \cap {"boot", "policy", "mode", "outcome"} = {}
    BY <2>6
  <2>10. PICK e : e = <<>>  OBVIOUS
  <2>11. run'.todo = e \o Tail(run.todo)
    <3>1. Tail(run.todo) \in Seq(Step)  BY <1>2, TailIndex DEF CourseInv, Types, Todo
    <3> QED  BY <2>7, <2>10, <3>1
  <2>12. Listed(x, e) /\ Under("deliver")'
    BY <1>2, <2>3, <2>4, <2>7, <2>8, <2>9, <2>11, CallListed
  <2>13. Adds(x, e) /\ AddsProofs(x, e)  BY <2>3, <2>4, <2>10, NothingAdded
  <2>14. Cores(x)
    <3>1. live'["core"] = live["core"]  BY <1>1, <2>5 DEF Workers
    <3>2. x # <<"readStaged", "core">>  BY <1>1, <2>4
    <3> QED  BY <2>1, <3>1, <3>2 DEF Cores, CoreIsOff
  <2>15. Papers(x)
    <3>1. run'.intent = run.intent /\ run'.receipt = run.receipt /\ run'.snapshot = run.snapshot
      BY <2>6, <2>7 DEF Keeps, RunFields
    <3>2. x[1] = "patch" /\ x = <<"patch", c>>  BY <2>3, <2>4
    <3> QED  BY <2>7, <3>1, <3>2 DEF Papers
  <2>16. Proofs(x) /\ Tables'
    <3>1. Tables  BY <2>8 DEF HandoverInv
    <3> QED  BY <2>3, <2>4, <2>7, <2>9, <3>1, ProofsKept
  <2>17. Waits(x)  BY <2>7, <2>9, WaitsKept
  <2>18. Effect(x, e)  BY <2>5, <2>12, <2>13, <2>14, <2>15, <2>16, <2>17 DEF Effect
  <2> QED  BY <2>18, DeliveryGoesOn
<1> QED  BY <1>3, <1>4, <1>5 DEF RetirePatch

-----------------------------------------------------------------------------
(* What a readback and a proof put before the rest *)

(* Fences, and calls with names of N for w *)
Within(u, N, w) ==
  /\ u \in Seq(DeliverStep)
  /\ \A i \in 1..Len(u) : u[i] = <<"fence", "core">> \/ (u[i][1] \in N /\ u[i][2] = w)

LEMMA WithinOne ==
  ASSUME NEW N, N \subseteq DeliverNames, NEW n \in N, NEW w \in Workers
  PROVE  Within(<<<<n, w>>>>, N, w) /\ Has(<<<<n, w>>>>, <<n, w>>)
<1>1. PICK x \in DeliverStep : x = <<n, w>>  BY DEF DeliverStep
<1>2. PICK u : u = <<x>>  OBVIOUS
<1>3. u \in Seq(DeliverStep) /\ Len(u) = 1 /\ u[1] = x  BY <1>2
<1>4. x[1] = n /\ x[2] = w  BY <1>1
<1>5. Within(u, N, w) /\ Has(u, x)  BY <1>3, <1>4 DEF Within, Has
<1> QED  BY <1>1, <1>2, <1>5

LEMMA WithinFence == \A N, w : Within(Fence, N, w)
<1>1. PICK u : u = Fence  OBVIOUS
<1>2. u \in Seq(DeliverStep) /\ Len(u) = 1 /\ u[1] = <<"fence", "core">>
  BY <1>1, FenceFacts DEF Fence
<1> QED  BY <1>1, <1>2 DEF Within

LEMMA WithinCat ==
  ASSUME NEW u, NEW t, NEW N, NEW w, Within(u, N, w), Within(t, N, w)
  PROVE  Within(u \o t, N, w) /\ \A y : Has(u, y) \/ Has(t, y) => Has(u \o t, y)
<1>1. PICK z : z = u \o t  OBVIOUS
<1>2. u \in Seq(DeliverStep) /\ t \in Seq(DeliverStep)  BY DEF Within
<1>3. /\ z \in Seq(DeliverStep)
      /\ \A i \in 1..Len(z) : i \in 1..Len(u) \/ i - Len(u) \in 1..Len(t)
      /\ \A i \in 1..Len(u) : z[i] = u[i]
      /\ \A i \in 1..Len(z) : i \notin 1..Len(u) => z[i] = t[i - Len(u)]
  BY <1>1, <1>2, CatIndex
<1>4. Within(z, N, w)
  <2>1. \A i \in 1..Len(u) : u[i] = <<"fence", "core">> \/ (u[i][1] \in N /\ u[i][2] = w)
    BY DEF Within
  <2>2. \A i \in 1..Len(t) : t[i] = <<"fence", "core">> \/ (t[i][1] \in N /\ t[i][2] = w)
    BY DEF Within
  <2>3. ASSUME NEW i \in 1..Len(z) PROVE z[i] = <<"fence", "core">> \/ (z[i][1] \in N /\ z[i][2] = w)
    <3>1. CASE i \in 1..Len(u)  BY <1>3, <2>1, <3>1
    <3>2. CASE i \notin 1..Len(u)  BY <1>3, <2>2, <3>2
    <3> QED  BY <3>1, <3>2
  <2> QED  BY <1>3, <2>3 DEF Within
<1> QED  BY <1>1, <1>2, <1>4, CatHas

LEMMA WithinHas ==
  ASSUME NEW u, NEW N, NEW w, Within(u, N, w), NEW n, n # "fence", NEW c, Has(u, <<n, c>>)
  PROVE  n \in N /\ c = w
<1>1. PICK i \in 1..Len(u) : u[i] = <<n, c>>  BY DEF Has
<1>2. u[i] # <<"fence", "core">>  BY <1>1
<1>3. u[i][1] \in N /\ u[i][2] = w  BY <1>2 DEF Within
<1> QED  BY <1>1, <1>3

LEMMA WithinNames ==
  ASSUME NEW u, NEW N, NEW w, Within(u, N, w), NEW i \in 1..Len(u)
  PROVE  u[i][1] = "fence" \/ u[i][1] \in N
BY DEF Within

RetireNames == {"beginRetirement", "retireRead", "intent", "retireReread", "authorize", "patch",
                "retireVerify", "receipt", "acceptRetirement", "completeRetirement"}
ObserveNames == {"observe", "completeObservation"}
ProofNames == {"readRetired", "readObserved", "authorize"}

LEMMA NamesDeliver ==
  RetireNames \subseteq DeliverNames /\ ObserveNames \subseteq DeliverNames /\ ProofNames \subseteq DeliverNames
BY DEF RetireNames, ObserveNames, ProofNames, DeliverNames, Free, Staging2, Retiring, Activating

(* The PATCH of a retirement comes right behind the second read. *)
LEMMA RetireWithin ==
  ASSUME NEW w \in Workers
  PROVE  LET u == <<<<"beginRetirement", w>>>> \o RetireSteps(w) IN
         /\ Within(u, RetireNames, w) /\ Has(u, <<"intent", w>>) /\ Has(u, <<"completeRetirement", w>>)
         /\ Kept(u, Spoilers(Rereading(w)), <<"patch", w>>, Rereading(w))
<1> DEFINE b0 == <<<<"beginRetirement", w>>>>
           b1 == <<<<"retireRead", w>>, <<"intent", w>>>>
           b2 == <<<<"retireReread", w>>, <<"authorize", w>>, <<"patch", w>>, <<"retireVerify", w>>>>
           b3 == <<<<"receipt", w>>, <<"acceptRetirement", w>>>>
           b4 == <<<<"completeRetirement", w>>>>
           d1 == Fence \o b1 \o Fence
           d2 == d1 \o b2
           d3 == d2 \o Fence
           d4 == d3 \o b3 \o Fence \o b4
           A == Spoilers(Rereading(w))
           P == Rereading(w)
           b == <<"patch", w>>
           Good2(u) == Within(u, RetireNames, w) /\ Kept(u, A, b, P)
<1>1. ASSUME NEW u, Within(u, RetireNames, w), ~Has(u, b) PROVE Good2(u)
  BY <1>1, LedNone
<1>2. ASSUME NEW u, NEW t, Good2(u), Good2(t)
      PROVE  Good2(u \o t) /\ \A y : Has(u, y) \/ Has(t, y) => Has(u \o t, y)
  <2>1. u \in Seq(DeliverStep) /\ t \in Seq(DeliverStep)  BY <1>2 DEF Within
  <2>2. Kept(u \o t, A, b, P)  BY <1>2, <2>1, KeptCat
  <2> QED  BY <1>2, <2>2, WithinCat
<1>3. ASSUME NEW n \in RetireNames, n # "patch" PROVE Good2(<<<<n, w>>>>) /\ Has(<<<<n, w>>>>, <<n, w>>)
  <2>1. PICK x : x = <<n, w>>  OBVIOUS
  <2>2. PICK u : u = <<x>>  OBVIOUS
  <2>3. Within(u, RetireNames, w) /\ Has(u, x)  BY <2>1, <2>2, NamesDeliver, WithinOne
  <2>4. x # b  BY <1>3, <2>1
  <2>5. ~Has(u, b)  BY <2>2, <2>4 DEF Has
  <2> QED  BY <1>1, <2>1, <2>2, <2>3, <2>5
<1>4. Good2(Fence)
  <2>1. ~Has(Fence, b)  BY DEF Fence, Has
  <2> QED  BY <1>1, <2>1, WithinFence
<1>5. Good2(b0)  BY <1>3 DEF RetireNames
<1>6. Good2(b1) /\ Has(b1, <<"intent", w>>)
  <2>1. b1 = <<<<"retireRead", w>>>> \o <<<<"intent", w>>>>  OBVIOUS
  <2>2. Good2(<<<<"retireRead", w>>>>) /\ Good2(<<<<"intent", w>>>>) /\ Has(<<<<"intent", w>>>>, <<"intent", w>>)
    BY <1>3 DEF RetireNames
  <2> HIDE DEF b1, Good2
  <2> QED  BY <1>2, <2>1, <2>2
<1>7. Good2(b3)
  <2>1. b3 = <<<<"receipt", w>>>> \o <<<<"acceptRetirement", w>>>>  OBVIOUS
  <2>2. Good2(<<<<"receipt", w>>>>) /\ Good2(<<<<"acceptRetirement", w>>>>)  BY <1>3 DEF RetireNames
  <2> HIDE DEF b3, Good2
  <2> QED  BY <1>2, <2>1, <2>2
<1>8. Good2(b4) /\ Has(b4, <<"completeRetirement", w>>)  BY <1>3 DEF RetireNames
<1>9. Good2(b2)
  <2>1. PICK u : u = b2  OBVIOUS
  <2>2. /\ Len(u) = 4 /\ u[1] = <<"retireReread", w>> /\ u[2] = <<"authorize", w>>
        /\ u[3] = <<"patch", w>> /\ u[4] = <<"retireVerify", w>> /\ 1..Len(u) = {1, 2, 3, 4}
    BY <2>1
  <2>3. u \in Seq(DeliverStep)
    <3>1. /\ <<"retireReread", w>> \in DeliverStep /\ <<"authorize", w>> \in DeliverStep
          /\ <<"patch", w>> \in DeliverStep /\ <<"retireVerify", w>> \in DeliverStep
      BY NamesDeliver DEF DeliverStep, RetireNames
    <3> QED  BY <2>1, <3>1
  <2>4. Within(u, RetireNames, w)
    <3>1. \A i \in {1, 2, 3, 4} : u[i][1] \in RetireNames /\ u[i][2] = w  BY <2>2 DEF RetireNames
    <3> QED  BY <2>2, <2>3, <3>1 DEF Within
  <2>5. u[1] \in P /\ u[2] \notin A /\ u[4] # b /\ u[1] # b /\ u[2] # b /\ u[1] \notin A
    BY <2>2 DEF Spoilers, Authorities, Rereading
  <2>6. Between(u, A, b, P)
    <3>1. ASSUME NEW i \in 1..Len(u), NEW j \in 1..Len(u), i < j, u[i] \in A, u[j] = b PROVE FALSE
      <4>1. j = 3  BY <2>2, <2>5, <3>1
      <4>2. i = 1 \/ i = 2  BY <2>2, <3>1, <4>1
      <4> QED  BY <2>5, <3>1, <4>2
    <3> HIDE DEF A, b, P
    <3> QED  BY <3>1 DEF Between
  <2>7. Led(u, b, P)
    <3>1. ASSUME NEW j \in 1..Len(u), u[j] = b PROVE 1 \in 1..j-1 /\ u[1] \in P
      <4>1. j = 3  BY <2>2, <2>5, <3>1
      <4> QED  BY <2>5, <4>1
    <3> HIDE DEF b, P
    <3> QED  BY <3>1 DEF Led
  <2> QED  BY <2>1, <2>4, <2>6, <2>7 DEF Kept
<1> HIDE DEF b0, b1, b2, b3, b4, Good2
<1>10. PICK e1 : e1 = Fence \o b1 /\ Good2(e1) /\ Has(e1, <<"intent", w>>)
  <2>1. PICK z : z = Fence \o b1  OBVIOUS
  <2> QED  BY <1>2, <1>4, <1>6, <2>1
<1>11. PICK e2 : e2 = e1 \o Fence /\ Good2(e2) /\ Has(e2, <<"intent", w>>)
  <2>1. PICK z : z = e1 \o Fence  OBVIOUS
  <2> QED  BY <1>2, <1>4, <1>10, <2>1
<1>12. PICK e3 : e3 = e2 \o b2 /\ Good2(e3) /\ Has(e3, <<"intent", w>>)
  <2>1. PICK z : z = e2 \o b2  OBVIOUS
  <2> QED  BY <1>2, <1>9, <1>11, <2>1
<1>13. PICK e4 : e4 = e3 \o Fence /\ Good2(e4) /\ Has(e4, <<"intent", w>>)
  <2>1. PICK z : z = e3 \o Fence  OBVIOUS
  <2> QED  BY <1>2, <1>4, <1>12, <2>1
<1>14. PICK e5 : e5 = e4 \o b3 /\ Good2(e5) /\ Has(e5, <<"intent", w>>)
  <2>1. PICK z : z = e4 \o b3  OBVIOUS
  <2> QED  BY <1>2, <1>7, <1>13, <2>1
<1>15. PICK e6 : e6 = e5 \o Fence /\ Good2(e6) /\ Has(e6, <<"intent", w>>)
  <2>1. PICK z : z = e5 \o Fence  OBVIOUS
  <2> QED  BY <1>2, <1>4, <1>14, <2>1
<1>16. PICK e7 : e7 = e6 \o b4 /\ Good2(e7) /\ Has(e7, <<"intent", w>>) /\ Has(e7, <<"completeRetirement", w>>)
  <2>1. PICK z : z = e6 \o b4  OBVIOUS
  <2> QED  BY <1>2, <1>8, <1>15, <2>1
<1>17. RetireSteps(w) = e7
  <2>1. e7 = Fence \o b1 \o Fence \o b2 \o Fence \o b3 \o Fence \o b4
    BY <1>10, <1>11, <1>12, <1>13, <1>14, <1>15, <1>16
  <2> QED  BY <2>1 DEF RetireSteps, b1, b2, b3, b4
<1>18. PICK z : z = b0 \o e7  OBVIOUS
<1>19. Good2(z) /\ Has(z, <<"intent", w>>) /\ Has(z, <<"completeRetirement", w>>)
  BY <1>2, <1>5, <1>16, <1>18
<1>20. z = <<<<"beginRetirement", w>>>> \o RetireSteps(w)  BY <1>17, <1>18 DEF b0
<1> QED  BY <1>19, <1>20 DEF Good2

(* What an observation puts before the rest *)
LEMMA ObserveWithin ==
  ASSUME NEW w \in Workers
  PROVE  Within(ObserveSteps(w), ObserveNames, w) /\ Has(ObserveSteps(w), <<"completeObservation", w>>)
<1> DEFINE b1 == <<<<"observe", w>>>>
           b2 == <<<<"completeObservation", w>>>>
<1>1. /\ Within(b1, ObserveNames, w) /\ Within(b2, ObserveNames, w) /\ Within(Fence, ObserveNames, w)
      /\ Has(b2, <<"completeObservation", w>>)
  BY NamesDeliver, WithinOne, WithinFence DEF ObserveNames
<1>2. ObserveSteps(w) = Fence \o b1 \o Fence \o Fence \o b2  BY DEF ObserveSteps
<1> HIDE DEF b1, b2
<1>3. Within(Fence \o b1, ObserveNames, w)  BY <1>1, WithinCat
<1>4. Within(Fence \o b1 \o Fence, ObserveNames, w)  BY <1>1, <1>3, WithinCat
<1>5. Within(Fence \o b1 \o Fence \o Fence, ObserveNames, w)  BY <1>1, <1>4, WithinCat
<1> QED  BY <1>1, <1>2, <1>5, WithinCat

LEMMA AddsCat ==
  ASSUME NEW x, NEW u, NEW t, Adds(x, u), Adds(x, t)
  PROVE  /\ Adds(x, u \o t)
         /\ \A c : Kinds(u, c) /\ Kinds(t, c) => Kinds(u \o t, c)
         /\ \A Y : Some(u, Y) \/ Some(t, Y) => Some(u \o t, Y)
<1>1. PICK z : z = u \o t  OBVIOUS
<1>2. u \in Seq(DeliverStep) /\ t \in Seq(DeliverStep)  BY DEF Adds
<1>3. /\ z \in Seq(DeliverStep)
      /\ \A i \in 1..Len(z) : i \in 1..Len(u) \/ i - Len(u) \in 1..Len(t)
      /\ \A i \in 1..Len(u) : z[i] = u[i]
      /\ \A i \in 1..Len(z) : i \notin 1..Len(u) => z[i] = t[i - Len(u)]
  BY <1>1, <1>2, CatIndex
<1>4. /\ \A y : Has(z, y) <=> Has(u, y) \/ Has(t, y)
      /\ \A Y : Some(z, Y) <=> Some(u, Y) \/ Some(t, Y)
  BY <1>1, <1>2, CatHas
<1>5. z # <<>> => x[1] \in Handling
  <2>1. u = <<>> /\ t = <<>> => z = <<>>  BY <1>1
  <2> QED  BY <2>1 DEF Adds
<1>6. \A i \in 1..Len(z) : z[i][1] \notin {"readStaged", "activate"} /\ (z[i][1] = "patch" => x[1] = "readStaged")
  <2>1. \A i \in 1..Len(u) : u[i][1] \notin {"readStaged", "activate"} /\ (u[i][1] = "patch" => x[1] = "readStaged")
    BY DEF Adds
  <2>2. \A i \in 1..Len(t) : t[i][1] \notin {"readStaged", "activate"} /\ (t[i][1] = "patch" => x[1] = "readStaged")
    BY DEF Adds
  <2> QED  BY <1>3, <2>1, <2>2
<1>7. ASSUME NEW c \in Callers
      PROVE  /\ Kept(z, Spoilers(Rereading(c)), <<"patch", c>>, Rereading(c))
             /\ Has(z, <<"patch", c>>) => Has(z, <<"intent", c>>)
             /\ Has(z, <<"patch", c>>) \/ Has(z, <<"retireVerify", c>>) \/ Some(z, Hands(c)) => x = <<"readStaged", c>>
  <2>1. /\ Kept(u, Spoilers(Rereading(c)), <<"patch", c>>, Rereading(c))
        /\ Has(u, <<"patch", c>>) => Has(u, <<"intent", c>>)
        /\ Has(u, <<"patch", c>>) \/ Has(u, <<"retireVerify", c>>) \/ Some(u, Hands(c)) => x = <<"readStaged", c>>
    BY DEF Adds
  <2>2. /\ Kept(t, Spoilers(Rereading(c)), <<"patch", c>>, Rereading(c))
        /\ Has(t, <<"patch", c>>) => Has(t, <<"intent", c>>)
        /\ Has(t, <<"patch", c>>) \/ Has(t, <<"retireVerify", c>>) \/ Some(t, Hands(c)) => x = <<"readStaged", c>>
    BY DEF Adds
  <2>3. Kept(z, Spoilers(Rereading(c)), <<"patch", c>>, Rereading(c))
    BY <1>1, <1>2, <2>1, <2>2, KeptCat
  <2> QED  BY <1>4, <2>1, <2>2, <2>3
<1>8. Adds(x, z)  BY <1>3, <1>5, <1>6, <1>7 DEF Adds
<1>9. \A c : Kinds(u, c) /\ Kinds(t, c) => Kinds(z, c)  BY <1>4 DEF Kinds
<1> QED  BY <1>1, <1>4, <1>8, <1>9

(* A proof reads and authorizes, no more. *)
LEMMA AddsProof ==
  ASSUME NEW x, x[1] \in Handling, NEW u, NEW w, Within(u, ProofNames, w),
         ~Has(u, <<"readRetired", w>>) \/ run.policy[w].pair
  PROVE  Adds(x, u) /\ \A c \in Callers : Kinds(u, c)
<1>1. \A n, c : n # "fence" /\ Has(u, <<n, c>>) => n \in ProofNames /\ c = w  BY WithinHas
<1>2. \A i \in 1..Len(u) : u[i][1] = "fence" \/ u[i][1] \in ProofNames  BY WithinNames
<1>3. \A i \in 1..Len(u) : u[i][1] \notin {"readStaged", "activate", "patch"}  BY <1>2 DEF ProofNames
<1>4. ASSUME NEW c \in Callers
      PROVE  ~Has(u, <<"patch", c>>) /\ ~Has(u, <<"retireVerify", c>>) /\ ~Some(u, Hands(c)) /\ Kinds(u, c)
  <2>1. ASSUME NEW n, n # "fence", n \notin ProofNames PROVE ~Has(u, <<n, c>>)  BY <1>1, <2>1
  <2>2. ~Has(u, <<"patch", c>>) /\ ~Has(u, <<"retireVerify", c>>)  BY <2>1 DEF ProofNames
  <2>3. /\ ~Has(u, <<"readStaged", c>>) /\ ~Has(u, <<"completeRetirement", c>>)
        /\ ~Has(u, <<"completeObservation", c>>)
    BY <2>1 DEF ProofNames
  <2>4. ~Some(u, Hands(c))  BY <2>3 DEF Some, Hands, Has
  <2>5. Has(u, <<"readRetired", c>>) => run.policy[c].pair
    <3>1. Has(u, <<"readRetired", c>>) => c = w  BY <1>1
    <3> QED  BY <3>1
  <2> QED  BY <2>2, <2>3, <2>4, <2>5 DEF Kinds
<1>5. \A c \in Callers : Kept(u, Spoilers(Rereading(c)), <<"patch", c>>, Rereading(c))
  BY <1>4, LedNone
<1>6. u \in Seq(DeliverStep)  BY DEF Within
<1>7. Adds(x, u)  BY <1>3, <1>4, <1>5, <1>6 DEF Adds
<1> QED  BY <1>4, <1>7

LEMMA AddsNone ==
  ASSUME NEW x, x[1] \in Handling
  PROVE  Adds(x, <<>>) /\ \A c \in Callers : Kinds(<<>>, c)
<1>1. PICK e : e = <<>>  OBVIOUS
<1>2. e \in Seq(DeliverStep) /\ Len(e) = 0 /\ 1..Len(e) = {}  BY <1>1
<1>3. Within(e, ProofNames, "core") /\ ~Has(e, <<"readRetired", "core">>)  BY <1>2 DEF Within, Has
<1>4. PICK w : w = "core"  OBVIOUS
<1>5. Within(e, ProofNames, w) /\ ~Has(e, <<"readRetired", w>>)  BY <1>3, <1>4
<1>6. Adds(x, e) /\ \A c \in Callers : Kinds(e, c)  BY <1>5, AddsProof
<1> QED  BY <1>1, <1>6

(* The oldest retired caller is read again; it had the pair. *)
LEMMA AddsReread ==
  ASSUME NEW x, x[1] \in Handling, NEW p \in Seq(Callers)
  PROVE  /\ Adds(x, Reread(p))
         /\ p \in Seq(Paired) => \A c \in Callers : Kinds(Reread(p), c)
<1>1. CASE p = <<>>  BY <1>1, AddsNone DEF Reread
<1>2. CASE p # <<>>
  <2>1. PICK h \in Callers : h = Head(p)  BY <1>2
  <2>2. h \in Workers  BY DEF Callers, Workers
  <2>3. PICK u : u = <<<<"readRetired", h>>>>  OBVIOUS
  <2>4. Within(u, ProofNames, h) /\ Within(Fence, ProofNames, h)
    BY <2>2, <2>3, NamesDeliver, WithinOne, WithinFence DEF ProofNames
  <2>5. PICK z : z = Fence \o u  OBVIOUS
  <2>6. Within(z, ProofNames, h)  BY <2>4, <2>5, WithinCat
  <2>7. z = Reread(p)  BY <1>2, <2>1, <2>3, <2>5 DEF Reread
  <2>8. p \in Seq(Paired) => run.policy[h].pair
    <3>1. p \in Seq(Paired) => h \in Paired  BY <1>2, <2>1
    <3> QED  BY <3>1 DEF Paired
  <2>9. p \in Seq(Paired) => \A c \in Callers : Kinds(z, c)  BY <2>6, <2>8, AddsProof
  <2>10. Adds(x, z)
    <3>1. \A i \in 1..Len(z) : z[i][1] \notin {"readStaged", "activate", "patch"}
      <4>1. \A i \in 1..Len(z) : z[i][1] = "fence" \/ z[i][1] \in ProofNames  BY <2>6, WithinNames
      <4> QED  BY <4>1 DEF ProofNames
    <3>2. ASSUME NEW c \in Callers
          PROVE  ~Has(z, <<"patch", c>>) /\ ~Has(z, <<"retireVerify", c>>) /\ ~Some(z, Hands(c))
      <4>1. ASSUME NEW n, n # "fence", n \notin ProofNames PROVE ~Has(z, <<n, c>>)
        BY <2>6, <4>1, WithinHas
      <4>2. ~Has(z, <<"patch", c>>) /\ ~Has(z, <<"retireVerify", c>>)  BY <4>1 DEF ProofNames
      <4>3. /\ ~Has(z, <<"readStaged", c>>) /\ ~Has(z, <<"completeRetirement", c>>)
            /\ ~Has(z, <<"completeObservation", c>>)
        BY <4>1 DEF ProofNames
      <4>4. ~Some(z, Hands(c))  BY <4>3 DEF Some, Hands, Has
      <4> QED  BY <4>2, <4>4
    <3>3. \A c \in Callers : Kept(z, Spoilers(Rereading(c)), <<"patch", c>>, Rereading(c))
      BY <3>2, LedNone
    <3>4. z \in Seq(DeliverStep)  BY <2>6 DEF Within
    <3> QED  BY <3>1, <3>2, <3>3, <3>4 DEF Adds
  <2> QED  BY <2>7, <2>9, <2>10
<1> QED  BY <1>1, <1>2

(* The readback of a staged caller puts its retirement, or its observation. *)
LEMMA AddsHanding ==
  ASSUME NEW w \in Workers, NEW x, x = <<"readStaged", w>>
  PROVE  /\ Adds(x, Handing(w)) /\ \A c \in Callers : Kinds(Handing(w), c)
         /\ run.boot /\ w \in Callers => Some(Handing(w), Hands(w))
<1>1. x[1] = "readStaged" /\ x[1] \in Handling  BY DEF Handling
<1>2. CASE RetirePair(run, w)
  <2>1. PICK u : u = <<<<"beginRetirement", w>>>> \o RetireSteps(w)  OBVIOUS
  <2>2. /\ Within(u, RetireNames, w) /\ Has(u, <<"intent", w>>) /\ Has(u, <<"completeRetirement", w>>)
        /\ Kept(u, Spoilers(Rereading(w)), <<"patch", w>>, Rereading(w))
    BY <2>1, RetireWithin
  <2>3. \A n, c : n # "fence" /\ Has(u, <<n, c>>) => n \in RetireNames /\ c = w  BY <2>2, WithinHas
  <2>4. \A i \in 1..Len(u) : u[i][1] \notin {"readStaged", "activate"}
    <3>1. \A i \in 1..Len(u) : u[i][1] = "fence" \/ u[i][1] \in RetireNames  BY <2>2, WithinNames
    <3> QED  BY <3>1 DEF RetireNames
  <2>5. run.policy[w].pair  BY <1>2 DEF RetirePair
  <2>6. ASSUME NEW c \in Callers
        PROVE  /\ Kept(u, Spoilers(Rereading(c)), <<"patch", c>>, Rereading(c))
               /\ Has(u, <<"patch", c>>) => Has(u, <<"intent", c>>)
               /\ Has(u, <<"patch", c>>) \/ Has(u, <<"retireVerify", c>>) \/ Some(u, Hands(c)) => x = <<"readStaged", c>>
               /\ Kinds(u, c)
    <3>1. CASE c = w
      <4>1. ~Has(u, <<"completeObservation", c>>)  BY <2>3 DEF RetireNames
      <4>2. Kinds(u, c)  BY <2>5, <3>1, <4>1 DEF Kinds
      <4> QED  BY <2>2, <3>1, <4>2
    <3>2. CASE c # w
      <4>1. ASSUME NEW n, n # "fence" PROVE ~Has(u, <<n, c>>)  BY <2>3, <3>2, <4>1
      <4>2. /\ ~Has(u, <<"patch", c>>) /\ ~Has(u, <<"retireVerify", c>>) /\ ~Has(u, <<"readStaged", c>>)
            /\ ~Has(u, <<"completeRetirement", c>>) /\ ~Has(u, <<"completeObservation", c>>)
            /\ ~Has(u, <<"readRetired", c>>)
        BY <4>1
      <4>3. ~Some(u, Hands(c))  BY <4>2 DEF Some, Hands, Has
      <4> QED  BY <4>2, <4>3, LedNone DEF Kinds
    <3> QED  BY <3>1, <3>2
  <2>7. u \in Seq(DeliverStep)  BY <2>2 DEF Within
  <2>8. Adds(x, u)  BY <1>1, <2>4, <2>6, <2>7 DEF Adds
  <2>9. Some(u, Hands(w))  BY <2>2 DEF Some, Hands, Has
  <2>10. u = Handing(w)  BY <1>2, <2>1 DEF Handing
  <2> QED  BY <2>6, <2>8, <2>9, <2>10
<1>3. CASE ~RetirePair(run, w) /\ ObserveSecretFree(run, w)
  <2>1. PICK u : u = ObserveSteps(w)  OBVIOUS
  <2>2. Within(u, ObserveNames, w) /\ Has(u, <<"completeObservation", w>>)  BY <2>1, ObserveWithin
  <2>3. \A n, c : n # "fence" /\ Has(u, <<n, c>>) => n \in ObserveNames /\ c = w  BY <2>2, WithinHas
  <2>4. \A i \in 1..Len(u) : u[i][1] \notin {"readStaged", "activate", "patch"}
    <3>1. \A i \in 1..Len(u) : u[i][1] = "fence" \/ u[i][1] \in ObserveNames  BY <2>2, WithinNames
    <3> QED  BY <3>1 DEF ObserveNames
  <2>5. ~run.policy[w].pair  BY <1>3 DEF ObserveSecretFree
  <2>6. ASSUME NEW c \in Callers
        PROVE  /\ Kept(u, Spoilers(Rereading(c)), <<"patch", c>>, Rereading(c))
               /\ ~Has(u, <<"patch", c>>) /\ ~Has(u, <<"retireVerify", c>>)
               /\ Some(u, Hands(c)) => x = <<"readStaged", c>>
               /\ Kinds(u, c)
    <3>1. ASSUME NEW n, n # "fence", n # "completeObservation", n # "observe" PROVE ~Has(u, <<n, c>>)
      BY <2>3, <3>1 DEF ObserveNames
    <3>2. /\ ~Has(u, <<"patch", c>>) /\ ~Has(u, <<"retireVerify", c>>) /\ ~Has(u, <<"readStaged", c>>)
          /\ ~Has(u, <<"completeRetirement", c>>) /\ ~Has(u, <<"readRetired", c>>)
      BY <3>1
    <3>3. Has(u, <<"completeObservation", c>>) => c = w  BY <2>3
    <3>4. Some(u, Hands(c)) => Has(u, <<"completeObservation", c>>)  BY <3>2 DEF Some, Hands, Has
    <3>5. Kinds(u, c)  BY <2>5, <3>2, <3>3 DEF Kinds
    <3> QED  BY <3>2, <3>3, <3>4, <3>5, LedNone
  <2>7. u \in Seq(DeliverStep)  BY <2>2 DEF Within
  <2>8. Adds(x, u)  BY <1>1, <2>4, <2>6, <2>7 DEF Adds
  <2>9. Some(u, Hands(w))  BY <2>2 DEF Some, Hands, Has
  <2>10. u = Handing(w)  BY <1>3, <2>1 DEF Handing
  <2> QED  BY <2>6, <2>8, <2>9, <2>10
<1>4. CASE ~RetirePair(run, w) /\ ~ObserveSecretFree(run, w)
  <2>1. Handing(w) = <<>>  BY <1>4 DEF Handing
  <2>2. ~(run.boot /\ w \in Callers)  BY <1>4 DEF RetirePair, ObserveSecretFree
  <2> QED  BY <1>1, <2>1, <2>2, AddsNone
<1> QED  BY <1>2, <1>3, <1>4

(* A call that puts others before the rest *)
LEMMA InsertEffect ==
  ASSUME CourseInv, HandoverInv, NEW n \in Handling, NEW w \in Workers, Todo(n, w), Under("deliver"),
         NEW r, NEW F, NEW acc, Answered(r, acc), Keeps(run, r, F),
         F \subseteq {"todo", "uploaded", "transition", "pending"},
         NEW u, r.todo = u \o Tail(run.todo), Adds(<<n, w>>, u), run.boot => AddsProofs(<<n, w>>, u),
         "core" \in acc => n \in LateNames \/ live["core"].circuit = "disabled",
         n = "readStaged" /\ w = "core" => live["core"].circuit = "disabled",
         Waits(<<n, w>>)
  PROVE  HandoverInv'
<1>1. PICK x : x = <<n, w>>  OBVIOUS
<1>2. x[1] = n /\ x \notin Fences  BY <1>1 DEF Fences, Handling
<1>3. /\ run' = r /\ live' = live /\ versions' = versions /\ fenced' = fenced
      /\ strange' = strange \ acc
  BY DEF Answered
<1>4. /\ F \cap {"intent", "patched", "receipt", "snapshot"} = {} /\ F \cap {"own", "hand"} = {}
      /\ F \cap {"boot", "policy", "mode", "outcome"} = {}
  OBVIOUS
<1>5. Listed(x, u) /\ Under("deliver")'  BY <1>1, <1>3, <1>4, CallListed
<1>6. Lives(x)  BY <1>2, <1>3, QuietLives
<1>7. Cores(x)  BY <1>1, <1>3, QuietCores
<1>8. n \notin {"intent", "retireReread", "completeRetirement", "completeObservation", "readRetired", "readObserved"}
  BY DEF Handling
<1>9. Papers(x)  BY <1>1, <1>3, <1>4, <1>8, PapersKept
<1>10. Proofs(x) /\ Tables'
  <2>1. Tables  BY DEF HandoverInv
  <2> QED  BY <1>1, <1>3, <1>4, <1>8, <2>1, ProofsKept
<1>11. Effect(x, u)  BY <1>1, <1>5, <1>6, <1>7, <1>9, <1>10 DEF Effect
<1> QED  BY <1>11, DeliveryGoesOn

LEMMA ReadStagedHandover ==
  ASSUME CourseInv, HandoverInv, NEW w \in Workers, ReadStaged(w)
  PROVE  HandoverInv'
<1>1. Shape(run) /\ run.todo \in Seq(Step) /\ run.pending \in Seq(Callers)
  BY DEF CourseInv, Types
<1>2. CASE Failed  BY <1>2, FailsAway
<1>3. CASE ~Failed
  <2>1. PICK r : r = RecordUpload(BeginHandoff(Advance(run), w), w, "staged")  OBVIOUS
  <2>2. PICK acc : acc = {w}  OBVIOUS
  <2>3. PICK n \in {"readStaged"} : TRUE  OBVIOUS
  <2>4. Todo(n, w) /\ Answered(r, acc) /\ live[w].circuit = "disabled"
    BY <1>3, <2>1, <2>2, <2>3
       DEF ReadStaged, Check, Failed, Answered, ReadsUploaded, HasConfiguration
  <2>5. run.todo # <<>>  BY <2>4 DEF Todo
  <2>6. PICK F : F = {"todo", "uploaded", "transition"}  OBVIOUS
  <2>7. PICK a : a = Reread(run.pending)  OBVIOUS
  <2>8. PICK h : h = Handing(w)  OBVIOUS
  <2>9. PICK u : u = a \o h  OBVIOUS
  <2>10. Keeps(run, r, F) /\ r.todo = u \o Tail(run.todo)
    BY <1>1, <2>1, <2>5, <2>6, <2>7, <2>8, <2>9, RunReadsBack
  <2>11. F \subseteq {"todo", "uploaded", "transition", "pending"} /\ "pending" \notin F  BY <2>6
  <2>12. Under("deliver") /\ n \in Handling
    BY <2>3, <2>4, CallOfDelivery DEF DeliverNames, Staging2, Handling
  <2>13. PICK x : x = <<n, w>>  OBVIOUS
  <2>14. /\ Adds(x, h) /\ \A c \in Callers : Kinds(h, c)
         /\ run.boot /\ w \in Callers => Some(h, Hands(w))
    BY <2>3, <2>8, <2>13, AddsHanding
  <2>15. Adds(x, a) /\ (run.boot => \A c \in Callers : Kinds(a, c))
    <3>1. x[1] \in Handling  BY <2>12, <2>13
    <3>2. run.boot => run.pending \in Seq(Paired)  BY <2>12 DEF HandoverInv, PendingPaired
    <3> QED  BY <1>1, <2>7, <3>1, <3>2, AddsReread
  <2>16. Adds(x, u)  BY <2>9, <2>14, <2>15, AddsCat
  <2>17. run.boot => AddsProofs(x, u)
    <3>1. run.boot => \A c \in Callers : Kinds(u, c)  BY <2>9, <2>14, <2>15, AddsCat
    <3>2. ASSUME run.boot, NEW c \in Callers, x = <<"readStaged", c>> PROVE Some(u, Hands(c))
      <4>1. c = w  BY <2>13, <3>2
      <4>2. Some(h, Hands(w))  BY <2>14, <3>2, <4>1
      <4> QED  BY <2>9, <2>14, <2>15, <4>1, <4>2, AddsCat
    <3>3. \A c : x # <<"handoff", c>>  BY <2>3, <2>13
    <3> QED  BY <3>1, <3>2, <3>3 DEF AddsProofs
  <2>18. Waits(x)
    <3>1. run' = r  BY <2>4 DEF Answered
    <3> QED  BY <2>10, <2>11, <3>1, WaitsKept
  <2>19. "core" \in acc => live["core"].circuit = "disabled"  BY <2>2, <2>4
  <2>20. w = "core" => live["core"].circuit = "disabled"  BY <2>4
  <2> QED
    BY <2>4, <2>10, <2>11, <2>12, <2>13, <2>16, <2>17, <2>18, <2>19, <2>20, InsertEffect
<1> QED  BY <1>2, <1>3

LEMMA ReadActiveHandover ==
  ASSUME CourseInv, HandoverInv, NEW w \in Workers, ReadActive(w)
  PROVE  HandoverInv'
<1>1. Shape(run) /\ run.todo \in Seq(Step) /\ run.pending \in Seq(Callers)
  BY DEF CourseInv, Types
<1>2. CASE Failed  BY <1>2, FailsAway
<1>3. CASE ~Failed
  <2>1. PICK a : a = [Advance(run) EXCEPT !.pending = Without(@, w)]  OBVIOUS
  <2>2. PICK r : r = RecordUpload(a, w, "active")  OBVIOUS
  <2>3. PICK acc : acc = {w}  OBVIOUS
  <2>4. PICK n \in {"readActive"} : TRUE  OBVIOUS
  <2>5. Todo(n, w) /\ Answered(r, acc)
    <3>1. PICK b \in {[Advance(run) EXCEPT !.pending = Without(@, w)]} :
            Check(ReadsActive(run, live[w]) /\ MayRecord(b, w), RecordUpload(b, w, "active"), {w})
      BY DEF ReadActive
    <3>2. b = a  BY <2>1, <3>1
    <3> QED  BY <1>3, <2>2, <2>3, <2>4, <3>1, <3>2 DEF ReadActive, Check, Failed, Answered
  <2>6. run.todo # <<>>  BY <2>5 DEF Todo
  <2>7. PICK F : F = {"todo", "pending", "transition"}  OBVIOUS
  <2>8. PICK p \in Seq(Callers) : p = Without(run.pending, w)  BY <1>1, WithoutIn
  <2>9. PICK u : u = Reread(p)  OBVIOUS
  <2>10. Keeps(run, r, F) /\ r.pending = p /\ r.todo = u \o Tail(run.todo)
    BY <1>1, <2>1, <2>2, <2>6, <2>7, <2>8, <2>9, RunReadsBack
  <2>11. F \subseteq {"todo", "uploaded", "transition", "pending"}  BY <2>7
  <2>12. Under("deliver") /\ n \in Handling /\ n \in LateNames /\ n # "readStaged"
    BY <2>4, <2>5, CallOfDelivery DEF DeliverNames, Activating, Handling, LateNames
  <2>13. PICK x : x = <<n, w>>  OBVIOUS
  <2>14. Adds(x, u) /\ (run.boot => \A c \in Callers : Kinds(u, c))
    <3>1. x[1] \in Handling  BY <2>12, <2>13
    <3>2. PICK Q : Q = Paired  OBVIOUS
    <3>3. run.boot => run.pending \in Seq(Q)  BY <2>12, <3>2 DEF HandoverInv, PendingPaired
    <3>4. run.boot => p \in Seq(Q)  BY <2>8, <3>3, WithoutIn
    <3> QED  BY <2>9, <3>1, <3>2, <3>4, AddsReread
  <2>15. run.boot => AddsProofs(x, u)
    <3>1. \A c : x # <<"handoff", c>> /\ x # <<"readStaged", c>>  BY <2>4, <2>13
    <3> QED  BY <2>14, <3>1 DEF AddsProofs
  <2>16. Waits(x)
    <3>1. run'.pending = Without(run.pending, w)  BY <2>5, <2>8, <2>10 DEF Answered
    <3> QED  BY <3>1 DEF Waits
  <2> QED  BY <2>5, <2>10, <2>11, <2>12, <2>13, <2>14, <2>15, <2>16, InsertEffect
<1> QED  BY <1>2, <1>3

(* A retired caller had the pair: it has been handed off when it is verified or *)
(* activated.                                                                   *)
LEMMA RetiredHad ==
  ASSUME CourseInv, HandoverInv, NEW n \in {"verifyStaged", "handoff"}, NEW w \in Workers, Todo(n, w),
         Under("deliver"), RetiredHand(run, w)
  PROVE  run.policy[w].pair /\ w \in Callers
<1>1. run.boot /\ w \in Callers /\ run.hand[w].kind = "retired"  BY DEF RetiredHand, HandedOff
<1>2. HandKnown(run.todo, w) /\ HandProven(run.todo, w)  BY <1>1 DEF HandoverInv, Handed
<1>3. PICK s \in Seq(DeliverStep) : s = run.todo /\ Orderly(s) /\ s # <<>> /\ Head(s) = <<n, w>>
  BY DEF CourseInv, Modes, Todo
<1>4. n \notin Free /\ <<n, w>>[1] = n /\ n \in DeliverNames  BY DEF Free, DeliverNames, Repeating, Activating
<1>5. PICK y \in DeliverStep : y = <<n, w>>  BY <1>4 DEF DeliverStep
<1>6. Rank(y) >= 60 /\ Rank(y) \in Nat
  <2>1. Rank(<<"verifyStaged", w>>) = 60  BY Ranks
  <2>2. PICK U \in {0, 20, 40} : U = ActiveTurn[w]  BY Ranks
  <2>3. Rank(<<"handoff", w>>) = 61 + U  BY <2>2, Ranks
  <2>4. n = "verifyStaged" \/ n = "handoff"  OBVIOUS
  <2> QED  BY <1>5, <2>1, <2>3, <2>4, SMTT(40)
<1>7. PICK T \in {0, 20, 40} : T = StageTurn[w]  BY Ranks
<1>8. Rank(<<"readStaged", w>>) = 3 + T  BY <1>7, Ranks
<1>9. Rank(<<"completeRetirement", w>>) = 14 + T  BY <1>7, Ranks
<1>10. Rank(<<"completeObservation", w>>) = 5 + T  BY <1>7, Ranks
<1>11. ASSUME NEW m \in {"readStaged", "completeRetirement", "completeObservation"}
       PROVE  ~Has(s, <<m, w>>)
  <2>1. m \in DeliverNames /\ m \notin Free  BY DEF DeliverNames, Staging2, Retiring, Free
  <2>2. PICK z \in DeliverStep : z = <<m, w>> /\ z[1] \notin Free
    <3>1. <<m, w>> \in DeliverStep /\ <<m, w>>[1] = m  BY <2>1 DEF DeliverStep
    <3> QED  BY <2>1, <3>1
  <2>3. Rank(z) < 60 /\ Rank(z) \in Nat
    <3>1. Rank(<<m, w>>) = 3 + T \/ Rank(<<m, w>>) = 14 + T \/ Rank(<<m, w>>) = 5 + T
      BY <1>8, <1>9, <1>10
    <3>2. PICK k : k = Rank(z)  OBVIOUS
    <3>3. k = 3 + T \/ k = 14 + T \/ k = 5 + T  BY <2>2, <3>1, <3>2
    <3> QED  BY <1>7, <3>2, <3>3
  <2>4. Rank(z) < Rank(Head(s))  BY <1>3, <1>5, <1>6, <2>3
  <2>5. Head(s)[1] \notin Free  BY <1>3, <1>4
  <2>6. ~Has(Tail(s), z)  BY <1>3, <2>2, <2>4, <2>5, Gone
  <2>7. z # Head(s)  BY <2>4, <2>3
  <2> QED  BY <1>3, <2>2, <2>6, <2>7, TailHas
<1>12. ~Some(s, Hands(w))  BY <1>11 DEF Some, Hands, Has
<1>13. run.hand[w] # None  BY <1>2, <1>3, <1>12 DEF HandKnown
<1> QED  BY <1>1, <1>2, <1>13 DEF HandProven

LEMMA VerifyHandover ==
  ASSUME CourseInv, HandoverInv, NEW w \in Workers, VerifyStaged(w)
  PROVE  HandoverInv'
<1>1. Shape(run)  BY DEF CourseInv, Types
<1>2. PICK n \in {"verifyStaged"} : TRUE  OBVIOUS
<1>3. Todo(n, w)  BY <1>2 DEF VerifyStaged
<1>4. Under("deliver") /\ n \in Handling /\ n \in LateNames /\ n # "readStaged"
  BY <1>2, <1>3, CallOfDelivery DEF DeliverNames, Repeating, Handling, LateNames
<1>5. PICK x : x = <<n, w>>  OBVIOUS
<1>6. x[1] \in Handling /\ \A c : x # <<"handoff", c>> /\ x # <<"readStaged", c>>  BY <1>2, <1>4, <1>5
<1>7. PICK F : F = {"todo"}  OBVIOUS
<1>8. F \subseteq {"todo", "uploaded", "transition", "pending"} /\ "pending" \notin F  BY <1>7
<1>9. CASE RetiredHand(run, w)
  <2>1. PICK s : s = Fence \o <<<<"readRetired", w>>>>  OBVIOUS
  <2>2. PICK r : r = Before(Advance(run), s)  OBVIOUS
  <2>3. PICK none : none = {}  OBVIOUS
  <2>4. "core" \notin none  BY <2>3
  <2>5. Answered(r, none)
    BY <1>9, <2>1, <2>2, <2>3 DEF VerifyStaged, Answer, Check, Failed, Answered
  <2>6. Keeps(run, r, F) /\ r.todo = s \o Tail(run.todo)  BY <1>1, <1>7, <2>2, RunBefore
  <2>7. run.policy[w].pair  BY <1>2, <1>3, <1>4, <1>9, RetiredHad
  <2>8. Adds(x, s) /\ \A c \in Callers : Kinds(s, c)
    <3>1. Within(<<<<"readRetired", w>>>>, ProofNames, w) /\ Within(Fence, ProofNames, w)
      BY NamesDeliver, WithinOne, WithinFence DEF ProofNames
    <3>2. Within(s, ProofNames, w)  BY <2>1, <3>1, WithinCat
    <3> QED  BY <1>6, <2>7, <3>2, AddsProof
  <2>9. AddsProofs(x, s)  BY <1>6, <2>8 DEF AddsProofs
  <2>10. Waits(x)
    <3>1. run' = r  BY <2>5 DEF Answered
    <3> QED  BY <1>8, <2>6, <3>1, WaitsKept
  <2> QED  BY <1>3, <1>4, <1>5, <1>8, <2>4, <2>5, <2>6, <2>8, <2>9, <2>10, InsertEffect
<1>10. CASE ~RetiredHand(run, w) /\ Failed  BY <1>10, FailsAway
<1>11. CASE ~RetiredHand(run, w) /\ ~Failed
  <2>1. PICK r : r = Advance(run)  OBVIOUS
  <2>2. PICK acc : acc = {w}  OBVIOUS
  <2>3. Answered(r, acc)  BY <1>11, <2>1, <2>2 DEF VerifyStaged, Check, Failed, Answered
  <2>4. PICK e : e = <<>>  OBVIOUS
  <2>5. Keeps(run, r, F) /\ r.todo = e \o Tail(run.todo)
    <3>1. Keeps(run, r, F) /\ r.todo = Tail(run.todo)  BY <1>1, <1>7, <2>1, RunAdvance
    <3>2. Tail(run.todo) \in Seq(Step)  BY <1>3, TailIndex DEF CourseInv, Types, Todo
    <3> QED  BY <2>4, <3>1, <3>2
  <2>6. Adds(x, e) /\ \A c \in Callers : Kinds(e, c)  BY <1>6, <2>4, AddsNone
  <2>7. AddsProofs(x, e)  BY <1>6, <2>6 DEF AddsProofs
  <2>8. Waits(x)
    <3>1. run' = r  BY <2>3 DEF Answered
    <3> QED  BY <1>8, <2>5, <3>1, WaitsKept
  <2> QED  BY <1>3, <1>4, <1>5, <1>8, <2>3, <2>5, <2>6, <2>7, <2>8, InsertEffect
<1> QED  BY <1>9, <1>10, <1>11

LEMMA ActivationHandover ==
  ASSUME CourseInv, HandoverInv, NEW w \in Workers, ActivationHandoff(w)
  PROVE  HandoverInv'
<1>1. Shape(run)  BY DEF CourseInv, Types
<1>2. PICK n \in {"handoff"} : TRUE  OBVIOUS
<1>3. Todo(n, w)  BY <1>2 DEF ActivationHandoff
<1>4. Under("deliver") /\ n \in Handling /\ n \in LateNames /\ n # "readStaged"
  BY <1>2, <1>3, CallOfDelivery DEF DeliverNames, Activating, Handling, LateNames
<1>5. PICK x : x = <<n, w>>  OBVIOUS
<1>6. x[1] \in Handling /\ \A c : x # <<"readStaged", c>> /\ (x = <<"handoff", c>> => c = w)
  BY <1>2, <1>4, <1>5
<1>7. PICK F : F = {"todo"}  OBVIOUS
<1>8. F \subseteq {"todo", "uploaded", "transition", "pending"} /\ "pending" \notin F  BY <1>7
<1>9. PICK none : none = {}  OBVIOUS
<1>10. "core" \notin none  BY <1>9
<1>11. /\ Within(Fence, ProofNames, w)
       /\ \A m \in ProofNames : Within(<<<<m, w>>>>, ProofNames, w)
  BY NamesDeliver, WithinOne, WithinFence
<1>12. PICK z : z = <<<<"authorize", w>>>> /\ Within(z, ProofNames, w)
  <2>1. PICK z : z = <<<<"authorize", w>>>>  OBVIOUS
  <2> QED  BY <1>11, <2>1 DEF ProofNames
<1>13. ASSUME NEW s, NEW r, r = Before(Advance(run), s), Answered(r, none), Within(s, ProofNames, w),
              ~Has(s, <<"readRetired", w>>) \/ run.policy[w].pair,
              w \in Callers => \E y \in Provers(w) :
                s = Fence \o (<<y>> \o <<<<"authorize", w>>>>) \/ s = <<y>> \o <<<<"authorize", w>>>>
       PROVE  HandoverInv'
  <2>1. Keeps(run, r, F) /\ r.todo = s \o Tail(run.todo)  BY <1>1, <1>7, <1>13, RunBefore
  <2>2. Adds(x, s) /\ \A c \in Callers : Kinds(s, c)  BY <1>6, <1>13, AddsProof
  <2>3. AddsProofs(x, s)  BY <1>6, <1>13, <2>2 DEF AddsProofs
  <2>4. Waits(x)
    <3>1. run' = r  BY <1>13 DEF Answered
    <3> QED  BY <1>8, <2>1, <3>1, WaitsKept
  <2> QED  BY <1>3, <1>4, <1>5, <1>8, <1>10, <1>13, <2>1, <2>2, <2>3, <2>4, InsertEffect
<1>14. CASE RetiredHand(run, w)
  <2>1. PICK s : s = Fence \o <<<<"readRetired", w>>, <<"authorize", w>>>>  OBVIOUS
  <2>2. PICK r : r = Before(Advance(run), s)  OBVIOUS
  <2>3. Answered(r, none)
    BY <1>9, <1>14, <2>1, <2>2 DEF ActivationHandoff, Answer, Check, Failed, Answered
  <2>4. run.policy[w].pair /\ w \in Callers  BY <1>2, <1>3, <1>4, <1>14, RetiredHad
  <2>5. PICK y : y = <<"readRetired", w>>  OBVIOUS
  <2>6. PICK v : v = <<y>> \o z  OBVIOUS
  <2>7. v = <<<<"readRetired", w>>, <<"authorize", w>>>>  BY <1>12, <2>5, <2>6, Joined
  <2>8. s = Fence \o v  BY <2>1, <2>7
  <2>9. Within(s, ProofNames, w)
    <3>1. Within(<<y>>, ProofNames, w)  BY <1>11, <2>5 DEF ProofNames
    <3>2. Within(v, ProofNames, w)  BY <1>12, <2>6, <3>1, WithinCat
    <3> QED  BY <1>11, <2>8, <3>2, WithinCat
  <2>10. y \in Provers(w) /\ s = Fence \o (<<y>> \o <<<<"authorize", w>>>>)
    BY <1>12, <2>5, <2>6, <2>8 DEF Provers
  <2> QED  BY <1>13, <2>2, <2>3, <2>4, <2>9, <2>10
<1>15. CASE ~RetiredHand(run, w)
  <2>1. PICK s : s = <<<<"readObserved", w>>, <<"authorize", w>>>>  OBVIOUS
  <2>2. PICK r : r = Before(Advance(run), s)  OBVIOUS
  <2>3. Answered(r, none)
    BY <1>9, <1>15, <2>1, <2>2 DEF ActivationHandoff, Answer, Check, Failed, Answered
  <2>4. PICK y : y = <<"readObserved", w>>  OBVIOUS
  <2>5. s = <<y>> \o z  BY <1>12, <2>1, <2>4, Joined
  <2>6. Within(s, ProofNames, w)
    <3>1. Within(<<y>>, ProofNames, w)  BY <1>11, <2>4 DEF ProofNames
    <3> QED  BY <1>12, <2>5, <3>1, WithinCat
  <2>7. y \in Provers(w) /\ s = <<y>> \o <<<<"authorize", w>>>>  BY <1>12, <2>4, <2>5 DEF Provers
  <2>8. ~Has(s, <<"readRetired", w>>)
    <3>1. Len(s) = 2 /\ s[1] = <<"readObserved", w>> /\ s[2] = <<"authorize", w>>  BY <2>1
    <3>2. 1..Len(s) = {1, 2}  BY <3>1
    <3> QED  BY <3>1, <3>2 DEF Has
  <2> QED  BY <1>13, <2>2, <2>3, <2>6, <2>7, <2>8
<1> QED  BY <1>14, <1>15

-----------------------------------------------------------------------------
(* What happens around a run: it is not told, and no version comes back *)

(* A version that another writer makes is newer than any the run has seen. *)
LEMMA RunIdles ==
  ASSUME CourseInv, HandoverInv, run' = run, fenced' = fenced, strange \subseteq strange',
         versions' \in Nat, versions <= versions',
         \A w \in Workers :
           \/ live'[w] = live[w]
           \/ w \in strange' /\ versions < versions' /\ live'[w].version = versions'
  PROVE  HandoverInv'
<1>1. /\ \A w \in Workers : fenced[w] \in Nat /\ fenced[w] <= versions
      /\ versions \in Nat /\ "core" \in Workers /\ Callers \subseteq Workers
  BY DEF CourseInv, Types, Workers, Callers
<1>2. CoreIsOff => CoreIsOff'  BY <1>1 DEF CoreIsOff
<1>3. SnapshotKept => SnapshotKept'
  <2> SUFFICES ASSUME SnapshotKept, NEW w \in Workers
               PROVE  live'[w] = run.snapshot[w] \/ live'[w].version # fenced[w]
    BY DEF SnapshotKept
  <2>1. CASE live'[w] = live[w]  BY <2>1 DEF SnapshotKept
  <2>2. CASE versions < versions' /\ live'[w].version = versions'
    <3>1. live'[w].version # fenced[w]  BY <1>1, <2>2
    <3> QED  BY <3>1
  <2> QED  BY <2>1, <2>2
<1>4. ASSUME NEW s, CoreDown(s) PROVE CoreDown(s)'  BY <1>2, <1>4 DEF CoreDown, NoneStaged
<1>5. ASSUME NEW s, NEW c \in Callers, Retired(s, c) PROVE Retired(s, c)'
  BY <1>3, <1>5 DEF Retired, Intended, Once, Snapped
<1>6. ASSUME NEW s, NEW c \in Callers, Handed(s, c) PROVE Handed(s, c)'
  <2>1. /\ Between(s, Spoilers(Provers(c)), <<"activate", c>>, Provers(c))
        /\ Between(s, Hands(c), <<"activate", c>>, Fences)
        /\ Kinds(s, c) /\ HandKnown(s, c) /\ HandProven(s, c)
        /\ HeldFenced(s, c) /\ FreshProven(s, c)
    BY <1>6 DEF Handed
  <2>2. Kinds(s, c)' /\ HandKnown(s, c)'  BY <2>1 DEF Kinds, HandKnown
  <2>3. HandProven(s, c)'  BY <1>1, <2>1 DEF HandProven
  <2>4. Held(c) => Held(c)'
    <3>1. CASE live'[c] = live[c]  BY <3>1 DEF Held
    <3>2. CASE versions < versions' /\ live'[c].version = versions'
      <4>1. run.hand[c] # None => live'[c].version # run.hand[c].version
        BY <1>1, <2>1, <3>2 DEF HandProven
      <4> QED  BY <4>1 DEF Held
    <3> QED  BY <1>1, <3>1, <3>2
  <2>5. HeldFenced(s, c)'  BY <2>1, <2>4 DEF HeldFenced
  <2>6. FreshProven(s, c)'  BY <2>1 DEF FreshProven, Fresh
  <2> QED  BY <2>1, <2>2, <2>3, <2>5, <2>6 DEF Handed
<1>7. Tables => Tables'  BY DEF Tables
<1>8. PendingPaired => PendingPaired'  BY DEF PendingPaired, Paired
<1>9. \A m : Under(m)' <=> Under(m)  BY DEF Under
<1>10. PICK s : s = run.todo  OBVIOUS
<1>11. Under("preflight")' =>
         /\ Tables' /\ run'.pending = <<>>
         /\ \A c \in Callers : run'.hand[c] = None /\ c \notin run'.patched \cup run'.receipt
  BY <1>7, <1>9 DEF HandoverInv
<1>12. ASSUME Under("deliver")
       PROVE  /\ Tables' /\ CoreDown(run.todo)' /\ \A c \in Callers : Retired(run.todo, c)'
              /\ run.boot => PendingPaired' /\ \A c \in Callers : Handed(run.todo, c)'
  <2>1. /\ Tables /\ CoreDown(s) /\ \A c \in Callers : Retired(s, c)
        /\ run.boot => PendingPaired /\ \A c \in Callers : Handed(s, c)
    BY <1>10, <1>12 DEF HandoverInv
  <2>2. CoreDown(run.todo)'  BY <1>4, <1>10, <2>1
  <2>3. \A c \in Callers : Retired(run.todo, c)'  BY <1>5, <1>10, <2>1
  <2>4. run.boot => \A c \in Callers : Handed(run.todo, c)'  BY <1>6, <1>10, <2>1
  <2> QED  BY <1>7, <1>8, <2>1, <2>2, <2>3, <2>4
<1> QED  BY <1>9, <1>11, <1>12 DEF HandoverInv

LEMMA AroundHandover ==
  ASSUME CourseInv, HandoverInv,
         \/ \E s \in Sources, boot \in BOOLEAN : Dispatch(s, boot)
         \/ Revoke \/ (\E w \in Workers : ForeignChange(w)) \/ Migrate
         \/ UNCHANGED vars
  PROVE  HandoverInv'
<1>1. Types /\ Annotated /\ versions \in Nat  BY DEF CourseInv, Types
<1>2. CASE UNCHANGED <<live, run, versions, strange, fenced>>
  <2>1. versions' \in Nat /\ versions <= versions'  BY <1>1, <1>2
  <2> QED  BY <1>2, <2>1, RunIdles
<1>3. CASE \E w \in Workers : ForeignChange(w)
  <2>1. PICK w \in Workers : ForeignChange(w)  BY <1>3
  <2>2. PICK v \in ForeignVersions(w) :
          /\ live' = [live EXCEPT ![w] = v] /\ versions' = versions + 1
          /\ strange' = strange \cup {w}
          /\ UNCHANGED <<request, run, authorized, fenced, late>>
    BY <2>1 DEF ForeignChange
  <2>3. v.version = versions + 1  BY <1>1, ForeignIs
  <2>4. versions' \in Nat /\ versions < versions' /\ versions <= versions'  BY <1>1, <2>2
  <2>5. \A u \in Workers : live'[u] = IF u = w THEN v ELSE live[u]
    BY <2>2 DEF CourseInv, Types
  <2> QED  BY <2>2, <2>3, <2>4, <2>5, RunIdles
<1> QED  BY <1>2, <1>3 DEF Dispatch, Revoke, Migrate, vars

(* A run that ends, or recovers its core, is no delivery any more. *)
LEMMA EndsHandover ==
  ASSUME CourseInv, Kill \/ Report \/ RecoverRead \/ RecoverProve
  PROVE  HandoverInv'
<1>1. Shape(run)  BY DEF CourseInv, Types
<1>2. ASSUME NEW o, NEW p, run' = End(run, o, p), o # None PROVE HandoverInv'
  <2>1. run'.outcome = o  BY <1>1, <1>2 DEF End, Shape, RunFields
  <2> QED  BY <1>2, <2>1, NothingToKeep DEF Under
<1>3. "killed" # None /\ "stopped" # None /\ "deploy" # None /\ "no-op" # None  BY NoneAssumption
<1>4. CASE Kill  BY <1>2, <1>3, <1>4 DEF Kill
<1>5. CASE Report
  <2>1. Todo("report", "core") /\ run' = End(run, run.decision, run.recovery)
    BY <1>5 DEF Report, Answer, Check
  <2>2. Under("deliver")
    <3>1. <<"report", "core">> \notin PreStep \cup RecoverStep  BY DEF PreStep, RecoverStep
    <3> QED  BY <2>1, <3>1, HeadMode DEF Under
  <2>3. run.decision # None  BY <1>3, <2>2 DEF CourseInv, Modes
  <2> QED  BY <1>2, <2>1, <2>3
<1>6. CASE Failed  BY <1>6, FailsAway
<1>7. CASE (RecoverRead \/ RecoverProve) /\ ~Failed /\ run' # End(run, "stopped", "proven")
  <2>1. PICK t : /\ Todo("recoverRead", "core")
                 /\ run' = [run EXCEPT !.todo = t]
    BY <1>7 DEF RecoverRead, RecoverProve, Answer, Check, Failed
  <2>2. run.mode = "recover"
    <3>1. <<"recoverRead", "core">> \notin PreStep \cup DeliverStep
      BY DEF PreStep, DeliverStep, DeliverNames, Free, Repeating, Closing, Staging2, Retiring,
             Activating
    <3> QED  BY <2>1, <3>1, HeadMode
  <2>3. run'.mode = "recover"  BY <1>1, <2>1, <2>2 DEF Shape, RunFields
  <2> QED  BY <2>3, NothingToKeep DEF Under
<1>8. CASE run' = End(run, "stopped", "proven")  BY <1>2, <1>3, <1>8
<1> QED  BY <1>4, <1>5, <1>6, <1>7, <1>8

(* A run that begins has handed nothing off. *)
LEMMA StartHandover ==
  ASSUME CourseInv, Start
  PROVE  HandoverInv'
<1>1. PICK r : r = Begin(request)  OBVIOUS
<1>2. run' = r  BY <1>1 DEF Start
<1>3. /\ r.hand = [c \in Callers |-> None] /\ r.own = [c \in Callers |-> None]
      /\ r.patched = {} /\ r.receipt = {} /\ r.pending = <<>> /\ r.mode = "preflight"
  BY <1>1 DEF Begin
<1> QED  BY <1>2, <1>3 DEF HandoverInv, Under, Tables

LEMMA InitHandover ==
  ASSUME Init
  PROVE  HandoverInv
<1>1. run = NoRun  BY DEF Init
<1>2. PICK r : r = Begin(Request(CHOOSE s \in Sources : TRUE, FALSE, Delivered(CHOOSE s \in Sources : TRUE)))
  OBVIOUS
<1>3. run = [r EXCEPT !.todo = <<>>, !.outcome = "stopped", !.recovery = "not-needed"]
  BY <1>1, <1>2 DEF NoRun, End
<1>4. Shape(r)  BY <1>2, BeginIs
<1>5. run.outcome = "stopped"  BY <1>3, <1>4 DEF Shape, RunFields
<1> QED  BY <1>5, NoneAssumption DEF HandoverInv, Under

-----------------------------------------------------------------------------
(* The list that a decision makes                                           *)

(* The plan of an activation leads it by its proof, and by a fence. *)
LEMMA ActiveKept ==
  ASSUME NEW r, r.boot, NEW c \in Callers, NEW b, b = <<"activate", c>>
  PROVE  /\ Kept(ActiveSteps(r, c), Spoilers(Provers(c)), b, Provers(c))
         /\ Kept(ActiveSteps(r, c), Hands(c), b, Fences)
<1>1. PICK S : S = Seq(DeliverStep)  OBVIOUS
<1>2. PICK f \in DeliverStep : f = <<"fence", "core">> /\ f \in Fences  BY StepSets
<1>3. PICK h \in DeliverStep : h = <<"handoff", c>>
  <2>1. "handoff" \in DeliverNames /\ c \in Workers  BY OtherCallers DEF DeliverNames, Activating
  <2> QED  BY <2>1 DEF DeliverStep
<1>4. b \in DeliverStep
  <2>1. "activate" \in DeliverNames /\ c \in Workers  BY OtherCallers DEF DeliverNames, Activating
  <2> QED  BY <2>1 DEF DeliverStep
<1>5. PICK e \in DeliverStep : e = <<"readActive", c>>
  <2>1. "readActive" \in DeliverNames /\ c \in Workers  BY OtherCallers DEF DeliverNames, Activating
  <2> QED  BY <2>1 DEF DeliverStep
<1>6. /\ f # b /\ h # b /\ e # b /\ h \in Provers(c) /\ f \notin Hands(c) /\ h \notin Hands(c)
      /\ h \notin Spoilers(Provers(c))
  BY <1>2, <1>3, <1>5 DEF Provers, Hands, Spoilers
<1>7. PICK x : x = <<f>> \o <<h>>  OBVIOUS
<1>8. x = <<f, h>>  BY <1>7, Joined
<1>9. PICK y \in S : y = <<b>> /\ Len(y) = 1 /\ y[1] = b
  <2>1. PICK y : y = <<b>>  OBVIOUS
  <2>2. y \in S /\ Len(y) = 1 /\ y[1] = b  BY <1>1, <1>4, <2>1
  <2> QED  BY <2>1, <2>2
<1>10. x \in S /\ Len(x) = 2 /\ x[1] = f /\ x[2] = h  BY <1>1, <1>2, <1>3, <1>8
<1>11. PICK s : s = x \o y  OBVIOUS
<1>12. s \in S /\ Len(s) = 3 /\ s[1] = f /\ s[2] = h /\ s[3] = b
  <2>1. /\ s \in S /\ Len(s) = Len(x) + Len(y)
        /\ \A i \in 1..Len(x) : s[i] = x[i]
        /\ \A i \in 1..Len(s) : i \notin 1..Len(x) => s[i] = y[i - Len(x)]
    <3>1. x \in Seq(DeliverStep) /\ y \in Seq(DeliverStep)  BY <1>1, <1>9, <1>10
    <3> QED  BY <1>1, <1>11, <3>1, CatIndex
  <2>2. Len(s) = 3 /\ 3 \in 1..3 /\ 3 \notin 1..2 /\ 3 - 2 = 1  BY <1>9, <1>10, <2>1
  <2> QED  BY <1>9, <1>10, <2>1, <2>2
<1>13. \A j \in 1..Len(s) : s[j] = b => j = 3  BY <1>6, <1>12
<1>14. Kept(s, Spoilers(Provers(c)), b, Provers(c))
  <2>1. 2 \in 1..3-1 /\ s[2] \in Provers(c)  BY <1>6, <1>12
  <2>2. Led(s, b, Provers(c))  BY <1>13, <2>1 DEF Led
  <2>3. ASSUME NEW i \in 1..Len(s), i < 3, s[i] \in Spoilers(Provers(c))
        PROVE  \E k \in i+1..3-1 : s[k] \in Provers(c)
    <3>1. i = 1  BY <1>6, <1>12, <2>3 DEF Spoilers
    <3>2. 2 \in i+1..3-1  BY <3>1
    <3> QED  BY <2>1, <3>2
  <2>4. Between(s, Spoilers(Provers(c)), b, Provers(c))  BY <1>13, <2>3 DEF Between
  <2> QED  BY <2>2, <2>4 DEF Kept
<1>15. Kept(s, Hands(c), b, Fences)
  <2>1. 1 \in 1..3-1 /\ s[1] \in Fences  BY <1>2, <1>12
  <2>2. Led(s, b, Fences)  BY <1>13, <2>1 DEF Led
  <2>3. \A i \in 1..Len(s) : i < 3 => s[i] \notin Hands(c)
    <3>1. \A i \in 1..Len(s) : i < 3 => i = 1 \/ i = 2  BY <1>12
    <3> QED  BY <1>6, <1>12, <3>1
  <2>4. Between(s, Hands(c), b, Fences)  BY <1>13, <2>3 DEF Between
  <2> QED  BY <2>2, <2>4 DEF Kept
<1>16. ASSUME NEW z \in DeliverStep, z # b PROVE <<z>> \in S /\ \A A, P : Kept(<<z>>, A, b, P)
  <2>1. <<z>> \in S /\ ~Has(<<z>>, b)  BY <1>1, <1>16, OneIn
  <2> QED  BY <2>1, LedNone
<1>17. PICK u \in S : u = <<f>> /\ \A A, P : Kept(u, A, b, P)  BY <1>6, <1>16
<1>18. PICK v \in S : v = <<e>> /\ \A A, P : Kept(v, A, b, P)  BY <1>6, <1>16
<1>19. PICK d : d = s \o u  OBVIOUS
<1>20. d \in S /\ \A A, P : Kept(s, A, b, P) => Kept(d, A, b, P)
  BY <1>1, <1>12, <1>17, <1>19, KeptCat, CatIndex
<1>21. \A A, P : Kept(d, A, b, P) => Kept(d \o v, A, b, P)  BY <1>1, <1>18, <1>20, KeptCat
<1>22. ActiveSteps(r, c) = d \o v
  <2>1. HandedOff(r, c)  BY DEF HandedOff
  <2>2. ActiveSteps(r, c) = Fence \o <<h>> \o <<b>> \o Fence \o <<e>>
    BY <1>3, <1>5, <2>1 DEF ActiveSteps, When
  <2>3. Fence = <<f>>  BY <1>2 DEF Fence
  <2> QED  BY <1>7, <1>9, <1>11, <1>17, <1>18, <1>19, <2>2, <2>3
<1> QED  BY <1>14, <1>15, <1>20, <1>21, <1>22

(* What a plan does not hold *)
LEMMA PlanLacks ==
  ASSUME NEW t \in Seq(PlanStep), NEW n \in Inserting \cup {"readRetired"}, NEW w
  PROVE  ~Has(t, <<n, w>>)
<1>1. n \notin PlanNames
  BY DEF PlanNames, Inserting, Retiring, Free
<1>2. <<n, w>> \notin PlanStep  BY <1>1 DEF PlanStep
<1> QED  BY <1>2 DEF Has

(* Every Worker is staged. *)
LEMMA DeliveryStages ==
  ASSUME NEW r, NEW w \in Workers
  PROVE  Has(Delivery(r, "deploy"), <<"readStaged", w>>)
<1>1. PICK a : /\ Piece(a, 0, 60) /\ \A v \in Workers : Has(a, <<"readStaged", v>>)
               /\ Delivery(r, "deploy") = a \o ActiveSteps(r, "publisher") \o ActiveSteps(r, "rendezvous")
                                            \o ActiveSteps(r, "core") \o ClosingSteps
  BY DeliveryParts
<1>2. PICK S : S = Seq(DeliverStep)  OBVIOUS
<1>3. PICK x : x = <<"readStaged", w>>  OBVIOUS
<1>4. a \in S /\ Has(a, x) /\ ClosingSteps \in S  BY <1>1, <1>2, <1>3, ClosingPiece DEF Piece
<1>5. \A v \in Workers : ActiveSteps(r, v) \in S  BY <1>2, ActivePiece DEF Piece
<1>6. ASSUME NEW u \in S, NEW v \in S, Has(u, x) PROVE u \o v \in S /\ Has(u \o v, x)
  BY <1>2, <1>6, CatHas, CatIndex
<1>7. PICK b1 \in S : b1 = ActiveSteps(r, "publisher")  BY <1>5 DEF Workers
<1>8. PICK b2 \in S : b2 = ActiveSteps(r, "rendezvous")  BY <1>5 DEF Workers
<1>9. PICK b3 \in S : b3 = ActiveSteps(r, "core")  BY <1>5 DEF Workers
<1>10. PICK d1 \in S : d1 = a \o b1 /\ Has(d1, x)  BY <1>4, <1>6, <1>7
<1>11. PICK d2 \in S : d2 = d1 \o b2 /\ Has(d2, x)  BY <1>6, <1>8, <1>10
<1>12. PICK d3 \in S : d3 = d2 \o b3 /\ Has(d3, x)  BY <1>6, <1>9, <1>11
<1>13. Has(d3 \o ClosingSteps, x)  BY <1>4, <1>6, <1>12
<1> QED  BY <1>1, <1>3, <1>7, <1>8, <1>9, <1>10, <1>11, <1>12, <1>13

(* In the plan of a bootstrap each caller has its handoff ahead. *)
LEMMA PlanHands ==
  ASSUME NEW r, r.boot, NEW c \in Callers, NEW t, t = Delivery(r, "deploy"), run'.hand[c] = None
  PROVE  Handed(t, c)'
<1>1. PICK b : b = <<"activate", c>>  OBVIOUS
<1>2. t \in Seq(PlanStep) /\ t \in Seq(DeliverStep)  BY DeliveryPiece DEF Piece
<1>3. /\ Kept(t, Spoilers(Provers(c)), b, Provers(c))
      /\ Kept(t, Hands(c), b, Fences)
  BY <1>1, ActiveKept, DeliveryKept
<1>4. Some(t, Hands(c))
  <2>1. Has(t, <<"readStaged", c>>)  BY OtherCallers, DeliveryStages
  <2> QED  BY <2>1 DEF Has, Some, Hands
<1>5. Kinds(t, c)'  BY <1>2, PlanLacks DEF Kinds, Inserting, Retiring
<1>6. HandKnown(t, c)' /\ HandProven(t, c)'  BY <1>4 DEF HandKnown, HandProven
<1>7. HeldFenced(t, c)' /\ FreshProven(t, c)'  BY <1>1, <1>3 DEF Kept, HeldFenced, FreshProven
<1> QED  BY <1>1, <1>3, <1>5, <1>6, <1>7 DEF Kept, Handed

(* The decision makes the plan. *)
LEMMA DecideHandover ==
  ASSUME CourseInv, HandoverInv, Decide
  PROVE  HandoverInv'
<1>1. Shape(run) /\ Todo("decide", "core")  BY DEF CourseInv, Types, Decide
<1>2. Under("preflight")
  <2>1. <<"decide", "core">> \notin DeliverStep \cup RecoverStep
    BY DEF RecoverStep, DeliverStep, DeliverNames, Free, Repeating, Closing, Staging2, Retiring, Activating
  <2> QED  BY <1>1, <2>1, HeadMode DEF Under
<1>3. PICK d \in {"deploy", "no-op"} :
        d = DeliveryDecision(run)
  BY DEF DeliveryDecision
<1>4. PICK t : t = Delivery(run, d)  OBVIOUS
<1>5. PICK a : a = ApiHandoffRoles(run)  OBVIOUS
<1>6. PICK r : r = [run EXCEPT !.mode = "deliver", !.decision = d, !.api = a, !.todo = t]  OBVIOUS
<1>7. CASE Failed  BY <1>7, FailsAway
<1>8. CASE ~Failed
  <2>1. run' = r /\ (run.boot => d = "deploy")
    BY <1>3, <1>4, <1>5, <1>6, <1>8 DEF Decide, Check, Failed
  <2>2. /\ run'.todo = t /\ run'.mode = "deliver" /\ run'.boot = run.boot
        /\ run'.pending = run.pending /\ run'.outcome = run.outcome /\ run'.hand = run.hand
        /\ run'.own = run.own /\ run'.patched = run.patched /\ run'.receipt = run.receipt
    BY <1>1, <1>6, <2>1 DEF Shape, RunFields
  <2>3. /\ Tables /\ run.pending = <<>>
        /\ \A c \in Callers : run.hand[c] = None /\ c \notin run.patched \cup run.receipt
    BY <1>2 DEF HandoverInv
  <2>4. Tables' /\ Under("deliver")' /\ ~Under("preflight")'
    BY <1>2, <2>2, <2>3 DEF Tables, Under
  <2>5. t \in Seq(PlanStep)
    <3>1. CASE d = "no-op"  BY <1>4, <3>1, DeliveryPiece, ClosingPiece DEF Piece
    <3>2. CASE d = "deploy"  BY <1>4, <3>2, DeliveryPiece DEF Piece
    <3> QED  BY <1>3, <3>1, <3>2
  <2>6. CoreDown(run.todo)'
    <3>1. CASE d = "deploy"
      <4>1. "core" \in Workers  BY DEF Workers
      <4>2. Has(t, <<"readStaged", "core">>)  BY <1>4, <3>1, <4>1, DeliveryStages
      <4> QED  BY <2>2, <4>2 DEF CoreDown
    <3>2. CASE d = "no-op"
      <4>1. t \in Seq(QuietStep)  BY <1>4, <3>2, DeliveryPiece, ClosingPiece
      <4>2. ASSUME NEW i \in 1..Len(t) PROVE t[i][1] \notin {"readStaged", "patch"}
        <5>1. t[i] \in QuietStep  BY <4>1
        <5> QED  BY <5>1 DEF QuietStep, Closing
      <4>3. NoneStaged(t)  BY <4>2 DEF NoneStaged
      <4> QED  BY <2>2, <4>3 DEF CoreDown
    <3> QED  BY <1>3, <3>1, <3>2
  <2>7. ASSUME NEW c \in Callers PROVE Retired(run.todo, c)'
    <3>1. c \notin run.patched \cup run.receipt  BY <2>3
    <3>2. Retired(t, c)'
      <4>1. ~Has(t, <<"patch", c>>)  BY <2>5, PlanLacks DEF Inserting, Retiring
      <4>2. Kept(t, Spoilers(Rereading(c)), <<"patch", c>>, Rereading(c))  BY <4>1, LedNone
      <4>3. Once(t, c)'  BY <2>2, <3>1 DEF Once
      <4>4. Intended(t, c)'  BY <4>1 DEF Intended
      <4>5. Snapped(t, c)'  BY <4>2 DEF Snapped, Kept
      <4> QED  BY <4>2, <4>3, <4>4, <4>5 DEF Kept, Retired
    <3> QED  BY <2>2, <3>2
  <2>8. ASSUME run.boot, NEW c \in Callers PROVE Handed(run.todo, c)'
    <3>1. run'.hand[c] = None  BY <2>2, <2>3
    <3>2. t = Delivery(run, "deploy")  BY <1>4, <2>1, <2>8
    <3>3. Handed(t, c)'  BY <2>8, <3>1, <3>2, PlanHands
    <3> QED  BY <2>2, <3>3
  <2>9. PendingPaired'
    <3>1. run'.pending = <<>>  BY <2>2, <2>3
    <3> QED  BY <3>1 DEF PendingPaired
  <2> QED  BY <2>2, <2>4, <2>6, <2>7, <2>8, <2>9 DEF HandoverInv
<1> QED  BY <1>7, <1>8

-----------------------------------------------------------------------------
(* Every step *)

LEMMA StepHandover ==
  ASSUME CourseInv, HandoverInv, [Next]_vars
  PROVE  HandoverInv'
<1>1. CASE \/ \E s \in Sources, boot \in BOOLEAN : Dispatch(s, boot)
           \/ Revoke \/ (\E w \in Workers : ForeignChange(w)) \/ Migrate \/ UNCHANGED vars
  BY <1>1, AroundHandover
<1>2. CASE Start  BY <1>2, StartHandover
<1>3. CASE PassFence  BY <1>3, FenceHandover
<1>4. CASE CheckLedger \/ \E w \in Workers : Inventory(w)  BY <1>4, PreflightHandover
<1>5. CASE Decide  BY <1>5, DecideHandover
<1>6. CASE \E w \in Workers : \/ CheckPredecessor(w) \/ CheckCallerPredecessor(w)
                              \/ Authorize(w) \/ VerifyFinal(w)
  BY <1>6, ChecksHandover
<1>7. CASE RecoverDeploy \/ \E w \in Workers : DeployStaged(w) \/ DeployActive(w)
  BY <1>7, UploadsHandover
<1>8. CASE \E w \in Workers : ReadStaged(w)  BY <1>8, ReadStagedHandover
<1>9. CASE \E w \in Workers : ReadActive(w)  BY <1>9, ReadActiveHandover
<1>10. CASE \E w \in Workers : VerifyStaged(w)  BY <1>10, VerifyHandover
<1>11. CASE \E w \in Workers : ActivationHandoff(w)  BY <1>11, ActivationHandover
<1>12. CASE Prove  BY <1>12, ProveHandover
<1>13. CASE \E c \in Callers : BeginRetirement(c) \/ AcceptRetirement(c) \/ Observe(c)
  BY <1>13, SettlingHandover
<1>14. CASE \E c \in Callers : ReadRetired(c) \/ ReadObserved(c) \/ RetireRead(c) \/ RetireReread(c)
  BY <1>14, ProofReadsHandover
<1>15. CASE \E c \in Callers : RetireVerify(c) \/ RecordIntent(c) \/ RecordReceipt(c)
  BY <1>15, RecordsHandover
<1>16. CASE \E c \in Callers : CompleteRetirement(c) \/ CompleteObservation(c)
  BY <1>16, CompletionsHandover
<1>17. CASE \E c \in Callers : RetirePatch(c)  BY <1>17, PatchHandover
<1>18. CASE Kill \/ Report \/ RecoverRead \/ RecoverProve  BY <1>18, EndsHandover
<1> QED
  BY <1>1, <1>2, <1>3, <1>4, <1>5, <1>6, <1>7, <1>8, <1>9, <1>10, <1>11, <1>12, <1>13, <1>14,
     <1>15, <1>16, <1>17, <1>18
  DEF Next

(* Whatever happens around it, a delivery keeps what it has made good of its     *)
(* callers: what has to stand ahead of a PATCH and of an activation stands       *)
(* there until it is answered, and its answer holds from then on.               *)
THEOREM DeliveriesKeepTheirHandover == Spec => []HandoverInv
<1>1. Init => HandoverInv  BY InitHandover
<1>2. CourseInv /\ HandoverInv /\ [Next]_vars => HandoverInv'  BY StepHandover
<1> QED  BY <1>1, <1>2, RunsKeepTheirCourse, PTL DEF Spec

-----------------------------------------------------------------------------
(* The PATCH of a caller *)

(* An upload keeps the pair. *)
LEMMA UploadsKeepPairs ==
  ASSUME CourseInv, NEW w \in Workers, NEW phase \in {"staged", "active"}, NEW strict, NEW done,
         NEW failing, Upload(w, phase, strict, done, failing), NEW c \in Workers
  PROVE  live'[c].pair = live[c].pair
<1>1. CASE live' = live  BY <1>1
<1>2. CASE live' = [live EXCEPT ![w] = Uploaded(run.src, w, phase)]
  <2>1. PICK v : v = Uploaded(run.src, w, phase) /\ v.pair = live[w].pair
    <3>1. PICK v : v = Uploaded(run.src, w, phase)  OBVIOUS
    <3>2. v.pair = live[w].pair  BY <3>1, UploadedIs DEF CourseInv
    <3> QED  BY <3>1, <3>2
  <2>2. live'[c] = IF c = w THEN v ELSE live[c]  BY <1>2, <2>1 DEF CourseInv, Types
  <2> QED  BY <2>1, <2>2
<1> QED  BY <1>1, <1>2 DEF Upload

(* Another writer does not delete it. *)
LEMMA ForeignKeepsPairs ==
  ASSUME CourseInv, NEW w \in Workers, ForeignChange(w), NEW c \in Workers, live[c].pair
  PROVE  live'[c].pair
<1>1. PICK v \in ForeignVersions(w) : live' = [live EXCEPT ![w] = v]  BY DEF ForeignChange
<1>2. PICK l \in Version : l = live[w]  BY DEF CourseInv, Types
<1>3. v.pair = l.pair \/ v.pair
  <2>1. ASSUME NEW e, NEW n, v = Edited(w, e, n) PROVE v.pair = l.pair
    <3>1. v = [l EXCEPT !.version = versions + 1, !.circuit = e, !.note = n, !.via = "api"]
      BY <1>2, <2>1 DEF Edited
    <3> QED  BY <3>1 DEF Version
  <2>2. ASSUME NEW e, NEW s, v = Redeployed(w, e, s) PROVE v.pair = l.pair
    <3>1. v = [l EXCEPT !.version = versions + 1, !.circuit = e, !.note = None, !.via = "wrangler", !.code = s]
      BY <1>2, <2>2 DEF Redeployed
    <3> QED  BY <3>1 DEF Version
  <2>3. ASSUME v = PairRestored(w) PROVE v.pair
    <3>1. v = [l EXCEPT !.version = versions + 1, !.pair = TRUE, !.note = None, !.via = "api"]
      BY <1>2, <2>3 DEF PairRestored
    <3> QED  BY <3>1 DEF Version
  <2> QED  BY <2>1, <2>2, <2>3 DEF ForeignVersions
<1>4. live'[c] = IF c = w THEN v ELSE live[c]  BY <1>1 DEF CourseInv, Types
<1> QED  BY <1>2, <1>3, <1>4

(* So a pair is only lost by its PATCH. *)
LEMMA PairLost ==
  ASSUME CourseInv, [Next]_vars, NEW c \in Callers, live[c].pair, ~live'[c].pair
  PROVE  RetirePatch(c)
<1>1. c \in Workers  BY OtherCallers
<1>2. live' # live  OBVIOUS
<1>3. ASSUME NEW w \in Workers, DeployStaged(w) PROVE FALSE
  <2>1. PICK r, d, s : Upload(w, "staged", s, d, r)
    BY <1>2, <1>3 DEF DeployStaged, Answer, Check
  <2> QED  BY <1>1, <2>1, UploadsKeepPairs
<1>4. ASSUME NEW w \in Workers, DeployActive(w) PROVE FALSE
  <2>1. PICK d, s : Upload(w, "active", s, d, run)  BY <1>4 DEF DeployActive
  <2> QED  BY <1>1, <2>1, UploadsKeepPairs
<1>5. ASSUME RecoverDeploy PROVE FALSE
  <2>1. PICK d, s : Upload("core", "staged", s, d, run)  BY <1>5 DEF RecoverDeploy
  <2>2. "core" \in Workers  BY DEF Workers
  <2> QED  BY <1>1, <2>1, <2>2, UploadsKeepPairs
<1>6. ASSUME NEW w \in Workers, ForeignChange(w) PROVE FALSE  BY <1>1, <1>6, ForeignKeepsPairs
<1>7. ASSUME NEW d \in Callers, RetirePatch(d), d # c PROVE FALSE
  <2>1. live' = live \/ \E v : live' = [live EXCEPT ![d] = v]  BY <1>7 DEF RetirePatch
  <2>2. live'[c] = live[c]  BY <1>1, <1>7, <2>1 DEF CourseInv, Types
  <2> QED  BY <2>2
<1>8. ~UNCHANGED vars  BY <1>2 DEF vars
<1>9. \A s, boot : ~Dispatch(s, boot)  BY <1>2 DEF Dispatch
<1>10. ~Start /\ ~PassFence /\ ~CheckLedger /\ ~Decide /\ ~Prove /\ ~Report /\ ~RecoverRead
       /\ ~RecoverProve /\ ~Revoke /\ ~Kill /\ ~Migrate
  BY <1>2 DEF Start, PassFence, CheckLedger, Decide, Prove, Report, RecoverRead, RecoverProve, Revoke,
              Kill, Migrate, Check, Answer
<1>11. \A w : /\ ~Inventory(w) /\ ~CheckPredecessor(w) /\ ~CheckCallerPredecessor(w)
              /\ ~ReadStaged(w) /\ ~VerifyStaged(w) /\ ~ActivationHandoff(w) /\ ~ReadActive(w)
              /\ ~VerifyFinal(w) /\ ~Authorize(w)
  BY <1>2 DEF Inventory, CheckPredecessor, CheckCallerPredecessor, ReadStaged, VerifyStaged,
              ActivationHandoff, ReadActive, VerifyFinal, Authorize, Check, Answer
<1>12. \A d : /\ ~ReadRetired(d) /\ ~BeginRetirement(d) /\ ~RetireRead(d) /\ ~RecordIntent(d)
              /\ ~RetireReread(d) /\ ~RetireVerify(d) /\ ~RecordReceipt(d) /\ ~AcceptRetirement(d)
              /\ ~CompleteRetirement(d) /\ ~Observe(d) /\ ~CompleteObservation(d) /\ ~ReadObserved(d)
  BY <1>2 DEF ReadRetired, BeginRetirement, RetireRead, RecordIntent, RetireReread, RetireVerify,
              RecordReceipt, AcceptRetirement, CompleteRetirement, Observe, CompleteObservation,
              ReadObserved, Check, Answer
<1> QED
  BY <1>3, <1>4, <1>5, <1>6, <1>7, <1>8, <1>9, <1>10, <1>11, <1>12 DEF Next

(* At the PATCH its intent is durable, its receipt is not, and the core is off. *)
LEMMA PatchIsIntended ==
  ASSUME CourseInv, HandoverInv, NEW c \in Callers, Todo("patch", c)
  PROVE  /\ c \in run.intent \ (run.patched \cup run.receipt)
         /\ SnapshotKept /\ CoreIsOff
<1>1. Under("deliver")  BY CallOfDelivery DEF DeliverNames, Retiring
<1>2. PICK s \in Seq(DeliverStep) : s = run.todo /\ Orderly(s) /\ s # <<>> /\ Head(s) = <<"patch", c>>
  BY <1>1 DEF CourseInv, Modes, Todo
<1>3. CoreDown(s) /\ Retired(s, c)  BY <1>1, <1>2 DEF HandoverInv
<1>4. PICK x : x = <<"patch", c>>  OBVIOUS
<1>5. Has(s, x) /\ x[1] = "patch" /\ "patch" \notin Free
  BY <1>2, <1>4, TailIndex DEF Has, Free
<1>6. c \in Workers /\ "core" \in Workers  BY OtherCallers DEF Workers
<1>7. PICK T \in {0, 20, 40} : T = StageTurn[c]  BY <1>6, Ranks
<1>8. Rank(x) = 10 + T  BY <1>4, <1>6, <1>7, Ranks
<1>9. ASSUME NEW y \in DeliverStep, y[1] \notin Free, Rank(y) < Rank(x) PROVE ~Has(s, y)
  <2>1. ~Has(Tail(s), y)  BY <1>2, <1>4, <1>5, <1>9, Gone
  <2>2. Rank(y) \in Nat  BY <1>9, RankRange
  <2>3. y # x  BY <1>9, <2>2
  <2> QED  BY <1>2, <1>4, <2>1, <2>3, TailHas
<1>10. ~Has(s, <<"intent", c>>)
  <2>1. PICK y \in DeliverStep : y = <<"intent", c>> /\ y[1] \notin Free
    BY RetiringPlaces
  <2>2. Rank(<<"intent", c>>) = 8 + T  BY <1>6, <1>7, Ranks
  <2>3. Rank(y) < Rank(x)  BY <1>7, <1>8, <2>1, <2>2
  <2> QED  BY <1>9, <2>1, <2>3
<1>11. ~Has(s, <<"readStaged", "core">>)
  <2>1. PICK y \in DeliverStep : y = <<"readStaged", "core">> /\ y[1] \notin Free
    BY <1>6, StagedLow
  <2>2. StageTurn["core"] = 0  BY Ranks
  <2>3. Rank(<<"readStaged", "core">>) = 3 + StageTurn["core"]  BY <1>6, Ranks
  <2>4. Rank(y) < Rank(x)  BY <1>7, <1>8, <2>1, <2>2, <2>3
  <2> QED  BY <1>9, <2>1, <2>4
<1>12. ~NoneStaged(s)  BY <1>4, <1>5 DEF NoneStaged, Has
<1>13. SnapshotKept
  <2>1. Led(s, x, Rereading(c)) => Head(s) # x
    <3>1. s \in Seq(DeliverStep) /\ s # <<>>  BY <1>2
    <3> QED  BY <3>1, TailLed
  <2> QED  BY <1>2, <1>3, <1>4, <2>1 DEF Retired, Snapped
<1> QED  BY <1>3, <1>4, <1>5, <1>10, <1>11, <1>12, <1>13 DEF Retired, Intended, Once, CoreDown

(* The legacy pair is deleted at most once per run and caller, under a durable   *)
(* intent and before its receipt, with the core disabled, and whatever differs   *)
(* from the snapshot the intent names has changed since the last fence           *)
(* (retireCallerSecrets: intent, second read, authority, one PATCH).              *)
THEOREM PairIsDeletedAsIntended == Spec => PairDeletedAsIntended
<1>1. ASSUME CourseInv, HandoverInv, [Next]_vars, NEW c \in Callers, live[c].pair, ~live'[c].pair
      PROVE  /\ c \in run.intent \ (run.patched \cup run.receipt)
             /\ \A w \in Workers : live[w] = run.snapshot[w] \/ live[w].version # fenced[w]
             /\ live["core"].circuit = "disabled" \/ "core" \in strange
  <2>1. RetirePatch(c)  BY <1>1, PairLost
  <2>2. Todo("patch", c)  BY <2>1 DEF RetirePatch
  <2> QED  BY <1>1, <2>2, PatchIsIntended DEF SnapshotKept, CoreIsOff
<1>2. CourseInv /\ HandoverInv /\ [Next]_vars =>
        [\A c \in Callers :
           live[c].pair /\ ~live'[c].pair =>
             /\ c \in run.intent \ (run.patched \cup run.receipt)
             /\ \A w \in Workers : live[w] = run.snapshot[w] \/ live[w].version # fenced[w]
             /\ live["core"].circuit = "disabled" \/ "core" \in strange]_vars
  BY <1>1
<1> QED  BY <1>2, RunsKeepTheirCourse, DeliveriesKeepTheirHandover, PTL DEF Spec, PairDeletedAsIntended

-----------------------------------------------------------------------------
(* The activation of a caller *)

(* At the activation of a caller its proven version is the one last fenced. *)
LEMMA ActivationIsFresh ==
  ASSUME CourseInv, HandoverInv, NEW c \in Callers, Todo("activate", c), run.boot
  PROVE  run.hand[c].version = fenced[c]
<1>1. Under("deliver")  BY CallOfDelivery DEF DeliverNames, Activating
<1>2. PICK s \in Seq(DeliverStep) : s = run.todo /\ s # <<>> /\ Head(s) = <<"activate", c>>
  BY <1>1 DEF CourseInv, Modes, Todo
<1>3. FreshProven(s, c)  BY <1>1, <1>2 DEF HandoverInv, Handed
<1>4. PICK x : x = <<"activate", c>>  OBVIOUS
<1>5. Led(s, x, Provers(c)) => Head(s) # x  BY <1>2, TailLed
<1> QED  BY <1>2, <1>3, <1>4, <1>5 DEF FreshProven, Fresh

(* A bootstrap activates a caller only if the version it has proven is active,   *)
(* or was at the last fence: whatever replaced it came after the fence before    *)
(* the upload (verifyCallerActivationHandoff).                                  *)
THEOREM HandoffsActivateTheProven == Spec => HandoffActivatesProven
<1>1. CourseInv /\ HandoverInv =>
        [\A c \in Callers :
           Todo("activate", c) /\ run.boot /\ live'[c].version # live[c].version /\ run' # run =>
             run.hand[c].version \in {live[c].version, fenced[c]}]_vars
  BY ActivationIsFresh
<1> QED  BY <1>1, RunsKeepTheirCourse, DeliveriesKeepTheirHandover, PTL DEF HandoffActivatesProven

=============================================================================
