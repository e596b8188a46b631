----------------------- MODULE ProductionCohortProofs -----------------------
(***************************************************************************)
(* The theorem that a core whose breakers are closed serves callers of its *)
(* own source (CoreServesOneCohort).  A delivery enables the core last, so *)
(* what matters is what still follows in the list of a run: whatever may   *)
(* disable a caller, or accept a disabled one, is followed by its          *)
(* activation, and that by the activation of the core; and from the first  *)
(* readback of the core to its activation the core is off.                 *)
(***************************************************************************)
EXTENDS ProductionHandoverProofs

-----------------------------------------------------------------------------
(* What still follows a call *)

(* Behind every member of A comes b. *)
Followed(s, A, b) == \A j \in 1..Len(s) : s[j] \in A => \E k \in j+1..Len(s) : s[k] = b

(* The calls that may disable the caller c, or accept it disabled, and those    *)
(* that bring them about.                                                       *)
LowNames == {"retireRead", "retireReread", "patch", "retireVerify", "acceptRetirement", "completeRetirement",
             "observe", "completeObservation", "verifyStaged", "handoff", "readObserved", "readRetired"}
Lowering(c) == ({"stage", "readStaged"} \X Callers) \cup (LowNames \X {c})

Activation(w) == <<"activate", w>>
CoreStaged == <<"readStaged", "core">>

Follows(s) ==
  /\ \A c \in Callers : Followed(s, Lowering(c), Activation(c))
  /\ \A c \in Callers : Followed(s, {Activation(c)}, Activation("core"))
  /\ \A c \in Callers : Followed(s, {Activation(c)}, <<"readActive", c>>)
  /\ Followed(s, {<<"readActive", "publisher">>}, Activation("rendezvous"))

-----------------------------------------------------------------------------
(* The invariant *)

(* The retired callers that are read again: each is still to be activated, and  *)
(* none before the core was read back.                                          *)
Pending(s, p) ==
  /\ Has(s, CoreStaged) => p = <<>> /\ \A c \in Callers : ~Has(s, <<"readRetired", c>>)
  /\ \A i \in 1..Len(p) :
       /\ Has(s, <<"readActive", p[i]>>)
       /\ ~Has(s, <<"readStaged", p[i]>>) /\ ~Has(s, <<"completeRetirement", p[i]>>)
  /\ \A i, j \in 1..Len(p) : p[i] = p[j] => i = j

(* From its readback to its activation the core is off. *)
CoreWaits(s) == Has(s, CoreStaged) \/ ~Has(s, Activation("core")) \/ CoreIsOff

(* A Worker that is not to be activated any more is what the run wants. *)
Settled(w) ==
  w \in strange \/ (live[w].code = run.src /\ (w \in Callers => live[w].circuit = "enabled"))
AllSettled(s) == \A w \in Workers : Has(s, Activation(w)) \/ Settled(w)

CohortCourse(s) == Follows(s) /\ Pending(s, run.pending) /\ CoreWaits(s) /\ AllSettled(s)

(* A caller that is annotated as active and disabled is one that awaits the     *)
(* bootstrap; then the core has no such annotation, and a delivery is no no-op. *)
ActiveNote(v) == v.note # None /\ v.note.phase = "active"
Awaiting(c) == c \notin strange /\ ActiveNote(live[c]) /\ live[c].circuit # "enabled"
Unread(w) == Has(run.todo, <<"inventory", w>>)
LegacyCore ==
  \A c \in Callers : Awaiting(c) =>
    /\ ~ActiveNote(live["core"])
    /\ Under("preflight") => Unread("core") \/ ~ActiveNote(run.read["core"])

(* The decision comes last; what the preflight has read until then is still so,  *)
(* unless another writer came.                                                  *)
ReadsHold ==
  Under("preflight") =>
    /\ DOMAIN run.read = Workers
    /\ \A i \in 1..Len(run.todo) : run.todo[i] = <<"decide", "core">> => i = Len(run.todo)
    /\ \A w \in Workers : Unread(w) \/ w \in strange \/ run.read[w] = live[w]

(* The proof of a retired caller carries no annotation. *)
OwnBare == \A c \in Callers : run.own[c] = None \/ run.own[c].note = None

CohortInv ==
  /\ CoreServesOneCohort /\ LegacyCore /\ ReadsHold
  /\ Under("preflight") \/ Under("deliver") => OwnBare
  /\ Under("deliver") => CohortCourse(run.todo)

-----------------------------------------------------------------------------
(* Lists whose calls are followed *)

LEMMA FollowedTail ==
  ASSUME NEW X, NEW s \in Seq(X), s # <<>>, NEW A, NEW b, Followed(s, A, b)
  PROVE  /\ Followed(Tail(s), A, b)
         /\ Head(s) \in A => Has(Tail(s), b)
<1>1. PICK t : t = Tail(s)  OBVIOUS
<1>2. /\ Head(s) = s[1] /\ Len(s) \in Nat /\ Len(t) = Len(s) - 1 /\ 1 \in 1..Len(s)
      /\ \A i \in 1..Len(t) : i + 1 \in 1..Len(s) /\ t[i] = s[i + 1]
  BY <1>1, TailIndex
<1>3. ASSUME NEW j \in 1..Len(t), t[j] \in A PROVE \E k \in j+1..Len(t) : t[k] = b
  <2>1. j + 1 \in 1..Len(s) /\ s[j + 1] \in A  BY <1>2, <1>3
  <2>2. PICK k \in (j + 1) + 1..Len(s) : s[k] = b  BY <2>1 DEF Followed
  <2>3. k - 1 \in j+1..Len(t) /\ k - 1 \in 1..Len(t) /\ t[k - 1] = s[(k - 1) + 1] /\ (k - 1) + 1 = k
    BY <1>2, <2>2
  <2> QED  BY <2>2, <2>3
<1>4. ASSUME s[1] \in A PROVE Has(t, b)
  <2>1. PICK k \in 1+1..Len(s) : s[k] = b  BY <1>2, <1>4 DEF Followed
  <2>2. k - 1 \in 1..Len(t) /\ t[k - 1] = s[(k - 1) + 1] /\ (k - 1) + 1 = k  BY <1>2, <2>1
  <2> QED  BY <2>1, <2>2 DEF Has
<1> QED  BY <1>1, <1>2, <1>3, <1>4 DEF Followed

(* What is in the list, is followed. *)
LEMMA FollowedHas ==
  ASSUME NEW s, NEW A, NEW b, Followed(s, A, b), Some(s, A)
  PROVE  Has(s, b)
<1>1. PICK j \in 1..Len(s) : s[j] \in A  BY DEF Some
<1>2. PICK k \in j+1..Len(s) : s[k] = b  BY <1>1 DEF Followed
<1>3. k \in 1..Len(s)  BY <1>1, <1>2
<1> QED  BY <1>2, <1>3 DEF Has

LEMMA FollowedCat ==
  ASSUME NEW X, NEW u \in Seq(X), NEW t \in Seq(X), NEW A, NEW b, Followed(t, A, b),
         Some(u, A) => Has(t, b)
  PROVE  Followed(u \o t, A, b)
<1>1. PICK z : z = u \o t  OBVIOUS
<1>2. /\ Len(z) = Len(u) + Len(t) /\ Len(u) \in Nat /\ Len(t) \in Nat
      /\ \A i \in 1..Len(u) : i \in 1..Len(z) /\ z[i] = u[i]
      /\ \A i \in 1..Len(t) : i + Len(u) \in 1..Len(z) /\ z[i + Len(u)] = t[i]
      /\ \A i \in 1..Len(z) : i \in 1..Len(u) \/ i - Len(u) \in 1..Len(t)
      /\ \A i \in 1..Len(z) : i \notin 1..Len(u) => z[i] = t[i - Len(u)]
  BY <1>1, CatIndex
<1>3. ASSUME NEW j \in 1..Len(z), z[j] \in A PROVE \E k \in j+1..Len(z) : z[k] = b
  <2>1. CASE j \in 1..Len(u)
    <3>1. Some(u, A)  BY <1>2, <1>3, <2>1 DEF Some
    <3>2. PICK k \in 1..Len(t) : t[k] = b  BY <3>1 DEF Has
    <3>3. k + Len(u) \in j+1..Len(z) /\ z[k + Len(u)] = b  BY <1>2, <2>1, <3>2
    <3> QED  BY <3>3
  <2>2. CASE j \notin 1..Len(u)
    <3>1. j - Len(u) \in 1..Len(t) /\ t[j - Len(u)] \in A  BY <1>2, <1>3, <2>2
    <3>2. PICK k \in (j - Len(u)) + 1..Len(t) : t[k] = b  BY <3>1 DEF Followed
    <3>3. k \in 1..Len(t)  BY <3>1, <3>2
    <3>4. k + Len(u) \in j+1..Len(z) /\ z[k + Len(u)] = b  BY <1>2, <3>1, <3>2, <3>3
    <3> QED  BY <3>4
  <2> QED  BY <2>1, <2>2
<1> QED  BY <1>1, <1>3 DEF Followed

(* In a list that is in order, what has a lower place is followed. *)
LEMMA FollowedOrderly ==
  ASSUME NEW s \in Seq(DeliverStep), Orderly(s), NEW b \in DeliverStep, b[1] \notin Free, Has(s, b), NEW A,
         \A a \in A : Has(s, a) => a[1] \notin Free /\ Rank(a) < Rank(b)
  PROVE  Followed(s, A, b)
<1> SUFFICES ASSUME NEW j \in 1..Len(s), s[j] \in A PROVE \E k \in j+1..Len(s) : s[k] = b  BY DEF Followed
<1>1. PICK k \in 1..Len(s) : s[k] = b  BY DEF Has
<1>2. s[j][1] \notin Free /\ Rank(s[j]) < Rank(b) /\ s[j] \in DeliverStep  BY DEF Has
<1>3. Rank(s[j]) \in Nat /\ Rank(b) \in Nat  BY <1>2, RankRange
<1>4. k # j  BY <1>1, <1>2, <1>3
<1>5. ~(k < j)
  <2>1. k < j => Precedes(b, s[j])  BY <1>1 DEF Orderly
  <2> QED  BY <1>2, <1>3, <2>1 DEF Precedes
<1>6. k \in j+1..Len(s)  BY <1>4, <1>5
<1> QED  BY <1>1, <1>6

-----------------------------------------------------------------------------
(* The list of a delivery when a call is due: s, and t behind the call x *)

Due(s, t, x) ==
  /\ s \in Seq(DeliverStep) /\ t \in Seq(DeliverStep) /\ x \in DeliverStep
  /\ s = run.todo /\ t = Tail(run.todo) /\ s # <<>> /\ Head(s) = x
  /\ Orderly(s) /\ Orderly(t)
  /\ \A y : Has(s, y) <=> y = x \/ Has(t, y)
  /\ CohortCourse(s) /\ Follows(t)

LEMMA CallDue ==
  ASSUME CourseInv, CohortInv, Under("deliver"), NEW n, NEW w, Todo(n, w)
  PROVE  \E s, t : Due(s, t, <<n, w>>)
<1>1. PICK x : x = <<n, w>>  OBVIOUS
<1>2. PICK s \in Seq(DeliverStep) : s = run.todo /\ Orderly(s) /\ s # <<>> /\ Head(s) = x
  BY <1>1 DEF CourseInv, Modes, Todo
<1>3. PICK t : t = Tail(s)  OBVIOUS
<1>4. t \in Seq(DeliverStep) /\ Orderly(t) /\ x \in DeliverStep  BY <1>2, <1>3, OrderlyTail
<1>5. \A y : Has(s, y) <=> y = x \/ Has(t, y)
  <2>1. s[1] = x /\ 1 \in 1..Len(s)  BY <1>2, TailIndex
  <2>2. Has(s, x)  BY <2>1 DEF Has
  <2> QED  BY <1>2, <1>3, <2>2, TailHas
<1>6. CohortCourse(s)  BY <1>2 DEF CohortInv
<1>7. Follows(t)  BY <1>2, <1>3, <1>6, FollowedTail DEF CohortCourse, Follows
<1> QED  BY <1>1, <1>2, <1>3, <1>4, <1>5, <1>6, <1>7 DEF Due

(* A call that is due leaves none of a lower place, nor itself again. *)
LEMMA Passed ==
  ASSUME NEW s, NEW t, NEW x, Due(s, t, x), x[1] \notin Free, NEW y \in DeliverStep, y[1] \notin Free,
         Rank(y) < Rank(x) \/ (Rank(y) = Rank(x) /\ x[1] \notin Repeating)
  PROVE  ~Has(t, y)
BY Gone DEF Due

LEMMA CallSteps ==
  ASSUME NEW n \in DeliverNames, NEW w \in Workers
  PROVE  <<n, w>> \in DeliverStep /\ <<n, w>>[1] = n
BY DEF DeliverStep

LEMMA NamesHere ==
  /\ LowNames \subseteq DeliverNames /\ "stage" \in DeliverNames /\ "readStaged" \in DeliverNames
  /\ "activate" \in DeliverNames /\ "readActive" \in DeliverNames /\ "final" \in DeliverNames
  /\ "stage" \notin Free /\ "readStaged" \notin Free /\ "activate" \notin Free
  /\ "readActive" \notin Free /\ "final" \notin Free
  /\ \A n \in LowNames : n \in Free <=> n = "readRetired"
  /\ "activate" \notin Repeating /\ "readActive" \notin Repeating /\ "readStaged" \notin Repeating
  /\ "stage" \notin Repeating /\ "final" \in Repeating
BY DEF LowNames, DeliverNames, Free, Repeating, Closing, Staging2, Retiring, Activating

(* Every call of a caller's staging, retirement and activation comes after the   *)
(* readback of the core.                                                        *)
LEMMA CoreReadBack ==
  ASSUME NEW s, NEW t, NEW n \in LowNames \cup {"stage", "readStaged", "activate", "readActive", "final"},
         NEW w \in Workers, n \in {"stage", "readStaged"} => w \in Callers, n # "readRetired",
         Due(s, t, <<n, w>>)
  PROVE  ~Has(s, CoreStaged)
<1>1. PICK T \in {0, 20, 40} : T = StageTurn[w] /\ (w \in Callers => T # 0)
  <2>1. StageTurn["publisher"] = 20 /\ StageTurn["rendezvous"] = 40 /\ StageTurn[w] \in {0, 20, 40}  BY Ranks
  <2> QED  BY <2>1 DEF Callers
<1>2. PICK U \in {0, 20, 40} : U = ActiveTurn[w]  BY Ranks
<1>3. PICK y : y = CoreStaged  OBVIOUS
<1>4. "core" \in Workers /\ "core" \notin Callers  BY DEF Workers, Callers
<1>5. y \in DeliverStep /\ y[1] \notin Free  BY <1>3, <1>4, CallSteps, NamesHere DEF CoreStaged
<1>6. Rank(y) = 3
  <2>1. Rank(<<"readStaged", "core">>) = 3 + StageTurn["core"]  BY <1>4, Ranks
  <2>2. StageTurn["core"] = 0  BY Ranks
  <2> QED  BY <1>3, <2>1, <2>2 DEF CoreStaged
<1>7. PICK x : x = <<n, w>>  OBVIOUS
<1>8. 3 < Rank(x)
  <2>1. CASE n \in {"stage", "readStaged"}
    <3>1. Rank(<<"stage", w>>) = 2 + T  BY <1>1, Ranks
    <3>2. Rank(<<"readStaged", w>>) = 3 + T  BY <1>1, Ranks
    <3>3. T \in {20, 40}  BY <1>1, <2>1
    <3> QED  BY <1>7, <2>1, <3>1, <3>2, <3>3
  <2>2. CASE n \in {"retireRead", "retireReread", "patch", "retireVerify"}
    <3>1. Rank(<<"retireRead", w>>) = 7 + T  BY <1>1, Ranks
    <3>2. Rank(<<"retireReread", w>>) = 9 + T  BY <1>1, Ranks
    <3>3. Rank(<<"patch", w>>) = 10 + T  BY <1>1, Ranks
    <3>4. Rank(<<"retireVerify", w>>) = 11 + T  BY <1>1, Ranks
    <3> QED  BY <1>7, <2>2, <3>1, <3>2, <3>3, <3>4
  <2>3. CASE n \in {"acceptRetirement", "completeRetirement", "observe", "completeObservation"}
    <3>1. Rank(<<"acceptRetirement", w>>) = 13 + T  BY <1>1, Ranks
    <3>2. Rank(<<"completeRetirement", w>>) = 14 + T  BY <1>1, Ranks
    <3>3. Rank(<<"observe", w>>) = 4 + T  BY <1>1, Ranks
    <3>4. Rank(<<"completeObservation", w>>) = 5 + T  BY <1>1, Ranks
    <3> QED  BY <1>7, <2>3, <3>1, <3>2, <3>3, <3>4
  <2>4. CASE n \in {"verifyStaged", "handoff", "readObserved", "final"}
    <3>1. Rank(<<"verifyStaged", w>>) = 60 /\ Rank(<<"final", w>>) = 110  BY Ranks
    <3>2. Rank(<<"handoff", w>>) = 61 + U  BY <1>2, Ranks
    <3>3. Rank(<<"readObserved", w>>) = 62 + U  BY <1>2, Ranks
    <3> QED  BY <1>7, <2>4, <3>1, <3>2, <3>3
  <2>5. CASE n \in {"activate", "readActive"}
    <3>1. Rank(<<"activate", w>>) = 63 + U  BY <1>2, Ranks
    <3>2. Rank(<<"readActive", w>>) = 64 + U  BY <1>2, Ranks
    <3> QED  BY <1>7, <2>5, <3>1, <3>2
  <2> QED  BY <2>1, <2>2, <2>3, <2>4, <2>5 DEF LowNames
<1>9. n \notin Free /\ x[1] = n  BY <1>7, NamesHere
<1>10. ~Has(t, y)  BY <1>5, <1>6, <1>7, <1>8, <1>9, Passed
<1>11. y # x  BY <1>6, <1>8
<1> QED  BY <1>3, <1>7, <1>10, <1>11 DEF Due

(* When a call is due that may lower the caller c, the core is off, and c is     *)
(* still to be activated.                                                       *)
LEMMA LoweringDue ==
  ASSUME NEW s, NEW t, NEW x, Due(s, t, x), NEW c \in Callers, x \in Lowering(c)
  PROVE  CoreIsOff /\ Has(t, Activation(c)) /\ ~Has(s, CoreStaged)
<1>1. /\ Followed(s, Lowering(c), Activation(c))
      /\ Followed(t, {Activation(c)}, Activation("core"))
  BY DEF Due, CohortCourse, Follows
<1>2. s \in Seq(DeliverStep) /\ s # <<>> /\ Head(s) = x /\ t = Tail(s)  BY DEF Due
<1>3. Has(t, Activation(c))  BY <1>1, <1>2, FollowedTail
<1>4. Has(t, Activation("core"))
  <2>1. Some(t, {Activation(c)})  BY <1>3 DEF Has, Some
  <2> QED  BY <1>1, <2>1, FollowedHas
<1>5. Has(s, Activation("core"))  BY <1>4 DEF Due
<1>6. PICK n, w : x = <<n, w>> /\ ((n \in {"stage", "readStaged"} /\ w \in Callers) \/ (n \in LowNames /\ w = c))
  BY DEF Lowering
<1>7. w \in Workers /\ n \in LowNames \cup {"stage", "readStaged", "activate", "readActive", "final"}
  BY <1>6, OtherCallers
<1>8. ~Has(s, CoreStaged)
  <2>1. CASE n # "readRetired"
    <3>1. n \in {"stage", "readStaged"} => w \in Callers  BY <1>6 DEF LowNames
    <3> QED  BY <1>6, <1>7, <2>1, <3>1, CoreReadBack
  <2>2. CASE n = "readRetired"
    <3>1. x = <<"readRetired", c>>  BY <1>6, <2>2
    <3>2. Has(s, <<"readRetired", c>>)  BY <3>1 DEF Due
    <3> QED  BY <3>2 DEF Due, CohortCourse, Pending
  <2> QED  BY <2>1, <2>2
<1>9. CoreIsOff  BY <1>5, <1>8 DEF Due, CohortCourse, CoreWaits
<1> QED  BY <1>3, <1>8, <1>9

(* When the core is activated, or a Worker read back as active, what has the     *)
(* place of an activation is over.                                              *)
LEMMA ActivationsOver ==
  ASSUME NEW s, NEW t, NEW n, NEW w \in Workers, Due(s, t, <<n, w>>),
         (n \in {"activate", "readActive"} /\ w = "core") \/ n = "final"
  PROVE  \A v \in Workers : ~Has(t, Activation(v))
<1> SUFFICES ASSUME NEW v \in Workers PROVE ~Has(t, Activation(v))  OBVIOUS
<1>1. PICK y : y = Activation(v)  OBVIOUS
<1>2. y \in DeliverStep /\ y[1] \notin Free  BY <1>1, CallSteps, NamesHere DEF Activation
<1>3. PICK U \in {0, 20, 40} : U = ActiveTurn[v]  BY Ranks
<1>4. Rank(y) = 63 + U
  <2>1. Rank(<<"activate", v>>) = 63 + ActiveTurn[v]  BY Ranks
  <2> QED  BY <1>1, <1>3, <2>1 DEF Activation
<1>5. PICK x : x = <<n, w>>  OBVIOUS
<1>6. ActiveTurn["core"] = 40  BY Ranks
<1>7. Rank(x) >= 103 /\ Rank(x) \in Nat
  <2>1. Rank(<<"activate", w>>) = 63 + ActiveTurn[w]  BY Ranks
  <2>2. Rank(<<"readActive", w>>) = 64 + ActiveTurn[w]  BY Ranks
  <2>3. Rank(<<"final", w>>) = 110  BY Ranks
  <2> QED  BY <1>5, <1>6, <2>1, <2>2, <2>3
<1>8. x[1] \notin Free /\ (x[1] = "final" \/ x[1] \notin Repeating)  BY <1>5, NamesHere
<1>9. Rank(y) < Rank(x) \/ (Rank(y) = Rank(x) /\ x[1] \notin Repeating)
  <2>1. CASE n = "final"
    <3>1. Rank(<<"final", w>>) = 110  BY Ranks
    <3>2. Rank(x) = 110  BY <1>5, <2>1, <3>1
    <3> QED  BY <1>3, <1>4, <3>2
  <2>2. CASE n # "final"  BY <1>3, <1>4, <1>5, <1>7, <1>8, <2>2
  <2> QED  BY <2>1, <2>2
<1>10. ~Has(t, y)  BY <1>2, <1>5, <1>8, <1>9, Passed
<1> QED  BY <1>1, <1>10

-----------------------------------------------------------------------------
(* What a step does to the Workers *)

(* Only w is changed, or accepted. *)
Others(w) == \A v \in Workers \ {w} : live'[v] = live[v] /\ (v \in strange' <=> v \in strange)
Idle(x, w) == x[1] # "activate" /\ live'[w] = live[w] /\ (w \in strange <=> w \in strange')
Lowered(t, c) ==
  /\ CoreIsOff /\ Has(t, Activation(c))
  /\ ActiveNote(live'[c]) => live'[c].circuit = "enabled"
Raised(c) ==
  /\ live'[c].circuit = "enabled" /\ live'[c].code = run.src
  /\ CoreIsOff \/ live["core"].code = run.src
CoreLowered(t) ==
  /\ live'["core"].circuit = "disabled" /\ (ActiveNote(live'["core"]) => ActiveNote(live["core"]))
  /\ live'["core"].code = run.src \/ Has(t, Activation("core"))
CoreRaised(t) ==
  /\ live'["core"].code = run.src /\ ~Has(t, Activation("core"))
  /\ \A c \in Callers : Settled(c)
Trusts(t, x, w) ==
  /\ Others(w) /\ (x[1] = "activate" => x = Activation(w)) /\ (x = CoreStaged => live'["core"].circuit = "disabled")
  /\ \/ Idle(x, w)
     \/ w \in Callers /\ (Lowered(t, w) \/ Raised(w))
     \/ w = "core" /\ (CoreLowered(t) \/ CoreRaised(t))

(* The half of LegacyCore that is not about what a preflight has read *)
LegacyLive == \A c \in Callers : Awaiting(c) => ~ActiveNote(live["core"])

(* Nothing changes but what another writer does. *)
LEMMA ServesUntouched ==
  ASSUME CoreServesOneCohort, LegacyLive,
         \A w \in Workers : w \in strange' \/ (w \notin strange /\ live'[w] = live[w]),
         ActiveNote(live'["core"]) => ActiveNote(live["core"])
  PROVE  CoreServesOneCohort' /\ LegacyLive'
<1>1. "core" \in Workers /\ Callers \subseteq Workers  BY DEF Workers, Callers
<1>2. CoreServesOneCohort'  BY <1>1 DEF CoreServesOneCohort
<1>3. \A c \in Callers : Awaiting(c)' => Awaiting(c)  BY <1>1 DEF Awaiting, ActiveNote
<1> QED  BY <1>2, <1>3 DEF LegacyLive, ActiveNote

LEMMA ServesOn ==
  ASSUME CoreServesOneCohort, LegacyLive, NEW t, NEW x, NEW w \in Workers, Trusts(t, x, w)
  PROVE  CoreServesOneCohort' /\ LegacyLive'
<1>1. "core" \in Workers /\ Callers \subseteq Workers /\ "core" \notin Callers  BY DEF Workers, Callers
<1>2. \A v \in Workers : v # w => live'[v] = live[v] /\ (v \in strange' <=> v \in strange)
  BY DEF Trusts, Others
<1>3. CASE Idle(x, w)
  <2>1. \A v \in Workers : live'[v] = live[v] /\ (v \in strange' <=> v \in strange)
    BY <1>2, <1>3 DEF Idle
  <2> QED  BY <1>1, <2>1 DEF CoreServesOneCohort, LegacyLive, Awaiting, ActiveNote
<1>4. CASE w \in Callers
  <2>1. live'["core"] = live["core"] /\ ("core" \in strange' <=> "core" \in strange)
    BY <1>1, <1>2, <1>4
  <2>2. ASSUME NEW c \in Callers, c # w
        PROVE  live'[c] = live[c] /\ (c \in strange' <=> c \in strange)
    BY <1>1, <1>2, <2>2
  <2>3. CASE Lowered(t, w)
    <3>1. CoreServesOneCohort'  BY <2>1, <2>3 DEF CoreServesOneCohort, CoreIsOff, Lowered
    <3>2. \A c \in Callers : Awaiting(c)' => c # w  BY <2>3 DEF Awaiting, Lowered, ActiveNote
    <3>3. \A c \in Callers : Awaiting(c)' => Awaiting(c)  BY <2>2, <3>2 DEF Awaiting, ActiveNote
    <3> QED  BY <2>1, <3>1, <3>3 DEF LegacyLive, ActiveNote
  <2>4. CASE Raised(w)
    <3>1. CoreServesOneCohort'
      <4> SUFFICES ASSUME live'["core"].circuit = "enabled", NEW c \in Callers, {"core", c} \cap strange' = {}
                   PROVE  live'[c].circuit = "enabled" /\ live'[c].code = live'["core"].code
        BY DEF CoreServesOneCohort
      <4>1. "core" \notin strange /\ live["core"].circuit = "enabled"  BY <2>1
      <4>2. CASE c = w  BY <2>1, <2>4, <4>1, <4>2 DEF Raised, CoreIsOff
      <4>3. CASE c # w
        <5>1. {"core", c} \cap strange = {}  BY <2>2, <4>1, <4>3
        <5> QED  BY <2>1, <2>2, <4>1, <4>3, <5>1 DEF CoreServesOneCohort
      <4> QED  BY <4>2, <4>3
    <3>2. \A c \in Callers : Awaiting(c)' => c # w  BY <2>4 DEF Awaiting, Raised
    <3>3. \A c \in Callers : Awaiting(c)' => Awaiting(c)  BY <2>2, <3>2 DEF Awaiting, ActiveNote
    <3> QED  BY <2>1, <3>1, <3>3 DEF LegacyLive, ActiveNote
  <2> QED  BY <1>1, <1>3, <1>4, <2>3, <2>4 DEF Trusts
<1>5. CASE w = "core"
  <2>1. \A c \in Callers : live'[c] = live[c] /\ (c \in strange' <=> c \in strange)
    BY <1>1, <1>2, <1>5
  <2>2. \A c \in Callers : Awaiting(c)' => Awaiting(c)  BY <2>1 DEF Awaiting, ActiveNote
  <2>3. CASE CoreLowered(t)
    <3>1. CoreServesOneCohort'  BY <2>3 DEF CoreServesOneCohort, CoreLowered
    <3> QED  BY <2>2, <2>3, <3>1 DEF LegacyLive, ActiveNote, CoreLowered
  <2>4. CASE CoreRaised(t)
    <3>1. CoreServesOneCohort'  BY <2>1, <2>4 DEF CoreServesOneCohort, CoreRaised, Settled
    <3>2. \A c \in Callers : ~Awaiting(c)'  BY <2>1, <2>4 DEF Awaiting, CoreRaised, Settled
    <3> QED  BY <3>1, <3>2 DEF LegacyLive
  <2> QED  BY <1>1, <1>3, <1>5, <2>3, <2>4 DEF Trusts
<1> QED  BY <1>3, <1>4, <1>5 DEF Trusts

(* What a delivery still has to do with the core and its callers *)
LEMMA CourseOn ==
  ASSUME NEW s, NEW t, NEW x, Due(s, t, x), NEW w \in Workers, Trusts(t, x, w), run'.src = run.src,
         NEW z, \A y : Has(t, y) => Has(z, y), ~Has(z, Activation("core")) \/ Has(t, Activation("core"))
  PROVE  CoreWaits(z)' /\ AllSettled(z)'
<1>1. "core" \in Workers /\ Callers \subseteq Workers /\ "core" \notin Callers  BY DEF Workers, Callers
<1>2. \A v \in Workers : v # w => live'[v] = live[v] /\ (v \in strange' <=> v \in strange)
  BY DEF Trusts, Others
<1>3. CoreWaits(s) /\ AllSettled(s) /\ \A y : Has(s, y) <=> y = x \/ Has(t, y)
  BY DEF Due, CohortCourse
<1>4. Idle(x, w) \/ w # "core" => (CoreIsOff => CoreIsOff')
  BY <1>1, <1>2 DEF Idle, CoreIsOff
<1>5. CoreWaits(z)'
  <2>1. x = CoreStaged => CoreIsOff'  BY DEF Trusts, CoreIsOff
  <2>2. CASE Idle(x, w) \/ w # "core"
    <3>1. Has(s, CoreStaged) => x = CoreStaged \/ Has(z, CoreStaged)  BY <1>3
    <3>2. ~Has(s, Activation("core")) => ~Has(z, Activation("core"))  BY <1>3
    <3> QED  BY <1>3, <1>4, <2>1, <2>2, <3>1, <3>2 DEF CoreWaits
  <2>3. CASE w = "core" /\ CoreLowered(t)  BY <2>3 DEF CoreWaits, CoreIsOff, CoreLowered
  <2>4. CASE w = "core" /\ CoreRaised(t)  BY <2>4 DEF CoreWaits, CoreRaised
  <2> QED  BY <1>1, <2>2, <2>3, <2>4 DEF Trusts
<1>6. ASSUME NEW v \in Workers, v # w \/ Idle(x, w) PROVE Has(z, Activation(v)) \/ Settled(v)'
  <2>1. live'[v] = live[v] /\ (v \in strange' <=> v \in strange)  BY <1>2, <1>6 DEF Idle
  <2>2. Settled(v) => Settled(v)'  BY <2>1 DEF Settled
  <2>3. x # Activation(v)
    <3>1. Activation(v)[1] = "activate" /\ (Activation(v) = Activation(w) <=> v = w)  BY DEF Activation
    <3> QED  BY <1>6, <3>1 DEF Trusts, Idle
  <2> QED  BY <1>3, <2>2, <2>3 DEF AllSettled
<1>7. ~Idle(x, w) => Has(z, Activation(w)) \/ Settled(w)'
  <2>1. CASE w \in Callers /\ Lowered(t, w)  BY <2>1 DEF Lowered
  <2>2. CASE w \in Callers /\ Raised(w)  BY <2>2 DEF Raised, Settled
  <2>3. CASE w = "core" /\ (CoreLowered(t) \/ CoreRaised(t))
    BY <1>1, <2>3 DEF CoreLowered, CoreRaised, Settled
  <2> QED  BY <2>1, <2>2, <2>3 DEF Trusts
<1>8. AllSettled(z)'  BY <1>6, <1>7 DEF AllSettled
<1> QED  BY <1>5, <1>8

-----------------------------------------------------------------------------
(* What a call puts before the rest *)

Puts(x, t, u) ==
  /\ u \in Seq(DeliverStep)
  /\ \A n \in {"stage", "readStaged", "activate", "readActive"}, w \in Workers : ~Has(u, <<n, w>>)
  /\ \A c \in Callers :
       /\ Some(u, Lowering(c)) => Has(t, Activation(c))
       /\ Has(u, <<"completeRetirement", c>>) => x = <<"readStaged", c>>
       /\ Has(u, <<"readRetired", c>>) => ~Has(t, CoreStaged)

LEMMA PutsNone == \A x, t : Puts(x, t, <<>>)
<1>1. PICK e : e = <<>>  OBVIOUS
<1>2. e \in Seq(DeliverStep) /\ Len(e) = 0 /\ 1..Len(e) = {}  BY <1>1
<1>3. (\A y : ~Has(e, y)) /\ (\A Y : ~Some(e, Y))  BY <1>2 DEF Has, Some
<1> QED  BY <1>1, <1>2, <1>3 DEF Puts

LEMMA PutsWithin ==
  ASSUME NEW x, NEW t, NEW u, NEW N, NEW w \in Workers, Within(u, N, w), "fence" \notin N,
         N \cap {"stage", "readStaged", "activate", "readActive"} = {},
         w \in Callers => Has(t, Activation(w)),
         "completeRetirement" \in N => x = <<"readStaged", w>>,
         "readRetired" \in N => ~Has(t, CoreStaged)
  PROVE  Puts(x, t, u)
<1>1. \A n, c : n # "fence" /\ Has(u, <<n, c>>) => n \in N /\ c = w  BY WithinHas
<1>2. ASSUME NEW n \in {"stage", "readStaged", "activate", "readActive"}, NEW v \in Workers
      PROVE  ~Has(u, <<n, v>>)
  BY <1>1, <1>2
<1>3. ASSUME NEW c \in Callers, Some(u, Lowering(c)) PROVE Has(t, Activation(c))
  <2>1. PICK i \in 1..Len(u) : u[i] \in Lowering(c)  BY <1>3 DEF Some
  <2>2. PICK n, v : u[i] = <<n, v>> /\ n # "fence"
                    /\ ((n \in {"stage", "readStaged"} /\ v \in Callers) \/ (n \in LowNames /\ v = c))
    BY <2>1 DEF Lowering, LowNames
  <2>3. n \in N /\ v = w  BY <1>1, <2>2 DEF Has
  <2>4. v = c  BY <2>2, <2>3
  <2> QED  BY <1>3, <2>3, <2>4
<1>4. ASSUME NEW c \in Callers, Has(u, <<"completeRetirement", c>>) PROVE x = <<"readStaged", c>>
  BY <1>1, <1>4
<1>5. ASSUME NEW c \in Callers, Has(u, <<"readRetired", c>>) PROVE ~Has(t, CoreStaged)
  BY <1>1, <1>5
<1> QED  BY <1>2, <1>3, <1>4, <1>5 DEF Puts, Within

LEMMA PutsCat ==
  ASSUME NEW x, NEW t, NEW u, NEW v, Puts(x, t, u), Puts(x, t, v)
  PROVE  Puts(x, t, u \o v)
<1>1. PICK z : z = u \o v  OBVIOUS
<1>2. u \in Seq(DeliverStep) /\ v \in Seq(DeliverStep)  BY DEF Puts
<1>3. /\ z \in Seq(DeliverStep)
      /\ \A i \in 1..Len(z) : i \in 1..Len(u) \/ i - Len(u) \in 1..Len(v)
      /\ \A i \in 1..Len(u) : z[i] = u[i]
      /\ \A i \in 1..Len(z) : i \notin 1..Len(u) => z[i] = v[i - Len(u)]
  BY <1>1, <1>2, CatIndex
<1>4. \A y : Has(z, y) => Has(u, y) \/ Has(v, y)  BY <1>3 DEF Has
<1>5. \A Y : Some(z, Y) => Some(u, Y) \/ Some(v, Y)  BY <1>3 DEF Some
<1> QED  BY <1>1, <1>3, <1>4, <1>5 DEF Puts

(* The new list is as good as the old one. *)
LEMMA FollowsStay ==
  ASSUME NEW s, NEW t, NEW x, Due(s, t, x), NEW u, Puts(x, t, u)
  PROVE  Follows(u \o t)
<1>1. u \in Seq(DeliverStep) /\ t \in Seq(DeliverStep) /\ Follows(t)  BY DEF Puts, Due
<1>2. ASSUME NEW w \in Workers, NEW n \in {"activate", "readActive"} PROVE ~Some(u, {<<n, w>>})
  <2>1. ~Has(u, <<n, w>>)  BY DEF Puts
  <2> QED  BY <2>1 DEF Has, Some
<1>3. ASSUME NEW c \in Callers
      PROVE  /\ Followed(u \o t, Lowering(c), Activation(c))
             /\ Followed(u \o t, {Activation(c)}, Activation("core"))
             /\ Followed(u \o t, {Activation(c)}, <<"readActive", c>>)
  <2>1. /\ Followed(t, Lowering(c), Activation(c)) /\ Followed(t, {Activation(c)}, Activation("core"))
        /\ Followed(t, {Activation(c)}, <<"readActive", c>>)
    BY <1>1 DEF Follows
  <2>2. ~Some(u, {Activation(c)})  BY <1>2, OtherCallers DEF Activation
  <2>3. Some(u, Lowering(c)) => Has(t, Activation(c))  BY DEF Puts
  <2>4. Followed(u \o t, Lowering(c), Activation(c))  BY <1>1, <2>1, <2>3, FollowedCat
  <2>5. Followed(u \o t, {Activation(c)}, Activation("core"))  BY <1>1, <2>1, <2>2, FollowedCat
  <2>6. Followed(u \o t, {Activation(c)}, <<"readActive", c>>)  BY <1>1, <2>1, <2>2, FollowedCat
  <2> QED  BY <2>4, <2>5, <2>6
<1>4. Followed(u \o t, {<<"readActive", "publisher">>}, Activation("rendezvous"))
  <2>1. Followed(t, {<<"readActive", "publisher">>}, Activation("rendezvous"))  BY <1>1 DEF Follows
  <2>2. ~Some(u, {<<"readActive", "publisher">>})  BY <1>2 DEF Workers
  <2> QED  BY <1>1, <2>1, <2>2, FollowedCat
<1> QED  BY <1>3, <1>4 DEF Follows

LEMMA PendingStay ==
  ASSUME NEW s, NEW t, NEW x, Due(s, t, x), NEW u, Puts(x, t, u), NEW p \in Seq(Callers), Pending(s, p),
         NEW q \in Seq(Callers), p = <<>> => q = <<>>,
         \A i \in 1..Len(q) : <<"readActive", q[i]>> # x /\ \E j \in 1..Len(p) : q[i] = p[j],
         \A i, j \in 1..Len(q) : q[i] = q[j] => i = j
  PROVE  Pending(u \o t, q)
<1>1. PICK z : z = u \o t  OBVIOUS
<1>2. u \in Seq(DeliverStep) /\ t \in Seq(DeliverStep)  BY DEF Puts, Due
<1>3. \A y : Has(z, y) <=> Has(u, y) \/ Has(t, y)
  <2>1. \A y : Has(u, y) \/ Has(t, y) => Has(z, y)  BY <1>1, <1>2, CatHas
  <2>2. \A y : Has(z, y) => Has(u, y) \/ Has(t, y)  BY <1>1, <1>2, CatIndex DEF Has
  <2> QED  BY <2>1, <2>2
<1>4. \A y : Has(s, y) <=> y = x \/ Has(t, y)  BY DEF Due
<1>5. ASSUME Has(z, CoreStaged) PROVE q = <<>> /\ \A c \in Callers : ~Has(z, <<"readRetired", c>>)
  <2>1. ~Has(u, CoreStaged)  BY DEF Puts, CoreStaged, Workers
  <2>2. Has(t, CoreStaged)  BY <1>3, <1>5, <2>1
  <2>3. \A c \in Callers : ~Has(u, <<"readRetired", c>>)  BY <2>2 DEF Puts
  <2>4. p = <<>> /\ \A c \in Callers : ~Has(s, <<"readRetired", c>>)  BY <1>4, <2>2 DEF Pending
  <2> QED  BY <1>3, <1>4, <2>3, <2>4
<1>6. ASSUME NEW i \in 1..Len(q)
      PROVE  /\ Has(z, <<"readActive", q[i]>>)
             /\ ~Has(z, <<"readStaged", q[i]>>) /\ ~Has(z, <<"completeRetirement", q[i]>>)
  <2>1. PICK j \in 1..Len(p) : q[i] = p[j]  OBVIOUS
  <2>2. PICK h \in Callers : h = q[i]  OBVIOUS
  <2>3. /\ Has(s, <<"readActive", h>>) /\ ~Has(s, <<"readStaged", h>>)
        /\ ~Has(s, <<"completeRetirement", h>>)
    BY <2>1, <2>2 DEF Pending
  <2>4. <<"readActive", h>> # x  BY <2>2
  <2>5. Has(z, <<"readActive", h>>)  BY <1>3, <1>4, <2>3, <2>4
  <2>6. ~Has(u, <<"readStaged", h>>)  BY OtherCallers DEF Puts
  <2>7. ~Has(u, <<"completeRetirement", h>>)
    <3>1. Has(s, x)  BY <1>4
    <3>2. x # <<"readStaged", h>>  BY <2>3, <3>1
    <3> QED  BY <3>2 DEF Puts
  <2> QED  BY <1>3, <1>4, <2>2, <2>3, <2>5, <2>6, <2>7
<1> QED  BY <1>1, <1>5, <1>6 DEF Pending

(* A retired caller is no longer read again once it is active. *)
LEMMA WithoutOne ==
  ASSUME NEW X, NEW p \in Seq(X), \A i, j \in 1..Len(p) : p[i] = p[j] => i = j, NEW w
  PROVE  LET q == Without(p, w) IN
         /\ q \in Seq(X) /\ (p = <<>> => q = <<>>)
         /\ \A i \in 1..Len(q) : q[i] # w /\ \E j \in 1..Len(p) : q[i] = p[j]
         /\ \A i, j \in 1..Len(q) : q[i] = q[j] => i = j
<1>1. CASE Contains(p, w)
  <2>1. PICK k \in 1..Len(p) : k = (CHOOSE j \in 1..Len(p) : p[j] = w) /\ p[k] = w  BY <1>1 DEF Contains
  <2>2. PICK a : a = SubSeq(p, 1, k - 1)  OBVIOUS
  <2>3. PICK b : b = SubSeq(p, k + 1, Len(p))  OBVIOUS
  <2>4. a \in Seq(X) /\ Len(a) = k - 1 /\ \A i \in 1..Len(a) : a[i] = p[i] /\ i \in 1..Len(p) /\ i < k
    BY <2>2
  <2>5. b \in Seq(X) /\ Len(b) = Len(p) - k /\ \A i \in 1..Len(b) : b[i] = p[i + k] /\ i + k \in 1..Len(p)
    BY <2>3
  <2>6. PICK q : q = a \o b  OBVIOUS
  <2>7. q = Without(p, w)
    <3>1. Without(p, w) = SubSeq(p, 1, k - 1) \o SubSeq(p, k + 1, Len(p))
      BY <1>1, <2>1 DEF Without, RemoveAt
    <3> QED  BY <2>2, <2>3, <2>6, <3>1
  <2>8. /\ q \in Seq(X) /\ Len(q) = Len(a) + Len(b)
        /\ \A i \in 1..Len(q) : i \in 1..Len(a) \/ i - Len(a) \in 1..Len(b)
        /\ \A i \in 1..Len(a) : q[i] = a[i]
        /\ \A i \in 1..Len(q) : i \notin 1..Len(a) => q[i] = b[i - Len(a)]
    <3>1. a \in Seq(X) /\ b \in Seq(X)  BY <2>4, <2>5
    <3> QED  BY <2>6, <3>1, CatIndex, SMTT(40)
  <2> DEFINE at(i) == IF i < k THEN i ELSE i + 1
  <2>9. ASSUME NEW i \in 1..Len(q) PROVE at(i) \in 1..Len(p) /\ at(i) # k /\ q[i] = p[at(i)]
    <3>1. CASE i < k
      <4>1. i \in 1..Len(a)  BY <2>4, <3>1
      <4> QED  BY <2>4, <2>8, <3>1, <4>1
    <3>2. CASE ~(i < k)
      <4>1. i \notin 1..Len(a) /\ i - Len(a) \in 1..Len(b)  BY <2>4, <2>8, <3>2
      <4>2. q[i] = p[(i - Len(a)) + k] /\ (i - Len(a)) + k \in 1..Len(p)  BY <2>5, <2>8, <4>1
      <4>3. (i - Len(a)) + k = i + 1  BY <2>4
      <4> QED  BY <3>2, <4>2, <4>3
    <3> QED  BY <3>1, <3>2
  <2>10. \A i \in 1..Len(q) : q[i] # w /\ \E j \in 1..Len(p) : q[i] = p[j]
    <3>1. ASSUME NEW i \in 1..Len(q) PROVE q[i] # w /\ \E j \in 1..Len(p) : q[i] = p[j]
      <4>1. PICK m \in 1..Len(p) : m # k /\ q[i] = p[m]  BY <2>9
      <4> QED  BY <2>1, <4>1
    <3> QED  BY <3>1
  <2>11. ASSUME NEW i \in 1..Len(q), NEW j \in 1..Len(q), q[i] = q[j] PROVE i = j
    <3>1. at(i) = at(j)  BY <2>9, <2>11
    <3> QED  BY <3>1
  <2>12. p # <<>>  BY <2>1
  <2> QED  BY <2>7, <2>8, <2>10, <2>11, <2>12
<1>2. CASE ~Contains(p, w)
  <2>1. Without(p, w) = p  BY <1>2 DEF Without
  <2>2. \A i \in 1..Len(p) : p[i] # w  BY <1>2 DEF Contains
  <2> QED  BY <2>1, <2>2
<1> QED  BY <1>1, <1>2

-----------------------------------------------------------------------------
(* A call of a delivery *)

LEMMA AwayCohort ==
  ASSUME CoreServesOneCohort', LegacyLive', ~Under("preflight")', ~Under("deliver")'
  PROVE  CohortInv'
BY DEF CohortInv, LegacyCore, LegacyLive, ReadsHold

LEMMA CohortServes ==
  ASSUME CohortInv
  PROVE  CoreServesOneCohort /\ LegacyLive
BY DEF CohortInv, LegacyCore, LegacyLive

(* Nothing was done, and the run is no delivery any more. *)
LEMMA EndsUntouched ==
  ASSUME CohortInv, live' = live, strange' = strange, ~Under("preflight")', ~Under("deliver")'
  PROVE  CohortInv'
<1>1. CoreServesOneCohort' /\ LegacyLive'
  <2>1. CoreServesOneCohort /\ LegacyLive  BY CohortServes
  <2> QED  BY <2>1 DEF CoreServesOneCohort, LegacyLive, Awaiting, ActiveNote
<1> QED  BY <1>1, AwayCohort

LEMMA StopUntouched ==
  ASSUME CohortInv, live' = live, strange' = strange, NEW r, Shape(r), run' = Stop(r)
  PROVE  CohortInv'
BY StopIsAway, EndsUntouched

LEMMA FailsUntouched ==
  ASSUME CourseInv, CohortInv, Failed
  PROVE  CohortInv'
<1>1. Shape(run) /\ run' = Stop(run) /\ live' = live /\ strange' = strange
  BY DEF CourseInv, Types, Failed
<1> QED  BY <1>1, StopUntouched

(* An answer was lost. *)
LEMMA StopTouched ==
  ASSUME CohortInv, NEW t, NEW x, NEW w \in Workers, Trusts(t, x, w), NEW r, Shape(r), run' = Stop(r)
  PROVE  CohortInv'
BY CohortServes, ServesOn, StopIsAway, AwayCohort

LEMMA CallOn ==
  ASSUME CourseInv, CohortInv, NEW n, NEW w \in Workers, Todo(n, w), Under("deliver"),
         NEW F, Keeps(run, run', F), F \cap {"src", "mode", "outcome"} = {}, "own" \in F => OwnBare',
         "pending" \in F \/ n # "readActive",
         NEW s, NEW t, Due(s, t, <<n, w>>), Trusts(t, <<n, w>>, w),
         NEW u, Puts(<<n, w>>, t, u), run'.todo = u \o t,
         "pending" \in F => Pending(u \o t, run'.pending)
  PROVE  CohortInv'
<1>1. PICK x : x = <<n, w>>  OBVIOUS
<1>2. PICK z : z = u \o t  OBVIOUS
<1>3. run'.src = run.src /\ run'.mode = run.mode /\ run'.outcome = run.outcome
  BY DEF Keeps, RunFields
<1>4. Under("deliver")' /\ ~Under("preflight")'  BY <1>3 DEF Under
<1>5. CoreServesOneCohort' /\ LegacyLive'  BY <1>1, CohortServes, ServesOn
<1>6. OwnBare'
  <2>1. OwnBare  BY DEF CohortInv
  <2>2. CASE "own" \notin F
    <3>1. run'.own = run.own  BY <2>2 DEF Keeps, RunFields
    <3> QED  BY <2>1, <3>1 DEF OwnBare
  <2> QED  BY <2>2
<1>7. Follows(z)  BY <1>1, <1>2, FollowsStay
<1>8. Pending(z, run'.pending)
  <2>1. CASE "pending" \in F  BY <1>2, <2>1
  <2>2. CASE "pending" \notin F
    <3>1. run'.pending = run.pending  BY <2>2 DEF Keeps, RunFields
    <3>2. PICK p \in Seq(Callers) : p = run.pending  BY DEF CourseInv, Types
    <3>3. Pending(s, p)  BY <3>2 DEF Due, CohortCourse
    <3>4. \A i, j \in 1..Len(p) : p[i] = p[j] => i = j  BY <3>3 DEF Pending
    <3>5. \A i \in 1..Len(p) : <<"readActive", p[i]>> # x /\ \E j \in 1..Len(p) : p[i] = p[j]
      BY <1>1, <2>2
    <3>6. Pending(z, p)  BY <1>1, <1>2, <3>3, <3>4, <3>5, PendingStay
    <3> QED  BY <3>1, <3>2, <3>6
  <2> QED  BY <2>1, <2>2
<1>9. CoreWaits(z)' /\ AllSettled(z)'
  <2>1. u \in Seq(DeliverStep) /\ t \in Seq(DeliverStep)  BY DEF Puts, Due
  <2>2. \A y : Has(t, y) => Has(z, y)  BY <1>2, <2>1, CatHas
  <2>3. ~Has(u, Activation("core"))  BY DEF Puts, Activation, Workers
  <2>4. \A y : Has(z, y) => Has(u, y) \/ Has(t, y)  BY <1>2, <2>1, CatIndex DEF Has
  <2>5. ~Has(z, Activation("core")) \/ Has(t, Activation("core"))  BY <2>3, <2>4
  <2> QED  BY <1>1, <1>3, <2>2, <2>5, CourseOn
<1>10. CohortCourse(run.todo)'
  <2>1. run'.todo = z  BY <1>2
  <2>2. CohortCourse(z)'  BY <1>7, <1>8, <1>9 DEF CohortCourse
  <2> QED  BY <2>1, <2>2 DEF CohortCourse, Follows, Pending, CoreWaits, AllSettled
<1> QED  BY <1>4, <1>5, <1>6, <1>10 DEF CohortInv, LegacyCore, LegacyLive, ReadsHold

(* A call that puts nothing before the rest *)
LEMMA PlainOn ==
  ASSUME CourseInv, CohortInv, NEW n, NEW w \in Workers, Todo(n, w), Under("deliver"), n # "readActive",
         NEW F, Keeps(run, run', F), F \cap {"src", "mode", "outcome", "pending"} = {},
         "own" \in F => OwnBare', run'.todo = Tail(run.todo),
         NEW s, NEW t, Due(s, t, <<n, w>>), Trusts(t, <<n, w>>, w)
  PROVE  CohortInv'
<1>1. PICK e : e = <<>>  OBVIOUS
<1>2. t \in Seq(DeliverStep) /\ t = Tail(run.todo)  BY DEF Due
<1>3. run'.todo = e \o t  BY <1>1, <1>2
<1>4. Puts(<<n, w>>, t, e)  BY <1>1, PutsNone
<1>5. "pending" \notin F /\ F \cap {"src", "mode", "outcome"} = {}  OBVIOUS
<1> QED  BY <1>3, <1>4, <1>5, CallOn

(* A call that accepts nobody *)
LEMMA IdleTrusts ==
  ASSUME NEW n, n \notin {"activate", "readStaged"}, NEW w \in Workers, NEW t,
         live' = live, strange' = strange
  PROVE  Trusts(t, <<n, w>>, w)
BY DEF Trusts, Others, Idle, CoreStaged

LEMMA IdleOn ==
  ASSUME CourseInv, CohortInv, NEW n, NEW w \in Workers, Todo(n, w), Under("deliver"),
         n \notin {"activate", "readStaged", "readActive"},
         NEW F, Keeps(run, run', F), F \cap {"src", "mode", "outcome", "pending", "own"} = {},
         run'.todo = Tail(run.todo), live' = live, strange' = strange
  PROVE  CohortInv'
<1>1. PICK s, t : Due(s, t, <<n, w>>)  BY CallDue
<1>2. Trusts(t, <<n, w>>, w)  BY IdleTrusts
<1>3. F \cap {"src", "mode", "outcome", "pending"} = {} /\ "own" \notin F  OBVIOUS
<1> QED  BY <1>1, <1>2, <1>3, PlainOn

(* A call that accepts a caller that is disabled *)
LEMMA AcceptTrusts ==
  ASSUME NEW n, NEW c \in Callers, NEW s, NEW t, Due(s, t, <<n, c>>), <<n, c>> \in Lowering(c),
         live' = live, strange' = strange \ {c}, ActiveNote(live[c]) => live[c].circuit = "enabled"
  PROVE  Trusts(t, <<n, c>>, c)
<1>1. PICK x : x = <<n, c>>  OBVIOUS
<1>2. CoreIsOff /\ Has(t, Activation(c))  BY LoweringDue
<1>3. x[1] # "activate"  BY <1>1 DEF Lowering, LowNames
<1>4. x # CoreStaged  BY <1>1, OtherCallers DEF CoreStaged
<1>5. Others(c)  BY DEF Others
<1>6. Lowered(t, c)  BY <1>2 DEF Lowered, ActiveNote
<1> QED  BY <1>1, <1>3, <1>4, <1>5, <1>6 DEF Trusts

LEMMA AcceptOn ==
  ASSUME CourseInv, CohortInv, NEW n \in LowNames, NEW c \in Callers, Todo(n, c), Under("deliver"),
         NEW F, Keeps(run, run', F), F \cap {"src", "mode", "outcome", "pending"} = {},
         "own" \in F => OwnBare', run'.todo = Tail(run.todo),
         live' = live, strange' = strange \ {c}, ActiveNote(live[c]) => live[c].circuit = "enabled"
  PROVE  CohortInv'
<1>1. PICK s, t : Due(s, t, <<n, c>>)  BY CallDue
<1>2. <<n, c>> \in Lowering(c)  BY DEF Lowering
<1>3. Trusts(t, <<n, c>>, c)  BY <1>1, <1>2, AcceptTrusts
<1>4. c \in Workers /\ n # "readActive"  BY OtherCallers DEF LowNames
<1> QED  BY <1>1, <1>3, <1>4, PlainOn

-----------------------------------------------------------------------------
(* The calls that change no Worker *)

LEMMA CheckingCohort ==
  ASSUME CourseInv, CohortInv, NEW n \in DeliverNames, NEW w \in Workers, Todo(n, w),
         n \notin {"fence", "activate", "readStaged", "readActive"},
         NEW r, NEW F, NEW none, none = {}, Failed \/ Answered(r, none), Keeps(run, r, F), r.todo = Tail(run.todo),
         F \cap {"src", "mode", "outcome", "pending", "own"} = {}
  PROVE  CohortInv'
<1>1. CASE Failed  BY <1>1, FailsUntouched
<1>2. CASE Answered(r, none)
  <2>1. Under("deliver")  BY CallOfDelivery
  <2>2. run' = r /\ live' = live /\ strange' = strange  BY <1>2 DEF Answered
  <2> QED  BY <2>1, <2>2, IdleOn
<1> QED  BY <1>1, <1>2

LEMMA ChecksCohort ==
  ASSUME CourseInv, CohortInv, NEW w \in Workers,
         CheckPredecessor(w) \/ CheckCallerPredecessor(w) \/ Authorize(w) \/ Prove
  PROVE  CohortInv'
<1>1. Shape(run) /\ "core" \in Workers  BY DEF CourseInv, Types, Workers
<1>2. PICK r : r = Advance(run)  OBVIOUS
<1>3. PICK none : none = {}  OBVIOUS
<1>4. PICK F : F = {"todo"}  OBVIOUS
<1>5. /\ Keeps(run, r, F) /\ r.todo = Tail(run.todo)
      /\ F \cap {"src", "mode", "outcome", "pending", "own"} = {}
  BY <1>1, <1>2, <1>4, RunAdvance
<1>6. /\ {"predecessor", "callerPredecessor", "authorize", "reconcile", "canaries"} \subseteq DeliverNames
      /\ {"predecessor", "callerPredecessor", "authorize", "reconcile", "canaries"}
           \cap {"fence", "activate", "readStaged", "readActive"} = {}
  BY DEF DeliverNames, Repeating, Staging2, Free, Closing
<1>7. ASSUME NEW n \in {"predecessor", "callerPredecessor", "authorize", "reconcile", "canaries"},
             NEW v \in Workers, Todo(n, v), Failed \/ Answered(r, none)
      PROVE  CohortInv'
  <2>1. n \in DeliverNames /\ n \notin {"fence", "activate", "readStaged", "readActive"}  BY <1>6
  <2> QED  BY <1>3, <1>5, <1>7, <2>1, CheckingCohort
<1>8. CASE CheckPredecessor(w)
  <2>1. Todo("predecessor", w) /\ (Failed \/ Answered(r, none))
    BY <1>2, <1>3, <1>8 DEF CheckPredecessor, Check, Failed, Answered
  <2> QED  BY <1>7, <2>1
<1>9. CASE CheckCallerPredecessor(w)
  <2>1. Todo("callerPredecessor", w) /\ (Failed \/ Answered(r, none))
    BY <1>2, <1>3, <1>9 DEF CheckCallerPredecessor, Check, Failed, Answered
  <2> QED  BY <1>7, <2>1
<1>10. CASE Authorize(w)
  <2>1. Todo("authorize", w) /\ (Failed \/ Answered(r, none))
    BY <1>2, <1>3, <1>10 DEF Authorize, Check, Failed, Answered
  <2> QED  BY <1>7, <2>1
<1>11. CASE Prove
  <2>1. Todo("reconcile", "core") \/ Todo("canaries", "core")  BY <1>11 DEF Prove
  <2>2. Failed \/ Answered(r, none)  BY <1>2, <1>3, <1>11 DEF Prove, Answer, Check, Failed, Answered
  <2> QED  BY <1>1, <1>7, <2>1, <2>2
<1> QED  BY <1>8, <1>9, <1>10, <1>11

LEMMA RetirementChecksCohort ==
  ASSUME CourseInv, CohortInv, NEW c \in Callers,
         BeginRetirement(c) \/ RecordIntent(c) \/ RecordReceipt(c)
  PROVE  CohortInv'
<1>1. Shape(run) /\ c \in Workers  BY OtherCallers DEF CourseInv, Types
<1>2. PICK none : none = {}  OBVIOUS
<1>3. ASSUME NEW n \in {"beginRetirement", "intent", "receipt"}
      PROVE  n \in DeliverNames /\ n \notin {"fence", "activate", "readStaged", "readActive"}
  BY <1>3 DEF DeliverNames, Retiring
<1>4. ASSUME NEW n \in {"beginRetirement", "intent", "receipt"}, Todo(n, c),
             NEW r, NEW F, Failed \/ Answered(r, none), Keeps(run, r, F), r.todo = Tail(run.todo),
             F \cap {"src", "mode", "outcome", "pending", "own"} = {}
      PROVE  CohortInv'
  <2>1. n \in DeliverNames /\ n \notin {"fence", "activate", "readStaged", "readActive"}  BY <1>3
  <2> QED  BY <1>1, <1>2, <1>4, <2>1, CheckingCohort
<1>5. CASE BeginRetirement(c)
  <2>1. PICK r : r = [Advance(run) EXCEPT !.uncertain = c]  OBVIOUS
  <2>2. Todo("beginRetirement", c) /\ (Failed \/ Answered(r, none))
    BY <1>2, <1>5, <2>1 DEF BeginRetirement, Check, Failed, Answered
  <2>3. Keeps(run, r, {"todo", "uncertain"}) /\ r.todo = Tail(run.todo)  BY <1>1, <2>1, RunCalls
  <2> QED  BY <1>4, <2>2, <2>3
<1>6. CASE RecordIntent(c)
  <2>1. CASE Answer([Advance(run) EXCEPT !.intent = @ \cup {c}])
    <3>1. PICK r : r = [Advance(run) EXCEPT !.intent = @ \cup {c}]  OBVIOUS
    <3>2. Todo("intent", c) /\ (Failed \/ Answered(r, none))
      BY <1>2, <1>6, <2>1, <3>1 DEF RecordIntent, Answer, Check, Failed, Answered
    <3>3. Keeps(run, r, {"todo", "intent"}) /\ r.todo = Tail(run.todo)  BY <1>1, <3>1, RunCalls
    <3> QED  BY <1>4, <3>2, <3>3
  <2>2. CASE ~Answer([Advance(run) EXCEPT !.intent = @ \cup {c}])
    <3>1. PICK d : run' = Stop([run EXCEPT !.intent = @ \cup d]) /\ live' = live /\ strange' = strange
      BY <1>6, <2>2 DEF RecordIntent
    <3>2. PICK r : r = [run EXCEPT !.intent = @ \cup d]  OBVIOUS
    <3>3. Shape(r)  BY <1>1, <3>2 DEF Shape, RunFields
    <3> QED  BY <3>1, <3>2, <3>3, StopUntouched
  <2> QED  BY <2>1, <2>2
<1>7. CASE RecordReceipt(c)
  <2>1. PICK r : r = [Advance(run) EXCEPT !.receipt = @ \cup {c}]  OBVIOUS
  <2>2. Todo("receipt", c) /\ (Failed \/ Answered(r, none))
    BY <1>2, <1>7, <2>1 DEF RecordReceipt, Answer, Check, Failed, Answered
  <2>3. Keeps(run, r, {"todo", "receipt"}) /\ r.todo = Tail(run.todo)  BY <1>1, <2>1, RunCalls
  <2> QED  BY <1>4, <2>2, <2>3
<1> QED  BY <1>5, <1>6, <1>7

(* The calls that accept a disabled caller *)
LEMMA AcceptingCohort ==
  ASSUME CourseInv, CohortInv, NEW n \in LowNames, NEW c \in Callers, Todo(n, c),
         NEW r, NEW own, own = {c}, Answered(r, own), NEW F, Keeps(run, r, F), r.todo = Tail(run.todo),
         F \cap {"src", "mode", "outcome", "pending"} = {}, "own" \in F => OwnBare',
         ~ActiveNote(live[c])
  PROVE  CohortInv'
<1>1. n \in DeliverNames \ {"fence"}  BY NamesHere DEF LowNames
<1>2. Under("deliver")  BY <1>1, CallOfDelivery
<1>3. run' = r /\ live' = live /\ strange' = strange \ {c}  BY DEF Answered
<1> QED  BY <1>2, <1>3, AcceptOn

(* A version with the annotation of a staged one, or with none, is not active. *)
LEMMA BareNote ==
  ASSUME NEW v, NEW s, v.note = Note(s, "staged") \/ v.note = None
  PROVE  ~ActiveNote(v)
BY DEF ActiveNote, Note

LEMMA SelectionsCohort ==
  ASSUME CourseInv, CohortInv, NEW c \in Callers,
         RetireRead(c) \/ RetireReread(c) \/ Observe(c) \/ CompleteObservation(c) \/ ReadObserved(c)
  PROVE  CohortInv'
<1>1. Shape(run) /\ run.pending \in Seq(Callers)  BY DEF CourseInv, Types
<1>2. PICK own : own = {c}  OBVIOUS
<1>3. CASE Failed  BY <1>3, FailsUntouched
<1>4. CASE RetireRead(c) /\ ~Failed
  <2>1. PICK r : r = LearnCohort([Advance(run) EXCEPT !.snapshot = Snapshot], {})  OBVIOUS
  <2>2. Todo("retireRead", c) /\ Answered(r, own) /\ SelectedCaller(run, c)
    BY <1>2, <1>4, <2>1 DEF RetireRead, Check, Failed, Answered
  <2>3. PICK F : F = {"todo", "cohort", "transition", "snapshot"}  OBVIOUS
  <2>4. Keeps(run, r, F) /\ r.todo = Tail(run.todo)  BY <1>1, <2>1, <2>3, RunLearns
  <2>5. F \cap {"src", "mode", "outcome", "pending"} = {} /\ "own" \notin F  BY <2>3
  <2>6. ~ActiveNote(live[c])  BY <2>2, BareNote DEF SelectedCaller
  <2>7. "retireRead" \in LowNames  BY DEF LowNames
  <2> QED  BY <1>2, <2>2, <2>4, <2>5, <2>6, <2>7, AcceptingCohort
<1>5. CASE RetireReread(c) /\ ~Failed
  <2>1. PICK r : r = LearnCohort(Advance(run), {})  OBVIOUS
  <2>2. Todo("retireReread", c) /\ Answered(r, own) /\ SelectedCaller(run, c)
    BY <1>2, <1>5, <2>1 DEF RetireReread, Check, Failed, Answered
  <2>3. PICK F : F = {"todo", "cohort", "transition"}  OBVIOUS
  <2>4. Keeps(run, r, F) /\ r.todo = Tail(run.todo)  BY <1>1, <2>1, <2>3, RunLearns
  <2>5. F \cap {"src", "mode", "outcome", "pending"} = {} /\ "own" \notin F  BY <2>3
  <2>6. ~ActiveNote(live[c])  BY <2>2, BareNote DEF SelectedCaller
  <2>7. "retireReread" \in LowNames  BY DEF LowNames
  <2> QED  BY <1>2, <2>2, <2>4, <2>5, <2>6, <2>7, AcceptingCohort
<1>6. CASE Observe(c) /\ ~Failed
  <2>1. PICK r : r = LearnCohort(Advance(run), {})  OBVIOUS
  <2>2. Todo("observe", c) /\ Answered(r, own) /\ SelectedCaller(run, c)
    BY <1>2, <1>6, <2>1 DEF Observe, Check, Failed, Answered
  <2>3. PICK F : F = {"todo", "cohort", "transition"}  OBVIOUS
  <2>4. Keeps(run, r, F) /\ r.todo = Tail(run.todo)  BY <1>1, <2>1, <2>3, RunLearns
  <2>5. F \cap {"src", "mode", "outcome", "pending"} = {} /\ "own" \notin F  BY <2>3
  <2>6. ~ActiveNote(live[c])  BY <2>2, BareNote DEF SelectedCaller
  <2>7. "observe" \in LowNames  BY DEF LowNames
  <2> QED  BY <1>2, <2>2, <2>4, <2>5, <2>6, <2>7, AcceptingCohort
<1>7. CASE CompleteObservation(c) /\ ~Failed
  <2>1. PICK r : r = HandOff(Advance(run), c, "observed")  OBVIOUS
  <2>2. Todo("completeObservation", c) /\ Answered(r, own) /\ ReadsStaged(run, c, live[c])
    BY <1>2, <1>7, <2>1 DEF CompleteObservation, Check, Failed, Answered
  <2>3. PICK F : F = {"todo", "hand", "api"}  OBVIOUS
  <2>4. Keeps(run, r, F) /\ r.todo = Tail(run.todo)  BY <1>1, <2>1, <2>3, RunHandsOff
  <2>5. F \cap {"src", "mode", "outcome", "pending"} = {} /\ "own" \notin F  BY <2>3
  <2>6. ~ActiveNote(live[c])  BY <2>2, BareNote DEF ReadsStaged
  <2>7. "completeObservation" \in LowNames  BY DEF LowNames
  <2> QED  BY <1>2, <2>2, <2>4, <2>5, <2>6, <2>7, AcceptingCohort
<1>8. CASE ReadObserved(c) /\ ~Failed
  <2>1. PICK r : r = Advance(run)  OBVIOUS
  <2>2. Todo("readObserved", c) /\ Answered(r, own) /\ ReadsStaged(run, c, live[c])
    BY <1>2, <1>8, <2>1 DEF ReadObserved, Check, Failed, Answered
  <2>3. PICK F : F = {"todo"}  OBVIOUS
  <2>4. Keeps(run, r, F) /\ r.todo = Tail(run.todo)  BY <1>1, <2>1, <2>3, RunAdvance
  <2>5. F \cap {"src", "mode", "outcome", "pending"} = {} /\ "own" \notin F  BY <2>3
  <2>6. ~ActiveNote(live[c])  BY <2>2, BareNote DEF ReadsStaged
  <2>7. "readObserved" \in LowNames  BY DEF LowNames
  <2> QED  BY <1>2, <2>2, <2>4, <2>5, <2>6, <2>7, AcceptingCohort
<1> QED  BY <1>3, <1>4, <1>5, <1>6, <1>7, <1>8

(* The proof of a retired caller is a version without an annotation. *)
LEMMA ProvenBare ==
  ASSUME CourseInv, CohortInv, NEW c \in Callers, Under("deliver"), live[c] = run.own[c]
  PROVE  ~ActiveNote(live[c])
<1>1. live[c] \in Version  BY OtherCallers DEF CourseInv, Types
<1>2. live[c] # None  BY <1>1, NoneAssumption
<1>3. OwnBare  BY DEF CohortInv
<1>4. live[c].note = None  BY <1>2, <1>3 DEF OwnBare
<1> QED  BY <1>4, BareNote

LEMMA ProofsCohort ==
  ASSUME CourseInv, HandoverInv, CohortInv, NEW c \in Callers,
         ReadRetired(c) \/ AcceptRetirement(c) \/ RetireVerify(c)
  PROVE  CohortInv'
<1>1. Shape(run)  BY DEF CourseInv, Types
<1>2. PICK own : own = {c}  OBVIOUS
<1>3. CASE Failed  BY <1>3, FailsUntouched
<1>4. {"readRetired", "acceptRetirement", "retireVerify"} \subseteq LowNames
      /\ {"readRetired", "acceptRetirement", "retireVerify"} \subseteq DeliverNames \ {"fence"}
  BY NamesHere DEF LowNames
<1>5. CASE ReadRetired(c) /\ ~Failed
  <2>1. PICK r : r = LearnCohort(Advance(run), {})  OBVIOUS
  <2>2. Todo("readRetired", c) /\ Answered(r, own) /\ live[c] = run.own[c]
    BY <1>2, <1>5, <2>1
       DEF ReadRetired, Check, Failed, Answered, RetiredUnchanged, OwnUnchanged, Snapshot
  <2>3. PICK F : F = {"todo", "cohort", "transition"}  OBVIOUS
  <2>4. Keeps(run, r, F) /\ r.todo = Tail(run.todo)  BY <1>1, <2>1, <2>3, RunLearns
  <2>5. F \cap {"src", "mode", "outcome", "pending"} = {} /\ "own" \notin F  BY <2>3
  <2>6. Under("deliver")  BY <1>4, <2>2, CallOfDelivery
  <2>7. ~ActiveNote(live[c])  BY <2>2, <2>6, ProvenBare
  <2> QED  BY <1>2, <1>4, <2>2, <2>4, <2>5, <2>7, AcceptingCohort
<1>6. CASE AcceptRetirement(c) /\ ~Failed
  <2>1. PICK r : r = [LearnCohort(Advance(run), {c}) EXCEPT
                        !.cohort = IF @ = None THEN live ELSE [@ EXCEPT ![c] = live[c]],
                        !.retired = @ \cup {c}, !.uncertain = None]
    OBVIOUS
  <2>2. Todo("acceptRetirement", c) /\ Answered(r, own) /\ live[c] = run.own[c]
    BY <1>2, <1>6, <2>1
       DEF AcceptRetirement, Check, Failed, Answered, OwnUnchanged, Snapshot
  <2>3. PICK F : F = {"todo", "cohort", "transition", "retired", "uncertain"}  OBVIOUS
  <2>4. Keeps(run, r, F) /\ r.todo = Tail(run.todo)  BY <1>1, <2>1, <2>3, RunLearns
  <2>5. F \cap {"src", "mode", "outcome", "pending"} = {} /\ "own" \notin F  BY <2>3
  <2>6. Under("deliver")  BY <1>4, <2>2, CallOfDelivery
  <2>7. ~ActiveNote(live[c])  BY <2>2, <2>6, ProvenBare
  <2> QED  BY <1>2, <1>4, <2>2, <2>4, <2>5, <2>7, AcceptingCohort
<1>7. CASE RetireVerify(c) /\ ~Failed
  <2>1. PICK r : r = [Advance(run) EXCEPT !.own[c] = Snapshot[c], !.snapshot = Snapshot]  OBVIOUS
  <2>2. Todo("retireVerify", c) /\ Answered(r, own) /\ RetirementObserved(run, c)
    BY <1>2, <1>7, <2>1 DEF RetireVerify, Check, Failed, Answered
  <2>3. PICK F : F = {"todo", "own", "snapshot"}  OBVIOUS
  <2>4. Keeps(run, r, F) /\ r.todo = Tail(run.todo) /\ r.own = [run.own EXCEPT ![c] = live[c]]
    BY <1>1, <2>1, <2>3, RunCalls
  <2>5. F \cap {"src", "mode", "outcome", "pending"} = {}  BY <2>3
  <2>6. Under("deliver")  BY <1>4, <2>2, CallOfDelivery
  <2>7. live[c].note = None
    <3>1. PICK b : b = [run.snapshot[c] EXCEPT !.version = live[c].version, !.via = live[c].via,
                                               !.pair = FALSE, !.note = None]
      OBVIOUS
    <3>2. live = [run.snapshot EXCEPT ![c] = b]  BY <2>2, <3>1 DEF RetirementObserved
    <3>3. DOMAIN live = Workers  BY DEF CourseInv, Types
    <3>4. DOMAIN run.snapshot = Workers  BY <3>2, <3>3
    <3>5. live[c] = b  BY <3>2, <3>4, OtherCallers
    <3>6. live[c] \in Version  BY OtherCallers DEF CourseInv, Types
    <3>7. "note" \in DOMAIN live[c]  BY <3>6 DEF Version
    <3>8. "note" \in DOMAIN run.snapshot[c]  BY <3>1, <3>5, <3>7
    <3> QED  BY <3>1, <3>5, <3>8
  <2>8. OwnBare'
    <3>1. OwnBare /\ DOMAIN run.own = Callers  BY <2>6 DEF CohortInv, HandoverInv, Tables
    <3>2. run'.own = [run.own EXCEPT ![c] = live[c]]  BY <2>2, <2>4 DEF Answered
    <3>3. \A d \in Callers : run'.own[d] = IF d = c THEN live[c] ELSE run.own[d]  BY <3>1, <3>2
    <3> QED  BY <2>7, <3>1, <3>3 DEF OwnBare
  <2>9. ~ActiveNote(live[c])  BY <2>7, BareNote
  <2> QED  BY <1>2, <1>4, <2>2, <2>4, <2>5, <2>8, <2>9, AcceptingCohort
<1> QED  BY <1>3, <1>5, <1>6, <1>7

(* The calls that put a fresh proof ahead *)
LEMMA ProofCallCohort ==
  ASSUME CourseInv, CohortInv, NEW n \in {"verifyStaged", "handoff"}, NEW w \in Workers, Todo(n, w),
         NEW u, NEW N, Within(u, N, w), N \subseteq ProofNames, "readRetired" \in N => w \in Callers,
         NEW r, r = Before(Advance(run), u), NEW none, none = {}, Answered(r, none)
  PROVE  CohortInv'
<1>1. Shape(run)  BY DEF CourseInv, Types
<1>2. run' = r /\ live' = live /\ strange' = strange  BY DEF Answered
<1>3. PICK F : F = {"todo"}  OBVIOUS
<1>4. Keeps(run, run', F) /\ run'.todo = u \o Tail(run.todo)  BY <1>1, <1>2, <1>3, RunBefore
<1>5. n \in DeliverNames \ {"fence"} /\ n \in LowNames
  BY DEF DeliverNames, Repeating, Activating, LowNames
<1>6. Under("deliver")  BY <1>5, CallOfDelivery
<1>7. PICK s, t : Due(s, t, <<n, w>>)  BY <1>6, CallDue
<1>8. Trusts(t, <<n, w>>, w)  BY <1>2, IdleTrusts
<1>9. PICK x : x = <<n, w>>  OBVIOUS
<1>10. w \in Callers => Has(t, Activation(w)) /\ ~Has(t, CoreStaged)
  <2>1. ASSUME w \in Callers PROVE Has(t, Activation(w)) /\ ~Has(t, CoreStaged)
    <3>1. x \in Lowering(w)  BY <1>5, <1>9, <2>1 DEF Lowering
    <3>2. Has(t, Activation(w)) /\ ~Has(s, CoreStaged)  BY <1>7, <1>9, <2>1, <3>1, LoweringDue
    <3> QED  BY <1>7, <3>2 DEF Due
  <2> QED  BY <2>1
<1>11. Puts(x, t, u)
  <2>1. "fence" \notin N /\ N \cap {"stage", "readStaged", "activate", "readActive"} = {}
        /\ "completeRetirement" \notin N
    BY DEF ProofNames
  <2> QED  BY <1>10, <2>1, PutsWithin
<1>12. run'.todo = u \o t  BY <1>4, <1>7 DEF Due
<1>13. F \cap {"src", "mode", "outcome"} = {} /\ "own" \notin F /\ "pending" \notin F  BY <1>3
<1> QED  BY <1>4, <1>6, <1>7, <1>8, <1>9, <1>11, <1>12, <1>13, CallOn

LEMMA HandoffCohort ==
  ASSUME CourseInv, CohortInv, NEW w \in Workers, ActivationHandoff(w)
  PROVE  CohortInv'
<1>1. Todo("handoff", w)  BY DEF ActivationHandoff
<1>2. PICK none : none = {}  OBVIOUS
<1>3. PICK z : z = <<<<"authorize", w>>>>  OBVIOUS
<1>4. CASE RetiredHand(run, w)
  <2>1. PICK u : u = Fence \o <<<<"readRetired", w>>, <<"authorize", w>>>>  OBVIOUS
  <2>2. PICK r : r = Before(Advance(run), u)  OBVIOUS
  <2>3. Answered(r, none)
    BY <1>2, <1>4, <2>1, <2>2 DEF ActivationHandoff, Answer, Check, Answered
  <2>4. PICK N : N = ProofNames  OBVIOUS
  <2>5. Within(u, N, w)
    <3>1. PICK y : y = <<<<"readRetired", w>>>>  OBVIOUS
    <3>2. Within(y, N, w) /\ Within(z, N, w) /\ Within(Fence, N, w)
      BY <1>3, <2>4, <3>1, NamesDeliver, WithinOne, WithinFence DEF ProofNames
    <3>3. y \o z = <<<<"readRetired", w>>, <<"authorize", w>>>>  BY <1>3, <3>1, Joined
    <3>4. Within(y \o z, N, w)  BY <3>2, WithinCat
    <3> QED  BY <2>1, <3>2, <3>3, <3>4, WithinCat
  <2>6. w \in Callers  BY <1>4 DEF RetiredHand, HandedOff
  <2> QED  BY <1>1, <1>2, <2>2, <2>3, <2>4, <2>5, <2>6, ProofCallCohort
<1>5. CASE ~RetiredHand(run, w)
  <2>1. PICK u : u = <<<<"readObserved", w>>, <<"authorize", w>>>>  OBVIOUS
  <2>2. PICK r : r = Before(Advance(run), u)  OBVIOUS
  <2>3. Answered(r, none)
    BY <1>2, <1>5, <2>1, <2>2 DEF ActivationHandoff, Answer, Check, Answered
  <2>4. PICK N : N = {"readObserved", "authorize"}  OBVIOUS
  <2>5. N \subseteq ProofNames /\ "readRetired" \notin N /\ N \subseteq DeliverNames
    BY <2>4, NamesDeliver DEF ProofNames
  <2>6. Within(u, N, w)
    <3>1. PICK y : y = <<<<"readObserved", w>>>>  OBVIOUS
    <3>2. Within(y, N, w) /\ Within(z, N, w)
      BY <1>3, <2>4, <2>5, <3>1, WithinOne
    <3>3. y \o z = u  BY <1>3, <2>1, <3>1, Joined
    <3> QED  BY <3>2, <3>3, WithinCat
  <2> QED  BY <1>1, <1>2, <2>2, <2>3, <2>5, <2>6, ProofCallCohort
<1> QED  BY <1>4, <1>5

(* A caller that was retired is read again until it is active. *)
LEMMA RetirementPends ==
  ASSUME NEW c \in Callers, NEW s, NEW t, Due(s, t, <<"completeRetirement", c>>), NEW p \in Seq(Callers),
         Pending(s, p), NEW q, q = Append(p, c)
  PROVE  Pending(t, q)
<1>1. PICK x : x = <<"completeRetirement", c>>  OBVIOUS
<1>2. c \in Workers /\ "completeRetirement" \in LowNames  BY OtherCallers DEF LowNames
<1>3. x \in Lowering(c)  BY <1>1, <1>2 DEF Lowering
<1>4. Has(t, Activation(c)) /\ ~Has(s, CoreStaged)  BY <1>1, <1>3, LoweringDue
<1>5. \A y : Has(s, y) <=> y = x \/ Has(t, y)  BY <1>1 DEF Due
<1>6. Has(t, <<"readActive", c>>)
  <2>1. Followed(t, {Activation(c)}, <<"readActive", c>>)  BY DEF Due, Follows
  <2>2. Some(t, {Activation(c)})  BY <1>4 DEF Has, Some
  <2> QED  BY <2>1, <2>2, FollowedHas
<1>7. ~Has(t, <<"readStaged", c>>) /\ ~Has(t, x)
  <2>1. x[1] \notin Free /\ x[1] \notin Repeating
    BY <1>1, <1>2, NamesHere DEF Repeating
  <2>2. PICK y : y = <<"readStaged", c>>  OBVIOUS
  <2>3. y \in DeliverStep /\ y[1] \notin Free  BY <1>2, <2>2, CallSteps, NamesHere
  <2>4. PICK T \in {0, 20, 40} : T = StageTurn[c]  BY <1>2, Ranks
  <2>5. Rank(<<"completeRetirement", c>>) = 14 + T  BY <1>2, <2>4, Ranks
  <2>6. Rank(<<"readStaged", c>>) = 3 + T  BY <1>2, <2>4, Ranks
  <2>7. Rank(y) < Rank(x)  BY <1>1, <2>2, <2>5, <2>6
  <2>8. ~Has(t, y)  BY <1>1, <2>1, <2>3, <2>7, Passed
  <2>9. x \in DeliverStep  BY <1>1 DEF Due
  <2>10. ~Has(t, x)  BY <1>1, <2>1, <2>9, Passed
  <2> QED  BY <2>2, <2>8, <2>10
<1>8. /\ Len(q) = Len(p) + 1 /\ Len(p) \in Nat /\ q[Len(p) + 1] = c
      /\ \A i \in 1..Len(p) : q[i] = p[i]
  OBVIOUS
<1>9. \A i \in 1..Len(q) : i \in 1..Len(p) \/ i = Len(p) + 1  BY <1>8
<1>10. ASSUME NEW i \in 1..Len(p)
       PROVE  /\ Has(t, <<"readActive", p[i]>>) /\ ~Has(t, <<"readStaged", p[i]>>)
              /\ ~Has(t, <<"completeRetirement", p[i]>>) /\ p[i] # c
  <2>1. /\ Has(s, <<"readActive", p[i]>>) /\ ~Has(s, <<"readStaged", p[i]>>)
        /\ ~Has(s, <<"completeRetirement", p[i]>>)
    BY DEF Pending
  <2>2. <<"readActive", p[i]>> # x  BY <1>1
  <2>3. p[i] # c  BY <1>1, <1>5, <2>1
  <2> QED  BY <1>5, <2>1, <2>2, <2>3
<1>11. \A i \in 1..Len(q) :
         /\ Has(t, <<"readActive", q[i]>>) /\ ~Has(t, <<"readStaged", q[i]>>)
         /\ ~Has(t, <<"completeRetirement", q[i]>>)
  BY <1>1, <1>6, <1>7, <1>8, <1>9, <1>10
<1>12. ASSUME NEW i \in 1..Len(q), NEW j \in 1..Len(q), q[i] = q[j] PROVE i = j
  <2>1. \A k, l \in 1..Len(p) : p[k] = p[l] => k = l  BY DEF Pending
  <2>2. CASE i \in 1..Len(p) /\ j \in 1..Len(p)  BY <1>8, <1>12, <2>1, <2>2
  <2>3. CASE i \notin 1..Len(p)  BY <1>8, <1>9, <1>10, <1>12, <2>3
  <2>4. CASE j \notin 1..Len(p)  BY <1>8, <1>9, <1>10, <1>12, <2>4
  <2> QED  BY <2>2, <2>3, <2>4
<1>13. ~Has(t, CoreStaged)  BY <1>4, <1>5
<1> QED  BY <1>11, <1>12, <1>13 DEF Pending

LEMMA CompletionCohort ==
  ASSUME CourseInv, CohortInv, NEW c \in Callers, CompleteRetirement(c)
  PROVE  CohortInv'
<1>1. Shape(run) /\ c \in Workers  BY OtherCallers DEF CourseInv, Types
<1>2. PICK p \in Seq(Callers) : p = run.pending  BY DEF CourseInv, Types
<1>3. PICK own : own = {c}  OBVIOUS
<1>4. CASE Failed  BY <1>4, FailsUntouched
<1>5. CASE ~Failed
  <2>1. PICK r : r = [HandOff(LearnCohort(Advance(run), {}), c, "retired") EXCEPT
                        !.pending = Append(@, c), !.snapshot = None]
    OBVIOUS
  <2>2. Todo("completeRetirement", c) /\ Answered(r, own) /\ live[c] = run.own[c]
    BY <1>3, <1>5, <2>1
       DEF CompleteRetirement, Check, Failed, Answered, RetiredUnchanged, OwnUnchanged, Snapshot
  <2>3. PICK F : F = {"todo", "cohort", "transition", "hand", "api", "pending", "snapshot"}  OBVIOUS
  <2>4. Keeps(run, r, F) /\ r.todo = Tail(run.todo) /\ r.pending = Append(p, c)
    BY <1>1, <1>2, <2>1, <2>3, RunHandsOff
  <2>5. run' = r /\ live' = live /\ strange' = strange \ {c}  BY <1>3, <2>2 DEF Answered
  <2>6. F \cap {"src", "mode", "outcome"} = {} /\ "own" \notin F /\ "pending" \in F  BY <2>3
  <2>7. PICK n \in {"completeRetirement"} : TRUE  OBVIOUS
  <2>8. n \in LowNames /\ n \in DeliverNames \ {"fence"}  BY <2>7, NamesHere DEF LowNames
  <2>9. Under("deliver")  BY <2>2, <2>7, <2>8, CallOfDelivery
  <2>10. PICK s, t : Due(s, t, <<n, c>>)  BY <2>2, <2>7, <2>9, CallDue
  <2>11. PICK x : x = <<n, c>>  OBVIOUS
  <2>12. x \in Lowering(c)  BY <2>8, <2>11 DEF Lowering
  <2>13. ~ActiveNote(live[c])  BY <2>2, <2>9, ProvenBare
  <2>14. Trusts(t, x, c)  BY <2>5, <2>10, <2>11, <2>12, <2>13, AcceptTrusts
  <2>15. Pending(s, p)  BY <1>2, <2>10 DEF Due, CohortCourse
  <2>16. Pending(t, run'.pending)  BY <2>4, <2>5, <2>7, <2>10, <2>15, RetirementPends
  <2>17. PICK u : u = <<>>  OBVIOUS
  <2>18. Puts(x, t, u)  BY <2>17, PutsNone
  <2>19. t \in Seq(DeliverStep) /\ t = Tail(run.todo)  BY <2>10 DEF Due
  <2>20. u \o t = t  BY <2>17, <2>19
  <2>21. run'.todo = u \o t  BY <2>4, <2>5, <2>19, <2>20
  <2>22. Todo(n, c) /\ Keeps(run, run', F)  BY <2>2, <2>4, <2>5, <2>7
  <2>23. Pending(u \o t, run'.pending)  BY <2>16, <2>20
  <2> QED  BY <1>1, <2>6, <2>9, <2>10, <2>11, <2>14, <2>18, <2>21, <2>22, <2>23, CallOn
<1> QED  BY <1>4, <1>5

(* The readback of a Worker that is disabled and annotated as staged *)
LEMMA StagedTrusts ==
  ASSUME CourseInv, NEW n, NEW w \in Workers, NEW s, NEW t, Due(s, t, <<n, w>>),
         n # "activate", w \in Callers => <<n, w>> \in Lowering(w),
         live' = live, strange' = strange \ {w}, live[w].note = Note(run.src, "staged"),
         live[w].circuit = "disabled"
  PROVE  Trusts(t, <<n, w>>, w)
<1>1. ~ActiveNote(live[w])  BY BareNote
<1>2. CASE w \in Callers  BY <1>1, <1>2, AcceptTrusts
<1>3. CASE w \notin Callers
  <2>1. w = "core"  BY <1>3 DEF Workers, Callers
  <2>2. PICK x : x = <<n, w>>  OBVIOUS
  <2>3. Others(w)  BY DEF Others
  <2>4. live[w].code = run.src
    <3>1. live[w] \in Version  BY DEF CourseInv, Types
    <3>2. Note(run.src, "staged") \in [source : Sources, phase : {"staged", "active"}]
      BY DEF CourseInv, Types, Note
    <3>3. live[w].note # None  BY <3>2, NoneAssumption
    <3>4. live[w].note.source = live[w].code  BY <3>3 DEF CourseInv, Annotated
    <3> QED  BY <3>4 DEF Note
  <2>5. CoreLowered(t)  BY <1>1, <2>1, <2>4 DEF CoreLowered
  <2>6. x[1] # "activate"  BY <2>2
  <2> QED  BY <2>1, <2>2, <2>3, <2>5, <2>6 DEF Trusts
<1> QED  BY <1>2, <1>3

LEMMA VerifyCohort ==
  ASSUME CourseInv, HandoverInv, CohortInv, NEW w \in Workers, VerifyStaged(w)
  PROVE  CohortInv'
<1>1. Shape(run)  BY DEF CourseInv, Types
<1>2. PICK n \in {"verifyStaged"} : TRUE  OBVIOUS
<1>3. Todo(n, w)  BY <1>2 DEF VerifyStaged
<1>4. n \in LowNames /\ n \in DeliverNames \ {"fence"}  BY <1>2, NamesHere DEF LowNames
<1>5. Under("deliver")  BY <1>3, <1>4, CallOfDelivery
<1>6. CASE RetiredHand(run, w)
  <2>1. PICK u : u = Fence \o <<<<"readRetired", w>>>>  OBVIOUS
  <2>2. PICK r : r = Before(Advance(run), u)  OBVIOUS
  <2>3. PICK none : none = {}  OBVIOUS
  <2>4. Answered(r, none)
    BY <1>6, <2>1, <2>2, <2>3 DEF VerifyStaged, Answer, Check, Answered
  <2>5. PICK N : N = ProofNames  OBVIOUS
  <2>6. Within(u, N, w)
    <3>1. Within(<<<<"readRetired", w>>>>, N, w) /\ Within(Fence, N, w)
      BY <2>5, NamesDeliver, WithinOne, WithinFence DEF ProofNames
    <3> QED  BY <2>1, <3>1, WithinCat
  <2>7. w \in Callers  BY <1>6 DEF RetiredHand, HandedOff
  <2> QED  BY <1>2, <1>3, <2>2, <2>3, <2>4, <2>5, <2>6, <2>7, ProofCallCohort
<1>7. CASE ~RetiredHand(run, w) /\ Failed  BY <1>7, FailsUntouched
<1>8. CASE ~RetiredHand(run, w) /\ ~Failed
  <2>1. PICK r : r = Advance(run)  OBVIOUS
  <2>2. PICK acc : acc = {w}  OBVIOUS
  <2>3. Answered(r, acc) /\ ReadsStaged(run, w, live[w])
    BY <1>8, <2>1, <2>2 DEF VerifyStaged, Check, Failed, Answered
  <2>4. PICK F : F = {"todo"}  OBVIOUS
  <2>5. Keeps(run, r, F) /\ r.todo = Tail(run.todo)  BY <1>1, <2>1, <2>4, RunAdvance
  <2>6. run' = r /\ live' = live /\ strange' = strange \ {w}  BY <2>2, <2>3 DEF Answered
  <2>7. PICK s, t : Due(s, t, <<n, w>>)  BY <1>3, <1>5, CallDue
  <2>8. w \in Callers => <<n, w>> \in Lowering(w)  BY <1>4 DEF Lowering
  <2>9. n # "activate" /\ n # "readActive"  BY <1>2
  <2>10. live[w].note = Note(run.src, "staged") /\ live[w].circuit = "disabled"
    BY <2>3 DEF ReadsStaged, HasConfiguration
  <2>11. Trusts(t, <<n, w>>, w)  BY <2>6, <2>7, <2>8, <2>9, <2>10, StagedTrusts
  <2>12. F \cap {"src", "mode", "outcome", "pending"} = {} /\ "own" \notin F  BY <2>4
  <2> QED  BY <1>3, <1>5, <2>5, <2>6, <2>7, <2>9, <2>11, <2>12, PlainOn
<1> QED  BY <1>6, <1>7, <1>8

LEMMA PutsReread ==
  ASSUME NEW x, NEW t, NEW p \in Seq(Callers),
         p # <<>> => Has(t, Activation(Head(p))) /\ ~Has(t, CoreStaged)
  PROVE  Puts(x, t, Reread(p))
<1>1. CASE p = <<>>  BY <1>1, PutsNone DEF Reread
<1>2. CASE p # <<>>
  <2>1. PICK h \in Callers : h = Head(p)  BY <1>2
  <2>2. h \in Workers  BY OtherCallers
  <2>3. PICK N : N = {"readRetired"}  OBVIOUS
  <2>4. N \subseteq DeliverNames  BY <2>3, NamesHere DEF LowNames
  <2>5. Within(<<<<"readRetired", h>>>>, N, h) /\ Within(Fence, N, h)
    BY <2>2, <2>3, <2>4, WithinOne, WithinFence
  <2>6. PICK u : u = Fence \o <<<<"readRetired", h>>>>  OBVIOUS
  <2>7. Within(u, N, h)  BY <2>5, <2>6, WithinCat
  <2>8. /\ "fence" \notin N /\ N \cap {"stage", "readStaged", "activate", "readActive"} = {}
        /\ "completeRetirement" \notin N
    BY <2>3
  <2>9. Has(t, Activation(h)) /\ ~Has(t, CoreStaged)  BY <1>2, <2>1
  <2>10. Puts(x, t, u)  BY <2>2, <2>7, <2>8, <2>9, PutsWithin
  <2> QED  BY <1>2, <2>1, <2>6, <2>10 DEF Reread
<1> QED  BY <1>1, <1>2

LEMMA PutsHanding ==
  ASSUME NEW w \in Workers, NEW s, NEW t, NEW x, x = <<"readStaged", w>>, Due(s, t, x)
  PROVE  Puts(x, t, Handing(w))
<1>1. w \in Callers => Has(t, Activation(w))
  <2>1. ASSUME w \in Callers PROVE Has(t, Activation(w))
    <3>1. x \in Lowering(w)  BY <2>1 DEF Lowering
    <3> QED  BY <2>1, <3>1, LoweringDue
  <2> QED  BY <2>1
<1>2. CASE RetirePair(run, w)
  <2>1. PICK u : u = <<<<"beginRetirement", w>>>> \o RetireSteps(w)  OBVIOUS
  <2>2. PICK N : N = RetireNames  OBVIOUS
  <2>3. Within(u, N, w)  BY <2>1, <2>2, RetireWithin
  <2>4. /\ "fence" \notin N /\ N \cap {"stage", "readStaged", "activate", "readActive"} = {}
        /\ "readRetired" \notin N
    BY <2>2 DEF RetireNames
  <2>5. Puts(x, t, u)  BY <1>1, <2>3, <2>4, PutsWithin
  <2> QED  BY <1>2, <2>1, <2>5 DEF Handing
<1>3. CASE ~RetirePair(run, w) /\ ObserveSecretFree(run, w)
  <2>1. PICK u : u = ObserveSteps(w)  OBVIOUS
  <2>2. PICK N : N = ObserveNames  OBVIOUS
  <2>3. Within(u, N, w)  BY <2>1, <2>2, ObserveWithin
  <2>4. /\ "fence" \notin N /\ N \cap {"stage", "readStaged", "activate", "readActive"} = {}
        /\ "readRetired" \notin N
    BY <2>2 DEF ObserveNames
  <2>5. Puts(x, t, u)  BY <1>1, <2>3, <2>4, PutsWithin
  <2> QED  BY <1>3, <2>1, <2>5 DEF Handing
<1>4. CASE ~RetirePair(run, w) /\ ~ObserveSecretFree(run, w)  BY <1>4, PutsNone DEF Handing
<1> QED  BY <1>2, <1>3, <1>4

LEMMA ReadStagedCohort ==
  ASSUME CourseInv, CohortInv, NEW w \in Workers, ReadStaged(w)
  PROVE  CohortInv'
<1>1. Shape(run) /\ run.todo \in Seq(Step)  BY DEF CourseInv, Types
<1>2. PICK p \in Seq(Callers) : p = run.pending  BY DEF CourseInv, Types
<1>3. CASE Failed  BY <1>3, FailsUntouched
<1>4. CASE ~Failed
  <2>1. PICK r : r = RecordUpload(BeginHandoff(Advance(run), w), w, "staged")  OBVIOUS
  <2>2. PICK acc : acc = {w}  OBVIOUS
  <2>3. PICK n \in {"readStaged"} : TRUE  OBVIOUS
  <2>4. /\ Todo(n, w) /\ Answered(r, acc) /\ live[w].circuit = "disabled"
        /\ live[w].note = Note(run.src, "staged")
    BY <1>4, <2>1, <2>2, <2>3
       DEF ReadStaged, Check, Failed, Answered, ReadsUploaded, HasConfiguration
  <2>5. run.todo # <<>>  BY <2>4 DEF Todo
  <2>6. PICK F : F = {"todo", "uploaded", "transition"}  OBVIOUS
  <2>7. PICK a : a = Reread(p)  OBVIOUS
  <2>8. PICK h : h = Handing(w)  OBVIOUS
  <2>9. PICK u : u = a \o h  OBVIOUS
  <2>10. Keeps(run, r, F) /\ r.todo = u \o Tail(run.todo)
    BY <1>1, <1>2, <2>1, <2>5, <2>6, <2>7, <2>8, <2>9, RunReadsBack
  <2>11. F \cap {"src", "mode", "outcome"} = {} /\ "own" \notin F /\ "pending" \notin F  BY <2>6
  <2>12. n \in DeliverNames \ {"fence"} /\ n # "readActive" /\ n # "activate"  BY <2>3, NamesHere
  <2>13. Under("deliver")  BY <2>4, <2>12, CallOfDelivery
  <2>14. PICK s, t : Due(s, t, <<n, w>>)  BY <2>4, <2>13, CallDue
  <2>15. PICK x : x = <<n, w>> /\ x = <<"readStaged", w>>  BY <2>3
  <2>16. run' = r /\ live' = live /\ strange' = strange \ {w}  BY <2>2, <2>4 DEF Answered
  <2>17. ASSUME w \in Callers, NEW c \in Callers PROVE x \in Lowering(c)
    BY <2>15, <2>17 DEF Lowering
  <2>18. Trusts(t, x, w)  BY <2>4, <2>12, <2>14, <2>15, <2>16, <2>17, StagedTrusts
  <2>19. Puts(x, t, a)
    <3>1. ASSUME p # <<>> PROVE Has(t, Activation(Head(p))) /\ ~Has(t, CoreStaged)
      <4>1. PICK c \in Callers : c = Head(p)  BY <3>1
      <4>2. w \in Callers
        <5>1. w = "core" => x = CoreStaged  BY <2>15 DEF CoreStaged
        <5>2. Has(s, x) /\ Pending(s, p)  BY <1>2, <2>14, <2>15 DEF Due, CohortCourse
        <5>3. w # "core"  BY <3>1, <5>1, <5>2 DEF Pending
        <5> QED  BY <5>3 DEF Workers, Callers
      <4>3. x \in Lowering(c)  BY <2>17, <4>2
      <4>4. Has(t, Activation(c)) /\ ~Has(s, CoreStaged)  BY <2>14, <2>15, <4>3, LoweringDue
      <4> QED  BY <2>14, <4>1, <4>4 DEF Due
    <3> QED  BY <2>7, <3>1, PutsReread
  <2>20. Puts(x, t, h)  BY <2>8, <2>14, <2>15, PutsHanding
  <2>21. Puts(x, t, u)  BY <2>9, <2>19, <2>20, PutsCat
  <2>22. run'.todo = u \o t  BY <2>10, <2>14, <2>16 DEF Due
  <2>23. Keeps(run, run', F)  BY <2>10, <2>16
  <2> QED
    BY <2>4, <2>11, <2>12, <2>13, <2>14, <2>15, <2>18, <2>21, <2>22, <2>23, CallOn, ZenonT(60)
<1> QED  BY <1>3, <1>4

(* When a caller is activated the core is off, or has its code already. *)
LEMMA CoreWillDo ==
  ASSUME NEW n \in {"activate", "readActive", "final"}, NEW w \in Callers, NEW s, NEW t, Due(s, t, <<n, w>>)
  PROVE  CoreIsOff \/ live["core"].code = run.src
<1>1. "core" \in Workers /\ "core" \notin Callers /\ w \in Workers  BY DEF Workers, Callers
<1>2. ~Has(s, CoreStaged)  BY <1>1, CoreReadBack
<1>3. CoreIsOff \/ Settled("core")
  BY <1>1, <1>2 DEF Due, CohortCourse, CoreWaits, AllSettled
<1> QED  BY <1>3 DEF CoreIsOff, Settled

(* When the core is activated its callers are what the run wants. *)
LEMMA AllActive ==
  ASSUME NEW n, NEW w \in Workers, NEW s, NEW t, Due(s, t, <<n, w>>), n \in {"activate", "readActive", "final"},
         w = "core"
  PROVE  ~Has(t, Activation("core")) /\ \A c \in Callers : Settled(c)
<1>1. \A v \in Workers : ~Has(t, Activation(v))  BY ActivationsOver
<1>2. ASSUME NEW c \in Callers PROVE Settled(c)
  <2>1. c \in Workers /\ c # w  BY OtherCallers
  <2>2. Activation(c) # <<n, w>>  BY <2>1 DEF Activation
  <2>3. ~Has(s, Activation(c))  BY <1>1, <2>1, <2>2 DEF Due
  <2> QED  BY <2>1, <2>3 DEF Due, CohortCourse, AllSettled
<1> QED  BY <1>1, <1>2

(* The readback of a Worker that is enabled and annotated as active *)
LEMMA ActiveTrusts ==
  ASSUME CourseInv, NEW n \in {"readActive", "final"}, NEW w \in Workers, NEW s, NEW t, Due(s, t, <<n, w>>),
         live' = live, strange' = strange \ {w}, ReadsActive(run, live[w])
  PROVE  Trusts(t, <<n, w>>, w)
<1>1. Good(w)  BY ReadGood DEF CourseInv
<1>2. Others(w)  BY DEF Others
<1>3. PICK x : x = <<n, w>>  OBVIOUS
<1>4. x[1] # "activate" /\ x # CoreStaged  BY <1>3 DEF CoreStaged
<1>7. CASE w \in Callers
  <2>1. CoreIsOff \/ live["core"].code = run.src  BY <1>7, CoreWillDo
  <2>2. Raised(w)  BY <1>1, <2>1 DEF Good, Raised
  <2> QED  BY <1>2, <1>3, <1>4, <1>7, <2>2 DEF Trusts
<1>8. CASE w \notin Callers
  <2>1. w = "core"  BY <1>8 DEF Workers, Callers
  <2>2. ~Has(t, Activation("core")) /\ \A c \in Callers : Settled(c)
    BY <2>1, AllActive
  <2>3. CoreRaised(t)  BY <1>1, <2>1, <2>2 DEF Good, CoreRaised
  <2> QED  BY <1>2, <1>3, <1>4, <2>1, <2>3 DEF Trusts
<1> QED  BY <1>7, <1>8

LEMMA FinalCohort ==
  ASSUME CourseInv, CohortInv, NEW w \in Workers, VerifyFinal(w)
  PROVE  CohortInv'
<1>1. Shape(run)  BY DEF CourseInv, Types
<1>2. CASE Failed  BY <1>2, FailsUntouched
<1>3. CASE ~Failed
  <2>1. PICK r : r = Advance(run)  OBVIOUS
  <2>2. PICK acc : acc = {w}  OBVIOUS
  <2>3. PICK n \in {"final"} : TRUE  OBVIOUS
  <2>4. Todo(n, w) /\ Answered(r, acc) /\ ReadsActive(run, live[w])
    BY <1>3, <2>1, <2>2, <2>3 DEF VerifyFinal, Check, Failed, Answered
  <2>5. PICK F : F = {"todo"}  OBVIOUS
  <2>6. Keeps(run, r, F) /\ r.todo = Tail(run.todo)  BY <1>1, <2>1, <2>5, RunAdvance
  <2>7. run' = r /\ live' = live /\ strange' = strange \ {w}  BY <2>2, <2>4 DEF Answered
  <2>8. n \in DeliverNames \ {"fence"} /\ n # "readActive"  BY <2>3, NamesHere
  <2>9. Under("deliver")  BY <2>4, <2>8, CallOfDelivery
  <2>10. PICK s, t : Due(s, t, <<n, w>>)  BY <2>4, <2>9, CallDue
  <2>11. Trusts(t, <<n, w>>, w)  BY <2>3, <2>4, <2>7, <2>10, ActiveTrusts
  <2>12. F \cap {"src", "mode", "outcome", "pending"} = {} /\ "own" \notin F  BY <2>5
  <2> QED  BY <2>4, <2>6, <2>7, <2>8, <2>9, <2>10, <2>11, <2>12, PlainOn
<1> QED  BY <1>2, <1>3

(* A caller that is still to be read back as active, is so behind w. *)
LEMMA PendingAhead ==
  ASSUME NEW w \in Workers, NEW s, NEW t, Due(s, t, <<"readActive", w>>), NEW h \in Callers, h # w,
         Has(s, <<"readActive", h>>)
  PROVE  Has(t, Activation(h))
<1>1. PICK x : x = <<"readActive", w>>  OBVIOUS
<1>2. PICK y : y = <<"readActive", h>>  OBVIOUS
<1>3. x # y  BY <1>1, <1>2
<1>4. Has(t, y)  BY <1>1, <1>2, <1>3 DEF Due
<1>5. h \in Workers /\ y \in DeliverStep /\ y[1] \notin Free /\ x[1] \notin Free
  BY <1>1, <1>2, OtherCallers, CallSteps, NamesHere
<1>6. ActiveTurn["publisher"] = 0 /\ ActiveTurn["rendezvous"] = 20 /\ ActiveTurn["core"] = 40  BY Ranks
<1>7. Rank(<<"readActive", w>>) = 64 + ActiveTurn[w]  BY Ranks
<1>8. Rank(<<"readActive", h>>) = 64 + ActiveTurn[h]  BY <1>5, Ranks
<1>9. ~(Rank(y) < Rank(x))  BY <1>1, <1>4, <1>5, Passed
<1>10. w = "publisher" /\ h = "rendezvous"
  <2>1. ~(64 + ActiveTurn[h] < 64 + ActiveTurn[w])  BY <1>1, <1>2, <1>7, <1>8, <1>9
  <2> QED  BY <1>6, <2>1 DEF Workers, Callers
<1>11. Followed(s, {<<"readActive", "publisher">>}, Activation("rendezvous"))
  BY DEF Due, CohortCourse, Follows
<1>12. s \in Seq(DeliverStep) /\ s # <<>> /\ Head(s) = x /\ t = Tail(s)  BY <1>1 DEF Due
<1> QED  BY <1>1, <1>10, <1>11, <1>12, FollowedTail

LEMMA ReadActiveCohort ==
  ASSUME CourseInv, CohortInv, NEW w \in Workers, ReadActive(w)
  PROVE  CohortInv'
<1>1. Shape(run) /\ run.todo \in Seq(Step)  BY DEF CourseInv, Types
<1>2. PICK p \in Seq(Callers) : p = run.pending  BY DEF CourseInv, Types
<1>3. CASE Failed  BY <1>3, FailsUntouched
<1>4. CASE ~Failed
  <2>1. PICK a : a = [Advance(run) EXCEPT !.pending = Without(@, w)]  OBVIOUS
  <2>2. PICK r : r = RecordUpload(a, w, "active")  OBVIOUS
  <2>3. PICK acc : acc = {w}  OBVIOUS
  <2>4. PICK n \in {"readActive"} : TRUE  OBVIOUS
  <2>5. Todo(n, w) /\ Answered(r, acc) /\ ReadsActive(run, live[w])
    <3>1. PICK b \in {[Advance(run) EXCEPT !.pending = Without(@, w)]} :
            Check(ReadsActive(run, live[w]) /\ MayRecord(b, w), RecordUpload(b, w, "active"), {w})
      BY DEF ReadActive
    <3>2. b = a  BY <2>1, <3>1
    <3> QED  BY <1>4, <2>2, <2>3, <2>4, <3>1, <3>2 DEF ReadActive, Check, Failed, Answered
  <2>6. run.todo # <<>>  BY <2>5 DEF Todo
  <2>7. PICK F : F = {"todo", "pending", "transition"}  OBVIOUS
  <2>8. PICK q \in Seq(Callers) : q = Without(p, w)  BY WithoutIn
  <2>9. PICK u : u = Reread(q)  OBVIOUS
  <2>10. Keeps(run, r, F) /\ r.pending = q /\ r.todo = u \o Tail(run.todo)
    BY <1>1, <1>2, <2>1, <2>2, <2>6, <2>7, <2>8, <2>9, RunReadsBack
  <2>11. F \cap {"src", "mode", "outcome"} = {} /\ "own" \notin F /\ "pending" \in F  BY <2>7
  <2>12. n \in DeliverNames \ {"fence"}  BY <2>4, NamesHere
  <2>13. Under("deliver")  BY <2>5, <2>12, CallOfDelivery
  <2>14. PICK s, t : Due(s, t, <<n, w>>)  BY <2>5, <2>13, CallDue
  <2>15. PICK x : x = <<n, w>> /\ x = <<"readActive", w>>  BY <2>4
  <2>16. run' = r /\ live' = live /\ strange' = strange \ {w}  BY <2>3, <2>5 DEF Answered
  <2>17. Trusts(t, x, w)  BY <2>4, <2>5, <2>14, <2>15, <2>16, ActiveTrusts
  <2>18. Pending(s, p)  BY <1>2, <2>14 DEF Due, CohortCourse
  <2>19. \A i, j \in 1..Len(p) : p[i] = p[j] => i = j  BY <2>18 DEF Pending
  <2>20. /\ p = <<>> => q = <<>>
         /\ \A i \in 1..Len(q) : q[i] # w /\ \E j \in 1..Len(p) : q[i] = p[j]
         /\ \A i, j \in 1..Len(q) : q[i] = q[j] => i = j
    BY <2>8, <2>19, WithoutOne
  <2>21. Puts(x, t, u)
    <3>1. ASSUME q # <<>> PROVE Has(t, Activation(Head(q))) /\ ~Has(t, CoreStaged)
      <4>1. PICK h \in Callers : h = Head(q) /\ h = q[1] /\ 1 \in 1..Len(q)  BY <3>1, TailIndex
      <4>2. h # w /\ Has(s, <<"readActive", h>>)  BY <2>18, <2>20, <4>1, ZenonT(60) DEF Pending
      <4>3. Has(t, Activation(h))  BY <2>14, <2>15, <4>2, PendingAhead
      <4>4. ~Has(s, CoreStaged)  BY <2>4, <2>14, CoreReadBack
      <4> QED  BY <2>14, <4>1, <4>3, <4>4 DEF Due
    <3> QED  BY <2>9, <3>1, PutsReread
  <2>22. \A i \in 1..Len(q) : <<"readActive", q[i]>> # x /\ \E j \in 1..Len(p) : q[i] = p[j]
    BY <2>15, <2>20
  <2>23. Pending(u \o t, q)
    <3>1. Due(s, t, x)  BY <2>14, <2>15
    <3>2. p = <<>> => q = <<>>  BY <2>20
    <3>3. \A i, j \in 1..Len(q) : q[i] = q[j] => i = j  BY <2>20
    <3> QED  BY <2>18, <2>21, <2>22, <3>1, <3>2, <3>3, PendingStay
  <2>24. run'.todo = u \o t /\ run'.pending = q  BY <2>10, <2>14, <2>16 DEF Due
  <2>25. Keeps(run, run', F)  BY <2>10, <2>16
  <2> QED
    BY <2>5, <2>11, <2>13, <2>14, <2>15, <2>17, <2>21, <2>23, <2>24, <2>25, CallOn, SMTT(40)
<1> QED  BY <1>3, <1>4

-----------------------------------------------------------------------------
(* Uploads and the PATCH *)

LEMMA UploadTrusts ==
  ASSUME CourseInv, NEW n \in {"stage", "activate"}, NEW w \in Workers, NEW s, NEW t, Due(s, t, <<n, w>>),
         NEW phase, phase = IF n = "stage" THEN "staged" ELSE "active",
         live' = [live EXCEPT ![w] = Uploaded(run.src, w, phase)], strange' = strange \ {w}
  PROVE  Trusts(t, <<n, w>>, w)
<1>1. phase \in {"staged", "active"}  OBVIOUS
<1>2. PICK v \in Version : /\ v = Uploaded(run.src, w, phase) /\ v.circuit = Circuit(phase)
                           /\ v.note = Note(run.src, phase) /\ v.note # None /\ v.note.source = v.code
  BY <1>1, UploadedIs DEF CourseInv
<1>3. v.code = run.src  BY <1>2 DEF Note
<1>4. live' = [live EXCEPT ![w] = v] /\ DOMAIN live = Workers  BY <1>2 DEF CourseInv, Types
<1>5. live'[w] = v /\ \A o \in Workers : o # w => live'[o] = live[o]  BY <1>4
<1>6. Others(w)  BY <1>5 DEF Others
<1>7. PICK x : x = <<n, w>>  OBVIOUS
<1>8. (x[1] = "activate" => x = Activation(w)) /\ x # CoreStaged  BY <1>7 DEF Activation, CoreStaged
<1>9. CASE n = "stage"
  <2>1. v.circuit = "disabled" /\ ~ActiveNote(v)
    <3>1. phase = "staged"  BY <1>9
    <3> QED  BY <1>2, <3>1, BareNote DEF Circuit
  <2>2. CASE w \in Callers
    <3>1. x \in Lowering(w)  BY <1>7, <1>9, <2>2 DEF Lowering
    <3>2. CoreIsOff /\ Has(t, Activation(w))  BY <1>7, <2>2, <3>1, LoweringDue
    <3>3. Lowered(t, w)  BY <1>5, <2>1, <3>2 DEF Lowered
    <3> QED  BY <1>6, <1>7, <1>8, <2>2, <3>3 DEF Trusts
  <2>3. CASE w \notin Callers
    <3>1. w = "core"  BY <2>3 DEF Workers, Callers
    <3>2. CoreLowered(t)  BY <1>3, <1>5, <2>1, <3>1 DEF CoreLowered
    <3> QED  BY <1>6, <1>7, <1>8, <3>1, <3>2 DEF Trusts
  <2> QED  BY <2>2, <2>3
<1>10. CASE n = "activate"
  <2>1. v.circuit = "enabled"  BY <1>2, <1>10 DEF Circuit
  <2>2. CASE w \in Callers
    <3>1. CoreIsOff \/ live["core"].code = run.src  BY <1>10, <2>2, CoreWillDo
    <3>2. Raised(w)  BY <1>3, <1>5, <2>1, <3>1 DEF Raised
    <3> QED  BY <1>6, <1>7, <1>8, <2>2, <3>2 DEF Trusts
  <2>3. CASE w \notin Callers
    <3>1. w = "core"  BY <2>3 DEF Workers, Callers
    <3>2. ~Has(t, Activation("core")) /\ \A c \in Callers : Settled(c)
      BY <1>10, <3>1, AllActive
    <3>3. CoreRaised(t)  BY <1>3, <1>5, <3>1, <3>2 DEF CoreRaised
    <3> QED  BY <1>6, <1>7, <1>8, <3>1, <3>3 DEF Trusts
  <2> QED  BY <2>2, <2>3
<1> QED  BY <1>9, <1>10

LEMMA UploadCohort ==
  ASSUME CourseInv, CohortInv, NEW n \in {"stage", "activate"}, NEW w \in Workers, Todo(n, w),
         NEW phase, phase = IF n = "stage" THEN "staged" ELSE "active", NEW strict,
         NEW q, Shape(q), NEW done, Keeps(run, done, {"todo", "message", "coreStaged", "phase"}),
         done.todo = Tail(run.todo), Upload(w, phase, strict, done, q)
  PROVE  CohortInv'
<1>1. n \in DeliverNames \ {"fence"} /\ n # "readActive"  BY NamesHere
<1>2. Under("deliver")  BY <1>1, CallOfDelivery
<1>3. PICK s, t : Due(s, t, <<n, w>>)  BY <1>2, CallDue
<1>4. CASE run' = Stop(q) /\ live' = live /\ strange' = strange  BY <1>4, StopUntouched
<1>5. CASE run' = Stop([q EXCEPT !.hit = @ \cup {w}])
           /\ live' = [live EXCEPT ![w] = Uploaded(run.src, w, phase)] /\ strange' = strange \ {w}
  <2>1. PICK r : r = [q EXCEPT !.hit = @ \cup {w}]  OBVIOUS
  <2>2. Shape(r)  BY <2>1 DEF Shape, RunFields
  <2>3. Trusts(t, <<n, w>>, w)  BY <1>3, <1>5, UploadTrusts
  <2> QED  BY <1>5, <2>1, <2>2, <2>3, StopTouched
<1>6. CASE run' = [done EXCEPT !.hit = @ \cup {w}]
           /\ live' = [live EXCEPT ![w] = Uploaded(run.src, w, phase)] /\ strange' = strange \ {w}
  <2>1. Trusts(t, <<n, w>>, w)  BY <1>3, <1>6, UploadTrusts
  <2>2. PICK F : F = {"todo", "message", "coreStaged", "phase", "hit"}  OBVIOUS
  <2>3. Keeps(run, run', F) /\ run'.todo = Tail(run.todo)
    BY <1>6, <2>2 DEF Keeps, Shape, RunFields
  <2>4. F \cap {"src", "mode", "outcome", "pending"} = {} /\ "own" \notin F  BY <2>2
  <2> QED  BY <1>1, <1>2, <1>3, <2>1, <2>3, <2>4, PlainOn
<1> QED  BY <1>4, <1>5, <1>6 DEF Upload

(* A recovery disables the core. *)
LEMMA RecoveryTrusts ==
  ASSUME CourseInv, live' = [live EXCEPT !["core"] = Uploaded(run.src, "core", "staged")],
         strange' = strange \ {"core"}, NEW t, NEW x, x = <<"recoverDeploy", "core">>
  PROVE  Trusts(t, x, "core")
<1>1. PICK w \in Workers : w = "core"  BY DEF Workers
<1>2. PICK v \in Version : /\ v = Uploaded(run.src, w, "staged") /\ v.circuit = Circuit("staged")
                           /\ v.note = Note(run.src, "staged") /\ v.note # None /\ v.note.source = v.code
  BY UploadedIs DEF CourseInv
<1>3. live' = [live EXCEPT ![w] = v] /\ DOMAIN live = Workers  BY <1>1, <1>2 DEF CourseInv, Types
<1>4. live'[w] = v /\ \A o \in Workers : o # w => live'[o] = live[o]  BY <1>3
<1>5. Others("core")  BY <1>1, <1>4 DEF Others
<1>6. v.circuit = "disabled" /\ ~ActiveNote(v) /\ v.code = run.src
  BY <1>2, BareNote DEF Circuit, Note
<1>7. CoreLowered(t)  BY <1>1, <1>4, <1>6 DEF CoreLowered
<1>8. x[1] # "activate" /\ x # CoreStaged  BY DEF CoreStaged
<1> QED  BY <1>5, <1>7, <1>8 DEF Trusts

LEMMA UploadsCohort ==
  ASSUME CourseInv, CohortInv, RecoverDeploy \/ \E w \in Workers : DeployStaged(w) \/ DeployActive(w)
  PROVE  CohortInv'
<1>1. Shape(run) /\ "core" \in Workers  BY DEF CourseInv, Types, Workers
<1>2. PICK a : a = Advance(run)  OBVIOUS
<1>3. Keeps(run, a, {"todo"}) /\ a.todo = Tail(run.todo) /\ Shape(a)
  BY <1>1, <1>2, RunAdvance DEF Keeps
<1>4. ASSUME NEW w \in Workers, DeployStaged(w) PROVE CohortInv'
  <2>1. Todo("stage", w)  BY <1>4 DEF DeployStaged
  <2>2. CASE run.boot /\ w = "core" /\ run.phase # "baseline"
    <3>1. run' = Stop(run) /\ live' = live /\ strange' = strange
      BY <1>4, <2>2 DEF DeployStaged, Answer, Check
    <3> QED  BY <1>1, <3>1, StopUntouched
  <2>3. CASE ~(run.boot /\ w = "core" /\ run.phase # "baseline")
    <3>1. PICK q : q = Staging(run, w)  OBVIOUS
    <3>2. PICK d : d = [Advance(q) EXCEPT !.message = @ \/ w = "core"]  OBVIOUS
    <3>3. PICK s : s = (w \notin run.api)  OBVIOUS
    <3>4. Upload(w, "staged", s, d, q)
      BY <1>4, <2>3, <3>1, <3>2, <3>3 DEF DeployStaged
    <3>5. Keeps(run, q, {"coreStaged", "phase"}) /\ q.todo = run.todo /\ Shape(q)
      <4>1. CASE w = "core"
        <5>1. PICK p : p = (IF run.boot THEN "uploading" ELSE run.phase)  OBVIOUS
        <5>2. q = [run EXCEPT !.coreStaged = TRUE, !.phase = p]
          BY <1>1, <3>1, <4>1, <5>1 DEF Staging, Shape, RunFields
        <5> QED  BY <1>1, <5>2 DEF Keeps, Shape, RunFields
      <4>2. CASE w # "core"  BY <1>1, <3>1, <4>2 DEF Staging, Keeps
      <4> QED  BY <4>1, <4>2
    <3>6. PICK b : b = Advance(q)  OBVIOUS
    <3>7. b = [q EXCEPT !.todo = Tail(@)]  BY <3>6 DEF Advance
    <3>8. Keeps(q, b, {"todo"}) /\ b.todo = Tail(run.todo) /\ Shape(b)
      BY <3>5, <3>7 DEF Keeps, Shape, RunFields
    <3>9. d = [b EXCEPT !.message = @ \/ w = "core"]  BY <3>2, <3>6
    <3>10. Keeps(b, d, {"message"}) /\ d.todo = b.todo
      BY <3>8, <3>9 DEF Keeps, Shape, RunFields
    <3>11. Keeps(run, d, {"todo", "message", "coreStaged", "phase"}) /\ d.todo = Tail(run.todo)
      BY <3>5, <3>8, <3>10 DEF Keeps
    <3>12. PICK n \in {"stage", "activate"} : n = "stage"  OBVIOUS
    <3>13. PICK phase : phase = (IF n = "stage" THEN "staged" ELSE "active")  OBVIOUS
    <3>14. Todo(n, w) /\ Upload(w, phase, s, d, q)  BY <2>1, <3>4, <3>12, <3>13
    <3> QED  BY <3>5, <3>11, <3>13, <3>14, UploadCohort
  <2> QED  BY <2>2, <2>3
<1>5. ASSUME NEW w \in Workers, DeployActive(w) PROVE CohortInv'
  <2>1. PICK s : s = (~ByApi(run, w))  OBVIOUS
  <2>2. Todo("activate", w) /\ Upload(w, "active", s, a, run)
    BY <1>2, <1>5, <2>1 DEF DeployActive
  <2>3. Keeps(run, a, {"todo", "message", "coreStaged", "phase"})  BY <1>3 DEF Keeps
  <2>4. PICK n \in {"stage", "activate"} : n = "activate"  OBVIOUS
  <2>5. PICK phase : phase = (IF n = "stage" THEN "staged" ELSE "active")  OBVIOUS
  <2>6. Todo(n, w) /\ Upload(w, phase, s, a, run)  BY <2>2, <2>4, <2>5
  <2> QED  BY <1>1, <1>3, <2>3, <2>5, <2>6, UploadCohort
<1>6. CASE RecoverDeploy
  <2>1. PICK d : d = [Advance(run) EXCEPT !.message = TRUE]  OBVIOUS
  <2>2. PICK s : s = ("core" \notin run.api)  OBVIOUS
  <2>3. Todo("recoverDeploy", "core") /\ Upload("core", "staged", s, d, run)
    BY <1>6, <2>1, <2>2 DEF RecoverDeploy
  <2>4. run.mode = "recover"
    <3>1. <<"recoverDeploy", "core">> \notin DeliverStep \cup PreStep
      BY DEF PreStep, DeliverStep, DeliverNames, Free, Repeating, Closing, Staging2, Retiring, Activating
    <3> QED  BY <2>3, <3>1, HeadMode
  <2>5. d.mode = "recover" /\ Shape(d)
    <3>1. d = [a EXCEPT !.message = TRUE]  BY <1>2, <2>1
    <3>2. a.mode = run.mode  BY <1>3 DEF Keeps, RunFields
    <3> QED  BY <1>3, <2>4, <3>1, <3>2 DEF Shape, RunFields
  <2>6. PICK x : x = <<"recoverDeploy", "core">>  OBVIOUS
  <2>7. PICK t : t = <<>>  OBVIOUS
  <2>8. CASE run' = Stop(run) /\ live' = live /\ strange' = strange  BY <1>1, <2>8, StopUntouched
  <2>9. CASE live' = [live EXCEPT !["core"] = Uploaded(run.src, "core", "staged")]
             /\ strange' = strange \ {"core"}
             /\ \/ run' = [d EXCEPT !.hit = @ \cup {"core"}]
                \/ run' = Stop([run EXCEPT !.hit = @ \cup {"core"}])
    <3>1. Trusts(t, x, "core")  BY <2>6, <2>9, RecoveryTrusts
    <3>2. CASE run' = [d EXCEPT !.hit = @ \cup {"core"}]
      <4>1. run'.mode = "recover"  BY <2>5, <3>2 DEF Shape, RunFields
      <4>2. ~Under("preflight")' /\ ~Under("deliver")'  BY <4>1 DEF Under
      <4>3. CoreServesOneCohort' /\ LegacyLive'  BY <1>1, <3>1, CohortServes, ServesOn
      <4> QED  BY <4>2, <4>3, AwayCohort
    <3>3. CASE run' = Stop([run EXCEPT !.hit = @ \cup {"core"}])
      <4>1. PICK r : r = [run EXCEPT !.hit = @ \cup {"core"}]  OBVIOUS
      <4>2. Shape(r)  BY <1>1, <4>1 DEF Shape, RunFields
      <4> QED  BY <1>1, <3>1, <3>3, <4>1, <4>2, StopTouched
    <3> QED  BY <2>9, <3>2, <3>3
  <2> QED  BY <2>3, <2>8, <2>9 DEF Upload
<1> QED  BY <1>4, <1>5, <1>6

LEMMA PatchTrusts ==
  ASSUME CourseInv, NEW c \in Callers, NEW s, NEW t, Due(s, t, <<"patch", c>>), NEW via \in {live[c].via, "api"},
         live' = [live EXCEPT ![c] = Patched(c, via)], strange' = strange
  PROVE  Trusts(t, <<"patch", c>>, c)
<1>1. PICK v \in Version : v = Patched(c, via) /\ v.note = None  BY PatchedIs DEF CourseInv
<1>2. live' = [live EXCEPT ![c] = v] /\ DOMAIN live = Workers  BY <1>1 DEF CourseInv, Types
<1>3. live'[c] = v /\ \A o \in Workers : o # c => live'[o] = live[o]  BY <1>2, OtherCallers
<1>4. Others(c)  BY <1>3 DEF Others
<1>5. PICK x : x = <<"patch", c>>  OBVIOUS
<1>6. x \in Lowering(c)  BY <1>5 DEF Lowering, LowNames
<1>7. CoreIsOff /\ Has(t, Activation(c))  BY <1>5, <1>6, LoweringDue
<1>8. ~ActiveNote(v)  BY <1>1, BareNote
<1>9. Lowered(t, c)  BY <1>3, <1>7, <1>8 DEF Lowered
<1>10. x[1] # "activate" /\ x # CoreStaged  BY <1>5 DEF CoreStaged
<1> QED  BY <1>4, <1>5, <1>9, <1>10 DEF Trusts

LEMMA PatchCohort ==
  ASSUME CourseInv, CohortInv, NEW c \in Callers, RetirePatch(c)
  PROVE  CohortInv'
<1>1. Shape(run) /\ c \in Workers  BY OtherCallers DEF CourseInv, Types
<1>2. PICK n \in {"patch"} : TRUE  OBVIOUS
<1>3. Todo(n, c)  BY <1>2 DEF RetirePatch
<1>4. n \in DeliverNames \ {"fence"} /\ n # "readActive"  BY <1>2, NamesHere DEF LowNames
<1>5. Under("deliver")  BY <1>3, <1>4, CallOfDelivery
<1>6. PICK s, t : Due(s, t, <<n, c>>)  BY <1>1, <1>3, <1>5, CallDue
<1>7. CASE run' = Stop(run) /\ live' = live /\ strange' = strange  BY <1>1, <1>7, StopUntouched
<1>8. ASSUME NEW via \in {live[c].via, "api"}, live' = [live EXCEPT ![c] = Patched(c, via)],
             strange' = strange,
             \/ run' = [Advance(run) EXCEPT !.patched = @ \cup {c}, !.hit = @ \cup {c}]
             \/ run' = Stop([run EXCEPT !.patched = @ \cup {c}, !.hit = @ \cup {c}])
      PROVE  CohortInv'
  <2>1. Trusts(t, <<n, c>>, c)  BY <1>2, <1>6, <1>8, PatchTrusts
  <2>2. CASE run' = Stop([run EXCEPT !.patched = @ \cup {c}, !.hit = @ \cup {c}])
    <3>1. PICK r : r = [run EXCEPT !.patched = @ \cup {c}, !.hit = @ \cup {c}]  OBVIOUS
    <3>2. Shape(r)  BY <1>1, <3>1 DEF Shape, RunFields
    <3> QED  BY <1>1, <2>1, <2>2, <3>1, <3>2, StopTouched
  <2>3. CASE run' = [Advance(run) EXCEPT !.patched = @ \cup {c}, !.hit = @ \cup {c}]
    <3>1. PICK a : a = Advance(run)  OBVIOUS
    <3>2. Keeps(run, a, {"todo"}) /\ a.todo = Tail(run.todo) /\ Shape(a)
      BY <1>1, <3>1, RunAdvance DEF Keeps
    <3>3. PICK r : r = [a EXCEPT !.patched = @ \cup {c}, !.hit = @ \cup {c}]  OBVIOUS
    <3>4. Keeps(a, r, {"patched", "hit"}) /\ r.todo = a.todo
      BY <3>2, <3>3 DEF Keeps, Shape, RunFields
    <3>5. PICK F : F = {"todo", "patched", "hit"}  OBVIOUS
    <3>6. Keeps(run, r, F)  BY <3>2, <3>4, <3>5 DEF Keeps
    <3>7. run' = r  BY <2>3, <3>1, <3>3
    <3>8. F \cap {"src", "mode", "outcome", "pending"} = {} /\ "own" \notin F  BY <3>5
    <3> QED  BY <1>1, <1>3, <1>4, <1>5, <1>6, <2>1, <3>2, <3>4, <3>6, <3>7, <3>8, PlainOn
  <2> QED  BY <1>8, <2>2, <2>3
<1> QED  BY <1>7, <1>8 DEF RetirePatch

-----------------------------------------------------------------------------
(* The preflight *)

LEMMA PreflightCohort ==
  ASSUME CohortInv, Under("preflight"), NEW s \in Seq(PreStep), s = run.todo, s # <<>>,
         NEW F, Keeps(run, run', F), F \subseteq {"todo", "read", "phase"}, run'.todo = Tail(s),
         live' = live, strange' = strange,
         \/ run'.read = run.read /\ Head(s)[1] # "inventory"
         \/ \E w \in Workers : /\ Head(s) = <<"inventory", w>>
                               /\ run'.read = [run.read EXCEPT ![w] = live[w]]
  PROVE  CohortInv'
<1>1. PICK t \in Seq(PreStep) : t = Tail(s) /\ run'.todo = t  BY TailIndex
<1>2. Under("preflight")' /\ ~Under("deliver")'
  BY DEF Keeps, RunFields, Under
<1>3. \A y : Has(s, y) <=> y = Head(s) \/ Has(t, y)
  <2>1. \A y : Has(s, y) => y = Head(s) \/ Has(t, y)  BY <1>1, TailHas
  <2>2. Has(s, Head(s))  BY TailIndex DEF Has
  <2>3. \A y : Has(t, y) => Has(s, y)  BY <1>1, TailIndex DEF Has
  <2> QED  BY <2>1, <2>2, <2>3
<1>4. ASSUME NEW v \in Workers, ~Unread(v)'
      PROVE  (~Unread(v) /\ run'.read[v] = run.read[v]) \/ run'.read[v] = live[v]
  <2>1. ~Has(t, <<"inventory", v>>)  BY <1>1, <1>4 DEF Unread
  <2>2. CASE Head(s) = <<"inventory", v>>
    <3>3. Head(s)[1] = "inventory"  BY <2>2
    <3>1. PICK w \in Workers : w = v /\ run'.read = [run.read EXCEPT ![w] = live[w]]
      <4>1. PICK w \in Workers : /\ Head(s) = <<"inventory", w>>
                                 /\ run'.read = [run.read EXCEPT ![w] = live[w]]
        BY <3>3
      <4>2. w = v  BY <2>2, <4>1
      <4> QED  BY <4>1, <4>2
    <3>2. DOMAIN run.read = Workers  BY DEF CohortInv, ReadsHold
    <3> QED  BY <3>1, <3>2
  <2>3. CASE Head(s) # <<"inventory", v>>
    <3>1. ~Unread(v)  BY <1>3, <2>1, <2>3 DEF Unread
    <3>2. run'.read[v] = run.read[v]  BY <2>3 DEF CohortInv, ReadsHold
    <3> QED  BY <3>1, <3>2
  <2> QED  BY <2>2, <2>3
<1>5. ReadsHold'
  <2>1. DOMAIN run'.read = Workers  BY DEF CohortInv, ReadsHold
  <2>2. ASSUME NEW i \in 1..Len(t), t[i] = <<"decide", "core">> PROVE i = Len(t)
    <3>1. i + 1 \in 1..Len(s) /\ s[i + 1] = t[i] /\ Len(s) = Len(t) + 1  BY <1>1, TailIndex
    <3>2. i + 1 = Len(s)  BY <2>2, <3>1 DEF CohortInv, ReadsHold
    <3> QED  BY <3>1, <3>2
  <2>3. \A v \in Workers : Unread(v)' \/ v \in strange' \/ run'.read[v] = live'[v]
    BY <1>4 DEF CohortInv, ReadsHold
  <2> QED  BY <1>1, <2>1, <2>2, <2>3 DEF ReadsHold
<1>6. CoreServesOneCohort'  BY DEF CohortInv, CoreServesOneCohort
<1>7. LegacyCore'
  <2>1. "core" \in Workers  BY DEF Workers
  <2>2. ASSUME NEW c \in Callers, Awaiting(c)'
        PROVE  ~ActiveNote(live'["core"]) /\ (Unread("core")' \/ ~ActiveNote(run'.read["core"]))
    <3>1. Awaiting(c)  BY <2>2 DEF Awaiting, ActiveNote
    <3>2. ~ActiveNote(live["core"]) /\ (Unread("core") \/ ~ActiveNote(run.read["core"]))
      BY <3>1 DEF CohortInv, LegacyCore
    <3> QED  BY <1>4, <2>1, <3>2 DEF ActiveNote
  <2> QED  BY <2>2 DEF LegacyCore, ActiveNote
<1>8. OwnBare'
  <2>1. run'.own = run.own  BY DEF Keeps, RunFields
  <2> QED  BY <2>1 DEF CohortInv, OwnBare
<1> QED  BY <1>2, <1>5, <1>6, <1>7, <1>8 DEF CohortInv

LEMMA PreflightsCohort ==
  ASSUME CourseInv, CohortInv, CheckLedger \/ \E w \in Workers : Inventory(w)
  PROVE  CohortInv'
<1>1. Shape(run)  BY DEF CourseInv, Types
<1>2. CASE Failed  BY <1>2, FailsUntouched
<1>3. CASE CheckLedger /\ ~Failed
  <2>1. Todo("ledger", "core") /\ run' = Advance(run) /\ live' = live /\ strange' = strange
    BY <1>3 DEF CheckLedger, Check, Failed
  <2>2. <<"ledger", "core">> \notin DeliverStep \cup RecoverStep
    BY DEF RecoverStep, DeliverStep, DeliverNames, Free, Repeating, Closing, Staging2, Retiring, Activating
  <2>3. Under("preflight")  BY <2>1, <2>2, HeadMode DEF Under
  <2>4. PICK F : F = {"todo"}  OBVIOUS
  <2>5. PICK s \in Seq(PreStep) : s = run.todo  BY <2>3 DEF CourseInv, Modes
  <2>6. Keeps(run, run', F) /\ run'.todo = Tail(s)  BY <1>1, <2>1, <2>4, <2>5, RunAdvance
  <2>7. s # <<>> /\ Head(s)[1] # "inventory"
    <3>1. Head(s) = <<"ledger", "core">> /\ s # <<>>  BY <2>1, <2>5 DEF Todo
    <3> QED  BY <3>1
  <2>8. run'.read = run.read  BY <2>4, <2>6 DEF Keeps, RunFields
  <2>9. F \subseteq {"todo", "read", "phase"}  BY <2>4
  <2> QED  BY <2>1, <2>3, <2>5, <2>6, <2>7, <2>8, <2>9, PreflightCohort
<1>4. CASE (\E w \in Workers : Inventory(w)) /\ ~Failed
  <2>1. PICK w \in Workers : Inventory(w)  BY <1>4
  <2>2. PICK r : r = [Advance(run) EXCEPT !.read[w] = live[w]]  OBVIOUS
  <2>3. Todo("inventory", w) /\ run' = r /\ live' = live /\ strange' = strange
    BY <1>4, <2>1, <2>2 DEF Inventory, Check, Failed
  <2>4. <<"inventory", w>> \notin DeliverStep \cup RecoverStep
    BY DEF RecoverStep, DeliverStep, DeliverNames, Free, Repeating, Closing, Staging2, Retiring, Activating
  <2>5. Under("preflight")  BY <2>3, <2>4, HeadMode DEF Under
  <2>6. PICK F : F = {"todo", "read"}  OBVIOUS
  <2>7. PICK s \in Seq(PreStep) : s = run.todo  BY <2>5 DEF CourseInv, Modes
  <2>8. Keeps(run, r, F) /\ r.todo = Tail(s)  BY <1>1, <2>2, <2>6, <2>7, RunCalls
  <2>9. r.read = [run.read EXCEPT ![w] = live[w]]
    <3>1. PICK a : a = Advance(run)  OBVIOUS
    <3>2. Shape(a) /\ a.read = run.read  BY <1>1, <3>1, RunAdvance DEF Keeps, RunFields
    <3>3. r = [a EXCEPT !.read[w] = live[w]]  BY <2>2, <3>1
    <3> QED  BY <3>2, <3>3 DEF Shape, RunFields
  <2>10. s # <<>> /\ Head(s) = <<"inventory", w>>  BY <2>3, <2>7 DEF Todo
  <2>11. F \subseteq {"todo", "read", "phase"}  BY <2>6
  <2> QED  BY <2>3, <2>5, <2>7, <2>8, <2>9, <2>10, <2>11, PreflightCohort
<1> QED  BY <1>2, <1>3, <1>4

LEMMA FenceCohort ==
  ASSUME CourseInv, CohortInv, PassFence
  PROVE  CohortInv'
<1>1. Shape(run) /\ live' = live /\ strange' = strange  BY DEF CourseInv, Types, PassFence
<1>2. PICK w \in Workers : Todo("fence", w)  BY DEF PassFence
<1>3. CASE ~FencePasses(run)
  <2>1. run' = Stop(run)  BY <1>3 DEF PassFence
  <2> QED  BY <1>1, <2>1, StopUntouched
<1>4. CASE FencePasses(run)
  <2>1. run' = AfterFence(run)  BY <1>4 DEF PassFence
  <2>2. PICK r : r = (IF run.boot /\ ObservedPhase(run) = "added" THEN [run EXCEPT !.phase = "added"] ELSE run)
    OBVIOUS
  <2>3. Keeps(run, r, {"phase"}) /\ r.todo = run.todo
    BY <1>1, <2>2 DEF Keeps, Shape, RunFields
  <2>4. run' = [r EXCEPT !.todo = Tail(@)]  BY <2>1, <2>2 DEF AfterFence, Advance
  <2>5. PICK F : F = {"phase", "todo"}  OBVIOUS
  <2>6. Keeps(run, run', F) /\ run'.todo = Tail(run.todo)
    BY <2>3, <2>4, <2>5 DEF Keeps, Shape, RunFields
  <2>7. CASE Under("preflight")
    <3>1. PICK s \in Seq(PreStep) : s = run.todo  BY <2>7 DEF CourseInv, Modes
    <3>2. s # <<>> /\ Head(s)[1] # "inventory"
      <4>1. Head(s) = <<"fence", w>> /\ s # <<>>  BY <1>2, <3>1 DEF Todo
      <4> QED  BY <4>1
    <3>3. run'.read = run.read  BY <2>5, <2>6 DEF Keeps, RunFields
    <3>4. F \subseteq {"todo", "read", "phase"} /\ run'.todo = Tail(s)  BY <2>5, <2>6, <3>1
    <3> QED  BY <1>1, <2>6, <2>7, <3>1, <3>2, <3>3, <3>4, PreflightCohort
  <2>8. CASE ~Under("preflight") /\ ~Under("deliver")
    <3>1. run'.outcome = run.outcome /\ run'.mode = run.mode  BY <2>5, <2>6 DEF Keeps, RunFields
    <3> QED  BY <1>1, <2>8, <3>1, EndsUntouched DEF Under
  <2>9. CASE Under("deliver")
    <3>1. PICK n : n = "fence" /\ Todo(n, w)  BY <1>2
    <3>2. n \notin {"activate", "readStaged", "readActive"}  BY <3>1
    <3>3. F \cap {"src", "mode", "outcome", "pending", "own"} = {}  BY <2>5
    <3> QED  BY <1>1, <2>6, <2>9, <3>1, <3>2, <3>3, IdleOn
  <2> QED  BY <2>7, <2>8, <2>9
<1> QED  BY <1>3, <1>4

-----------------------------------------------------------------------------
(* The plan that a decision makes *)

(* What is in the activation of w is in the plan. *)
LEMMA PlanActivates ==
  ASSUME NEW r, NEW w \in Workers, NEW x, Has(ActiveSteps(r, w), x)
  PROVE  Has(Delivery(r, "deploy"), x)
<1>1. PICK a : /\ Piece(a, 0, 60)
               /\ Delivery(r, "deploy") = a \o ActiveSteps(r, "publisher") \o ActiveSteps(r, "rendezvous")
                                            \o ActiveSteps(r, "core") \o ClosingSteps
  BY DeliveryParts
<1>2. PICK S : S = Seq(DeliverStep)  OBVIOUS
<1>3. a \in S /\ ClosingSteps \in S  BY <1>1, <1>2, ClosingPiece DEF Piece
<1>4. \A v \in Workers : ActiveSteps(r, v) \in S  BY <1>2, ActivePiece DEF Piece
<1>5. ASSUME NEW u \in S, NEW v \in S, Has(u, x) \/ Has(v, x) PROVE u \o v \in S /\ Has(u \o v, x)
  BY <1>2, <1>5, CatHas, CatIndex
<1>6. ASSUME NEW u \in S, NEW v \in S PROVE u \o v \in S  BY <1>2, <1>6, CatIndex
<1>7. PICK b1 \in S : b1 = ActiveSteps(r, "publisher")  BY <1>4 DEF Workers
<1>8. PICK b2 \in S : b2 = ActiveSteps(r, "rendezvous")  BY <1>4 DEF Workers
<1>9. PICK b3 \in S : b3 = ActiveSteps(r, "core")  BY <1>4 DEF Workers
<1>10. Has(b1, x) \/ Has(b2, x) \/ Has(b3, x)  BY <1>7, <1>8, <1>9 DEF Workers
<1>11. PICK d1 \in S : d1 = a \o b1 /\ (Has(b1, x) => Has(d1, x))  BY <1>3, <1>5, <1>6, <1>7
<1>12. PICK d2 \in S : d2 = d1 \o b2 /\ (Has(d1, x) \/ Has(b2, x) => Has(d2, x))
  BY <1>5, <1>6, <1>8, <1>11
<1>13. PICK d3 \in S : d3 = d2 \o b3 /\ (Has(d2, x) \/ Has(b3, x) => Has(d3, x))
  BY <1>5, <1>6, <1>9, <1>12
<1>14. Has(d3 \o ClosingSteps, x)  BY <1>3, <1>5, <1>10, <1>11, <1>12, <1>13
<1> QED  BY <1>1, <1>7, <1>8, <1>9, <1>11, <1>12, <1>13, <1>14

(* A Worker is activated and read back. *)
LEMMA ActivationReads ==
  ASSUME NEW r, NEW w \in Workers
  PROVE  Has(ActiveSteps(r, w), Activation(w)) /\ Has(ActiveSteps(r, w), <<"readActive", w>>)
<1>1. PICK S : S = Seq(DeliverStep)  OBVIOUS
<1>2. PICK x \in DeliverStep : x = <<"readActive", w>>  BY CallSteps, NamesHere
<1>3. PICK y \in DeliverStep : y = <<"activate", w>>  BY CallSteps, NamesHere
<1>4. PICK h \in S : h = When(HandedOff(r, w), <<<<"handoff", w>>>>)
  <2>1. PICK z \in DeliverStep : z = <<"handoff", w>>  BY CallSteps DEF DeliverNames, Activating
  <2>2. <<z>> \in S /\ <<>> \in S  BY <1>1, <2>1
  <2> QED  BY <2>1, <2>2 DEF When
<1>5. PICK f \in S : f = Fence  BY <1>1, FenceFacts
<1>6. PICK b \in S : b = f \o h \o <<y>> \o f
  <2>1. <<y>> \in S  BY <1>1, <1>3
  <2> QED  BY <1>1, <1>4, <1>5, <2>1, CatIndex
<1>7. <<x>> \in S /\ Has(<<x>>, x)  BY <1>1, OneIn
<1>8. Has(b \o <<x>>, x)
  <2>1. PICK e : e = <<x>>  OBVIOUS
  <2>2. b \in Seq(DeliverStep) /\ e \in Seq(DeliverStep) /\ Has(e, x)  BY <1>1, <1>6, <1>7, <2>1
  <2>3. Has(b \o e, x)  BY <2>2, CatHas
  <2> QED  BY <2>1, <2>3
<1>9. ActiveSteps(r, w) = b \o <<x>>  BY <1>2, <1>3, <1>4, <1>5, <1>6 DEF ActiveSteps
<1>10. Has(ActiveSteps(r, w), <<"activate", w>>)  BY ActivePiece
<1> QED  BY <1>2, <1>8, <1>9, <1>10 DEF Activation

LEMMA PlanFollows ==
  ASSUME NEW r, NEW t, t = Delivery(r, "deploy")
  PROVE  /\ Follows(t) /\ Has(t, CoreStaged) /\ \A w \in Workers : Has(t, Activation(w))
         /\ \A c \in Callers : ~Has(t, <<"readRetired", c>>)
<1>1. t \in Seq(PlanStep) /\ t \in Seq(DeliverStep) /\ Orderly(t)
  BY DeliveryPiece, SpanOrderly DEF Piece
<1>2. Workers = {"core", "publisher", "rendezvous"} /\ Callers \subseteq Workers
  BY DEF Workers, Callers
<1>3. \A w \in Workers : Has(t, Activation(w)) /\ Has(t, <<"readActive", w>>)
  BY ActivationReads, PlanActivates
<1>4. Has(t, CoreStaged)  BY <1>2, DeliveryStages DEF CoreStaged
<1>5. ASSUME NEW w \in Workers
      PROVE  /\ Activation(w) \in DeliverStep /\ Activation(w)[1] \notin Free
             /\ <<"readActive", w>> \in DeliverStep /\ <<"readActive", w>>[1] \notin Free
             /\ Rank(Activation(w)) = 63 + ActiveTurn[w] /\ Rank(<<"readActive", w>>) = 64 + ActiveTurn[w]
  <2>1. PICK y : y = Activation(w) /\ y = <<"activate", w>>  BY DEF Activation
  <2>2. y \in DeliverStep /\ y[1] = "activate"  BY <2>1, CallSteps, NamesHere
  <2>3. PICK z : z = <<"readActive", w>>  OBVIOUS
  <2>4. z \in DeliverStep /\ z[1] = "readActive"  BY <2>3, CallSteps, NamesHere
  <2>5. Rank(<<"activate", w>>) = 63 + ActiveTurn[w]  BY Ranks
  <2>6. Rank(<<"readActive", w>>) = 64 + ActiveTurn[w]  BY Ranks
  <2> QED  BY <2>1, <2>2, <2>3, <2>4, <2>5, <2>6, NamesHere
<1>6. ASSUME NEW c \in Callers, NEW a \in Lowering(c), Has(t, a)
      PROVE  a[1] \notin Free /\ Rank(a) < 63 + ActiveTurn[c]
  <2>1. PICK n, w : a = <<n, w>> /\ w \in Workers
                    /\ ((n \in {"stage", "readStaged"} /\ w \in Callers) \/ (n \in LowNames /\ w = c))
    <3>1. PICK n, w : a = <<n, w>> /\ ((n \in {"stage", "readStaged"} /\ w \in Callers) \/ (n \in LowNames /\ w = c))
      BY <1>6 DEF Lowering
    <3> QED  BY <1>2, <3>1
  <2>2. n \notin Inserting \cup {"readRetired"}  BY <1>1, <1>6, <2>1, PlanLacks
  <2>3. n \in {"stage", "readStaged", "verifyStaged", "handoff"}
    BY <2>1, <2>2 DEF LowNames, Inserting, Retiring
  <2>4. PICK T \in {0, 20, 40} : T = StageTurn[w]  BY <2>1, Ranks
  <2>5. PICK U \in {0, 20, 40} : U = ActiveTurn[c]  BY <1>2, Ranks
  <2>6. CASE n = "stage"
    <3>1. Rank(a) = 2 + T  BY <2>1, <2>4, <2>6, Ranks
    <3> QED  BY <2>1, <2>4, <2>5, <2>6, <3>1, NamesHere
  <2>7. CASE n = "readStaged"
    <3>1. Rank(a) = 3 + T  BY <2>1, <2>4, <2>7, Ranks
    <3> QED  BY <2>1, <2>4, <2>5, <2>7, <3>1, NamesHere
  <2>8. CASE n = "verifyStaged"
    <3>1. Rank(a) = 60  BY <2>1, <2>8, Ranks
    <3>2. "verifyStaged" \notin Free  BY DEF Free
    <3> QED  BY <2>1, <2>5, <2>8, <3>1, <3>2
  <2>9. CASE n = "handoff"
    <3>1. w = c  BY <2>1, <2>9
    <3>2. Rank(a) = 61 + U  BY <2>1, <2>5, <2>9, <3>1, Ranks
    <3>3. "handoff" \notin Free  BY DEF Free
    <3> QED  BY <2>1, <2>5, <2>9, <3>2, <3>3
  <2> QED  BY <2>3, <2>6, <2>7, <2>8, <2>9
<1>7. ActiveTurn["publisher"] = 0 /\ ActiveTurn["rendezvous"] = 20 /\ ActiveTurn["core"] = 40  BY Ranks
<1>8. ASSUME NEW c \in Callers
      PROVE  /\ Followed(t, Lowering(c), Activation(c))
             /\ Followed(t, {Activation(c)}, Activation("core"))
             /\ Followed(t, {Activation(c)}, <<"readActive", c>>)
  <2>1. c \in Workers /\ "core" \in Workers  BY <1>2
  <2>2. ActiveTurn[c] \in {0, 20}  BY <1>7 DEF Callers
  <2>3. PICK b \in DeliverStep : b = Activation(c) /\ b[1] \notin Free /\ Rank(b) = 63 + ActiveTurn[c] /\ Has(t, b)
    BY <1>3, <1>5, <2>1
  <2>4. PICK d \in DeliverStep : d = Activation("core") /\ d[1] \notin Free /\ Rank(d) = 103 /\ Has(t, d)
    <3>1. 63 + ActiveTurn["core"] = 103  BY <1>7
    <3> QED  BY <1>3, <1>5, <2>1, <3>1
  <2>5. PICK e \in DeliverStep : e = <<"readActive", c>> /\ e[1] \notin Free /\ Rank(e) = 64 + ActiveTurn[c] /\ Has(t, e)
    BY <1>3, <1>5, <2>1
  <2>6. \A a \in Lowering(c) : Has(t, a) => a[1] \notin Free /\ Rank(a) < Rank(b)  BY <1>6, <2>3
  <2>7. Followed(t, Lowering(c), b)  BY <1>1, <2>3, <2>6, FollowedOrderly
  <2>8. \A a \in {b} : a[1] \notin Free /\ Rank(a) < Rank(d) /\ Rank(a) < Rank(e)
    BY <2>2, <2>3, <2>4, <2>5
  <2>9. Followed(t, {b}, d)  BY <1>1, <2>4, <2>8, FollowedOrderly
  <2>10. Followed(t, {b}, e)  BY <1>1, <2>5, <2>8, FollowedOrderly
  <2>11. Followed(t, Lowering(c), Activation(c))  BY <2>3, <2>7
  <2>12. Followed(t, {Activation(c)}, Activation("core"))  BY <2>3, <2>4, <2>9
  <2>13. Followed(t, {Activation(c)}, <<"readActive", c>>)  BY <2>3, <2>5, <2>10
  <2> QED  BY <2>11, <2>12, <2>13
<1>9. Followed(t, {<<"readActive", "publisher">>}, Activation("rendezvous"))
  <2>1. PICK d \in DeliverStep : d = Activation("rendezvous") /\ d[1] \notin Free /\ Rank(d) = 83 /\ Has(t, d)
    <3>1. 63 + ActiveTurn["rendezvous"] = 83  BY <1>7
    <3>2. "rendezvous" \in Workers  BY <1>2
    <3>3. /\ Activation("rendezvous") \in DeliverStep /\ Activation("rendezvous")[1] \notin Free
          /\ Rank(Activation("rendezvous")) = 63 + ActiveTurn["rendezvous"] /\ Has(t, Activation("rendezvous"))
      BY <1>3, <1>5, <3>2, Zenon
    <3> QED  BY <3>1, <3>3, Zenon
  <2>2. PICK e \in DeliverStep : e = <<"readActive", "publisher">> /\ e[1] \notin Free /\ Rank(e) = 64
    <3>1. 64 + ActiveTurn["publisher"] = 64  BY <1>7
    <3>2. "publisher" \in Workers  BY <1>2
    <3>3. /\ <<"readActive", "publisher">> \in DeliverStep /\ <<"readActive", "publisher">>[1] \notin Free
          /\ Rank(<<"readActive", "publisher">>) = 64 + ActiveTurn["publisher"]
      BY <1>5, <3>2, Zenon
    <3> QED  BY <3>1, <3>3, Zenon
  <2>3. \A a \in {e} : a[1] \notin Free /\ Rank(a) < Rank(d)  BY <2>1, <2>2
  <2>4. Followed(t, {e}, d)  BY <1>1, <2>1, <2>3, FollowedOrderly
  <2> QED  BY <2>1, <2>2, <2>4
<1>10. \A c \in Callers : ~Has(t, <<"readRetired", c>>)  BY <1>1, PlanLacks
<1> QED  BY <1>3, <1>4, <1>8, <1>9, <1>10 DEF Follows

(* A delivery that has nothing to do only looks at what the preflight has read: *)
(* all three Workers are annotated as the active ones of its source.           *)
LEMMA NothingToDo ==
  ASSUME CourseInv, CohortInv, Under("preflight"), \A w \in Workers : ~Unread(w),
         DeliveryDecision(run) = "no-op", NEW w \in Workers
  PROVE  Settled(w)
<1>1. \A v \in Workers : run.read[v].note = Note(run.src, "active")  BY DEF DeliveryDecision
<1>2. \A v \in Workers : v \in strange \/ run.read[v] = live[v]  BY DEF CohortInv, ReadsHold
<1>3. PICK n : n = Note(run.src, "active")  OBVIOUS
<1>4. n # None /\ n.source = run.src /\ n.phase = "active"
  <2>1. run.src \in Sources  BY DEF CourseInv, Types
  <2>2. n \in [source : Sources, phase : {"staged", "active"}]  BY <1>3, <2>1 DEF Note
  <2>3. n # None  BY <2>2, NoneAssumption
  <2> QED  BY <1>3, <2>3 DEF Note
<1>5. CASE w \notin strange
  <2>1. live[w].note = n  BY <1>1, <1>2, <1>3, <1>5
  <2>2. live[w].code = run.src  BY <1>4, <2>1 DEF CourseInv, Annotated
  <2>3. ASSUME w \in Callers PROVE live[w].circuit = "enabled"
    <3>1. "core" \in Workers  BY DEF Workers
    <3>2. ActiveNote(run.read["core"])  BY <1>1, <1>3, <1>4, <3>1 DEF ActiveNote
    <3>3. ~Awaiting(w)  BY <2>3, <3>1, <3>2 DEF CohortInv, LegacyCore
    <3> QED  BY <1>4, <1>5, <2>1, <3>3 DEF Awaiting, ActiveNote
  <2> QED  BY <2>2, <2>3 DEF Settled
<1> QED  BY <1>5 DEF Settled

LEMMA DecideCohort ==
  ASSUME CourseInv, CohortInv, HandoverInv, Decide
  PROVE  CohortInv'
<1>1. Shape(run) /\ Todo("decide", "core")  BY DEF CourseInv, Types, Decide
<1>2. Under("preflight")
  <2>1. <<"decide", "core">> \notin DeliverStep \cup RecoverStep
    BY DEF RecoverStep, DeliverStep, DeliverNames, Free, Repeating, Closing, Staging2, Retiring, Activating
  <2> QED  BY <1>1, <2>1, HeadMode DEF Under
<1>3. PICK d \in {"deploy", "no-op"} : d = DeliveryDecision(run)  BY DEF DeliveryDecision
<1>4. PICK t : t = Delivery(run, d)  OBVIOUS
<1>5. PICK a : a = ApiHandoffRoles(run)  OBVIOUS
<1>6. PICK r : r = [run EXCEPT !.mode = "deliver", !.decision = d, !.api = a, !.todo = t]  OBVIOUS
<1>7. CASE Failed  BY <1>7, FailsUntouched
<1>8. CASE ~Failed
  <2>1. run' = r /\ live' = live /\ strange' = strange
    BY <1>3, <1>4, <1>5, <1>6, <1>8 DEF Decide, Check, Failed
  <2>2. /\ run'.todo = t /\ run'.mode = "deliver" /\ run'.src = run.src
        /\ run'.pending = run.pending /\ run'.outcome = run.outcome /\ run'.own = run.own
    BY <1>1, <1>6, <2>1 DEF Shape, RunFields
  <2>3. run.pending = <<>>  BY <1>2 DEF HandoverInv
  <2>4. Under("deliver")' /\ ~Under("preflight")'  BY <1>2, <2>2 DEF Under
  <2>5. \A w \in Workers : ~Unread(w)
    <3>1. PICK s \in Seq(PreStep) : s = run.todo /\ s # <<>> /\ Head(s) = <<"decide", "core">>
      BY <1>1, <1>2 DEF CourseInv, Modes, Todo
    <3>2. s[1] = <<"decide", "core">> /\ 1 \in 1..Len(s)  BY <3>1, TailIndex
    <3>3. Len(s) = 1  BY <1>2, <3>1, <3>2 DEF CohortInv, ReadsHold
    <3>4. ASSUME NEW w \in Workers, NEW i \in 1..Len(s) PROVE s[i] # <<"inventory", w>>
      <4>1. i = 1  BY <3>3
      <4> QED  BY <3>2, <4>1
    <3> QED  BY <3>1, <3>4 DEF Unread, Has
  <2>6. Follows(t) /\ Pending(t, <<>>)
        /\ (Has(t, CoreStaged) \/ ~Has(t, Activation("core")))
        /\ \A w \in Workers : Has(t, Activation(w)) \/ Settled(w)
    <3>1. CASE d = "deploy"
      <4>1. /\ Follows(t) /\ Has(t, CoreStaged) /\ \A w \in Workers : Has(t, Activation(w))
            /\ \A c \in Callers : ~Has(t, <<"readRetired", c>>)
        BY <1>4, <3>1, PlanFollows
      <4>2. PICK e : e = <<>> /\ Len(e) = 0 /\ 1..Len(e) = {}  OBVIOUS
      <4>3. Pending(t, e)  BY <4>1, <4>2 DEF Pending
      <4> QED  BY <4>1, <4>2, <4>3
    <3>2. CASE d = "no-op"
      <4>1. t \in Seq(QuietStep)  BY <1>4, <3>2, DeliveryPiece, ClosingPiece
      <4>2. ASSUME NEW i \in 1..Len(t) PROVE t[i][1] \in {"fence", "final", "reconcile", "canaries", "report"}
        <5>1. t[i] \in QuietStep  BY <4>1
        <5> QED  BY <5>1 DEF QuietStep, Closing
      <4>3. ASSUME NEW n \in {"activate", "readActive", "readStaged", "stage"} \cup LowNames, NEW w
            PROVE  \A i \in 1..Len(t) : t[i] # <<n, w>>
        BY <4>2 DEF LowNames
      <4>4. ASSUME NEW c \in Callers, NEW i \in 1..Len(t), t[i] \in Lowering(c) PROVE FALSE
        <5>1. PICK n, w : t[i] = <<n, w>> /\ n \in {"stage", "readStaged"} \cup LowNames
          BY <4>4 DEF Lowering
        <5> QED  BY <4>3, <5>1
      <4>5. Follows(t)  BY <4>3, <4>4 DEF Follows, Followed, Activation
      <4>6. ~Has(t, CoreStaged) /\ ~Has(t, Activation("core"))
        BY <4>3 DEF Has, CoreStaged, Activation
      <4>7. PICK e : e = <<>> /\ Len(e) = 0 /\ 1..Len(e) = {}  OBVIOUS
      <4>8. Pending(t, e)  BY <4>6, <4>7 DEF Pending
      <4>9. \A w \in Workers : Settled(w)  BY <1>2, <1>3, <2>5, <3>2, NothingToDo
      <4> QED  BY <4>5, <4>6, <4>7, <4>8, <4>9
    <3> QED  BY <1>3, <3>1, <3>2
  <2>7. CohortCourse(t)'
    <3>1. AllSettled(t)'  BY <2>1, <2>2, <2>6 DEF AllSettled, Settled
    <3>2. CoreWaits(t)'  BY <2>6 DEF CoreWaits
    <3>3. Pending(t, run'.pending)  BY <2>2, <2>3, <2>6
    <3> QED  BY <2>6, <3>1, <3>2, <3>3 DEF CohortCourse
  <2>8. CohortCourse(run.todo)'
    BY <2>2, <2>7 DEF CohortCourse, Follows, Pending, CoreWaits, AllSettled
  <2>9. OwnBare'
    <3>1. OwnBare  BY <1>2 DEF CohortInv
    <3> QED  BY <2>2, <3>1 DEF OwnBare
  <2>10. CoreServesOneCohort' /\ LegacyLive'
    <3>1. CoreServesOneCohort /\ LegacyLive  BY CohortServes
    <3> QED  BY <2>1, <3>1 DEF CoreServesOneCohort, LegacyLive, Awaiting, ActiveNote
  <2> QED  BY <2>4, <2>8, <2>9, <2>10 DEF CohortInv, LegacyCore, LegacyLive, ReadsHold
<1> QED  BY <1>7, <1>8

-----------------------------------------------------------------------------
(* The environment *)

LEMMA AroundCohort ==
  ASSUME CohortInv,
         \/ \E s \in Sources, boot \in BOOLEAN : Dispatch(s, boot)
         \/ Revoke \/ Migrate \/ UNCHANGED vars
  PROVE  CohortInv'
<1>1. live' = live /\ run' = run /\ strange' = strange  BY DEF Dispatch, Revoke, Migrate, vars
<1>2. CoreServesOneCohort' /\ LegacyCore'
  BY <1>1 DEF CohortInv, CoreServesOneCohort, LegacyCore, Awaiting, ActiveNote, Under, Unread, Has
<1>3. ReadsHold' /\ (Under("preflight")' \/ Under("deliver")' => OwnBare')
  BY <1>1 DEF CohortInv, ReadsHold, OwnBare, Under, Unread, Has
<1>4. ASSUME Under("deliver")' PROVE CohortCourse(run.todo)'
  <2>1. CohortCourse(run.todo)  BY <1>1, <1>4 DEF CohortInv, Under
  <2>2. Follows(run.todo)'  BY <1>1, <2>1 DEF CohortCourse, Follows, Followed
  <2>3. Pending(run.todo, run.pending)'  BY <1>1, <2>1 DEF CohortCourse, Pending, Has
  <2>4. CoreWaits(run.todo)'  BY <1>1, <2>1 DEF CohortCourse, CoreWaits, CoreIsOff, Has
  <2>5. AllSettled(run.todo)'  BY <1>1, <2>1 DEF CohortCourse, AllSettled, Settled, Has
  <2> QED  BY <2>2, <2>3, <2>4, <2>5 DEF CohortCourse
<1> QED  BY <1>2, <1>3, <1>4 DEF CohortInv

(* Another writer never annotates a Worker as active that was not. *)
LEMMA ForeignNote ==
  ASSUME Types, NEW w \in Workers, NEW v \in ForeignVersions(w)
  PROVE  ActiveNote(v) => ActiveNote(live[w])
<1>1. PICK l \in Version : l = live[w]  BY DEF Types
<1>2. ASSUME NEW c, NEW n \in {live[w].note, None}, v = Edited(w, c, n) PROVE v.note \in {l.note, None}
  <2>1. v = [l EXCEPT !.version = versions + 1, !.circuit = c, !.note = n, !.via = "api"]
    BY <1>1, <1>2 DEF Edited
  <2>2. v.note = n  BY <2>1 DEF Version
  <2> QED  BY <1>1, <1>2, <2>2
<1>3. ASSUME NEW c, NEW s, v = Redeployed(w, c, s) PROVE v.note = None
  <2>1. v = [l EXCEPT !.version = versions + 1, !.circuit = c, !.note = None, !.via = "wrangler", !.code = s]
    BY <1>1, <1>3 DEF Redeployed
  <2> QED  BY <2>1 DEF Version
<1>4. ASSUME v = PairRestored(w) PROVE v.note = None
  <2>1. v = [l EXCEPT !.version = versions + 1, !.pair = TRUE, !.note = None, !.via = "api"]
    BY <1>1, <1>4 DEF PairRestored
  <2> QED  BY <2>1 DEF Version
<1>5. v.note \in {l.note, None}  BY <1>2, <1>3, <1>4 DEF ForeignVersions
<1> QED  BY <1>1, <1>5 DEF ActiveNote

LEMMA ForeignCohort ==
  ASSUME CourseInv, CohortInv, NEW w \in Workers, ForeignChange(w)
  PROVE  CohortInv'
<1>1. PICK v \in ForeignVersions(w) :
        live' = [live EXCEPT ![w] = v] /\ strange' = strange \cup {w} /\ run' = run
  BY DEF ForeignChange
<1>2. \A u \in Workers : live'[u] = IF u = w THEN v ELSE live[u]  BY <1>1 DEF CourseInv, Types
<1>3. "core" \in Workers /\ Callers \subseteq Workers  BY DEF Workers, Callers
<1>4. \A u \in Workers : u \in strange' \/ (u \notin strange /\ live'[u] = live[u])
  BY <1>1, <1>2
<1>5. ActiveNote(live'["core"]) => ActiveNote(live["core"])
  <2>1. ActiveNote(v) => ActiveNote(live[w])  BY ForeignNote DEF CourseInv
  <2> QED  BY <1>2, <1>3, <2>1
<1>6. CoreServesOneCohort' /\ LegacyLive'
  <2>1. CoreServesOneCohort /\ LegacyLive  BY CohortServes
  <2> QED  BY <1>4, <1>5, <2>1, ServesUntouched
<1>7. \A m : Under(m)' <=> Under(m)  BY <1>1 DEF Under
<1>8. LegacyCore'
  <2>1. ASSUME NEW c \in Callers, Awaiting(c)', Under("preflight")'
        PROVE  Unread("core")' \/ ~ActiveNote(run'.read["core"])
    <3>1. Awaiting(c)  BY <1>3, <1>4, <2>1 DEF Awaiting, ActiveNote
    <3>2. Unread("core") \/ ~ActiveNote(run.read["core"])
      BY <1>7, <2>1, <3>1 DEF CohortInv, LegacyCore
    <3> QED  BY <1>1, <3>2 DEF Unread, Has, ActiveNote
  <2> QED  BY <1>6, <2>1 DEF LegacyCore, LegacyLive, ActiveNote
<1>9. ReadsHold'
  <2>1. ASSUME Under("preflight"), NEW u \in Workers
        PROVE  Unread(u)' \/ u \in strange' \/ run'.read[u] = live'[u]
    <3>1. Unread(u) \/ u \in strange \/ run.read[u] = live[u]  BY <2>1 DEF CohortInv, ReadsHold
    <3> QED  BY <1>1, <1>4, <3>1 DEF Unread, Has
  <2> QED  BY <1>1, <1>7, <2>1 DEF CohortInv, ReadsHold
<1>10. OwnBare => OwnBare'  BY <1>1 DEF OwnBare
<1>11. ASSUME Under("deliver"), NEW s, s = run.todo PROVE CohortCourse(s)'
  <2>1. CohortCourse(s)  BY <1>11 DEF CohortInv
  <2>2. CoreIsOff => CoreIsOff'  BY <1>3, <1>4 DEF CoreIsOff
  <2>3. \A u \in Workers : Settled(u) => Settled(u)'  BY <1>1, <1>4 DEF Settled
  <2>4. CoreWaits(s)' /\ AllSettled(s)'
    BY <2>1, <2>2, <2>3 DEF CohortCourse, CoreWaits, AllSettled
  <2>5. Follows(s) /\ Pending(s, run'.pending)  BY <1>1, <2>1 DEF CohortCourse
  <2> QED  BY <2>4, <2>5 DEF CohortCourse
<1>12. Under("deliver") => CohortCourse(run.todo)'
  BY <1>1, <1>11 DEF CohortCourse, Follows, Pending, CoreWaits, AllSettled
<1> QED  BY <1>6, <1>7, <1>8, <1>9, <1>10, <1>12 DEF CohortInv

(* A core that is proven disabled serves nobody. *)
LEMMA ProvenCohort ==
  ASSUME CohortInv, live' = live, strange' = strange \ {"core"}, live["core"].circuit = "disabled",
         ~Under("preflight")', ~Under("deliver")'
  PROVE  CohortInv'
<1>1. CoreServesOneCohort'  BY DEF CoreServesOneCohort
<1>2. LegacyLive'
  <2>1. "core" \notin Callers  BY DEF Callers
  <2>2. LegacyLive  BY CohortServes
  <2> QED  BY <2>1, <2>2 DEF LegacyLive, Awaiting, ActiveNote
<1> QED  BY <1>1, <1>2, AwayCohort

LEMMA EndsCohort ==
  ASSUME CourseInv, CohortInv, Kill \/ Report \/ RecoverRead \/ RecoverProve
  PROVE  CohortInv'
<1>1. Shape(run)  BY DEF CourseInv, Types
<1>2. "killed" # None /\ "stopped" # None /\ "deploy" # None /\ "no-op" # None  BY NoneAssumption
<1>3. ASSUME NEW o, NEW p, run' = End(run, o, p), o # None PROVE ~Under("preflight")' /\ ~Under("deliver")'
  <2>1. run'.outcome = o  BY <1>1, <1>3 DEF End, Shape, RunFields
  <2> QED  BY <1>3, <2>1 DEF Under
<1>4. CASE Kill
  <2>1. run' = End(run, "killed", "unknown") /\ live' = live /\ strange' = strange  BY <1>4 DEF Kill
  <2> QED  BY <1>2, <1>3, <2>1, EndsUntouched
<1>5. CASE Report
  <2>1. Todo("report", "core") /\ run' = End(run, run.decision, run.recovery)
        /\ live' = live /\ strange' = strange
    BY <1>5 DEF Report, Answer, Check
  <2>2. Under("deliver")
    <3>1. <<"report", "core">> \notin PreStep \cup RecoverStep  BY DEF PreStep, RecoverStep
    <3> QED  BY <2>1, <3>1, HeadMode DEF Under
  <2>3. run.decision # None  BY <1>2, <2>2 DEF CourseInv, Modes
  <2> QED  BY <1>3, <2>1, <2>3, EndsUntouched
<1>6. CASE Failed  BY <1>6, FailsUntouched
<1>7. CASE RecoverRead /\ live["core"].note # ExpectedMessage(run)
  <2>1. PICK t : /\ Todo("recoverRead", "core")
                 /\ run' = [run EXCEPT !.todo = t] /\ live' = live /\ strange' = strange
    BY <1>7 DEF RecoverRead, Answer, Check
  <2>2. run.mode = "recover"
    <3>1. <<"recoverRead", "core">> \notin PreStep \cup DeliverStep
      BY DEF PreStep, DeliverStep, DeliverNames, Free, Repeating, Closing, Staging2, Retiring,
             Activating
    <3> QED  BY <2>1, <3>1, HeadMode
  <2>3. run'.mode = "recover"  BY <1>1, <2>1, <2>2 DEF Shape, RunFields
  <2>4. ~Under("preflight")' /\ ~Under("deliver")'  BY <2>3 DEF Under
  <2> QED  BY <2>1, <2>4, EndsUntouched
<1>8. CASE Check(ProvenDisabled(run, live["core"]), End(run, "stopped", "proven"), {"core"})
  <2>1. CASE ProvenDisabled(run, live["core"])
    <3>1. live["core"].circuit = "disabled"  BY <2>1 DEF ProvenDisabled, HasConfiguration
    <3>2. run' = End(run, "stopped", "proven") /\ live' = live /\ strange' = strange \ {"core"}
      BY <1>8, <2>1 DEF Check
    <3>3. ~Under("preflight")' /\ ~Under("deliver")'  BY <1>2, <1>3, <3>2
    <3> QED  BY <3>1, <3>2, <3>3, ProvenCohort
  <2>2. CASE ~ProvenDisabled(run, live["core"])
    <3>1. Failed  BY <1>8, <2>2 DEF Check, Failed
    <3> QED  BY <1>6, <3>1
  <2> QED  BY <2>1, <2>2
<1> QED  BY <1>4, <1>5, <1>7, <1>8 DEF RecoverRead, RecoverProve

(* A run that begins reads all three Workers, and decides last. *)
LEMMA StartCohort ==
  ASSUME CohortInv, Start
  PROVE  CohortInv'
<1>1. PICK r : r = Begin(request) /\ run' = r  BY DEF Start
<1>2. live' = live /\ strange' = strange  BY DEF Start
<1>3. PICK i3 : i3 = Steps("inventory", DeploymentOrder)  OBVIOUS
<1>4. PICK d : d = <<"decide", "core">>  OBVIOUS
<1>5. PICK a : a = Fence \o <<<<"ledger", "core">>>> \o i3  OBVIOUS
<1>6. /\ r.todo = a \o <<d>> /\ r.mode = "preflight" /\ r.read = [w \in Workers |-> None]
      /\ r.own = [c \in Callers |-> None]
  BY <1>1, <1>3, <1>4, <1>5 DEF Begin
<1>7. PICK X : X = PreStep \ {d}  OBVIOUS
<1>8. i3 \in Seq(X) /\ \A w \in Workers : Has(i3, <<"inventory", w>>)
  <2>1. PICK x \in X : x = <<"inventory", "core">>  BY <1>4, <1>7 DEF PreStep, Workers
  <2>2. PICK y \in X : y = <<"inventory", "publisher">>  BY <1>4, <1>7 DEF PreStep, Workers
  <2>3. PICK z \in X : z = <<"inventory", "rendezvous">>  BY <1>4, <1>7 DEF PreStep, Workers
  <2>4. i3 = <<x, y, z>>  BY <1>3, <2>1, <2>2, <2>3, StepsAre
  <2>5. i3 \in Seq(X) /\ Len(i3) = 3 /\ i3[1] = x /\ i3[2] = y /\ i3[3] = z  BY <2>4
  <2>6. Has(i3, x) /\ Has(i3, y) /\ Has(i3, z)  BY <2>5 DEF Has
  <2> QED  BY <2>1, <2>2, <2>3, <2>5, <2>6 DEF Workers
<1>9. PICK f \in Seq(X) : f = Fence \o <<<<"ledger", "core">>>>
  <2>1. PICK x \in X : x = <<"fence", "core">>  BY <1>4, <1>7 DEF PreStep, Workers
  <2>2. PICK y \in X : y = <<"ledger", "core">>  BY <1>4, <1>7 DEF PreStep, Workers
  <2>3. <<x>> \in Seq(X) /\ <<y>> \in Seq(X)  OBVIOUS
  <2>4. <<x>> \o <<y>> \in Seq(X)  BY <2>3, CatIndex
  <2> QED  BY <2>1, <2>2, <2>4 DEF Fence
<1>10. a = f \o i3  BY <1>5, <1>9
<1>11. a \in Seq(X) /\ \A w \in Workers : Has(a, <<"inventory", w>>)
  <2>1. a \in Seq(X)  BY <1>8, <1>9, <1>10, CatIndex
  <2>2. \A y : Has(f \o i3, y) <=> Has(f, y) \/ Has(i3, y)
    <3>1. i3 \in Seq(X) /\ f \in Seq(X)  BY <1>8, <1>9
    <3>2. \A y : Has(f \o i3, y) <=> Has(f, y) \/ Has(i3, y)  BY <3>1, CatHas
    <3> QED  BY <3>2
  <2>3. \A w \in Workers : Has(a, <<"inventory", w>>)  BY <1>8, <1>10, <2>2
  <2> QED  BY <2>1, <2>3
<1>12. PICK t : t = a \o <<d>> /\ r.todo = t  BY <1>6
<1>13. PICK e : e = <<d>> /\ e \in Seq(PreStep) /\ Len(e) = 1
  <2>1. PICK x \in PreStep : x = d  BY <1>4 DEF PreStep, Workers
  <2>2. <<x>> \in Seq(PreStep) /\ Len(<<x>>) = 1  OBVIOUS
  <2> QED  BY <2>1, <2>2
<1>14. a \in Seq(PreStep)
  <2>1. X \subseteq PreStep  BY <1>7
  <2> QED  BY <1>11, <2>1, SeqWithin
<1>15. \A w \in Workers : Has(t, <<"inventory", w>>)  
  <2>1. \A y : Has(a \o e, y) <=> Has(a, y) \/ Has(e, y)  BY <1>13, <1>14, CatHas
  <2> QED  BY <1>11, <1>12, <1>13, <2>1
<1>16. ASSUME NEW i \in 1..Len(t), t[i] = d PROVE i = Len(t)
  <2>1. /\ Len(t) = Len(a) + Len(e) /\ \A j \in 1..Len(a) : t[j] = a[j]
    BY <1>12, <1>13, <1>14, CatIndex
  <2>2. Len(a) \in Nat /\ \A j \in 1..Len(a) : a[j] # d
    <3>1. \A j \in 1..Len(a) : a[j] \in X  BY <1>11
    <3> QED  BY <1>7, <1>11, <3>1
  <2>3. ~(i \in 1..Len(a))  BY <1>16, <2>1, <2>2
  <2> QED  BY <1>13, <2>1, <2>2, <2>3
<1>17. ReadsHold'
  <2>1. \A w \in Workers : Unread(w)'  BY <1>1, <1>12, <1>15 DEF Unread
  <2>2. DOMAIN run'.read = Workers  BY <1>1, <1>6
  <2>3. \A i \in 1..Len(run'.todo) : run'.todo[i] = <<"decide", "core">> => i = Len(run'.todo)
    BY <1>1, <1>4, <1>12, <1>16
  <2> QED  BY <2>1, <2>2, <2>3 DEF ReadsHold
<1>18. CoreServesOneCohort' /\ LegacyLive'
  <2>1. CoreServesOneCohort /\ LegacyLive  BY CohortServes
  <2> QED  BY <1>2, <2>1 DEF CoreServesOneCohort, LegacyLive, Awaiting, ActiveNote
<1>19. LegacyCore'
  <2>1. Unread("core")'  BY <1>1, <1>12, <1>15 DEF Unread, Workers
  <2> QED  BY <1>18, <2>1 DEF LegacyCore, LegacyLive
<1>20. OwnBare'  BY <1>1, <1>6 DEF OwnBare
<1>21. ~Under("deliver")'  BY <1>1, <1>6 DEF Under
<1> QED  BY <1>17, <1>18, <1>19, <1>20, <1>21 DEF CohortInv

LEMMA InitCohort ==
  ASSUME Init
  PROVE  CohortInv
<1>1. PICK s \in Sources : live \in {Delivered(s)} \cup {Legacy(s, P) : P \in SUBSET Callers}
  BY DEF Init
<1>2. ~Under("preflight") /\ ~Under("deliver")
  <2>1. PICK r : r = Begin(Request(CHOOSE u \in Sources : TRUE, FALSE, Delivered(CHOOSE u \in Sources : TRUE)))
    OBVIOUS
  <2>2. run = [r EXCEPT !.todo = <<>>, !.outcome = "stopped", !.recovery = "not-needed"]
    BY <2>1 DEF Init, NoRun, End
  <2>3. Shape(r)  BY <2>1, BeginIs
  <2>4. run.outcome = "stopped"  BY <2>2, <2>3 DEF Shape, RunFields
  <2> QED  BY <2>4, NoneAssumption DEF Under
<1>3. CoreServesOneCohort /\ LegacyLive
  <2>1. CASE live = Delivered(s)
    <3>1. \A w \in Workers : live[w].circuit = "enabled" /\ live[w].code = s  BY <2>1 DEF Delivered
    <3>2. "core" \in Workers /\ Callers \subseteq Workers  BY DEF Workers, Callers
    <3> QED  BY <3>1, <3>2 DEF CoreServesOneCohort, LegacyLive, Awaiting
  <2>2. CASE \E P \in SUBSET Callers : live = Legacy(s, P)
    <3>1. live["core"].circuit = "disabled" /\ live["core"].note = None  BY <2>2 DEF Legacy, Workers
    <3> QED  BY <3>1 DEF CoreServesOneCohort, LegacyLive, ActiveNote
  <2> QED  BY <1>1, <2>1, <2>2
<1> QED  BY <1>2, <1>3 DEF CohortInv, LegacyCore, LegacyLive, ReadsHold

-----------------------------------------------------------------------------
(* Every step *)

LEMMA StepCohort ==
  ASSUME CourseInv, HandoverInv, CohortInv, [Next]_vars
  PROVE  CohortInv'
<1>1. CASE \/ \E s \in Sources, boot \in BOOLEAN : Dispatch(s, boot)
           \/ Revoke \/ Migrate \/ UNCHANGED vars
  BY <1>1, AroundCohort
<1>2. CASE \E w \in Workers : ForeignChange(w)  BY <1>2, ForeignCohort
<1>3. CASE Start  BY <1>3, StartCohort
<1>4. CASE PassFence  BY <1>4, FenceCohort
<1>5. CASE CheckLedger \/ \E w \in Workers : Inventory(w)  BY <1>5, PreflightsCohort
<1>6. CASE Decide  BY <1>6, DecideCohort
<1>7. CASE \E w \in Workers : CheckPredecessor(w) \/ CheckCallerPredecessor(w) \/ Authorize(w) \/ Prove
  BY <1>7, ChecksCohort
<1>8. CASE \E w \in Workers : VerifyFinal(w)  BY <1>8, FinalCohort
<1>9. CASE RecoverDeploy \/ \E w \in Workers : DeployStaged(w) \/ DeployActive(w)
  BY <1>9, UploadsCohort
<1>10. CASE \E w \in Workers : ReadStaged(w)  BY <1>10, ReadStagedCohort
<1>11. CASE \E w \in Workers : ReadActive(w)  BY <1>11, ReadActiveCohort
<1>12. CASE \E w \in Workers : VerifyStaged(w)  BY <1>12, VerifyCohort
<1>13. CASE \E w \in Workers : ActivationHandoff(w)  BY <1>13, HandoffCohort
<1>14. CASE \E c \in Callers : BeginRetirement(c) \/ RecordIntent(c) \/ RecordReceipt(c)
  BY <1>14, RetirementChecksCohort
<1>15. CASE \E c \in Callers : RetireRead(c) \/ RetireReread(c) \/ Observe(c) \/ CompleteObservation(c) \/ ReadObserved(c)
  BY <1>15, SelectionsCohort
<1>16. CASE \E c \in Callers : ReadRetired(c) \/ AcceptRetirement(c) \/ RetireVerify(c)
  BY <1>16, ProofsCohort
<1>17. CASE \E c \in Callers : CompleteRetirement(c)  BY <1>17, CompletionCohort
<1>18. CASE \E c \in Callers : RetirePatch(c)  BY <1>18, PatchCohort
<1>19. CASE Kill \/ Report \/ RecoverRead \/ RecoverProve  BY <1>19, EndsCohort
<1> QED
  BY <1>1, <1>2, <1>3, <1>4, <1>5, <1>6, <1>7, <1>8, <1>9, <1>10, <1>11, <1>12, <1>13, <1>14,
     <1>15, <1>16, <1>17, <1>18, <1>19
  DEF Next, Workers

(* What may disable a caller is followed by its activation, that by the core's,  *)
(* and the core is off from its readback to its activation (orchestrateDelivery, *)
(* recover): whatever happens around the run.                                   *)
THEOREM DeliveriesKeepTheirCohort == Spec => []CohortInv
<1>1. Init => CohortInv  BY InitCohort
<1>2. CourseInv /\ HandoverInv /\ CohortInv /\ [Next]_vars => CohortInv'  BY StepCohort
<1> QED  BY <1>1, <1>2, RunsKeepTheirCourse, DeliveriesKeepTheirHandover, PTL DEF Spec

(* While the core's breakers are closed it serves callers of its own source that *)
(* are enabled as well, also during a deployment and after one that failed, was  *)
(* killed or lost an answer anywhere, for any commits and any number of          *)
(* promotions (orchestrateDelivery enables the core last and disables it first). *)
THEOREM CoreServesItsCohort == Spec => []CoreServesOneCohort
<1>1. CohortInv => CoreServesOneCohort  BY DEF CohortInv
<1> QED  BY <1>1, DeliveriesKeepTheirCohort, PTL

=============================================================================
