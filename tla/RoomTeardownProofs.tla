------------------------- MODULE RoomTeardownProofs -------------------------
(***************************************************************************)
(* Proofs about RoomTeardown: its types, and the five properties that the  *)
(* run room_teardown checks, for every number of controls and clients.     *)
(***************************************************************************)
EXTENDS RoomTeardown, WellFoundedInduction, TLAPS

-----------------------------------------------------------------------------
(* Counting loops.  A loop over the controls is a recursive function of the   *)
(* number of controls it has come to.                                         *)

LEMMA Least ==
  ASSUME NEW T \in SUBSET Nat, T # {}
  PROVE  \E m \in T : \A k \in T : m <= k
<1> DEFINE R == {ss \in Nat \X Nat : ss[1] < ss[2]}
<1>1. IsWellFoundedOn(R, Nat)  BY NatLessThanWellFounded DEF OpToRel
<1>2. PICK x \in T : \A y \in T : ~ (<<y, x>> \in R)  BY <1>1, WFMin
<1>3. ASSUME NEW y \in T PROVE x <= y
  <2>1. x \in Nat /\ y \in Nat  OBVIOUS
  <2>2. <<y, x>> \in Nat \X Nat /\ <<y, x>>[1] = y /\ <<y, x>>[2] = x  BY <2>1
  <2>3. ~(y < x)  BY <1>2, <2>2
  <2> QED  BY <2>1, <2>3
<1> QED  BY <1>3

(* What holds at the start and through each turn holds at the end. *)
LEMMA Climb ==
  ASSUME NEW N \in Nat, NEW P, P[0], \A n \in 1..N : P[n - 1] => P[n]
  PROVE  \A n \in 0..N : P[n]
<1> DEFINE T == {n \in 0..N : ~P[n]}
<1>1. ASSUME T # {} PROVE FALSE
  <2>1. T \in SUBSET Nat  OBVIOUS
  <2>2. PICK m \in T : \A k \in T : m <= k  BY <1>1, <2>1, Least
  <2>3. m # 0  BY <2>2
  <2>4. m - 1 \in 0..N /\ m \in 1..N  BY <2>2, <2>3
  <2>5. m - 1 \notin T  BY <2>2, <2>4
  <2> QED  BY <2>2, <2>4, <2>5
<1> QED  BY <1>1

(* The room after n turns, as a function of n *)
Turning(N, r, turn, g) == g = [n \in 0..N |-> IF n = 0 THEN r ELSE turn[n][g[n - 1]]]

(* The turns of a loop exist: the recursive function is defined. *)
LEMMA Turns ==
  ASSUME NEW N \in Nat, NEW X, NEW r \in X, NEW turn \in [1..N -> [X -> X]]
  PROVE  \E g \in [0..N -> X] : Turning(N, r, turn, g)
<1> DEFINE Ok(g, m) == g \in [0..m -> X] /\ g[0] = r /\ \A n \in 1..m : g[n] = turn[n][g[n - 1]]
<1> DEFINE P == [m \in 0..N |-> \E g : Ok(g, m)]
<1>1. P[0]
  <2>1. PICK g : g = [n \in 0..0 |-> r]  OBVIOUS
  <2>2. Ok(g, 0)  BY <2>1
  <2> QED  BY <2>2
<1>2. ASSUME NEW m \in 1..N, P[m - 1] PROVE P[m]
  <2>1. m - 1 \in 0..N /\ m \in 0..N /\ 0 \in 0..m-1  OBVIOUS
  <2>2. PICK g : Ok(g, m - 1)  BY <1>2, <2>1
  <2>3. PICK h : h = [n \in 0..m |-> IF n = m THEN turn[m][g[m - 1]] ELSE g[n]]  OBVIOUS
  <2>4. g[m - 1] \in X  BY <2>1, <2>2
  <2>5. turn[m] \in [X -> X]  OBVIOUS
  <2>6. turn[m][g[m - 1]] \in X  BY <2>4, <2>5
  <2>7. h \in [0..m -> X]
    <3>1. ASSUME NEW n \in 0..m, n # m PROVE g[n] \in X
      <4>1. n \in 0..m-1  BY <3>1
      <4> QED  BY <2>2, <4>1
    <3> QED  BY <2>3, <2>6, <3>1
  <2>8. h[0] = r  BY <2>1, <2>2, <2>3
  <2>9. ASSUME NEW n \in 1..m PROVE h[n] = turn[n][h[n - 1]]
    <3>1. n \in 0..m /\ n - 1 \in 0..m /\ n - 1 # m  OBVIOUS
    <3>2. h[n - 1] = g[n - 1]  BY <2>3, <3>1
    <3>3. CASE n = m  BY <2>3, <3>1, <3>2, <3>3
    <3>4. CASE n # m
      <4>1. n \in 1..m-1  BY <3>4
      <4> QED  BY <2>2, <2>3, <3>1, <3>2, <3>4, <4>1
    <3> QED  BY <3>3, <3>4
  <2>10. Ok(h, m)  BY <2>7, <2>8, <2>9
  <2> QED  BY <2>1, <2>10
<1>3. \A n \in 0..N : P[n]
  <2> HIDE DEF P
  <2> QED  BY <1>1, <1>2, Climb
<1>4. PICK g : Ok(g, N)  BY <1>3
<1>5. \A n \in 1..N : n - 1 \in 0..N  OBVIOUS
<1>6. \A n \in 0..N : n # 0 => n \in 1..N  OBVIOUS
<1>7. g = [n \in 0..N |-> IF n = 0 THEN r ELSE turn[n][g[n - 1]]]  BY <1>4, <1>5, <1>6
<1> QED  BY <1>4, <1>7 DEF Turning

-----------------------------------------------------------------------------
(* Rooms, and what the handlers keep *)

SockState == {"none", "open", "closing", "gone"}
Attachment == ControlState \cup ClientState \cup {NoValue}
Rooms ==
  [sock : [Socket -> SockState], att : [Socket -> Attachment], gen : Nat,
   pend : [Socket -> Outcome \cup {NoValue}], inactive : SUBSET Control,
   finalized : SUBSET Client, metric : [Client -> Seq(Outcome \cup {NoValue})],
   thrown : BOOLEAN]

(* What the room says of one socket: an attachment of its role, nothing of a  *)
(* socket that was never opened, a control that was set aside and still       *)
(* routes is to be retired, at most one summary, which the attachment knows   *)
(* of, and none before the session is over.                                   *)
SaneAt(r, x) ==
  /\ x \in Control => r.att[x] \in ControlState \cup {NoValue}
  /\ x \in Client => r.att[x] \in ClientState \cup {NoValue}
  /\ r.sock[x] = "none" => r.att[x] = NoValue /\ x \notin r.inactive
  /\ r.att[x] = NoValue => r.pend[x] = NoValue
  /\ x \in r.inactive /\ Routing(r, x) => r.pend[x] # NoValue
  /\ x \in Client =>
       /\ Len(r.metric[x]) <= 1
       /\ r.metric[x] # <<>> => r.sock[x] # "none" /\ (r.att[x] = NoValue \/ r.att[x].summary)
       /\ Live(r.att[x]) => ~r.att[x].summary /\ x \notin r.finalized
       /\ r.sock[x] = "none" => x \notin r.finalized
Sane(r) == r \in Rooms /\ \A x \in Socket : SaneAt(r, x)

(* The room says the same of x. *)
Alike(r, s, x) ==
  /\ s.sock[x] = r.sock[x] /\ s.att[x] = r.att[x] /\ s.pend[x] = r.pend[x]
  /\ x \in Control => (x \in s.inactive <=> x \in r.inactive)
  /\ x \in Client => s.metric[x] = r.metric[x] /\ (x \in s.finalized <=> x \in r.finalized)

(* What a handler may make of a socket: it closes, its control is demoted,    *)
(* its session ends; what was to be retired still is, or is retired; and what *)
(* has newly to be retired was reported.                                      *)
StepAt(r, s, x) ==
  /\ s.sock[x] = r.sock[x] \/ (r.sock[x] = "open" /\ s.sock[x] = "closing")
  /\ s.att[x] = NoValue <=> r.att[x] = NoValue
  /\ x \in Control /\ r.att[x] # NoValue =>
       s.att[x].gen = r.att[x].gen /\ (s.att[x].current => r.att[x].current)
  /\ x \in Client /\ r.att[x] # NoValue =>
       /\ s.att[x].gen = r.att[x].gen /\ s.att[x].owner = r.att[x].owner
       /\ s.att[x].stage \in {r.att[x].stage, "terminal"}
  /\ r.pend[x] # NoValue => s.pend[x] # NoValue \/ ~Routing(s, x)
  /\ s.pend[x] # NoValue /\ Routing(s, x) => s.thrown \/ r.pend[x] # NoValue
AllSound == \A x \in Socket : broken[x] = Sound
Later(r, s) ==
  /\ \A x \in Socket : StepAt(r, s, x)
  /\ s.gen = r.gen
  /\ r.thrown => s.thrown
Calm(r, s) == AllSound => s.thrown = r.thrown

LEMMA Roles ==
  /\ Socket = Control \cup Client /\ Control \cap Client = {}
  /\ Control \subseteq Nat \ {0} /\ MaxControls \in Nat
BY ConstantsAssumption DEF Socket, Control, Client

LEMMA Fields ==
  ASSUME NEW r \in Rooms
  PROVE  /\ r.gen \in Nat /\ r.inactive \subseteq Control /\ r.finalized \subseteq Client
         /\ r.thrown \in BOOLEAN
         /\ \A x \in Socket : /\ r.sock[x] \in SockState /\ r.att[x] \in Attachment
                              /\ r.pend[x] \in Outcome \cup {NoValue}
         /\ \A c \in Client : r.metric[c] \in Seq(Outcome \cup {NoValue})
BY DEF Rooms

LEMMA AlikeRouting ==
  ASSUME NEW r, NEW s, NEW x, Alike(r, s, x)
  PROVE  Routing(s, x) <=> Routing(r, x)
BY DEF Alike, Routing, Open

LEMMA AlikeSane ==
  ASSUME NEW r, NEW s, NEW x \in Socket, Alike(r, s, x), r.inactive \subseteq Control, s.inactive \subseteq Control,
         SaneAt(r, x)
  PROVE  SaneAt(s, x)
BY AlikeRouting DEF Alike, SaneAt

LEMMA AlikeStep ==
  ASSUME NEW r, NEW d, NEW s, NEW x, Alike(d, s, x), StepAt(r, d, x), d.thrown => s.thrown
  PROVE  StepAt(r, s, x)
BY AlikeRouting DEF Alike, StepAt

(* A step only lets a socket stop to route. *)
LEMMA StepRouting ==
  ASSUME NEW r \in Rooms, NEW s \in Rooms, NEW x \in Socket, StepAt(r, s, x), Routing(s, x)
  PROVE  Routing(r, x) /\ s.sock[x] = r.sock[x]
<1>1. s.sock[x] = "open" /\ r.sock[x] = "open"  BY DEF StepAt, Routing, Open
<1>2. CASE x \in Client
  <2>1. s.att[x] # NoValue /\ r.att[x] # NoValue  BY <1>2 DEF StepAt, Routing, Live
  <2>2. r.att[x].stage # "terminal"  BY <1>2, <2>1 DEF StepAt, Routing, Live
  <2> QED  BY <1>1, <1>2, <2>1, <2>2 DEF Routing, Live, Open
<1>3. CASE x \notin Client
  <2>1. s.att[x] # NoValue /\ r.att[x] # NoValue /\ r.att[x].current
    BY <1>3, Roles DEF StepAt, Routing
  <2> QED  BY <1>1, <1>3, <2>1 DEF Routing, Open
<1> QED  BY <1>2, <1>3

LEMMA StepsCompose ==
  ASSUME NEW r \in Rooms, NEW s \in Rooms, NEW t \in Rooms, NEW x \in Socket,
         StepAt(r, s, x), StepAt(s, t, x), s.thrown => t.thrown
  PROVE  StepAt(r, t, x)
<1>1. t.sock[x] = r.sock[x] \/ (r.sock[x] = "open" /\ t.sock[x] = "closing")  BY DEF StepAt
<1>2. t.att[x] = NoValue <=> r.att[x] = NoValue  BY DEF StepAt
<1>3. x \in Control /\ r.att[x] # NoValue =>
        t.att[x].gen = r.att[x].gen /\ (t.att[x].current => r.att[x].current)
  BY DEF StepAt
<1>4. x \in Client /\ r.att[x] # NoValue =>
        /\ t.att[x].gen = r.att[x].gen /\ t.att[x].owner = r.att[x].owner
        /\ t.att[x].stage \in {r.att[x].stage, "terminal"}
  BY DEF StepAt
<1>5. Routing(t, x) => Routing(s, x)  BY StepRouting
<1>6. r.pend[x] # NoValue => t.pend[x] # NoValue \/ ~Routing(t, x)  BY <1>5 DEF StepAt
<1>7. t.pend[x] # NoValue /\ Routing(t, x) => t.thrown \/ r.pend[x] # NoValue
  BY <1>5 DEF StepAt
<1> QED  BY <1>1, <1>2, <1>3, <1>4, <1>6, <1>7 DEF StepAt

LEMMA LaterComposes ==
  ASSUME NEW r \in Rooms, NEW s \in Rooms, NEW t \in Rooms, Later(r, s), Later(s, t)
  PROVE  Later(r, t)
<1>1. \A x \in Socket : StepAt(r, t, x)  BY StepsCompose DEF Later
<1> QED  BY <1>1 DEF Later

LEMMA LaterSame ==
  ASSUME NEW r \in Rooms
  PROVE  Later(r, r)
<1>1. ASSUME NEW x \in Socket PROVE StepAt(r, r, x)  BY DEF StepAt
<1> QED  BY <1>1 DEF Later

LEMMA LaterRouting ==
  ASSUME NEW r \in Rooms, NEW s \in Rooms, Later(r, s), NEW x \in Socket, Routing(s, x)
  PROVE  Routing(r, x)
BY StepRouting DEF Later

-----------------------------------------------------------------------------
(* A record with the fields of a room is a room when its fields are of their  *)
(* types.                                                                     *)

AsRoom(q) ==
  [sock |-> q.sock, att |-> q.att, gen |-> q.gen, pend |-> q.pend, inactive |-> q.inactive,
   finalized |-> q.finalized, metric |-> q.metric, thrown |-> q.thrown]

LEMMA RoomFields ==
  ASSUME NEW a \in [Socket -> SockState], NEW b \in [Socket -> Attachment], NEW g \in Nat,
         NEW p \in [Socket -> Outcome \cup {NoValue}], NEW i \in SUBSET Control,
         NEW f \in SUBSET Client, NEW m \in [Client -> Seq(Outcome \cup {NoValue})],
         NEW h \in BOOLEAN
  PROVE  [sock |-> a, att |-> b, gen |-> g, pend |-> p, inactive |-> i, finalized |-> f,
          metric |-> m, thrown |-> h] \in Rooms
BY DEF Rooms

LEMMA RoomOf ==
  ASSUME NEW q, q = AsRoom(q), q.sock \in [Socket -> SockState], q.att \in [Socket -> Attachment],
         q.gen \in Nat, q.pend \in [Socket -> Outcome \cup {NoValue}],
         q.inactive \subseteq Control, q.finalized \subseteq Client,
         q.metric \in [Client -> Seq(Outcome \cup {NoValue})], q.thrown \in BOOLEAN
  PROVE  q \in Rooms
<1>1. q.inactive \in SUBSET Control /\ q.finalized \in SUBSET Client  OBVIOUS
<1>2. AsRoom(q) \in Rooms  BY <1>1, RoomFields, Zenon DEF AsRoom
<1> QED  BY <1>2, Zenon

LEMMA RoomTypes ==
  ASSUME NEW r \in Rooms
  PROVE  /\ r = AsRoom(r) /\ r.sock \in [Socket -> SockState] /\ r.att \in [Socket -> Attachment]
         /\ r.gen \in Nat /\ r.pend \in [Socket -> Outcome \cup {NoValue}]
         /\ r.inactive \subseteq Control /\ r.finalized \subseteq Client
         /\ r.metric \in [Client -> Seq(Outcome \cup {NoValue})] /\ r.thrown \in BOOLEAN
BY DEF Rooms, AsRoom

-----------------------------------------------------------------------------
(* Loops over sockets that do not touch each other *)

LEMMA EachAt ==
  ASSUME NEW r \in Rooms, NEW S \in SUBSET Socket, NEW done, DOMAIN done = S,
         \A x \in S : done[x] \in Rooms,
         NEW s, s = Each(r, done)
  PROVE  /\ s \in Rooms /\ s.gen = r.gen
         /\ \A x \in S : Alike(done[x], s, x)
         /\ \A x \in Socket \ S : Alike(r, s, x)
         /\ r.thrown => s.thrown
         /\ \A x \in S : done[x].thrown => s.thrown
         /\ s.thrown => r.thrown \/ \E x \in S : done[x].thrown
<1>1. /\ s.gen = r.gen
      /\ s.sock = [x \in Socket |-> IF x \in S THEN done[x].sock[x] ELSE r.sock[x]]
      /\ s.att = [x \in Socket |-> IF x \in S THEN done[x].att[x] ELSE r.att[x]]
      /\ s.pend = [x \in Socket |-> IF x \in S THEN done[x].pend[x] ELSE r.pend[x]]
  BY DEF Each, Rooms
<1>2. /\ s.inactive = {x \in Control : x \in IF x \in S THEN done[x].inactive ELSE r.inactive}
      /\ s.finalized = {c \in Client : c \in IF c \in S THEN done[c].finalized ELSE r.finalized}
      /\ s.metric = [c \in Client |-> IF c \in S THEN done[c].metric[c] ELSE r.metric[c]]
      /\ s.thrown = (r.thrown \/ \E x \in S : done[x].thrown)
  BY DEF Each, Rooms
<1>3. s = AsRoom(s)  BY DEF Each, Rooms, AsRoom
<1>4. /\ s.sock \in [Socket -> SockState] /\ s.att \in [Socket -> Attachment]
      /\ s.pend \in [Socket -> Outcome \cup {NoValue}]
  BY <1>1, Fields
<1>5. s.metric \in [Client -> Seq(Outcome \cup {NoValue})]
  BY <1>2, Fields
<1>6. s.inactive \subseteq Control /\ s.finalized \subseteq Client /\ s.thrown \in BOOLEAN
      /\ s.gen \in Nat
  BY <1>1, <1>2, Fields
<1>7. s \in Rooms  BY <1>3, <1>4, <1>5, <1>6, RoomOf
<1>8. ASSUME NEW x \in S PROVE Alike(done[x], s, x)  BY <1>1, <1>2, Roles DEF Alike
<1>9. ASSUME NEW x \in Socket \ S PROVE Alike(r, s, x)  BY <1>1, <1>2, Roles DEF Alike
<1> QED  BY <1>1, <1>2, <1>7, <1>8, <1>9

(* What each turn keeps of its own socket, the loop keeps. *)
LEMMA EachKeeps ==
  ASSUME NEW r \in Rooms, NEW S \in SUBSET Socket, NEW done, DOMAIN done = S,
         \A x \in S : done[x] \in Rooms /\ SaneAt(done[x], x) /\ StepAt(r, done[x], x)
  PROVE  /\ Each(r, done) \in Rooms /\ Later(r, Each(r, done))
         /\ \A x \in Socket : x \in S \/ SaneAt(r, x) => SaneAt(Each(r, done), x)
         /\ (\A x \in S : Calm(r, done[x])) => Calm(r, Each(r, done))
<1> DEFINE s == Each(r, done)
<1>1. r \in Rooms  OBVIOUS
<1>2. /\ s \in Rooms /\ s.gen = r.gen
      /\ \A x \in S : Alike(done[x], s, x)
      /\ \A x \in Socket \ S : Alike(r, s, x)
      /\ r.thrown => s.thrown
      /\ \A x \in S : done[x].thrown => s.thrown
      /\ s.thrown => r.thrown \/ \E x \in S : done[x].thrown
  BY <1>1, EachAt
<1> HIDE DEF s
<1>3. ASSUME NEW x \in Socket PROVE (x \in S \/ SaneAt(r, x) => SaneAt(s, x)) /\ StepAt(r, s, x)
  <2>1. s.inactive \subseteq Control /\ r.inactive \subseteq Control  BY <1>1, <1>2, Fields
  <2>2. CASE x \in S
    <3>1. done[x].inactive \subseteq Control  BY <2>2, Fields
    <3> QED  BY <1>2, <2>1, <2>2, <3>1, AlikeSane, AlikeStep
  <2>3. CASE x \notin S
    <3>1. StepAt(r, r, x)  BY <1>1, LaterSame DEF Later
    <3> QED  BY <1>2, <2>1, <2>3, <3>1, AlikeSane, AlikeStep
  <2> QED  BY <2>2, <2>3
<1>4. (\A x \in S : Calm(r, done[x])) => Calm(r, s)
  <2>1. s.thrown \in BOOLEAN /\ r.thrown \in BOOLEAN  BY <1>1, <1>2, Fields
  <2>2. ASSUME AllSound, \A x \in S : Calm(r, done[x]), ~r.thrown, s.thrown PROVE FALSE
    BY <1>2, <2>2 DEF Calm
  <2>3. ASSUME r.thrown, ~s.thrown PROVE FALSE  BY <1>2, <2>3
  <2> QED  BY <2>1, <2>2, <2>3 DEF Calm
<1>5. r.thrown => s.thrown  BY <1>2
<1>6. Later(r, s)  BY <1>2, <1>3, <1>5 DEF Later
<1> QED  BY <1>2, <1>3, <1>4, <1>6 DEF s

-----------------------------------------------------------------------------
(* One socket at a time *)

(* q differs from r in what it says of x only. *)
Only(r, q, x) == q \in Rooms /\ q.gen = r.gen /\ \A y \in Socket \ {x} : Alike(r, q, y)

LEMMA OnlySame ==
  ASSUME NEW r \in Rooms, NEW x
  PROVE  Only(r, r, x)
BY DEF Only, Alike

LEMMA OnlyComposes ==
  ASSUME NEW r, NEW q, NEW s, NEW x, Only(r, q, x), Only(q, s, x)
  PROVE  Only(r, s, x)
BY DEF Only, Alike

SockTo(r, x, v) == [r EXCEPT !.sock[x] = v]
AttTo(r, x, v) == [r EXCEPT !.att[x] = v]
PendTo(r, x, v) == [r EXCEPT !.pend[x] = v]

LEMMA WithSock ==
  ASSUME NEW r \in Rooms, NEW x \in Socket, NEW v \in SockState,
         NEW q, q = SockTo(r, x, v)
  PROVE  /\ Only(r, q, x) /\ q.sock[x] = v /\ q.att = r.att /\ q.pend = r.pend /\ q.inactive = r.inactive
         /\ q.finalized = r.finalized /\ q.metric = r.metric /\ q.thrown = r.thrown
BY DEF Only, Alike, Rooms, SockTo

LEMMA WithAtt ==
  ASSUME NEW r \in Rooms, NEW x \in Socket, NEW v \in Attachment,
         NEW q, q = AttTo(r, x, v)
  PROVE  /\ Only(r, q, x) /\ q.att[x] = v /\ q.sock = r.sock /\ q.pend = r.pend /\ q.inactive = r.inactive
         /\ q.finalized = r.finalized /\ q.metric = r.metric /\ q.thrown = r.thrown
BY DEF Only, Alike, Rooms, AttTo

LEMMA WithPend ==
  ASSUME NEW r \in Rooms, NEW x \in Socket, NEW v \in Outcome \cup {NoValue},
         NEW q, q = PendTo(r, x, v)
  PROVE  /\ Only(r, q, x) /\ q.pend[x] = v /\ q.sock = r.sock /\ q.att = r.att /\ q.inactive = r.inactive
         /\ q.finalized = r.finalized /\ q.metric = r.metric /\ q.thrown = r.thrown
BY DEF Only, Alike, Rooms, PendTo

LEMMA WithThrow ==
  ASSUME NEW r \in Rooms, NEW x,
         NEW q, q = Throw(r)
  PROVE  /\ Only(r, q, x) /\ q.sock = r.sock /\ q.att = r.att /\ q.pend = r.pend /\ q.inactive = r.inactive
         /\ q.finalized = r.finalized /\ q.metric = r.metric /\ q.thrown
BY DEF Only, Alike, Rooms, Throw

LEMMA CloseFacts ==
  ASSUME NEW r \in Rooms, NEW x \in Socket,
         NEW q, q = Close(r, x)
  PROVE  /\ Only(r, q, x) /\ q.att = r.att /\ q.pend = r.pend /\ q.inactive = r.inactive
         /\ q.finalized = r.finalized /\ q.metric = r.metric /\ q.thrown = r.thrown
         /\ q.sock[x] = r.sock[x] \/ (r.sock[x] = "open" /\ q.sock[x] = "closing")
         /\ Closes(r, x) => ~Open(q, x)
<1>1. CASE Open(r, x) /\ broken[x].close
  <2>1. q = SockTo(r, x, "closing")  BY <1>1 DEF Close, SockTo
  <2>2. "closing" \in SockState  BY DEF SockState
  <2> QED  BY <1>1, <2>1, <2>2, WithSock DEF Open
<1>2. CASE ~(Open(r, x) /\ broken[x].close)
  <2>1. Close(r, x) = r  BY <1>2 DEF Close
  <2> QED  BY <1>2, <2>1, OnlySame DEF Closes
<1> QED  BY <1>1, <1>2

-----------------------------------------------------------------------------
(* Ending a session *)

LEMMA TerminalFacts ==
  ASSUME NEW a \in ClientState, NEW o \in Outcome, NEW b \in BOOLEAN,
         NEW t, t = Terminal(a, o, b)
  PROVE  /\ t \in ClientState /\ t.stage = "terminal" /\ t.owner = a.owner /\ t.gen = a.gen
         /\ t.summary = b
<1>1. 0 \in 0..MaxAttempts  BY ConstantsAssumption
<1>2. CASE a.stage = "terminal"
  <2>1. Terminal(a, o, b) = [a EXCEPT !.summary = b]  BY <1>2 DEF Terminal
  <2> QED  BY <1>2, <2>1 DEF ClientState
<1>3. CASE a.stage # "terminal"
  <2>1. Terminal(a, o, b) = [a EXCEPT !.stage = "terminal", !.outcome = o, !.summary = b, !.attempts = 0]
    BY <1>3 DEF Terminal
  <2> QED  BY <1>1, <2>1 DEF ClientState
<1> QED  BY <1>2, <1>3

LEMMA ScrubFacts ==
  ASSUME NEW r \in Rooms, NEW c \in Client, r.att[c] \in ClientState, NEW o \in Outcome,
         NEW q, q = Scrub(r, c, o)
  PROVE  /\ Only(r, q, c) /\ q.sock = r.sock /\ q.pend = r.pend /\ q.inactive = r.inactive
         /\ q.finalized = r.finalized /\ q.metric = r.metric /\ q.thrown = r.thrown
         /\ q.att[c] \in ClientState /\ q.att[c].owner = r.att[c].owner /\ q.att[c].gen = r.att[c].gen
         /\ q.att[c].summary = r.att[c].summary
         /\ q.att[c].stage = IF Writes(c) THEN "terminal" ELSE r.att[c].stage
<1>1. PICK t : t = Terminal(r.att[c], o, r.att[c].summary)  OBVIOUS
<1>2. /\ t \in ClientState /\ t.stage = "terminal" /\ t.owner = r.att[c].owner
      /\ t.gen = r.att[c].gen /\ t.summary = r.att[c].summary
  <2>1. r.att[c].summary \in BOOLEAN  BY DEF ClientState
  <2> QED  BY <1>1, <2>1, TerminalFacts
<1>3. c \in Socket /\ t \in Attachment  BY <1>2, Roles DEF Attachment
<1>4. CASE Writes(c)
  <2>1. q = AttTo(r, c, t)
    <3>1. q = [r EXCEPT !.att[c] = Terminal(@, o, @.summary)]  BY <1>4 DEF Scrub
    <3> QED  BY <1>1, <3>1 DEF AttTo, Rooms
  <2> QED  BY <1>2, <1>3, <1>4, <2>1, WithAtt
<1>5. CASE ~Writes(c)
  <2>1. Scrub(r, c, o) = r  BY <1>5 DEF Scrub
  <2> QED  BY <1>5, <2>1, OnlySame
<1> QED  BY <1>4, <1>5

(* The metric is written, with the marker in the attachment. *)
EmitTo(r, c, o) ==
  [r EXCEPT !.att[c].summary = TRUE, !.finalized = @ \cup {c}, !.metric[c] = Append(@, o)]

LEMMA WithEmit ==
  ASSUME NEW r \in Rooms, NEW c \in Client, r.att[c] \in ClientState, NEW o \in Outcome \cup {NoValue},
         NEW q, q = EmitTo(r, c, o)
  PROVE  /\ Only(r, q, c) /\ q.sock = r.sock /\ q.pend = r.pend /\ q.inactive = r.inactive
         /\ q.thrown = r.thrown
         /\ q.att[c] \in ClientState /\ q.att[c].owner = r.att[c].owner /\ q.att[c].gen = r.att[c].gen
         /\ q.att[c].stage = r.att[c].stage
         /\ q.att[c].summary /\ q.metric[c] = Append(r.metric[c], o)
<1>1. c \in Socket  BY Roles
<1>2. PICK t : t = [r.att[c] EXCEPT !.summary = TRUE]  OBVIOUS
<1>3. /\ t \in ClientState /\ t.owner = r.att[c].owner /\ t.gen = r.att[c].gen
      /\ t.stage = r.att[c].stage /\ t.summary = TRUE
  BY <1>2 DEF ClientState
<1>4. PICK m : m = Append(r.metric[c], o) /\ m \in Seq(Outcome \cup {NoValue})
  <2>1. PICK M : M = Outcome \cup {NoValue}  OBVIOUS
  <2>2. r.metric[c] \in Seq(M) /\ o \in M  BY <2>1, Fields
  <2>3. Append(r.metric[c], o) \in Seq(M)  BY <2>2
  <2> QED  BY <2>1, <2>3
<1>5. q = [r EXCEPT !.att[c] = t, !.finalized = @ \cup {c}, !.metric[c] = m]
  BY <1>2, <1>4 DEF EmitTo, Rooms
<1>6. q \in Rooms
  <2>1. PICK M : M = Seq(Outcome \cup {NoValue})  OBVIOUS
  <2>2. m \in M /\ r.metric \in [Client -> M]  BY <1>4, <2>1 DEF Rooms
  <2>3. [r.metric EXCEPT ![c] = m] \in [Client -> M]  BY <2>2
  <2>4. t \in Attachment  BY <1>3 DEF Attachment
  <2>5. q.metric = [r.metric EXCEPT ![c] = m]  BY <1>5 DEF Rooms
  <2>6. q.att \in [Socket -> Attachment]  BY <1>1, <1>5, <2>4 DEF Rooms
  <2>7. q.finalized \in SUBSET Client  BY <1>5 DEF Rooms
  <2>8. q.metric \in [Client -> Seq(Outcome \cup {NoValue})]  BY <2>1, <2>3, <2>5
  <2>9. q = [r EXCEPT !.att = q.att, !.finalized = q.finalized, !.metric = q.metric]
    BY <1>5 DEF Rooms
  <2>10. \A a \in [Socket -> Attachment], f \in SUBSET Client,
            m2 \in [Client -> Seq(Outcome \cup {NoValue})] :
           [r EXCEPT !.att = a, !.finalized = f, !.metric = m2] \in Rooms
    BY DEF Rooms
  <2>11. [r EXCEPT !.att = q.att, !.finalized = q.finalized, !.metric = q.metric] \in Rooms
    BY <2>6, <2>7, <2>8, <2>10, Zenon
  <2> QED  BY <2>9, <2>11, Zenon
<1>7. /\ q.sock = r.sock /\ q.pend = r.pend /\ q.inactive = r.inactive /\ q.thrown = r.thrown
      /\ q.gen = r.gen /\ q.att[c] = t /\ q.metric[c] = m
  BY <1>1, <1>5 DEF Rooms
<1>8. \A y \in Socket \ {c} : Alike(r, q, y)  BY <1>5 DEF Rooms, Alike
<1> QED  BY <1>3, <1>4, <1>6, <1>7, <1>8 DEF Only

LEMMA Rewriting ==
  ASSUME NEW x, Rewrites(x)
  PROVE  Writes(x)
BY DEF Rewrites, Writes

(* The summary is written once, and only when it was not yet known. *)
Summing(r, s, c, o) ==
  \/ s.att[c].summary = r.att[c].summary /\ s.finalized = r.finalized /\ s.metric = r.metric
  \/ /\ ~SummaryKnown(r, c) /\ SummaryWrites(r, c) /\ s.att[c].summary
     /\ s.metric[c] = Append(r.metric[c], o)

LEMMA FailWithFacts ==
  ASSUME NEW r \in Rooms, NEW c \in Client, r.att[c] \in ClientState, NEW o \in Outcome,
         NEW s, s = FailWith(r, c, o)
  PROVE  /\ Only(r, s, c) /\ s.inactive = r.inactive
         /\ s.att[c] \in ClientState /\ s.att[c].owner = r.att[c].owner /\ s.att[c].gen = r.att[c].gen
         /\ s.att[c].stage = IF Writes(c) THEN "terminal" ELSE r.att[c].stage
         /\ s.sock[c] = r.sock[c] \/ (r.sock[c] = "open" /\ s.sock[c] = "closing")
         /\ Closes(r, c) => ~Open(s, c)
         /\ s.pend[c] = IF Settled(r, c) THEN NoValue ELSE o
         /\ (Settled(r, c) \/ Closes(r, c)) => s.thrown = r.thrown
         /\ (~Settled(r, c) /\ ~Closes(r, c)) => s.thrown
         /\ Summing(r, s, c, o)
<1>1. c \in Socket  BY Roles
<1>2. PICK p : p = Scrub(r, c, o)  OBVIOUS
<1>3. /\ Only(r, p, c) /\ p.sock = r.sock /\ p.pend = r.pend /\ p.inactive = r.inactive
      /\ p.finalized = r.finalized /\ p.metric = r.metric /\ p.thrown = r.thrown
      /\ p.att[c] \in ClientState /\ p.att[c].owner = r.att[c].owner /\ p.att[c].gen = r.att[c].gen
      /\ p.att[c].summary = r.att[c].summary
      /\ p.att[c].stage = IF Writes(c) THEN "terminal" ELSE r.att[c].stage
  BY <1>2, ScrubFacts
<1>4. p \in Rooms  BY <1>3 DEF Only
<1>5. PICK q : q = EmitTerminalMetric(p, c, o, SummaryWrites(r, c))  OBVIOUS
<1>6. SummaryKnown(p, c) = SummaryKnown(r, c)  BY <1>3 DEF SummaryKnown
<1>7. /\ Only(p, q, c) /\ q.sock = p.sock /\ q.pend = p.pend /\ q.inactive = p.inactive
      /\ q.thrown = p.thrown
      /\ q.att[c] \in ClientState /\ q.att[c].owner = p.att[c].owner /\ q.att[c].gen = p.att[c].gen
      /\ q.att[c].stage = p.att[c].stage
      /\ \/ q = p
         \/ /\ ~SummaryKnown(r, c) /\ SummaryWrites(r, c) /\ q.att[c].summary
            /\ q.metric[c] = Append(p.metric[c], o)
  <2>1. CASE SummaryKnown(p, c) \/ ~SummaryWrites(r, c)
    <3>1. q = p  BY <1>5, <2>1 DEF EmitTerminalMetric
    <3> QED  BY <1>3, <1>4, <3>1, OnlySame
  <2>2. CASE ~(SummaryKnown(p, c) \/ ~SummaryWrites(r, c))
    <3>1. q = EmitTo(p, c, o)  BY <1>5, <2>2 DEF EmitTerminalMetric, EmitTo
    <3>2. o \in Outcome \cup {NoValue}  OBVIOUS
    <3>3. p.att[c] \in ClientState  BY <1>3
    <3>4. /\ Only(p, q, c) /\ q.sock = p.sock /\ q.pend = p.pend /\ q.inactive = p.inactive
          /\ q.thrown = p.thrown
          /\ q.att[c] \in ClientState /\ q.att[c].owner = p.att[c].owner /\ q.att[c].gen = p.att[c].gen
          /\ q.att[c].stage = p.att[c].stage
          /\ q.att[c].summary /\ q.metric[c] = Append(p.metric[c], o)
      BY <1>4, <3>1, <3>2, <3>3, WithEmit
    <3> QED  BY <1>6, <2>2, <3>4
  <2> QED  BY <2>1, <2>2
<1>8. q \in Rooms  BY <1>7 DEF Only
<1>9. PICK u : u = Close(q, c)  OBVIOUS
<1>10. /\ Only(q, u, c) /\ u.att = q.att /\ u.pend = q.pend /\ u.inactive = q.inactive
       /\ u.finalized = q.finalized /\ u.metric = q.metric /\ u.thrown = q.thrown
       /\ u.sock[c] = q.sock[c] \/ (q.sock[c] = "open" /\ u.sock[c] = "closing")
       /\ Closes(q, c) => ~Open(u, c)
  BY <1>1, <1>8, <1>9, CloseFacts
<1>11. u \in Rooms  BY <1>10 DEF Only
<1>12. Closes(q, c) = Closes(r, c)  BY <1>3, <1>7 DEF Closes, Open
<1>13. PICK v \in Outcome \cup {NoValue} : v = IF Settled(r, c) THEN NoValue ELSE o  OBVIOUS
<1>14. PICK e : e = PendTo(u, c, v)  OBVIOUS
<1>15. /\ Only(u, e, c) /\ e.pend[c] = v /\ e.sock = u.sock /\ e.att = u.att /\ e.inactive = u.inactive
       /\ e.finalized = u.finalized /\ e.metric = u.metric /\ e.thrown = u.thrown
  BY <1>1, <1>11, <1>14, WithPend
<1>16. e \in Rooms  BY <1>15 DEF Only
<1>17. s = IF ~Settled(r, c) /\ ~Closes(r, c) THEN Throw(e) ELSE e
  <2>1. u.thrown \in BOOLEAN  BY <1>11, Fields
  <2>2. s = [Close(EmitTerminalMetric(Scrub(r, c, o), c, o, SummaryWrites(r, c)), c) EXCEPT
               !.pend[c] = IF Settled(r, c) THEN NoValue ELSE o,
               !.thrown = @ \/ (~Settled(r, c) /\ ~Closes(r, c))]
    BY DEF FailWith
  <2>3. s = [u EXCEPT !.pend[c] = v, !.thrown = @ \/ (~Settled(r, c) /\ ~Closes(r, c))]
    BY <1>2, <1>5, <1>9, <1>13, <2>2, Zenon
  <2>4. CASE ~Settled(r, c) /\ ~Closes(r, c)
    <3>1. s = [u EXCEPT !.pend[c] = v, !.thrown = TRUE]  BY <2>3, <2>4
    <3>2. Throw(e) = [u EXCEPT !.pend[c] = v, !.thrown = TRUE]  BY <1>11, <1>14 DEF PendTo, Throw, Rooms
    <3> QED  BY <2>4, <3>1, <3>2
  <2>5. CASE ~(~Settled(r, c) /\ ~Closes(r, c))
    <3>1. s = [u EXCEPT !.pend[c] = v, !.thrown = u.thrown]  BY <1>11, <2>1, <2>3, <2>5 DEF Rooms
    <3>2. e = [u EXCEPT !.pend[c] = v, !.thrown = u.thrown]  BY <1>11, <1>14, <2>1 DEF PendTo, Rooms
    <3> QED  BY <2>5, <3>1, <3>2
  <2> QED  BY <2>4, <2>5
<1>18. /\ Only(u, s, c) /\ s.pend[c] = v /\ s.sock = u.sock /\ s.att = u.att /\ s.inactive = u.inactive
       /\ s.finalized = u.finalized /\ s.metric = u.metric
       /\ (Settled(r, c) \/ Closes(r, c)) => s.thrown = u.thrown
       /\ (~Settled(r, c) /\ ~Closes(r, c)) => s.thrown
  <2>1. CASE ~Settled(r, c) /\ ~Closes(r, c)
    <3>1. s = Throw(e)  BY <1>17, <2>1
    <3>2. /\ Only(e, s, c) /\ s.sock = e.sock /\ s.att = e.att /\ s.pend = e.pend /\ s.inactive = e.inactive
          /\ s.finalized = e.finalized /\ s.metric = e.metric /\ s.thrown
      BY <1>16, <3>1, WithThrow
    <3>3. Only(u, s, c)  BY <1>15, <3>2, OnlyComposes
    <3> QED  BY <1>15, <2>1, <3>2, <3>3
  <2>2. CASE ~(~Settled(r, c) /\ ~Closes(r, c))
    <3>1. s = e  BY <1>17, <2>2
    <3> QED  BY <1>15, <2>2, <3>1
  <2> QED  BY <2>1, <2>2
<1>19. Only(r, s, c)
  <2>1. Only(r, q, c)  BY <1>3, <1>7, OnlyComposes
  <2>2. Only(r, u, c)  BY <1>10, <2>1, OnlyComposes
  <2> QED  BY <1>18, <2>2, OnlyComposes
<1>20. Closes(r, c) => ~Open(s, c)  BY <1>10, <1>12, <1>18 DEF Open
<1>21. s.sock[c] = r.sock[c] \/ (r.sock[c] = "open" /\ s.sock[c] = "closing")
  BY <1>3, <1>7, <1>10, <1>18
<1>22. /\ s.inactive = r.inactive
       /\ s.att[c] \in ClientState /\ s.att[c].owner = r.att[c].owner /\ s.att[c].gen = r.att[c].gen
       /\ s.att[c].stage = IF Writes(c) THEN "terminal" ELSE r.att[c].stage
  BY <1>3, <1>7, <1>10, <1>18
<1>23. Summing(r, s, c, o)
  BY <1>3, <1>7, <1>10, <1>18 DEF Summing
<1>24. u.thrown = r.thrown  BY <1>3, <1>7, <1>10
<1> QED  BY <1>13, <1>18, <1>19, <1>20, <1>21, <1>22, <1>23, <1>24

LEMMA FirstOutcomeIs ==
  ASSUME NEW r \in Rooms, NEW c \in Client, r.att[c] \in ClientState, NEW o \in Outcome
  PROVE  FirstOutcome(r, c, o) \in Outcome
<1>1. r.att[c].outcome \in Outcome \cup {NoValue}  BY DEF ClientState
<1>2. r.pend[c] \in Outcome \cup {NoValue}  BY Roles, Fields
<1> QED  BY <1>1, <1>2 DEF FirstOutcome

(* A session that is ended is over, or pending; and over unless that was      *)
(* reported.                                                                  *)
Quelled(s, c) == Routing(s, c) => s.pend[c] # NoValue
EndedAt(r, s, x) ==
  /\ Only(r, s, x) /\ SaneAt(s, x) /\ StepAt(r, s, x)
  /\ r.thrown => s.thrown
  /\ Calm(r, s)

LEMMA FailClientKeeps ==
  ASSUME NEW r \in Rooms, NEW c \in Client, SaneAt(r, c), r.att[c] # NoValue, NEW o \in Outcome,
         NEW s, s = FailClient(r, c, o)
  PROVE  /\ EndedAt(r, s, c) /\ s.inactive = r.inactive
         /\ Quelled(s, c) /\ (~s.thrown => ~Routing(s, c))
         /\ Writes(c) => ~Live(s.att[c])
<1>1. r.att[c] \in ClientState /\ c \in Socket /\ c \notin Control  BY Roles DEF SaneAt
<1>2. PICK f \in Outcome : f = FirstOutcome(r, c, o)  BY <1>1, FirstOutcomeIs
<1>3. s = FailWith(r, c, f)  BY <1>2 DEF FailClient
<1>4. /\ Only(r, s, c) /\ s.inactive = r.inactive
      /\ s.att[c] \in ClientState /\ s.att[c].owner = r.att[c].owner /\ s.att[c].gen = r.att[c].gen
      /\ s.att[c].stage = IF Writes(c) THEN "terminal" ELSE r.att[c].stage
      /\ s.sock[c] = r.sock[c] \/ (r.sock[c] = "open" /\ s.sock[c] = "closing")
      /\ Closes(r, c) => ~Open(s, c)
      /\ s.pend[c] = IF Settled(r, c) THEN NoValue ELSE f
      /\ (Settled(r, c) \/ Closes(r, c)) => s.thrown = r.thrown
      /\ (~Settled(r, c) /\ ~Closes(r, c)) => s.thrown
      /\ Summing(r, s, c, f)
  BY <1>1, <1>3, FailWithFacts
<1>5. s \in Rooms  BY <1>4 DEF Only
<1>6. s.att[c] # NoValue /\ f # NoValue  BY <1>4, NoValueAssumption
<1>7. s.thrown \in BOOLEAN /\ r.thrown \in BOOLEAN  BY <1>5, Fields
<1>8. Live(s.att[c]) => ~Writes(c) /\ Live(r.att[c])  BY <1>4, <1>6 DEF Live
<1>9. Settled(r, c) => ~Live(s.att[c])
  <2>1. ASSUME Live(s.att[c]), Settled(r, c) PROVE FALSE
    <3>1. ~Writes(c) /\ r.att[c].stage # "terminal" /\ Live(r.att[c])  BY <1>8, <2>1 DEF Live
    <3>2. ~Ended(r, c)  BY <3>1 DEF Ended
    <3>3. SummaryKnown(r, c)  BY <2>1, <3>1, <3>2 DEF Settled
    <3> QED  BY <3>1, <3>3 DEF SaneAt, SummaryKnown
  <2> QED  BY <2>1
<1>10. Quelled(s, c)  BY <1>1, <1>4, <1>6, <1>9 DEF Quelled, Routing
<1>11. ~s.thrown => ~Routing(s, c)  BY <1>1, <1>4, <1>9 DEF Routing
<1>12. Live(s.att[c]) => s.att[c].summary = r.att[c].summary /\ s.finalized = r.finalized
  <2>1. ASSUME Live(s.att[c]), SummaryWrites(r, c) PROVE FALSE
    <3>1. ~Writes(c) /\ r.att[c].stage # "terminal"  BY <1>8, <2>1 DEF Live
    <3>2. ~Ended(r, c)  BY <3>1 DEF Ended
    <3> QED  BY <2>1, <3>1, <3>2, Rewriting DEF SummaryWrites
  <2> QED  BY <1>4, <2>1 DEF Summing
<1>13. Live(s.att[c]) => ~s.att[c].summary /\ c \notin s.finalized  BY <1>8, <1>12 DEF SaneAt
<1>14. Len(s.metric[c]) <= 1 /\ (s.metric[c] # <<>> => s.att[c].summary)
  <2>1. CASE s.att[c].summary = r.att[c].summary /\ s.finalized = r.finalized /\ s.metric = r.metric
    BY <1>1, <2>1 DEF SaneAt
  <2>2. CASE ~SummaryKnown(r, c) /\ s.att[c].summary /\ s.metric[c] = Append(r.metric[c], f)
    <3>1. r.metric[c] = <<>>  BY <1>1, <2>2 DEF SaneAt, SummaryKnown
    <3>2. Len(Append(<<>>, f)) = 1  OBVIOUS
    <3> QED  BY <2>2, <3>1, <3>2
  <2> QED  BY <1>4, <2>1, <2>2 DEF Summing
<1>15. r.sock[c] # "none" /\ s.sock[c] # "none"  BY <1>4 DEF SaneAt
<1>16. SaneAt(s, c)
  <2>1. c \notin s.inactive  BY <1>1, <1>5, Fields
  <2> QED  BY <1>1, <1>4, <1>6, <1>13, <1>14, <1>15, <2>1 DEF SaneAt
<1>17. StepAt(r, s, c)
  <2>1. s.pend[c] # NoValue /\ Routing(s, c) => s.thrown  BY <1>11
  <2>2. r.pend[c] # NoValue => s.pend[c] # NoValue \/ ~Routing(s, c)  BY <1>10 DEF Quelled
  <2> QED  BY <1>1, <1>4, <1>6, <2>1, <2>2 DEF StepAt
<1>18. Calm(r, s)
  <2>1. AllSound => Writes(c)  BY <1>1 DEF AllSound, Writes, Sound
  <2> QED  BY <1>4, <2>1 DEF Settled, Calm
<1>19. Writes(c) => ~Live(s.att[c])  BY <1>8
<1>20. r.thrown => s.thrown  BY <1>4, <1>7
<1> QED  BY <1>4, <1>10, <1>11, <1>16, <1>17, <1>18, <1>19, <1>20 DEF EndedAt

LEMMA CloseKeeps ==
  ASSUME NEW r \in Rooms, NEW x \in Socket, SaneAt(r, x),
         NEW s, s = Close(r, x)
  PROVE  /\ EndedAt(r, s, x) /\ s.att = r.att /\ s.pend = r.pend /\ s.inactive = r.inactive
         /\ s.thrown = r.thrown
         /\ Closes(r, x) => ~Open(s, x)
<1>1. /\ Only(r, s, x) /\ s.att = r.att /\ s.pend = r.pend /\ s.inactive = r.inactive
      /\ s.finalized = r.finalized /\ s.metric = r.metric /\ s.thrown = r.thrown
      /\ s.sock[x] = r.sock[x] \/ (r.sock[x] = "open" /\ s.sock[x] = "closing")
      /\ Closes(r, x) => ~Open(s, x)
  BY CloseFacts
<1>2. Routing(s, x) => Routing(r, x)  BY <1>1 DEF Routing, Open
<1>3. SaneAt(s, x)  BY <1>1, <1>2 DEF SaneAt
<1>4. StepAt(r, s, x)  BY <1>1, <1>2 DEF StepAt
<1> QED  BY <1>1, <1>3, <1>4 DEF EndedAt, Calm

LEMMA CloseOrThrowKeeps ==
  ASSUME NEW r \in Rooms, NEW x \in Socket, SaneAt(r, x),
         NEW s, s = CloseOrThrow(r, x)
  PROVE  /\ EndedAt(r, s, x) /\ s.att = r.att /\ s.pend = r.pend /\ s.inactive = r.inactive
         /\ ~s.thrown => ~Open(s, x)
<1>1. PICK q : q = Close(r, x)  OBVIOUS
<1>2. /\ EndedAt(r, q, x) /\ q.att = r.att /\ q.pend = r.pend /\ q.inactive = r.inactive
      /\ q.thrown = r.thrown
      /\ Closes(r, x) => ~Open(q, x)
  BY <1>1, CloseKeeps
<1>3. q \in Rooms  BY <1>2 DEF EndedAt, Only
<1>4. q.thrown \in BOOLEAN  BY <1>3, Fields
<1>5. s = [q EXCEPT !.thrown = @ \/ ~Closes(r, x)]  BY <1>1 DEF CloseOrThrow
<1>6. CASE Closes(r, x)
  <2>1. s = q  BY <1>3, <1>4, <1>5, <1>6 DEF Rooms
  <2> QED  BY <1>2, <1>6, <2>1
<1>7. CASE ~Closes(r, x)
  <2>1. s = Throw(q)  BY <1>3, <1>5, <1>7 DEF Rooms, Throw
  <2>2. /\ Only(q, s, x) /\ s.sock = q.sock /\ s.att = q.att /\ s.pend = q.pend /\ s.inactive = q.inactive
        /\ s.finalized = q.finalized /\ s.metric = q.metric /\ s.thrown
    BY <1>3, <2>1, WithThrow
  <2>3. ~AllSound  BY <1>7 DEF AllSound, Closes, Sound
  <2>4. Only(r, s, x)  BY <1>2, <2>2, OnlyComposes DEF EndedAt
  <2>5. Routing(s, x) <=> Routing(q, x)  BY <2>2 DEF Routing, Open
  <2>6. SaneAt(s, x)  BY <1>2, <2>2, <2>5 DEF EndedAt, SaneAt
  <2>7. StepAt(r, s, x)  BY <1>2, <2>2, <2>5 DEF EndedAt, StepAt
  <2> QED  BY <1>2, <2>2, <2>3, <2>4, <2>6, <2>7 DEF EndedAt, Calm
<1> QED  BY <1>6, <1>7

LEMMA EndClientKeeps ==
  ASSUME NEW r \in Rooms, NEW c \in Client, SaneAt(r, c), NEW o \in Outcome,
         NEW s, s = EndClient(r, c, o)
  PROVE  /\ EndedAt(r, s, c) /\ s.inactive = r.inactive
         /\ Quelled(s, c) /\ (~s.thrown => ~Routing(s, c))
         /\ Writes(c) => ~Live(s.att[c])
<1>1. c \in Socket  BY Roles
<1>2. CASE r.att[c] = NoValue
  <2>1. s = CloseOrThrow(r, c)  BY <1>2 DEF EndClient
  <2>2. EndedAt(r, s, c) /\ s.att = r.att /\ s.inactive = r.inactive
    BY <1>1, <2>1, CloseOrThrowKeeps
  <2>3. ~Live(s.att[c]) /\ ~Routing(s, c)  BY <1>2, <2>2 DEF Live, Routing
  <2> QED  BY <2>2, <2>3 DEF Quelled
<1>3. CASE r.att[c] # NoValue
  <2>1. s = FailClient(r, c, o)  BY <1>3 DEF EndClient
  <2> QED  BY <1>3, <2>1, FailClientKeeps
<1> QED  BY <1>2, <1>3

(* Every session of a set is ended. *)
AllQuelled(s) == \A c \in Client : Quelled(s, c)
ControlsAlike(r, s) == s.gen = r.gen /\ \A x \in Control : Alike(r, s, x)
LEMMA EndClientsKeeps ==
  ASSUME NEW r \in Rooms, \A c \in Client : SaneAt(r, c), NEW S \in SUBSET Client, NEW o \in Outcome,
         NEW s, s = EndClients(r, S, o)
  PROVE  /\ s \in Rooms /\ (\A x \in Socket : SaneAt(r, x) => SaneAt(s, x))
         /\ Later(r, s) /\ Calm(r, s) /\ ControlsAlike(r, s)
         /\ \A c \in S : Quelled(s, c) /\ (Writes(c) => ~Live(s.att[c]))
         /\ ~s.thrown => \A c \in S : ~Routing(s, c)
<1> DEFINE done == [c \in S |-> EndClient(r, c, o)]
<1>1. DOMAIN done = S /\ S \in SUBSET Socket /\ r \in Rooms  BY Roles
<1>2. ASSUME NEW c \in S
      PROVE  /\ EndedAt(r, done[c], c)
             /\ Quelled(done[c], c) /\ (~done[c].thrown => ~Routing(done[c], c))
             /\ Writes(c) => ~Live(done[c].att[c])
  <2>1. PICK q : q = EndClient(r, c, o)  OBVIOUS
  <2>2. c \in Client /\ SaneAt(r, c)  OBVIOUS
  <2>3. /\ EndedAt(r, q, c) /\ Quelled(q, c) /\ (~q.thrown => ~Routing(q, c))
        /\ Writes(c) => ~Live(q.att[c])
    BY <1>1, <2>1, <2>2, EndClientKeeps
  <2>4. done[c] = q  BY <2>1
  <2> QED  BY <2>3, <2>4
<1>3. s = Each(r, done)  BY DEF EndClients
<1> HIDE DEF done
<1>4. \A x \in S : done[x] \in Rooms /\ SaneAt(done[x], x) /\ StepAt(r, done[x], x) /\ Calm(r, done[x])
  BY <1>2 DEF EndedAt, Only
<1>5. s \in Rooms /\ (\A x \in Socket : SaneAt(r, x) => SaneAt(s, x)) /\ Later(r, s) /\ Calm(r, s)
  BY <1>1, <1>3, <1>4, EachKeeps
<1>6. /\ s.gen = r.gen
      /\ \A x \in S : Alike(done[x], s, x)
      /\ \A x \in Socket \ S : Alike(r, s, x)
      /\ \A x \in S : done[x].thrown => s.thrown
  BY <1>1, <1>3, <1>4, EachAt
<1>7. ControlsAlike(r, s)  BY <1>6, Roles DEF ControlsAlike
<1>8. ASSUME NEW c \in S PROVE /\ Quelled(s, c) /\ (Writes(c) => ~Live(s.att[c]))
                               /\ ~s.thrown => ~Routing(s, c)
  <2>1. Alike(done[c], s, c)  BY <1>6
  <2>2. Routing(s, c) <=> Routing(done[c], c)  BY <2>1, AlikeRouting
  <2>3. Quelled(s, c)  BY <1>2, <2>1, <2>2 DEF Quelled, Alike
  <2>4. Writes(c) => ~Live(s.att[c])  BY <1>2, <2>1 DEF Alike
  <2>5. ~s.thrown => ~done[c].thrown  BY <1>6
  <2> QED  BY <1>2, <2>2, <2>3, <2>4, <2>5
<1> QED  BY <1>5, <1>7, <1>8

LEMMA CloseAllClientsKeeps ==
  ASSUME NEW r \in Rooms, \A c \in Client : SaneAt(r, c), NEW o \in Outcome,
         NEW s, s = CloseAllClients(r, o)
  PROVE  /\ s \in Rooms /\ (\A x \in Socket : SaneAt(r, x) => SaneAt(s, x))
         /\ Later(r, s) /\ Calm(r, s) /\ ControlsAlike(r, s) /\ AllQuelled(s)
         /\ ~s.thrown => \A c \in Client : ~Routing(s, c)
         /\ \A c \in Connected(r, Client) : Writes(c) => ~Live(s.att[c])
<1>1. PICK S \in SUBSET Client : S = Connected(r, Client)  BY DEF Connected
<1>2. s = EndClients(r, S, o)  BY <1>1 DEF CloseAllClients
<1>3. /\ s \in Rooms /\ (\A x \in Socket : SaneAt(r, x) => SaneAt(s, x))
      /\ Later(r, s) /\ Calm(r, s) /\ ControlsAlike(r, s)
      /\ \A c \in S : Quelled(s, c) /\ (Writes(c) => ~Live(s.att[c]))
      /\ ~s.thrown => \A c \in S : ~Routing(s, c)
  BY <1>2, EndClientsKeeps
<1>4. ASSUME NEW c \in Client, c \notin S PROVE ~Routing(s, c) /\ ~Open(r, c)
  <2>1. ~Open(r, c)  BY <1>1, <1>4 DEF Connected, Open
  <2>2. s.sock[c] # "open"  BY <1>3, <2>1, Roles DEF Later, StepAt, Open
  <2> QED  BY <2>1, <2>2 DEF Routing, Open
<1>5. \A c \in Connected(r, Client) : Writes(c) => ~Live(s.att[c])  BY <1>1, <1>3
<1> QED  BY <1>3, <1>4, <1>5 DEF AllQuelled, Quelled

-----------------------------------------------------------------------------
(* Sessions and their controls *)

(* The control of the session is current, and is not to be retired. *)
Held(r, c) == r.att[c].owner \in CurrentOpen(r) /\ r.pend[r.att[c].owner] = NoValue
(* A session that goes on, and that is not to be ended, keeps its control. *)
Kept(r, s) ==
  \A c \in Client : Routing(s, c) /\ s.pend[c] = NoValue /\ Held(r, c) => Held(s, c)
(* What a handler makes of a room *)
Handles(r, s) == Sane(s) /\ Later(r, s) /\ Kept(r, s)

LEMMA KeptComposes ==
  ASSUME NEW r, NEW s \in Rooms, NEW t \in Rooms, Later(s, t), Kept(r, s), Kept(s, t)
  PROVE  Kept(r, t)
<1>1. ASSUME NEW c \in Client, Routing(t, c), t.pend[c] = NoValue, Held(r, c) PROVE Held(t, c)
  <2>1. c \in Socket  BY Roles
  <2>2. Routing(s, c)  BY <1>1, <2>1, LaterRouting
  <2>3. s.pend[c] = NoValue  BY <1>1, <2>1 DEF Later, StepAt
  <2> QED  BY <1>1, <2>2, <2>3 DEF Kept
<1> QED  BY <1>1 DEF Kept

LEMMA QuelledKept ==
  ASSUME NEW r, NEW s, AllQuelled(s)
  PROVE  Kept(r, s)
BY DEF AllQuelled, Quelled, Kept

LEMMA QuelledLater ==
  ASSUME NEW s \in Rooms, NEW t \in Rooms, AllQuelled(s), Later(s, t)
  PROVE  AllQuelled(t)
<1>1. ASSUME NEW c \in Client, Routing(t, c) PROVE t.pend[c] # NoValue
  <2>1. c \in Socket  BY Roles
  <2>2. Routing(s, c)  BY <1>1, <2>1, LaterRouting
  <2>3. s.pend[c] # NoValue  BY <2>2 DEF AllQuelled, Quelled
  <2> QED  BY <1>1, <2>1, <2>3 DEF Later, StepAt
<1> QED  BY <1>1 DEF AllQuelled, Quelled

LEMMA AlikeCurrent ==
  ASSUME NEW r, NEW s, ControlsAlike(r, s)
  PROVE  CurrentOpen(s) = CurrentOpen(r)
BY DEF ControlsAlike, CurrentOpen, Alike, Open

(* What leaves the current controls current keeps the sessions. *)
SameAt(r, s, y) == s.sock[y] = r.sock[y] /\ s.att[y] = r.att[y] /\ s.pend[y] = r.pend[y]
LEMMA SameKept ==
  ASSUME NEW r, NEW s, Later(r, s), \A y \in CurrentOpen(r) : SameAt(r, s, y)
  PROVE  Kept(r, s)
<1>1. ASSUME NEW c \in Client, Routing(s, c), Held(r, c) PROVE Held(s, c)
  <2>1. c \in Socket /\ s.att[c] # NoValue  BY <1>1, Roles DEF Routing, Live
  <2>2. s.att[c].owner = r.att[c].owner  BY <2>1 DEF Later, StepAt
  <2>3. PICK y \in CurrentOpen(r) : y = r.att[c].owner  BY <1>1 DEF Held
  <2>4. y \in CurrentOpen(s)  BY DEF CurrentOpen, SameAt, Open, Later
  <2>5. s.pend[y] = r.pend[y]  BY DEF SameAt
  <2> QED  BY <1>1, <2>2, <2>3, <2>4, <2>5 DEF Held
<1> QED  BY <1>1 DEF Kept

LEMMA CurrentKept ==
  ASSUME NEW r, NEW s, Later(r, s), \A y \in CurrentOpen(r) : Alike(r, s, y)
  PROVE  Kept(r, s)
BY SameKept DEF Alike, SameAt

LEMMA AlikeKept ==
  ASSUME NEW r, NEW s, ControlsAlike(r, s), Later(r, s)
  PROVE  Kept(r, s)
BY CurrentKept DEF ControlsAlike, CurrentOpen

LEMMA HandlesSame ==
  ASSUME NEW r, Sane(r)
  PROVE  Handles(r, r)
BY LaterSame DEF Handles, Sane, Kept

LEMMA HandlesCompose ==
  ASSUME NEW r, NEW s, NEW t, Sane(r), Handles(r, s), Handles(s, t)
  PROVE  Handles(r, t)
BY LaterComposes, KeptComposes DEF Handles, Sane

LEMMA ControlsAlikeCompose ==
  ASSUME NEW r, NEW s, NEW t, ControlsAlike(r, s), ControlsAlike(s, t)
  PROVE  ControlsAlike(r, t)
BY DEF ControlsAlike, Alike

-----------------------------------------------------------------------------
(* Deadlines *)

LEMMA ExpireClientKeeps ==
  ASSUME NEW r \in Rooms, NEW c \in Client, SaneAt(r, c),
         NEW s, s = ExpireClient(r, c)
  PROVE  /\ EndedAt(r, s, c) /\ s.inactive = r.inactive
         /\ ~s.thrown /\ r.pend[c] # NoValue => ~Routing(s, c)
<1>1. c \in Socket /\ c \notin Control  BY Roles
<1>2. EndedAt(r, r, c)  BY OnlySame, <1>1, LaterSame DEF EndedAt, Later, Calm
<1>3. CASE r.att[c] = NoValue
  <2>1. s = CloseOrThrow(r, c)  BY <1>3 DEF ExpireClient
  <2>2. EndedAt(r, s, c) /\ s.att = r.att /\ s.inactive = r.inactive
    BY <1>1, <2>1, CloseOrThrowKeeps
  <2> QED  BY <1>3, <2>2 DEF SaneAt
<1>4. CASE r.att[c] # NoValue /\ r.pend[c] # NoValue
  <2>1. r.pend[c] \in Outcome  BY <1>1, <1>4, Fields
  <2>2. s = FailClient(r, c, r.pend[c])  BY <1>4 DEF ExpireClient
  <2> QED  BY <1>4, <2>1, <2>2, FailClientKeeps
<1>5. CASE r.att[c] # NoValue /\ r.pend[c] = NoValue /\ Live(r.att[c]) /\ c \in expired
  <2>1. s = FailClient(r, c, "incomplete")  BY <1>5 DEF ExpireClient
  <2>2. "incomplete" \in Outcome  BY DEF Outcome
  <2> QED  BY <1>5, <2>1, <2>2, FailClientKeeps
<1>6. CASE r.pend[c] = NoValue /\ s = r  BY <1>2, <1>6
<1>7. CASE r.att[c] # NoValue /\ r.pend[c] = NoValue /\ ~Live(r.att[c]) /\ ~Exhausted(r, c)
           /\ Writes(c) /\ s = Close([r EXCEPT !.att[c].attempts = @ + 1], c)
  <2>1. r.att[c] \in ClientState /\ r.att[c].stage = "terminal"  BY <1>1, <1>7 DEF SaneAt, Live
  <2>2. PICK t : t = [r.att[c] EXCEPT !.attempts = @ + 1]  OBVIOUS
  <2>3. r.att[c].attempts + 1 \in 0..MaxAttempts
    BY <1>7, <2>1, ConstantsAssumption DEF Exhausted, ClientState
  <2>4. /\ t \in ClientState /\ t.stage = "terminal" /\ t.owner = r.att[c].owner
        /\ t.gen = r.att[c].gen /\ t.summary = r.att[c].summary
    BY <2>1, <2>2, <2>3 DEF ClientState
  <2>5. PICK q : q = AttTo(r, c, t)  OBVIOUS
  <2>6. t \in Attachment  BY <2>4 DEF Attachment
  <2>7. /\ Only(r, q, c) /\ q.att[c] = t /\ q.sock = r.sock /\ q.pend = r.pend /\ q.inactive = r.inactive
        /\ q.finalized = r.finalized /\ q.metric = r.metric /\ q.thrown = r.thrown
    BY <1>1, <2>5, <2>6, WithAtt
  <2>8. s = Close(q, c)
    <3>1. [r EXCEPT !.att[c].attempts = @ + 1] = q  BY <2>2, <2>5 DEF AttTo, Rooms
    <3> QED  BY <1>7, <3>1
  <2>9. t # NoValue  BY <2>4, NoValueAssumption
  <2>10. ~Routing(q, c)  BY <1>1, <2>4, <2>7 DEF Routing, Live
  <2>11. q \in Rooms /\ SaneAt(q, c)  BY <1>1, <1>7, <2>4, <2>7, <2>9, <2>10 DEF SaneAt, Only, Live
  <2>12. /\ EndedAt(q, s, c) /\ s.att = q.att /\ s.pend = q.pend /\ s.inactive = q.inactive
         /\ s.thrown = q.thrown
    BY <1>1, <2>8, <2>11, CloseKeeps
  <2>13. StepAt(r, q, c)  BY <1>1, <1>7, <2>4, <2>7, <2>9, <2>10, <2>1 DEF StepAt
  <2>14. s \in Rooms /\ StepAt(r, s, c)
    BY <1>1, <2>11, <2>12, <2>13, StepsCompose DEF EndedAt, Only
  <2>15. Only(r, s, c)  BY <2>7, <2>12, OnlyComposes DEF EndedAt
  <2> QED  BY <1>7, <2>7, <2>12, <2>14, <2>15 DEF EndedAt, Calm
<1>8. CASE r.att[c] # NoValue /\ r.pend[c] = NoValue /\ s = CloseOrThrow(r, c)
  <2>1. EndedAt(r, s, c) /\ s.inactive = r.inactive
    BY <1>1, <1>8, CloseOrThrowKeeps
  <2> QED  BY <1>8, <2>1
<1> QED  BY <1>3, <1>4, <1>5, <1>6, <1>7, <1>8 DEF ExpireClient

LEMMA ExpireClientsKeeps ==
  ASSUME NEW r, Sane(r),
         NEW s, s = ExpireClients(r)
  PROVE  /\ Handles(r, s) /\ Calm(r, s) /\ ControlsAlike(r, s)
         /\ ~s.thrown => \A c \in Client : r.pend[c] # NoValue => ~Routing(s, c)
<1>1. PICK S \in SUBSET Client : S = Connected(r, Client)  BY DEF Connected
<1> DEFINE done == [c \in S |-> ExpireClient(r, c)]
<1>2. DOMAIN done = S /\ S \in SUBSET Socket /\ r \in Rooms  BY Roles DEF Sane
<1>3. ASSUME NEW c \in S
      PROVE  /\ EndedAt(r, done[c], c)
             /\ ~done[c].thrown /\ r.pend[c] # NoValue => ~Routing(done[c], c)
  <2>1. PICK q : q = ExpireClient(r, c)  OBVIOUS
  <2>2. c \in Client /\ SaneAt(r, c)  BY Roles DEF Sane
  <2>3. EndedAt(r, q, c) /\ (~q.thrown /\ r.pend[c] # NoValue => ~Routing(q, c))
    BY <1>2, <2>1, <2>2, ExpireClientKeeps
  <2>4. done[c] = q  BY <2>1
  <2> QED  BY <2>3, <2>4
<1>4. s = Each(r, done)  BY <1>1 DEF ExpireClients
<1>5. \A c \in Client : c \notin S => ~Open(r, c)  BY <1>1 DEF Connected, Open
<1>6. S \in SUBSET Client  OBVIOUS
<1> HIDE DEF done
<1>7. \A x \in S : done[x] \in Rooms /\ SaneAt(done[x], x) /\ StepAt(r, done[x], x) /\ Calm(r, done[x])
  BY <1>3 DEF EndedAt, Only
<1>8. Sane(s) /\ Later(r, s) /\ Calm(r, s)
  <2>1. s \in Rooms /\ (\A x \in Socket : SaneAt(r, x) => SaneAt(s, x)) /\ Later(r, s) /\ Calm(r, s)
    BY <1>2, <1>4, <1>7, EachKeeps
  <2> QED  BY <2>1 DEF Sane
<1>9. /\ s.gen = r.gen
      /\ \A x \in S : Alike(done[x], s, x)
      /\ \A x \in Socket \ S : Alike(r, s, x)
      /\ \A x \in S : done[x].thrown => s.thrown
  BY <1>2, <1>4, <1>7, EachAt
<1>10. ControlsAlike(r, s)  BY <1>6, <1>9, Roles DEF ControlsAlike
<1>11. ASSUME NEW c \in Client, ~s.thrown, r.pend[c] # NoValue PROVE ~Routing(s, c)
  <2>1. CASE c \in S
    <3>1. Alike(done[c], s, c) /\ ~done[c].thrown  BY <1>9, <1>11, <2>1
    <3> QED  BY <1>3, <1>11, <2>1, <3>1, AlikeRouting
  <2>2. CASE c \notin S
    <3>1. Alike(r, s, c)  BY <1>9, <2>2, Roles
    <3> QED  BY <1>5, <2>2, <3>1 DEF Alike, Routing, Open
  <2> QED  BY <2>1, <2>2
<1> QED  BY <1>8, <1>10, <1>11, AlikeKept DEF Handles

-----------------------------------------------------------------------------
(* Retiring a control *)

LEMMA AllSoundIs ==
  ASSUME AllSound, NEW x \in Socket
  PROVE  Writes(x) /\ Rewrites(x) /\ \A r : Closes(r, x)
BY DEF AllSound, Sound, Writes, Rewrites, Closes

LEMMA EndedSame ==
  ASSUME NEW r \in Rooms, NEW x \in Socket, SaneAt(r, x)
  PROVE  EndedAt(r, r, x)
BY OnlySame, LaterSame DEF EndedAt, Later, Calm

LEMMA EndedComposes ==
  ASSUME NEW r \in Rooms, NEW s, NEW t, NEW x \in Socket, EndedAt(r, s, x), EndedAt(s, t, x)
  PROVE  EndedAt(r, t, x)
<1>1. s \in Rooms /\ t \in Rooms  BY DEF EndedAt, Only
<1>2. StepAt(r, t, x)  BY <1>1, StepsCompose DEF EndedAt
<1>3. Only(r, t, x)  BY OnlyComposes DEF EndedAt
<1> QED  BY <1>2, <1>3 DEF EndedAt, Calm

LEMMA EndedRooms ==
  ASSUME NEW r, NEW s, NEW x, EndedAt(r, s, x)
  PROVE  s \in Rooms
BY DEF EndedAt, Only

Demoted(a) == [a EXCEPT !.current = FALSE]
LEMMA PrepareKeeps ==
  ASSUME NEW r \in Rooms, NEW x \in Control, SaneAt(r, x), r.att[x] # NoValue,
         NEW s, s = PrepareRetirement(r, x)
  PROVE  /\ EndedAt(r, s, x) /\ s.thrown = r.thrown
         /\ ~Stuck(r, x) => ~Routing(s, x)
         /\ Stuck(r, x) => s.att = r.att /\ s.sock = r.sock /\ s.pend = r.pend
         /\ Writes(x) => /\ s.att[x] = Demoted(r.att[x])
                         /\ s.sock = r.sock /\ s.pend[x] = NoValue
                         /\ s.inactive = r.inactive
<1>1. x \in Socket /\ x \notin Client /\ r.att[x] \in ControlState  BY Roles DEF SaneAt
<1>2. CASE Writes(x)
  <2>1. PICK t : t = [r.att[x] EXCEPT !.current = FALSE]  OBVIOUS
  <2>2. t \in ControlState /\ t.gen = r.att[x].gen /\ ~t.current
    BY <1>1, <2>1 DEF ControlState
  <2>3. t \in Attachment /\ t # NoValue  BY <2>2, NoValueAssumption DEF Attachment
  <2>4. PICK q : q = AttTo(r, x, t)  OBVIOUS
  <2>5. /\ Only(r, q, x) /\ q.att[x] = t /\ q.sock = r.sock /\ q.pend = r.pend /\ q.inactive = r.inactive
        /\ q.finalized = r.finalized /\ q.metric = r.metric /\ q.thrown = r.thrown
    BY <1>1, <2>3, <2>4, WithAtt
  <2>6. q \in Rooms  BY <2>5 DEF Only
  <2>7. s = PendTo(q, x, NoValue)
    BY <1>2, <2>1, <2>4 DEF PrepareRetirement, AttTo, PendTo, Rooms
  <2>8. NoValue \in Outcome \cup {NoValue}  OBVIOUS
  <2>9. /\ Only(q, s, x) /\ s.pend[x] = NoValue /\ s.sock = q.sock /\ s.att = q.att /\ s.inactive = q.inactive
        /\ s.finalized = q.finalized /\ s.metric = q.metric /\ s.thrown = q.thrown
    BY <1>1, <2>6, <2>7, <2>8, WithPend
  <2>10. Only(r, s, x)  BY <2>5, <2>9, OnlyComposes
  <2>11. ~Routing(s, x)  BY <1>1, <2>2, <2>5, <2>9 DEF Routing
  <2>12. SaneAt(s, x)  BY <1>1, <2>2, <2>3, <2>5, <2>9, <2>11 DEF SaneAt
  <2>13. StepAt(r, s, x)  BY <1>1, <2>2, <2>3, <2>5, <2>9, <2>11 DEF StepAt
  <2>14. ~Stuck(r, x)  BY <1>2 DEF Stuck
  <2> QED  BY <2>1, <2>5, <2>9, <2>10, <2>11, <2>12, <2>13, <2>14 DEF EndedAt, Calm, Demoted
<1>3. CASE ~Writes(x) /\ Closes(r, x)
  <2>1. PICK q : q = Close(r, x)  OBVIOUS
  <2>2. /\ EndedAt(r, q, x) /\ q.att = r.att /\ q.pend = r.pend /\ q.inactive = r.inactive
        /\ q.thrown = r.thrown /\ ~Open(q, x)
    BY <1>1, <1>3, <2>1, CloseKeeps
  <2>3. s = [q EXCEPT !.inactive = @ \cup {x}, !.pend[x] = NoValue]
    BY <1>3, <2>1 DEF PrepareRetirement
  <2>4. q \in Rooms  BY <2>2, EndedRooms
  <2>5. /\ s \in Rooms /\ s.gen = q.gen /\ s.thrown = q.thrown /\ s.sock = q.sock /\ s.att = q.att
        /\ \A y \in Socket \ {x} : Alike(q, s, y)
        /\ s.pend[x] = NoValue
    <3>1. /\ s.gen = q.gen /\ s.thrown = q.thrown /\ s.sock = q.sock /\ s.att = q.att
          /\ s.metric = q.metric /\ s.finalized = q.finalized
          /\ s.inactive = q.inactive \cup {x}
          /\ s.pend = [q.pend EXCEPT ![x] = NoValue]
      BY <2>3, <2>4 DEF Rooms
    <3>2. q.pend \in [Socket -> Outcome \cup {NoValue}] /\ q.inactive \subseteq Control  BY <2>4 DEF Rooms
    <3>3. s.pend \in [Socket -> Outcome \cup {NoValue}] /\ s.inactive \subseteq Control
      BY <3>1, <3>2
    <3>4. s = AsRoom(s)  BY <2>3, <2>4 DEF Rooms, AsRoom
    <3>5. s \in Rooms  BY <2>4, <3>1, <3>3, <3>4, RoomTypes, RoomOf
    <3> QED  BY <1>1, <3>1, <3>2, <3>5 DEF Alike
  <2>6. ~Routing(s, x)  BY <2>2, <2>5 DEF Routing, Open
  <2>7. EndedAt(q, s, x)
    <3>1. SaneAt(s, x)  BY <1>1, <2>2, <2>5, <2>6 DEF EndedAt, SaneAt
    <3>2. StepAt(q, s, x)  BY <1>1, <2>2, <2>5, <2>6 DEF StepAt
    <3> QED  BY <2>5, <3>1, <3>2 DEF EndedAt, Only, Calm
  <2>8. EndedAt(r, s, x)  BY <1>1, <2>2, <2>7, EndedComposes
  <2> QED  BY <1>3, <2>2, <2>5, <2>6, <2>8 DEF Stuck
<1>4. CASE Stuck(r, x)
  <2>1. s = [r EXCEPT !.inactive = @ \ {x}]  BY <1>4 DEF PrepareRetirement, Stuck
  <2>2. /\ s \in Rooms /\ s.gen = r.gen /\ s.thrown = r.thrown /\ s.sock = r.sock /\ s.att = r.att
        /\ s.pend = r.pend
        /\ \A y \in Socket \ {x} : Alike(r, s, y)
        /\ x \notin s.inactive
    BY <1>1, <2>1 DEF Rooms, Alike
  <2>3. Routing(s, x) <=> Routing(r, x)  BY <2>2 DEF Routing, Open
  <2>4. SaneAt(s, x)  BY <1>1, <2>2, <2>3 DEF SaneAt
  <2>5. StepAt(r, s, x)  BY <1>1, <2>2, <2>3 DEF StepAt
  <2> QED  BY <1>4, <2>2, <2>4, <2>5 DEF EndedAt, Only, Calm, Stuck
<1> QED  BY <1>2, <1>3, <1>4 DEF Stuck

LEMMA FinishKeeps ==
  ASSUME NEW r \in Rooms, NEW x \in Control, SaneAt(r, x),
         NEW s, s = FinishRetirement(r, x)
  PROVE  EndedAt(r, s, x) /\ s.thrown = r.thrown /\ s.att = r.att /\ s.pend = r.pend /\ s.inactive = r.inactive
<1>1. x \in Socket  BY Roles
<1>2. CASE Writes(x)
  <2>1. s = Close(r, x)  BY <1>2 DEF FinishRetirement
  <2> QED  BY <1>1, <2>1, CloseKeeps
<1>3. CASE ~Writes(x)
  <2>1. s = r  BY <1>3 DEF FinishRetirement
  <2> QED  BY <1>1, <2>1, EndedSame
<1> QED  BY <1>2, <1>3

LEMMA RetireKeeps ==
  ASSUME NEW r \in Rooms, NEW x \in Control, SaneAt(r, x), r.att[x] # NoValue,
         NEW s, s = Retire(r, x)
  PROVE  /\ EndedAt(r, s, x) /\ s.thrown = r.thrown
         /\ ~Stuck(r, x) => ~Routing(s, x)
         /\ Stuck(r, x) => s.att = r.att /\ s.sock = r.sock /\ s.pend = r.pend
<1>1. x \in Socket  BY Roles
<1>2. PICK q : q = PrepareRetirement(r, x)  OBVIOUS
<1>3. /\ EndedAt(r, q, x) /\ q.thrown = r.thrown
      /\ ~Stuck(r, x) => ~Routing(q, x)
      /\ Stuck(r, x) => q.att = r.att /\ q.sock = r.sock /\ q.pend = r.pend
  BY <1>2, PrepareKeeps
<1>4. CASE Stuck(r, x)
  <2>1. s = q  BY <1>2, <1>4 DEF Retire
  <2> QED  BY <1>3, <1>4, <2>1
<1>5. CASE ~Stuck(r, x)
  <2>1. s = FinishRetirement(q, x)  BY <1>2, <1>5 DEF Retire
  <2>2. q \in Rooms /\ SaneAt(q, x)  BY <1>3 DEF EndedAt, Only
  <2>3. EndedAt(q, s, x) /\ s.thrown = q.thrown  BY <2>1, <2>2, FinishKeeps
  <2>4. EndedAt(r, s, x)  BY <1>1, <1>3, <2>3, EndedComposes
  <2>5. s \in Rooms  BY <2>4, EndedRooms
  <2>6. ~Routing(s, x)  BY <1>1, <1>3, <1>5, <2>2, <2>3, <2>5, StepRouting DEF EndedAt
  <2> QED  BY <1>3, <1>5, <2>3, <2>4, <2>6
<1> QED  BY <1>4, <1>5

(* What ends one socket is a handler's step. *)
LEMMA EndedLater ==
  ASSUME NEW r, Sane(r), NEW x \in Socket, NEW s, EndedAt(r, s, x)
  PROVE  /\ Sane(s) /\ Later(r, s) /\ Calm(r, s)
         /\ x \in Client => ControlsAlike(r, s)
         /\ \A y \in Control \ {x} : Alike(r, s, y)
<1>1. r \in Rooms /\ s \in Rooms  BY DEF Sane, EndedAt, Only
<1>2. r.inactive \subseteq Control /\ s.inactive \subseteq Control  BY <1>1, Fields
<1>3. ASSUME NEW y \in Socket, y # x PROVE SaneAt(s, y) /\ StepAt(r, s, y)
  <2>1. Alike(r, s, y)  BY <1>3 DEF EndedAt, Only
  <2>2. StepAt(r, r, y)  BY <1>1, LaterSame DEF Later
  <2>3. r.thrown => s.thrown  BY DEF EndedAt
  <2>4. StepAt(r, s, y)  BY <2>1, <2>2, <2>3, AlikeStep
  <2> QED  BY <1>2, <2>1, <2>4, AlikeSane DEF Sane
<1>4. s.gen = r.gen /\ \A y \in Socket \ {x} : Alike(r, s, y)  BY DEF EndedAt, Only
<1> QED  BY <1>1, <1>3, <1>4, Roles DEF EndedAt, Sane, Later, ControlsAlike

(* The first stage of failServer: the control is set aside. *)
LEMMA DemoteFacts ==
  ASSUME NEW r \in Rooms, NEW x \in Control, r.att[x] \in ControlState,
         NEW s, s = Demote(r, x)
  PROVE  /\ Only(r, s, x) /\ s.thrown = r.thrown /\ s.sock = r.sock /\ s.pend = r.pend
         /\ s.att[x] \in ControlState /\ s.att[x].gen = r.att[x].gen
         /\ s.att[x].current => r.att[x].current /\ ~Writes(x)
         /\ s.inactive \subseteq r.inactive \cup {x}
<1>1. x \in Socket /\ x \notin Client  BY Roles
<1>2. PICK b \in BOOLEAN : b = (r.att[x].current /\ ~Writes(x))  OBVIOUS
<1>3. PICK t : t = [r.att[x] EXCEPT !.current = b]  OBVIOUS
<1>4. t \in ControlState /\ t.gen = r.att[x].gen /\ t.current = b  BY <1>3 DEF ControlState
<1>5. t \in Attachment  BY <1>4 DEF Attachment
<1>6. PICK i : i = IF r.att[x].current THEN r.inactive \cup {x} ELSE r.inactive  OBVIOUS
<1>7. i \in SUBSET Control  BY <1>6, Fields
<1>8. s = [r EXCEPT !.att[x] = t, !.inactive = i]
  BY <1>2, <1>3, <1>6 DEF Demote, Rooms
<1>9. s \in Rooms
  <2>1. PICK a : a = [r.att EXCEPT ![x] = t]  OBVIOUS
  <2>2. a \in [Socket -> Attachment]  BY <1>1, <1>5, <2>1 DEF Rooms
  <2>3. s = [r EXCEPT !.att = a, !.inactive = i]  BY <1>8, <2>1 DEF Rooms
  <2> QED  BY <1>7, <2>2, <2>3 DEF Rooms
<1>10. /\ s.gen = r.gen /\ s.thrown = r.thrown /\ s.sock = r.sock /\ s.pend = r.pend
       /\ s.metric = r.metric /\ s.finalized = r.finalized /\ s.inactive = i
       /\ s.att = [r.att EXCEPT ![x] = t]
  BY <1>8 DEF Rooms
<1>11. r.att \in [Socket -> Attachment]  BY DEF Rooms
<1>12. \A y \in Socket \ {x} : Alike(r, s, y)  BY <1>1, <1>6, <1>10, <1>11 DEF Alike
<1>13. s.att[x] = t  BY <1>1, <1>10, <1>11
<1> QED  BY <1>2, <1>4, <1>6, <1>9, <1>10, <1>12, <1>13 DEF Only

LEMMA CloseServerFacts ==
  ASSUME NEW r \in Rooms, NEW x \in Control, NEW o \in Outcome,
         NEW s, s = CloseServer(r, x, o)
  PROVE  /\ Only(r, s, x) /\ s.att = r.att /\ s.inactive = r.inactive
         /\ s.sock[x] = r.sock[x] \/ (r.sock[x] = "open" /\ s.sock[x] = "closing")
         /\ Closes(r, x) => ~Open(s, x)
         /\ Stuck(r, x) => s.pend[x] = o /\ s.thrown
         /\ ~Stuck(r, x) => s.pend[x] = NoValue /\ s.thrown = r.thrown
<1>1. x \in Socket  BY Roles
<1>2. PICK u : u = Close(r, x)  OBVIOUS
<1>3. /\ Only(r, u, x) /\ u.att = r.att /\ u.pend = r.pend /\ u.inactive = r.inactive
      /\ u.finalized = r.finalized /\ u.metric = r.metric /\ u.thrown = r.thrown
      /\ u.sock[x] = r.sock[x] \/ (r.sock[x] = "open" /\ u.sock[x] = "closing")
      /\ Closes(r, x) => ~Open(u, x)
  BY <1>1, <1>2, CloseFacts
<1>4. u \in Rooms  BY <1>3 DEF Only
<1>5. PICK v \in Outcome \cup {NoValue} : v = IF Stuck(r, x) THEN o ELSE NoValue  OBVIOUS
<1>6. PICK e : e = PendTo(u, x, v)  OBVIOUS
<1>7. /\ Only(u, e, x) /\ e.pend[x] = v /\ e.sock = u.sock /\ e.att = u.att /\ e.inactive = u.inactive
      /\ e.finalized = u.finalized /\ e.metric = u.metric /\ e.thrown = u.thrown
  BY <1>1, <1>4, <1>5, <1>6, WithPend
<1>8. e \in Rooms  BY <1>7 DEF Only
<1>9. s = [u EXCEPT !.pend[x] = v, !.thrown = @ \/ Stuck(r, x)]
  BY <1>2, <1>5 DEF CloseServer
<1>10. CASE Stuck(r, x)
  <2>1. s = Throw(e)
    <3>1. s = [u EXCEPT !.pend[x] = v, !.thrown = TRUE]  BY <1>9, <1>10
    <3> QED  BY <1>4, <1>6, <3>1 DEF PendTo, Throw, Rooms
  <2>2. /\ Only(e, s, x) /\ s.sock = e.sock /\ s.att = e.att /\ s.pend = e.pend /\ s.inactive = e.inactive
        /\ s.finalized = e.finalized /\ s.metric = e.metric /\ s.thrown
    BY <1>8, <2>1, WithThrow
  <2>3. Only(r, e, x)  BY <1>3, <1>7, OnlyComposes
  <2>4. Only(r, s, x)  BY <2>2, <2>3, OnlyComposes
  <2> QED  BY <1>3, <1>5, <1>7, <1>10, <2>2, <2>4 DEF Open
<1>11. CASE ~Stuck(r, x)
  <2>1. s = e
    <3>1. u.thrown \in BOOLEAN  BY <1>4, Fields
    <3>2. s = [u EXCEPT !.pend[x] = v, !.thrown = u.thrown]  BY <1>4, <1>9, <1>11, <3>1 DEF Rooms
    <3> QED  BY <1>4, <1>6, <3>1, <3>2 DEF PendTo, Rooms
  <2>2. Only(r, e, x)  BY <1>3, <1>7, OnlyComposes
  <2> QED  BY <1>3, <1>5, <1>7, <1>11, <2>1, <2>2 DEF Open
<1> QED  BY <1>10, <1>11

(* What ending a control makes of the room *)
ControlEnded(r, s, x) ==
  /\ Handles(r, s) /\ Calm(r, s)
  /\ \A y \in Control \ {x} : Alike(r, s, y)
  /\ Routing(s, x) => s.pend[x] # NoValue /\ s.thrown
  /\ r.pend[x] # NoValue \/ Routing(r, x) => AllQuelled(s)

(* failServer of a control that is current or pending *)
FailCurrent(r, x, o) == CloseServer(CloseAllClients(Demote(r, x), o), x, o)
LEMMA FailCurrentKeeps ==
  ASSUME NEW r, Sane(r), NEW x \in Control, r.att[x] # NoValue, NEW o \in Outcome,
         NEW s, s = FailCurrent(r, x, o)
  PROVE  /\ ControlEnded(r, s, x) /\ AllQuelled(s)
         /\ \A c \in Connected(r, Client) : Writes(c) => ~Live(s.att[c])
<1>1. x \in Socket /\ x \notin Client /\ r \in Rooms /\ SaneAt(r, x)  BY Roles DEF Sane
<1>2. r.att[x] \in ControlState  BY <1>1 DEF SaneAt
<1>3. PICK d : d = Demote(r, x)  OBVIOUS
<1>4. /\ Only(r, d, x) /\ d.thrown = r.thrown /\ d.sock = r.sock /\ d.pend = r.pend
      /\ d.att[x] \in ControlState /\ d.att[x].gen = r.att[x].gen
      /\ d.att[x].current => r.att[x].current /\ ~Writes(x)
      /\ d.inactive \subseteq r.inactive \cup {x}
  BY <1>1, <1>2, <1>3, DemoteFacts
<1>5. d \in Rooms /\ d.inactive \subseteq Control /\ r.inactive \subseteq Control
  BY <1>1, <1>4, Fields DEF Only
<1>6. \A y \in Socket \ {x} : Alike(r, d, y)  BY <1>4 DEF Only
<1>7. \A y \in Socket \ {x} : SaneAt(d, y)
  BY <1>5, <1>6, AlikeSane DEF Sane
<1>8. \A c \in Client : SaneAt(d, c)  BY <1>1, <1>7, Roles
<1>9. PICK q : q = CloseAllClients(d, o)  OBVIOUS
<1>10. /\ q \in Rooms /\ (\A y \in Socket : SaneAt(d, y) => SaneAt(q, y))
       /\ Later(d, q) /\ Calm(d, q) /\ ControlsAlike(d, q) /\ AllQuelled(q)
       /\ \A c \in Connected(d, Client) : Writes(c) => ~Live(q.att[c])
  BY <1>5, <1>8, <1>9, CloseAllClientsKeeps
<1>11. s = CloseServer(q, x, o)  BY <1>3, <1>9 DEF FailCurrent
<1>12. /\ Only(q, s, x) /\ s.att = q.att /\ s.inactive = q.inactive
       /\ s.sock[x] = q.sock[x] \/ (q.sock[x] = "open" /\ s.sock[x] = "closing")
       /\ Closes(q, x) => ~Open(s, x)
       /\ Stuck(q, x) => s.pend[x] = o /\ s.thrown
       /\ ~Stuck(q, x) => s.pend[x] = NoValue /\ s.thrown = q.thrown
  BY <1>10, <1>11, CloseServerFacts
<1>13. s \in Rooms /\ s.inactive \subseteq Control /\ q.inactive \subseteq Control
  BY <1>10, <1>12, Fields DEF Only
<1>14. \A y \in Socket \ {x} : Alike(q, s, y)  BY <1>12 DEF Only
<1>15. Alike(d, q, x)  BY <1>10 DEF ControlsAlike
<1>16. Stuck(q, x) <=> Stuck(r, x)  BY <1>4, <1>15 DEF Stuck, Closes, Open, Alike
<1>17. o # NoValue  BY NoValueAssumption
<1>18. s.att[x] = d.att[x] /\ q.sock[x] = r.sock[x]  BY <1>4, <1>12, <1>15 DEF Alike
<1>19. Routing(s, x) => Stuck(q, x)
  <2>1. ASSUME Routing(s, x), ~Stuck(q, x) PROVE FALSE
    <3>1. Open(s, x) /\ s.att[x].current  BY <1>1, <2>1 DEF Routing
    <3>2. ~Writes(x)  BY <1>4, <1>18, <3>1
    <3>3. Closes(q, x)  BY <2>1, <3>2 DEF Stuck
    <3> QED  BY <1>12, <3>1, <3>3
  <2> QED  BY <2>1
<1>20. Routing(s, x) => s.pend[x] # NoValue /\ s.thrown  BY <1>12, <1>17, <1>19
<1>21. q.thrown => s.thrown  BY <1>12
<1>22. r.thrown => s.thrown  BY <1>4, <1>10, <1>21 DEF Later
<1>23. d.att[x] # NoValue  BY <1>4, NoValueAssumption
<1>24. SaneAt(s, x)
  <2>1. s.sock[x] # "none"  BY <1>1, <1>12, <1>18 DEF SaneAt
  <2> QED  BY <1>1, <1>4, <1>18, <1>20, <1>23, <2>1 DEF SaneAt
<1>25. StepAt(r, s, x)
  <2>1. r.pend[x] # NoValue => s.pend[x] # NoValue \/ ~Routing(s, x)  BY <1>20
  <2> QED  BY <1>1, <1>4, <1>12, <1>18, <1>20, <1>23, <2>1 DEF StepAt
<1>26. ASSUME NEW y \in Socket, y # x PROVE SaneAt(s, y) /\ StepAt(r, s, y)
  <2>1. SaneAt(q, y)  BY <1>7, <1>10, <1>26
  <2>2. SaneAt(s, y)  BY <1>13, <1>14, <1>26, <2>1, AlikeSane
  <2>3. StepAt(r, r, y)  BY <1>1, LaterSame DEF Later
  <2>4. StepAt(r, d, y)  BY <1>4, <1>6, <1>26, <2>3, AlikeStep
  <2>5. StepAt(d, q, y)  BY <1>10 DEF Later
  <2>6. d.thrown => q.thrown  BY <1>10 DEF Later
  <2>7. StepAt(r, q, y)  BY <1>1, <1>5, <1>10, <2>4, <2>5, <2>6, StepsCompose
  <2>8. StepAt(r, s, y)  BY <1>14, <1>21, <1>26, <2>7, AlikeStep
  <2> QED  BY <2>2, <2>8
<1>27. Sane(s)  BY <1>13, <1>24, <1>26 DEF Sane
<1>28. Later(r, s)
  <2>1. s.gen = r.gen  BY <1>4, <1>10, <1>12 DEF Only, Later
  <2> QED  BY <1>22, <1>25, <1>26, <2>1 DEF Later
<1>29. ASSUME NEW c \in Client PROVE Quelled(s, c) /\ (c \in Connected(r, Client) /\ Writes(c) => ~Live(s.att[c]))
  <2>1. c \in Socket \ {x}  BY <1>1, Roles
  <2>2. Alike(q, s, c) /\ Alike(r, d, c)  BY <1>6, <1>14, <2>1
  <2>3. Quelled(q, c)  BY <1>10 DEF AllQuelled
  <2>4. Quelled(s, c)  BY <2>2, <2>3, AlikeRouting DEF Quelled, Alike
  <2>5. c \in Connected(r, Client) => c \in Connected(d, Client)  BY <2>2 DEF Alike, Connected
  <2>6. s.att[c] = q.att[c]  BY <2>2 DEF Alike
  <2> QED  BY <1>10, <2>4, <2>5, <2>6
<1>30. AllQuelled(s)  BY <1>29 DEF AllQuelled
<1>31. Calm(r, s)
  <2>1. AllSound => ~Stuck(q, x)  BY <1>1, AllSoundIs DEF Stuck
  <2> QED  BY <1>4, <1>10, <1>12, <2>1 DEF Calm
<1>32. \A y \in Control \ {x} : Alike(r, s, y)
  <2>1. ASSUME NEW y \in Control, y # x PROVE Alike(r, s, y)
    <3>1. y \in Socket \ {x}  BY <2>1, Roles
    <3>2. Alike(r, d, y) /\ Alike(d, q, y) /\ Alike(q, s, y)
      BY <1>6, <1>10, <1>14, <3>1 DEF ControlsAlike
    <3> QED  BY <2>1, <3>2 DEF Alike
  <2> QED  BY <2>1
<1>33. Kept(r, s)  BY <1>30, QuelledKept
<1>34. \A c \in Connected(r, Client) : Writes(c) => ~Live(s.att[c])
  BY <1>29 DEF Connected
<1> QED  BY <1>20, <1>27, <1>28, <1>30, <1>31, <1>32, <1>33, <1>34 DEF ControlEnded, Handles

LEMMA FailServerKeeps ==
  ASSUME NEW r, Sane(r), NEW x \in Control, r.att[x] # NoValue, NEW o \in Outcome,
         NEW s, s = FailServer(r, x, o)
  PROVE  /\ ControlEnded(r, s, x)
         /\ r.att[x].current => \A c \in Connected(r, Client) : Writes(c) => ~Live(s.att[c])
<1>1. x \in Socket /\ x \notin Client /\ r \in Rooms /\ SaneAt(r, x)  BY Roles DEF Sane
<1>2. CASE r.pend[x] # NoValue
  <2>1. r.pend[x] \in Outcome  BY <1>1, <1>2, Fields
  <2>2. s = FailCurrent(r, x, r.pend[x])  BY <1>2 DEF FailServer, FailCurrent
  <2> QED  BY <2>1, <2>2, FailCurrentKeeps
<1>3. CASE r.pend[x] = NoValue /\ r.att[x].current
  <2>1. s = FailCurrent(r, x, o)  BY <1>3 DEF FailServer, FailCurrent
  <2> QED  BY <2>1, FailCurrentKeeps
<1>4. CASE r.pend[x] = NoValue /\ ~r.att[x].current
  <2>1. s = Close(r, x)  BY <1>4 DEF FailServer
  <2>2. EndedAt(r, s, x) /\ s.att = r.att  BY <1>1, <2>1, CloseKeeps
  <2>3. /\ Sane(s) /\ Later(r, s) /\ Calm(r, s)
        /\ \A y \in Control \ {x} : Alike(r, s, y)
    BY <1>1, <2>2, EndedLater
  <2>4. x \notin CurrentOpen(r)  BY <1>4 DEF CurrentOpen
  <2>5. Kept(r, s)  BY <2>3, <2>4, CurrentKept DEF CurrentOpen
  <2>6. ~Routing(s, x) /\ ~Routing(r, x)  BY <1>1, <1>4, <2>2 DEF Routing
  <2> QED  BY <1>4, <2>3, <2>5, <2>6 DEF ControlEnded, Handles
<1> QED  BY <1>2, <1>3, <1>4

LEMMA EndControlKeeps ==
  ASSUME NEW r, Sane(r), NEW x \in Control, NEW o \in Outcome,
         NEW s, s = EndControl(r, x, o)
  PROVE  ControlEnded(r, s, x)
<1>1. x \in Socket /\ x \notin Client /\ r \in Rooms /\ SaneAt(r, x)  BY Roles DEF Sane
<1>2. CASE r.att[x] = NoValue
  <2>1. s = CloseOrThrow(r, x)  BY <1>2 DEF EndControl
  <2>2. EndedAt(r, s, x) /\ s.att = r.att  BY <1>1, <2>1, CloseOrThrowKeeps
  <2>3. /\ Sane(s) /\ Later(r, s) /\ Calm(r, s)
        /\ \A y \in Control \ {x} : Alike(r, s, y)
    BY <1>1, <2>2, EndedLater
  <2>4. x \notin CurrentOpen(r)  BY <1>2 DEF CurrentOpen
  <2>5. Kept(r, s)  BY <2>3, <2>4, CurrentKept DEF CurrentOpen
  <2>6. ~Routing(s, x) /\ ~Routing(r, x)  BY <1>1, <1>2, <2>2 DEF Routing
  <2>7. r.pend[x] = NoValue  BY <1>1, <1>2 DEF SaneAt
  <2> QED  BY <2>3, <2>5, <2>6, <2>7 DEF ControlEnded, Handles
<1>3. CASE r.att[x] # NoValue
  <2>1. s = FailServer(r, x, o)  BY <1>3 DEF EndControl
  <2> QED  BY <1>3, <2>1, FailServerKeeps
<1> QED  BY <1>2, <1>3

-----------------------------------------------------------------------------
(* Retiring the controls of a set, one after another *)

SaneRooms == {r \in Rooms : Sane(r)}
EndedSoFar(r, s, S, n) ==
  /\ Handles(r, s) /\ Calm(r, s)
  /\ \A y \in Control : y \notin S \/ y > n => Alike(r, s, y)
  /\ \A x \in S : x <= n /\ Routing(s, x) => s.pend[x] # NoValue /\ s.thrown
  /\ (\E x \in S : x <= n /\ (r.pend[x] # NoValue \/ Routing(r, x))) => AllQuelled(s)
  /\ S = {} => s = r

LEMMA EndedNext ==
  ASSUME NEW r, Sane(r), NEW S \in SUBSET Control, NEW n \in Control, NEW o \in Outcome,
         NEW s, EndedSoFar(r, s, S, n - 1),
         NEW t, t = IF n \in S THEN EndControl(s, n, o) ELSE s
  PROVE  EndedSoFar(r, t, S, n)
<1>1. S \subseteq Nat /\ n \in Nat /\ n \in Socket /\ Control \subseteq Nat
  BY Roles
<1>2. CASE n \notin S
  <2>1. t = s  BY <1>2
  <2>2. \A x \in S : x <= n => x <= n - 1  BY <1>1, <1>2
  <2>3. \A y \in Control : y > n => y > n - 1  BY <1>1
  <2> QED  BY <2>1, <2>2, <2>3 DEF EndedSoFar
<1>3. CASE n \in S
  <2>1. Handles(r, s) /\ Calm(r, s) /\ Sane(s)  BY DEF EndedSoFar, Handles
  <2>2. ControlEnded(s, t, n)  BY <1>3, <2>1, EndControlKeeps
  <2>3. Handles(r, t) /\ Calm(r, t)
    BY <2>1, <2>2, HandlesCompose DEF ControlEnded, Calm
  <2>4. r \in Rooms /\ s \in Rooms /\ t \in Rooms /\ Later(s, t)
    BY <2>1, <2>2 DEF Sane, ControlEnded, Handles
  <2>5. \A y \in Control : y > n => y > n - 1 /\ y # n  BY <1>1
  <2>6. ASSUME NEW y \in Control, y \notin S \/ y > n PROVE Alike(r, t, y)
    <3>1. Alike(r, s, y) /\ y # n  BY <1>3, <2>5, <2>6 DEF EndedSoFar
    <3>2. Alike(s, t, y)  BY <2>2, <3>1 DEF ControlEnded
    <3> QED  BY <3>1, <3>2 DEF Alike
  <2>7. ASSUME NEW x \in S, x <= n, Routing(t, x) PROVE t.pend[x] # NoValue /\ t.thrown
    <3>1. CASE x = n  BY <2>2, <2>7, <3>1 DEF ControlEnded
    <3>2. CASE x # n
      <4>1. x <= n - 1  BY <1>1, <2>7, <3>2
      <4>2. Alike(s, t, x)  BY <2>2, <3>2 DEF ControlEnded
      <4>3. Routing(s, x)  BY <2>7, <4>2, AlikeRouting
      <4>4. s.pend[x] # NoValue /\ s.thrown  BY <4>1, <4>3 DEF EndedSoFar
      <4> QED  BY <2>4, <4>2, <4>4 DEF Alike, Later
    <3> QED  BY <3>1, <3>2
  <2>8. ASSUME NEW x \in S, x <= n, r.pend[x] # NoValue \/ Routing(r, x) PROVE AllQuelled(t)
    <3>1. CASE x = n
      <4>1. n > n - 1  BY <1>1
      <4>2. Alike(r, s, n)  BY <4>1 DEF EndedSoFar
      <4>3. s.pend[n] # NoValue \/ Routing(s, n)  BY <2>8, <3>1, <4>2, AlikeRouting DEF Alike
      <4> QED  BY <2>2, <4>3 DEF ControlEnded
    <3>2. CASE x # n
      <4>1. x <= n - 1  BY <1>1, <2>8, <3>2
      <4>2. AllQuelled(s)  BY <2>8, <4>1 DEF EndedSoFar
      <4> QED  BY <2>4, <4>2, QuelledLater
    <3> QED  BY <3>1, <3>2
  <2> QED  BY <1>3, <2>3, <2>6, <2>7, <2>8 DEF EndedSoFar
<1> QED  BY <1>2, <1>3

(* The loop of EndControls *)
Ending(r, S, o, g) ==
  g = [n \in 0..MaxControls |->
         IF n = 0 THEN r ELSE IF n \in S THEN EndControl(g[n - 1], n, o) ELSE g[n - 1]]

LEMMA EndingExists ==
  ASSUME NEW r, Sane(r), NEW S \in SUBSET Control, NEW o \in Outcome
  PROVE  \E g \in [0..MaxControls -> SaneRooms] : Ending(r, S, o, g)
<1>1. MaxControls \in Nat /\ Control = 1..MaxControls  BY Roles DEF Control
<1>2. PICK X : X = SaneRooms  OBVIOUS
<1>3. r \in X  BY <1>2 DEF SaneRooms, Sane
<1>4. PICK turn : turn = [n \in 1..MaxControls |-> [q \in X |-> IF n \in S THEN EndControl(q, n, o) ELSE q]]
  OBVIOUS
<1>5. ASSUME NEW n \in 1..MaxControls, NEW q \in X
      PROVE  (IF n \in S THEN EndControl(q, n, o) ELSE q) \in X
  <2>1. Sane(q) /\ n \in Control  BY <1>1, <1>2, <1>5 DEF SaneRooms
  <2>2. PICK t : t = EndControl(q, n, o)  OBVIOUS
  <2>3. ControlEnded(q, t, n)  BY <2>1, <2>2, EndControlKeeps
  <2>4. t \in X  BY <1>2, <2>3 DEF ControlEnded, Handles, SaneRooms, Sane
  <2> QED  BY <2>2, <2>4
<1>6. turn \in [1..MaxControls -> [X -> X]]  BY <1>4, <1>5
<1>7. PICK g \in [0..MaxControls -> X] : Turning(MaxControls, r, turn, g)
  BY <1>1, <1>3, <1>6, Turns
<1>8. ASSUME NEW n \in 1..MaxControls
      PROVE  turn[n][g[n - 1]] = IF n \in S THEN EndControl(g[n - 1], n, o) ELSE g[n - 1]
  <2>1. n - 1 \in 0..MaxControls  BY <1>1
  <2>2. g[n - 1] \in X  BY <2>1
  <2> QED  BY <1>4, <2>2
<1>9. \A n \in 0..MaxControls : n # 0 => n \in 1..MaxControls  BY <1>1
<1>10. Ending(r, S, o, g)  BY <1>7, <1>8, <1>9 DEF Turning, Ending
<1> QED  BY <1>2, <1>10

LEMMA EndControlsKeeps ==
  ASSUME NEW r, Sane(r), NEW S \in SUBSET Control, NEW o \in Outcome,
         NEW s, s = EndControls(r, S, o)
  PROVE  EndedSoFar(r, s, S, MaxControls)
<1>1. MaxControls \in Nat /\ Control = 1..MaxControls  BY Roles DEF Control
<1> DEFINE F(f) == [n \in 0..MaxControls |->
                      IF n = 0 THEN r ELSE IF n \in S THEN EndControl(f[n - 1], n, o) ELSE f[n - 1]]
<1> DEFINE f == CHOOSE f : f = F(f)
<1>2. s = f[MaxControls]  BY DEF EndControls
<1>3. f = F(f)
  <2>1. PICK g \in [0..MaxControls -> SaneRooms] : Ending(r, S, o, g)  BY EndingExists
  <2>2. g = F(g)  BY <2>1 DEF Ending
  <2> HIDE DEF F
  <2> QED  BY <2>2
<1>4. f[0] = r
  <2> HIDE DEF f
  <2>1. 0 \in 0..MaxControls  BY <1>1
  <2> QED  BY <1>3, <2>1
<1>5. ASSUME NEW n \in 1..MaxControls
      PROVE  f[n] = IF n \in S THEN EndControl(f[n - 1], n, o) ELSE f[n - 1]
  <2> HIDE DEF f
  <2>1. n \in 0..MaxControls /\ n # 0  BY <1>1
  <2> QED  BY <1>3, <2>1
<1> HIDE DEF f
<1> DEFINE P == [n \in 0..MaxControls |-> EndedSoFar(r, f[n], S, n)]
<1>6. P[0]
  <2>1. 0 \in 0..MaxControls /\ \A x \in S : ~(x <= 0)  BY <1>1
  <2>2. Alike(r, r, 0) /\ \A y : Alike(r, r, y)  BY DEF Alike
  <2>3. EndedSoFar(r, r, S, 0)  BY <2>1, <2>2, HandlesSame DEF EndedSoFar, Calm
  <2> QED  BY <1>4, <2>1, <2>3
<1>7. ASSUME NEW n \in 1..MaxControls, P[n - 1] PROVE P[n]
  <2>1. n - 1 \in 0..MaxControls /\ n \in 0..MaxControls /\ n \in Control  BY <1>1
  <2>2. EndedSoFar(r, f[n - 1], S, n - 1)  BY <1>7, <2>1
  <2>3. EndedSoFar(r, f[n], S, n)  BY <1>5, <2>1, <2>2, EndedNext
  <2> QED  BY <2>1, <2>3
<1>8. \A n \in 0..MaxControls : P[n]
  <2> HIDE DEF P
  <2> QED  BY <1>1, <1>6, <1>7, Climb
<1>9. MaxControls \in 0..MaxControls  BY <1>1
<1> QED  BY <1>2, <1>8, <1>9

LEMMA RetryPendingKeeps ==
  ASSUME NEW r, Sane(r),
         NEW s, s = RetryPending(r)
  PROVE  /\ Handles(r, s) /\ Calm(r, s)
         /\ s = r \/ AllQuelled(s)
         /\ \A x \in Control : r.pend[x] = NoValue => Alike(r, s, x)
         /\ ~s.thrown => \A x \in Control : r.pend[x] # NoValue => ~Routing(s, x)
<1>1. r \in Rooms  BY DEF Sane
<1>2. PICK S \in SUBSET Control : S = {x \in Connected(r, Control) : r.pend[x] # NoValue}
  BY DEF Connected
<1>3. s = EndControls(r, S, "incomplete") /\ "incomplete" \in Outcome
  BY <1>2 DEF RetryPending, Outcome
<1>4. EndedSoFar(r, s, S, MaxControls)  BY <1>3, EndControlsKeeps
<1>5. \A x \in Control : x <= MaxControls  BY DEF Control
<1>6. Handles(r, s) /\ Calm(r, s)  BY <1>4 DEF EndedSoFar
<1>7. s = r \/ AllQuelled(s)
  <2>1. CASE S = {}  BY <1>4, <2>1 DEF EndedSoFar
  <2>2. CASE S # {}
    <3>1. PICK x \in S : r.pend[x] # NoValue /\ x <= MaxControls  BY <1>2, <1>5, <2>2
    <3> QED  BY <1>4, <3>1 DEF EndedSoFar
  <2> QED  BY <2>1, <2>2
<1>8. \A x \in Control : r.pend[x] = NoValue => Alike(r, s, x)  BY <1>2, <1>4 DEF EndedSoFar
<1>9. ASSUME NEW x \in Control, ~s.thrown, r.pend[x] # NoValue, Routing(s, x) PROVE FALSE
  <2>1. CASE x \in S  BY <1>4, <1>5, <1>9, <2>1 DEF EndedSoFar
  <2>2. CASE x \notin S
    <3>1. x \in Socket /\ s \in Rooms /\ Later(r, s)  BY <1>6, Roles DEF Handles, Sane
    <3>2. Routing(r, x)  BY <1>1, <1>9, <3>1, LaterRouting
    <3> QED  BY <1>2, <1>9, <2>2, <3>2 DEF Connected, Routing, Open
  <2> QED  BY <2>1, <2>2
<1> QED  BY <1>6, <1>7, <1>8, <1>9

-----------------------------------------------------------------------------
(* One control is left *)

LEMMA MaxIs ==
  ASSUME NEW S \in SUBSET Control, S # {}
  PROVE  Max(S) \in S /\ \A y \in S : y <= Max(S)
<1>1. MaxControls \in Nat /\ Control = 1..MaxControls  BY Roles DEF Control
<1>2. PICK T \in SUBSET Nat : T = {k \in Nat : \A y \in S : y <= k}  OBVIOUS
<1>3. MaxControls \in T  BY <1>1, <1>2
<1>4. PICK m \in T : \A k \in T : m <= k  BY <1>3, Least
<1>5. m \in S
  <2>1. ASSUME m \notin S PROVE FALSE
    <3>1. \A y \in S : y \in Nat /\ y >= 1 /\ y <= m /\ y # m  BY <1>1, <1>2, <2>1
    <3>2. PICK y \in S : TRUE  OBVIOUS
    <3>3. m - 1 \in Nat /\ \A z \in S : z <= m - 1  BY <3>1, <3>2
    <3>4. m - 1 \in T  BY <1>2, <3>3
    <3> QED  BY <1>4, <3>4
  <2> QED  BY <2>1
<1>6. \A y \in S : m >= y  BY <1>1, <1>2
<1>7. Max(S) \in S /\ \A y \in S : Max(S) >= y  BY <1>5, <1>6 DEF Max
<1> QED  BY <1>1, <1>7

LEMMA ThrowKeeps ==
  ASSUME NEW r, Sane(r),
         NEW s, s = Throw(r)
  PROVE  /\ Handles(r, s) /\ s.thrown /\ ControlsAlike(r, s)
         /\ \A x \in Socket : s.sock[x] = r.sock[x] /\ s.att[x] = r.att[x] /\ s.pend[x] = r.pend[x]
         /\ AllQuelled(r) => AllQuelled(s)
<1>1. r \in Rooms  BY DEF Sane
<1>2. /\ Only(r, s, NoValue) /\ s.sock = r.sock /\ s.att = r.att /\ s.pend = r.pend /\ s.inactive = r.inactive
      /\ s.finalized = r.finalized /\ s.metric = r.metric /\ s.thrown
  BY <1>1, WithThrow
<1>3. s \in Rooms /\ s.gen = r.gen  BY <1>2 DEF Only
<1>4. ASSUME NEW x \in Socket PROVE SaneAt(s, x) /\ StepAt(r, s, x) /\ Alike(r, s, x)
  <2>1. Alike(r, s, x)  BY <1>2 DEF Alike
  <2>2. s.inactive \subseteq Control /\ r.inactive \subseteq Control  BY <1>1, <1>3, Fields
  <2>3. StepAt(r, r, x)  BY <1>1, LaterSame DEF Later
  <2> QED  BY <1>2, <2>1, <2>2, <2>3, AlikeSane, AlikeStep DEF Sane
<1>5. Sane(s) /\ Later(r, s)  BY <1>2, <1>3, <1>4 DEF Sane, Later
<1>6. ControlsAlike(r, s)  BY <1>3, <1>4, Roles DEF ControlsAlike
<1>7. AllQuelled(r) => AllQuelled(s)  BY <1>1, <1>3, <1>5, QuelledLater
<1> QED  BY <1>2, <1>5, <1>6, <1>7, AlikeKept DEF Handles

LEMMA ContestedKeeps ==
  ASSUME NEW r, Sane(r), NEW w \in Control, NEW x \in Control,
         r.att[w] # NoValue, r.att[x] # NoValue,
         NEW s, s = Contested(r, w, x)
  PROVE  Sane(s) /\ Later(r, s) /\ s.thrown /\ AllQuelled(s)
<1>1. r \in Rooms /\ w \in Socket /\ x \in Socket  BY Roles DEF Sane
<1>2. "incomplete" \in Outcome /\ "incomplete" # NoValue
  BY NoValueAssumption DEF Outcome
<1>3. PICK q : q = [r EXCEPT !.inactive = @ \cup {w, x}, !.pend[w] = "incomplete",
                             !.pend[x] = "incomplete"]
  OBVIOUS
<1>4. PICK p : p = [y \in Socket |-> IF y \in {w, x} THEN "incomplete" ELSE r.pend[y]]  OBVIOUS
<1>5. p \in [Socket -> Outcome \cup {NoValue}]  BY <1>1, <1>2, <1>4, Fields
<1>6. PICK i \in SUBSET Control : i = r.inactive \cup {w, x}  BY <1>1, Fields
<1>7. q = [r EXCEPT !.inactive = i, !.pend = p]
  <2>1. r.pend \in [Socket -> Outcome \cup {NoValue}]  BY <1>1 DEF Rooms
  <2>2. [[r.pend EXCEPT ![w] = "incomplete"] EXCEPT ![x] = "incomplete"] = p
    BY <1>1, <1>4, <2>1
  <2>3. q = [r EXCEPT !.inactive = i,
                      !.pend = [[r.pend EXCEPT ![w] = "incomplete"] EXCEPT ![x] = "incomplete"]]
    BY <1>1, <1>3, <1>6 DEF Rooms
  <2> QED  BY <2>2, <2>3
<1>8. q \in Rooms  BY <1>1, <1>5, <1>7 DEF Rooms
<1>9. /\ q.sock = r.sock /\ q.att = r.att /\ q.gen = r.gen /\ q.metric = r.metric
      /\ q.finalized = r.finalized /\ q.thrown = r.thrown /\ q.inactive = i /\ q.pend = p
  BY <1>1, <1>7 DEF Rooms
<1>10. \A y \in Socket \ {w, x} : Alike(r, q, y)  BY <1>4, <1>6, <1>9 DEF Alike
<1>11. \A y \in Socket : Routing(q, y) <=> Routing(r, y)  BY <1>9 DEF Routing, Open
<1>12. ASSUME NEW y \in Socket PROVE SaneAt(q, y)
  <2>1. SaneAt(r, y)  BY DEF Sane
  <2>2. CASE y \notin {w, x}
    <3>1. q.inactive \subseteq Control /\ r.inactive \subseteq Control  BY <1>1, <1>8, Fields
    <3> QED  BY <1>10, <2>1, <2>2, <3>1, AlikeSane
  <2>3. CASE y \in {w, x}
    <3>1. y \notin Client  BY <2>3, Roles
    <3>2. q.pend[y] # NoValue  BY <1>2, <1>4, <1>9, <2>3
    <3>3. r.sock[y] # "none"  BY <2>1, <2>3 DEF SaneAt
    <3> QED  BY <1>9, <2>1, <2>3, <3>1, <3>2, <3>3 DEF SaneAt
  <2> QED  BY <2>2, <2>3
<1>13. PICK u : u = CloseAllClients(q, "incomplete")  OBVIOUS
<1>14. /\ u \in Rooms /\ (\A y \in Socket : SaneAt(q, y) => SaneAt(u, y))
       /\ Later(q, u) /\ ControlsAlike(q, u) /\ AllQuelled(u)
  BY <1>2, <1>8, <1>12, <1>13, Roles, CloseAllClientsKeeps
<1>15. Sane(u)  BY <1>12, <1>14 DEF Sane
<1>16. s = Throw(u)  BY <1>3, <1>13 DEF Contested
<1>17. /\ Handles(u, s) /\ s.thrown /\ ControlsAlike(u, s) /\ AllQuelled(s)
  BY <1>14, <1>15, <1>16, ThrowKeeps
<1>18. s \in Rooms /\ Later(u, s)  BY <1>17 DEF Handles, Sane
<1>19. ASSUME NEW y \in Socket PROVE StepAt(r, s, y)
  <2>1. CASE y \notin {w, x}
    <3>1. StepAt(r, r, y)  BY <1>1, LaterSame DEF Later
    <3>2. StepAt(r, q, y)  BY <1>9, <1>10, <2>1, <3>1, AlikeStep
    <3>3. StepAt(q, u, y) /\ StepAt(u, s, y) /\ (q.thrown => u.thrown) /\ (u.thrown => s.thrown)
      BY <1>14, <1>18 DEF Later
    <3>4. StepAt(r, u, y)  BY <1>1, <1>8, <1>14, <3>2, <3>3, StepsCompose
    <3> QED  BY <1>1, <1>14, <1>18, <3>3, <3>4, StepsCompose
  <2>2. CASE y \in {w, x}
    <3>1. y \in Control /\ y \notin Client  BY <2>2, Roles
    <3>2. Alike(q, u, y) /\ Alike(u, s, y)  BY <1>14, <1>17, <3>1 DEF ControlsAlike
    <3>3. s.sock[y] = r.sock[y] /\ s.att[y] = r.att[y] /\ s.pend[y] # NoValue
      BY <1>2, <1>4, <1>9, <2>2, <3>2 DEF Alike
    <3> QED  BY <1>17, <3>1, <3>3 DEF StepAt
  <2> QED  BY <2>1, <2>2
<1>20. s.gen = r.gen  BY <1>9, <1>14, <1>17 DEF ControlsAlike
<1> QED  BY <1>17, <1>19, <1>20 DEF Handles, Later

Contenders(S) == {q \in Rooms : Sane(q) /\ \A y \in S : q.att[y] # NoValue}
Contest(S) == [room : Contenders(S), winner : S]

LEMMA ContendersLater ==
  ASSUME NEW S \in SUBSET Control, NEW r \in Contenders(S), NEW s, Sane(s), Later(r, s)
  PROVE  s \in Contenders(S)
<1>1. ASSUME NEW y \in S PROVE s.att[y] # NoValue
  <2>1. y \in Socket /\ r.att[y] # NoValue  BY Roles DEF Contenders
  <2> QED  BY <2>1 DEF Later, StepAt
<1> QED  BY <1>1 DEF Contenders, Sane

LEMMA ChallengeKeeps ==
  ASSUME NEW S \in SUBSET Control, NEW acc \in Contest(S), NEW x \in S,
         NEW new, new = Challenge(acc, x)
  PROVE  /\ new \in Contest(S) /\ Later(acc.room, new.room) /\ Calm(acc.room, new.room)
         /\ acc.room.thrown => new = acc
         /\ ~acc.room.thrown /\ new.room.thrown => AllQuelled(new.room)
         /\ ~acc.room.thrown /\ ~new.room.thrown /\ x # acc.winner =>
              \/ new.winner = acc.winner /\ ~Routing(new.room, x)
              \/ new.winner = x /\ ~Routing(new.room, acc.winner)
<1>1. PICK r : r = acc.room  OBVIOUS
<1>2. PICK w : w = acc.winner  OBVIOUS
<1>3. r \in Contenders(S) /\ w \in S /\ acc = [room |-> r, winner |-> w]
  BY <1>1, <1>2 DEF Contest
<1>4. /\ r \in Rooms /\ Sane(r) /\ r.att[x] # NoValue /\ r.att[w] # NoValue
      /\ x \in Control /\ w \in Control /\ x \in Socket /\ w \in Socket
  BY <1>3, Roles DEF Contenders
<1>5. SaneAt(r, x) /\ SaneAt(r, w)  BY <1>4 DEF Sane
<1>6. ASSUME NEW s, Sane(s), Later(r, s), NEW z \in S PROVE [room |-> s, winner |-> z] \in Contest(S)
  BY <1>3, <1>6, ContendersLater DEF Contest
<1>7. CASE r.thrown
  <2>1. new = acc  BY <1>1, <1>7 DEF Challenge
  <2> QED  BY <1>1, <1>4, <1>7, <2>1, LaterSame DEF Calm
<1>8. CASE ~r.thrown /\ ~Stuck(r, x)
  <2>1. PICK s : s = Retire(r, x)  OBVIOUS
  <2>2. EndedAt(r, s, x) /\ s.thrown = r.thrown /\ ~Routing(s, x)
    BY <1>4, <1>5, <1>8, <2>1, RetireKeeps
  <2>3. Sane(s) /\ Later(r, s) /\ Calm(r, s)  BY <1>4, <2>2, EndedLater
  <2>4. new = [room |-> s, winner |-> w]  BY <1>1, <1>3, <1>8, <2>1 DEF Challenge
  <2>5. new \in Contest(S)  BY <1>3, <1>6, <2>3, <2>4
  <2>6. new.room = s /\ new.winner = w  BY <2>4
  <2> QED  BY <1>1, <1>2, <1>8, <2>2, <2>3, <2>5, <2>6
<1>9. CASE ~r.thrown /\ Stuck(r, x) /\ ~Stuck(r, w)
  <2>1. PICK p : p = PrepareRetirement(r, x)  OBVIOUS
  <2>2. EndedAt(r, p, x) /\ p.thrown = r.thrown  BY <1>4, <1>5, <2>1, PrepareKeeps
  <2>3. Sane(p) /\ Later(r, p) /\ Calm(r, p) /\ \A y \in Control \ {x} : Alike(r, p, y)
    BY <1>4, <2>2, EndedLater
  <2>4. w # x  BY <1>9
  <2>5. Alike(r, p, w)  BY <1>4, <2>3, <2>4
  <2>6. ~Stuck(p, w)  BY <1>9, <2>5 DEF Stuck, Closes, Open, Alike
  <2>7. PICK s : s = Retire(p, w)  OBVIOUS
  <2>8. p \in Rooms /\ SaneAt(p, w) /\ p.att[w] # NoValue  BY <1>4, <2>3, <2>5 DEF Sane, Alike
  <2>9. EndedAt(p, s, w) /\ s.thrown = p.thrown /\ ~Routing(s, w)
    BY <1>4, <2>6, <2>7, <2>8, RetireKeeps
  <2>10. Sane(s) /\ Later(p, s) /\ Calm(p, s)  BY <1>4, <2>3, <2>9, EndedLater
  <2>11. Later(r, s)  BY <1>4, <2>3, <2>8, <2>10, LaterComposes DEF Sane
  <2>12. new = [room |-> s, winner |-> x]  BY <1>1, <1>2, <1>9, <2>1, <2>7 DEF Challenge
  <2>13. new \in Contest(S)  BY <1>6, <2>10, <2>11, <2>12
  <2>14. new.room = s /\ new.winner = x  BY <2>12
  <2> QED  BY <1>1, <1>2, <1>9, <2>2, <2>9, <2>11, <2>13, <2>14 DEF Calm
<1>10. CASE ~r.thrown /\ Stuck(r, x) /\ Stuck(r, w)
  <2>1. PICK s : s = Contested(r, w, x)  OBVIOUS
  <2>2. Sane(s) /\ Later(r, s) /\ s.thrown /\ AllQuelled(s)  BY <1>4, <2>1, ContestedKeeps
  <2>3. new = [room |-> s, winner |-> w]  BY <1>1, <1>2, <1>3, <1>10, <2>1 DEF Challenge
  <2>4. new \in Contest(S)  BY <1>3, <1>6, <2>2, <2>3
  <2>5. new.room = s  BY <2>3
  <2>6. ~AllSound  BY <1>4, <1>10, AllSoundIs DEF Stuck
  <2> QED  BY <1>1, <1>10, <2>2, <2>4, <2>5, <2>6 DEF Calm
<1> QED  BY <1>7, <1>8, <1>9, <1>10

(* The contest after n challengers, the newest first *)
Competed(r, S, acc, n) ==
  /\ acc \in Contest(S) /\ Later(r, acc.room) /\ Calm(r, acc.room)
  /\ acc.room.thrown => AllQuelled(acc.room)
  /\ acc.winner = Max(S) \/ acc.winner > MaxControls - n
  /\ ~acc.room.thrown =>
       \A y \in S : (y = Max(S) \/ y > MaxControls - n) /\ y # acc.winner => ~Routing(acc.room, y)

LEMMA CompetedNext ==
  ASSUME NEW S \in SUBSET Control, S # {}, NEW r \in Contenders(S), NEW n \in 1..MaxControls,
         NEW acc, Competed(r, S, acc, n - 1),
         NEW x, x = MaxControls + 1 - n,
         NEW new, new = IF x \in S \ {Max(S)} THEN Challenge(acc, x) ELSE acc
  PROVE  Competed(r, S, new, n)
<1>1. MaxControls \in Nat /\ n \in Nat /\ x \in Nat /\ S \subseteq Nat  BY Roles
<1>2. Max(S) \in S  BY MaxIs
<1>3. \A y \in Nat : y > MaxControls - n <=> y = x \/ y > MaxControls - (n - 1)  BY <1>1
<1>4. acc.winner \in S /\ acc.room \in Contenders(S)  BY DEF Competed, Contest
<1>5. CASE x \notin S \ {Max(S)}
  <2>1. new = acc  BY <1>5
  <2>2. acc.winner = Max(S) \/ acc.winner > MaxControls - n  BY <1>1, <1>3, <1>4 DEF Competed
  <2>3. \A y \in S : y = Max(S) \/ y > MaxControls - n => y = Max(S) \/ y > MaxControls - (n - 1)
    BY <1>1, <1>3, <1>5
  <2> QED  BY <2>1, <2>2, <2>3 DEF Competed
<1>6. CASE x \in S \ {Max(S)}
  <2>1. new = Challenge(acc, x)  BY <1>6
  <2>2. acc \in Contest(S) /\ x \in S  BY <1>6 DEF Competed
  <2>3. /\ new \in Contest(S) /\ Later(acc.room, new.room) /\ Calm(acc.room, new.room)
        /\ acc.room.thrown => new = acc
        /\ ~acc.room.thrown /\ new.room.thrown => AllQuelled(new.room)
        /\ ~acc.room.thrown /\ ~new.room.thrown /\ x # acc.winner =>
             \/ new.winner = acc.winner /\ ~Routing(new.room, x)
             \/ new.winner = x /\ ~Routing(new.room, acc.winner)
    BY <2>1, <2>2, ChallengeKeeps
  <2>4. r \in Rooms /\ acc.room \in Rooms /\ new.room \in Rooms /\ S \subseteq Socket
    BY <1>4, <2>3, Roles DEF Contenders, Contest
  <2>5. Later(r, new.room) /\ Calm(r, new.room)
    BY <2>3, <2>4, LaterComposes DEF Competed, Calm
  <2>6. x # acc.winner  BY <1>1, <1>4, <1>6 DEF Competed
  <2>7. CASE acc.room.thrown
    <3>1. new = acc  BY <2>3, <2>7
    <3>2. acc.winner = Max(S) \/ acc.winner > MaxControls - n  BY <1>1, <1>3, <1>4 DEF Competed
    <3> QED  BY <2>5, <2>7, <3>1, <3>2 DEF Competed
  <2>8. CASE ~acc.room.thrown /\ new.room.thrown
    <3>1. acc.winner = Max(S) \/ acc.winner > MaxControls - n  BY <1>1, <1>3, <1>4 DEF Competed
    <3>2. new.winner \in {acc.winner, x}
      BY <2>1, <2>2 DEF Challenge, Contest
    <3>3. x > MaxControls - n  BY <1>1
    <3> QED  BY <2>3, <2>5, <2>8, <3>1, <3>2, <3>3 DEF Competed
  <2>9. CASE ~acc.room.thrown /\ ~new.room.thrown
    <3>1. \/ new.winner = acc.winner /\ ~Routing(new.room, x)
          \/ new.winner = x /\ ~Routing(new.room, acc.winner)
      BY <2>3, <2>6, <2>9
    <3>2. x > MaxControls - n  BY <1>1
    <3>3. new.winner = Max(S) \/ new.winner > MaxControls - n
      BY <1>1, <1>3, <1>4, <3>1, <3>2 DEF Competed
    <3>4. ASSUME NEW y \in S, y = Max(S) \/ y > MaxControls - n, y # new.winner, Routing(new.room, y)
          PROVE  FALSE
      <4>1. y # x /\ y # acc.winner  BY <3>1, <3>4
      <4>2. y = Max(S) \/ y > MaxControls - (n - 1)  BY <1>1, <1>3, <3>4, <4>1
      <4>3. ~Routing(acc.room, y)  BY <2>9, <4>1, <4>2 DEF Competed
      <4>4. y \in Socket  BY <2>4
      <4> QED  BY <2>3, <2>4, <3>4, <4>3, <4>4, LaterRouting
    <3> QED  BY <2>3, <2>5, <2>9, <3>3, <3>4 DEF Competed
  <2> QED  BY <2>7, <2>8, <2>9
<1> QED  BY <1>5, <1>6

(* The loop of RetireOthers *)
Contesting(r, S, g) ==
  g = [n \in 0..MaxControls |->
         IF n = 0 THEN [room |-> r, winner |-> Max(S)]
         ELSE IF MaxControls + 1 - n \in S \ {Max(S)}
              THEN Challenge(g[n - 1], MaxControls + 1 - n) ELSE g[n - 1]]

LEMMA ContestingExists ==
  ASSUME NEW S \in SUBSET Control, S # {}, NEW r \in Contenders(S)
  PROVE  \E g \in [0..MaxControls -> Contest(S)] : Contesting(r, S, g)
<1>1. MaxControls \in Nat  BY Roles
<1>2. PICK X : X = Contest(S)  OBVIOUS
<1>3. PICK a \in X : a = [room |-> r, winner |-> Max(S)]  BY <1>2, MaxIs DEF Contest
<1>4. PICK x : x = [n \in 1..MaxControls |-> MaxControls + 1 - n]  OBVIOUS
<1>5. PICK turn : turn = [n \in 1..MaxControls |->
                            [q \in X |-> IF x[n] \in S \ {Max(S)} THEN Challenge(q, x[n]) ELSE q]]
  OBVIOUS
<1>6. ASSUME NEW n \in 1..MaxControls, NEW q \in X
      PROVE  (IF x[n] \in S \ {Max(S)} THEN Challenge(q, x[n]) ELSE q) \in X
  <2>1. CASE x[n] \in S \ {Max(S)}
    <3>1. x[n] \in S /\ q \in Contest(S)  BY <1>2, <2>1
    <3>2. PICK t : t = Challenge(q, x[n])  OBVIOUS
    <3>3. t \in Contest(S)  BY <3>1, <3>2, ChallengeKeeps
    <3> QED  BY <1>2, <2>1, <3>2, <3>3
  <2>2. CASE x[n] \notin S \ {Max(S)}  BY <2>2
  <2> QED  BY <2>1, <2>2
<1>7. turn \in [1..MaxControls -> [X -> X]]  BY <1>5, <1>6
<1>8. PICK g \in [0..MaxControls -> X] : Turning(MaxControls, a, turn, g)
  BY <1>1, <1>7, Turns
<1>9. ASSUME NEW n \in 1..MaxControls
      PROVE  turn[n][g[n - 1]] = IF MaxControls + 1 - n \in S \ {Max(S)}
                                 THEN Challenge(g[n - 1], MaxControls + 1 - n) ELSE g[n - 1]
  <2>1. n - 1 \in 0..MaxControls  BY <1>1
  <2>2. g[n - 1] \in X  BY <2>1
  <2>3. x[n] = MaxControls + 1 - n  BY <1>4
  <2> QED  BY <1>5, <2>2, <2>3
<1>10. \A n \in 0..MaxControls : n # 0 => n \in 1..MaxControls  BY <1>1
<1>11. Contesting(r, S, g)  BY <1>3, <1>8, <1>9, <1>10 DEF Turning, Contesting
<1> QED  BY <1>2, <1>11

LEMMA RetireOthersKeeps ==
  ASSUME NEW S \in SUBSET Control, S # {}, NEW r \in Contenders(S), ~r.thrown,
         NEW s, s = RetireOthers(r, S)
  PROVE  /\ Sane(s) /\ Later(r, s) /\ Calm(r, s)
         /\ s.thrown => AllQuelled(s)
         /\ ~s.thrown => \E w \in S : \A y \in S : y # w => ~Routing(s, y)
<1>1. MaxControls \in Nat  BY Roles
<1>2. Max(S) \in S /\ S \subseteq Nat \ {0}  BY MaxIs, Roles
<1> DEFINE F(f) == [n \in 0..MaxControls |->
                      IF n = 0 THEN [room |-> r, winner |-> Max(S)]
                      ELSE IF MaxControls + 1 - n \in S \ {Max(S)}
                           THEN Challenge(f[n - 1], MaxControls + 1 - n) ELSE f[n - 1]]
<1> DEFINE f == CHOOSE f : f = F(f)
<1>3. s = f[MaxControls].room  BY DEF RetireOthers
<1>4. f = F(f)
  <2>1. PICK g \in [0..MaxControls -> Contest(S)] : Contesting(r, S, g)  BY ContestingExists
  <2>2. g = F(g)  BY <2>1 DEF Contesting
  <2> HIDE DEF F
  <2> QED  BY <2>2
<1>5. f[0] = [room |-> r, winner |-> Max(S)]
  <2> HIDE DEF f
  <2>1. 0 \in 0..MaxControls  BY <1>1
  <2> QED  BY <1>4, <2>1
<1>6. ASSUME NEW n \in 1..MaxControls
      PROVE  f[n] = IF MaxControls + 1 - n \in S \ {Max(S)}
                    THEN Challenge(f[n - 1], MaxControls + 1 - n) ELSE f[n - 1]
  <2> HIDE DEF f
  <2>1. n \in 0..MaxControls /\ n # 0  BY <1>1
  <2> QED  BY <1>4, <2>1
<1> HIDE DEF f
<1> DEFINE P == [n \in 0..MaxControls |-> Competed(r, S, f[n], n)]
<1>7. P[0]
  <2>1. 0 \in 0..MaxControls  BY <1>1
  <2>2. f[0].room = r /\ f[0].winner = Max(S) /\ f[0] \in Contest(S)
    BY <1>2, <1>5 DEF Contest
  <2>3. r \in Rooms  BY DEF Contenders
  <2>4. \A y \in S : y <= MaxControls /\ MaxControls - 0 = MaxControls /\ ~(y > MaxControls)
    BY <1>1 DEF Control
  <2>5. Competed(r, S, f[0], 0)  BY <2>2, <2>3, <2>4, LaterSame DEF Competed, Calm
  <2> QED  BY <2>1, <2>5
<1>8. ASSUME NEW n \in 1..MaxControls, P[n - 1] PROVE P[n]
  <2>1. n - 1 \in 0..MaxControls /\ n \in 0..MaxControls  BY <1>1
  <2>2. Competed(r, S, f[n - 1], n - 1)  BY <1>8, <2>1
  <2>3. PICK x : x = MaxControls + 1 - n  OBVIOUS
  <2>4. f[n] = IF x \in S \ {Max(S)} THEN Challenge(f[n - 1], x) ELSE f[n - 1]  BY <1>6, <2>3
  <2>5. Competed(r, S, f[n], n)  BY <2>2, <2>3, <2>4, CompetedNext
  <2> QED  BY <2>1, <2>5
<1>9. \A n \in 0..MaxControls : P[n]
  <2> HIDE DEF P
  <2> QED  BY <1>1, <1>7, <1>8, Climb
<1>10. Competed(r, S, f[MaxControls], MaxControls)
  <2>1. MaxControls \in 0..MaxControls  BY <1>1
  <2> QED  BY <1>9, <2>1
<1>11. f[MaxControls].winner \in S /\ Sane(s) /\ Later(r, s) /\ Calm(r, s) /\ (s.thrown => AllQuelled(s))
  BY <1>3, <1>10 DEF Competed, Contest, Contenders
<1>12. \A y \in S : y > MaxControls - MaxControls  BY <1>1, <1>2
<1>13. ~s.thrown => \A y \in S : y # f[MaxControls].winner => ~Routing(s, y)
  BY <1>3, <1>10, <1>12 DEF Competed
<1> QED  BY <1>11, <1>13

Single(r) == \A x, y \in CurrentOpen(r) : x = y

LEMMA CurrentRoutes ==
  ASSUME NEW r, NEW x \in CurrentOpen(r)
  PROVE  x \in Control /\ x \in Socket /\ Routing(r, x) /\ r.att[x].gen = r.gen
BY Roles DEF CurrentOpen, Routing

LEMMA CurrentLater ==
  ASSUME NEW r \in Rooms, NEW s \in Rooms, Later(r, s)
  PROVE  CurrentOpen(s) \subseteq CurrentOpen(r)
<1>1. ASSUME NEW x \in CurrentOpen(s) PROVE x \in CurrentOpen(r)
  <2>1. x \in Control /\ x \in Socket /\ Routing(s, x) /\ s.att[x].gen = s.gen
    BY CurrentRoutes
  <2>2. Routing(r, x)  BY <2>1, LaterRouting
  <2>3. Open(r, x) /\ r.att[x] # NoValue /\ r.att[x].current  BY <2>1, <2>2, Roles DEF Routing
  <2>4. r.att[x].gen = s.att[x].gen /\ r.gen = s.gen  BY <2>1, <2>3 DEF Later, StepAt
  <2> QED  BY <2>1, <2>3, <2>4 DEF CurrentOpen
<1> QED  BY <1>1

LEMMA SettleKeeps ==
  ASSUME NEW r, Sane(r), ~r.thrown,
         NEW s, s = SettleControls(r)
  PROVE  /\ Handles(r, s) /\ Calm(r, s)
         /\ s.thrown => AllQuelled(s)
         /\ ~s.thrown => Single(s)
<1>1. r \in Rooms  BY DEF Sane
<1>2. CASE Single(r)
  <2>1. s = r  BY <1>2 DEF SettleControls, Single
  <2> QED  BY <1>2, <2>1, HandlesSame DEF Calm
<1>3. CASE ~Single(r)
  <2>1. PICK S \in SUBSET Control : S = CurrentOpen(r)  BY DEF CurrentOpen
  <2>2. S # {} /\ r \in Contenders(S)  BY <1>1, <1>3, <2>1 DEF Single, Contenders, CurrentOpen
  <2>3. PICK q : q = RetireOthers(r, S)  OBVIOUS
  <2>4. /\ Sane(q) /\ Later(r, q) /\ Calm(r, q)
        /\ q.thrown => AllQuelled(q)
        /\ ~q.thrown => \E w \in S : \A y \in S : y # w => ~Routing(q, y)
    BY <2>2, <2>3, RetireOthersKeeps
  <2>5. q \in Rooms /\ \A c \in Client : SaneAt(q, c)  BY <2>4, Roles DEF Sane
  <2>6. s = IF q.thrown THEN q ELSE CloseAllClients(q, "incomplete")
    BY <1>3, <2>1, <2>3 DEF SettleControls, Single, Then, ReplacedClients
  <2>7. CASE q.thrown
    <3>1. s = q  BY <2>6, <2>7
    <3> QED  BY <2>4, <2>7, <3>1, QuelledKept DEF Handles
  <2>8. CASE ~q.thrown
    <3>1. s = CloseAllClients(q, "incomplete") /\ "incomplete" \in Outcome
      BY <2>6, <2>8 DEF Outcome
    <3>2. /\ s \in Rooms /\ (\A x \in Socket : SaneAt(q, x) => SaneAt(s, x))
          /\ Later(q, s) /\ Calm(q, s) /\ ControlsAlike(q, s) /\ AllQuelled(s)
      BY <2>5, <3>1, CloseAllClientsKeeps
    <3>3. Sane(s)  BY <2>4, <3>2 DEF Sane
    <3>4. Later(r, s) /\ Calm(r, s)  BY <1>1, <2>4, <2>5, <3>2, LaterComposes DEF Calm
    <3>5. Kept(r, s)  BY <3>2, QuelledKept
    <3>6. PICK w \in S : \A y \in S : y # w => ~Routing(q, y)  BY <2>4, <2>8
    <3>7. ASSUME NEW y \in CurrentOpen(s) PROVE y = w
      <4>1. CurrentOpen(s) \subseteq CurrentOpen(q) /\ CurrentOpen(q) \subseteq S
        BY <1>1, <2>1, <2>4, <2>5, <3>2, CurrentLater
      <4>2. y \in S /\ Routing(q, y)  BY <4>1, CurrentRoutes
      <4> QED  BY <3>6, <4>2
    <3>8. Single(s)  BY <3>7 DEF Single
    <3> QED  BY <3>2, <3>3, <3>4, <3>5, <3>8 DEF Handles
  <2> QED  BY <2>7, <2>8
<1> QED  BY <1>2, <1>3

LEMMA ReconcileKeeps ==
  ASSUME NEW r, Sane(r), ~r.thrown,
         NEW s, s = ReconcileActiveServer(r)
  PROVE  /\ Handles(r, s) /\ Calm(r, s)
         /\ s.thrown => AllQuelled(s)
         /\ ~s.thrown => Single(s)
         /\ ~s.thrown => \A x \in Control : r.pend[x] # NoValue => ~Routing(s, x)
<1>1. PICK q : q = RetryPending(r)  OBVIOUS
<1>2. /\ Handles(r, q) /\ Calm(r, q)
      /\ q = r \/ AllQuelled(q)
      /\ ~q.thrown => \A x \in Control : r.pend[x] # NoValue => ~Routing(q, x)
  BY <1>1, RetryPendingKeeps
<1>3. CASE q.thrown
  <2>1. s = q  BY <1>1, <1>3 DEF ReconcileActiveServer, Then
  <2> QED  BY <1>2, <1>3, <2>1
<1>4. CASE ~q.thrown
  <2>1. s = SettleControls(q)  BY <1>1, <1>4 DEF ReconcileActiveServer, Then
  <2>2. Sane(q)  BY <1>2 DEF Handles
  <2>3. /\ Handles(q, s) /\ Calm(q, s)
        /\ s.thrown => AllQuelled(s)
        /\ ~s.thrown => Single(s)
    BY <1>4, <2>1, <2>2, SettleKeeps
  <2>4. Handles(r, s) /\ Calm(r, s)  BY <1>2, <2>3, HandlesCompose DEF Calm
  <2>5. ASSUME NEW x \in Control, r.pend[x] # NoValue, Routing(s, x) PROVE FALSE
    <3>1. q \in Rooms /\ s \in Rooms /\ Later(q, s) /\ x \in Socket
      BY <2>2, <2>3, Roles DEF Handles, Sane
    <3>2. Routing(q, x)  BY <2>5, <3>1, LaterRouting
    <3> QED  BY <1>2, <1>4, <2>5, <3>2
  <2> QED  BY <2>3, <2>4, <2>5
<1> QED  BY <1>3, <1>4

(* A loop that closes sockets *)
LEMMA CloseEachOrThrowKeeps ==
  ASSUME NEW r, Sane(r), NEW S \in SUBSET Malformed(r),
         NEW s, s = CloseEachOrThrow(r, S)
  PROVE  Handles(r, s) /\ Calm(r, s) /\ CurrentOpen(s) = CurrentOpen(r)
<1>1. \A x \in S : x \in Control /\ x \in Socket /\ r.att[x] = NoValue  BY Roles DEF Malformed, Connected
<1>2. r \in Rooms /\ S \in SUBSET Socket  BY <1>1 DEF Sane
<1> DEFINE done == [x \in S |-> CloseOrThrow(r, x)]
<1>3. DOMAIN done = S /\ s = Each(r, done)  BY DEF CloseEachOrThrow
<1>4. ASSUME NEW x \in S PROVE EndedAt(r, done[x], x)
  <2>1. PICK q : q = CloseOrThrow(r, x)  OBVIOUS
  <2>2. SaneAt(r, x)  BY <1>1 DEF Sane
  <2>3. EndedAt(r, q, x)  BY <1>1, <1>2, <2>1, <2>2, CloseOrThrowKeeps
  <2>4. done[x] = q  BY <2>1
  <2> QED  BY <2>3, <2>4
<1> HIDE DEF done
<1>5. \A x \in S : done[x] \in Rooms /\ SaneAt(done[x], x) /\ StepAt(r, done[x], x) /\ Calm(r, done[x])
  BY <1>4 DEF EndedAt, Only
<1>6. s \in Rooms /\ (\A x \in Socket : x \in S \/ SaneAt(r, x) => SaneAt(s, x)) /\ Later(r, s) /\ Calm(r, s)
  BY <1>2, <1>3, <1>5, EachKeeps
<1>7. /\ s.gen = r.gen
      /\ \A x \in Socket \ S : Alike(r, s, x)
  BY <1>2, <1>3, <1>5, EachAt
<1>8. Sane(s)  BY <1>6 DEF Sane
<1>9. \A y \in CurrentOpen(r) : Alike(r, s, y)
  <2>1. \A y \in CurrentOpen(r) : y \notin S  BY <1>1 DEF CurrentOpen
  <2> QED  BY <1>7, <2>1, CurrentRoutes
<1>10. Kept(r, s)  BY <1>6, <1>9, CurrentKept
<1>11. CurrentOpen(r) \subseteq CurrentOpen(s)
  BY <1>7, <1>9 DEF CurrentOpen, Alike, Open
<1>12. CurrentOpen(s) \subseteq CurrentOpen(r)  BY <1>2, <1>6, CurrentLater
<1> QED  BY <1>6, <1>8, <1>10, <1>11, <1>12 DEF Handles

LEMMA ClosedAllKeeps ==
  ASSUME NEW r, Sane(r), NEW o \in Outcome,
         NEW s, s = CloseAllClients(r, o)
  PROVE  /\ Handles(r, s) /\ Calm(r, s) /\ ControlsAlike(r, s) /\ AllQuelled(s)
         /\ CurrentOpen(s) = CurrentOpen(r)
<1>1. r \in Rooms /\ \A c \in Client : SaneAt(r, c)  BY Roles DEF Sane
<1>2. /\ s \in Rooms /\ (\A x \in Socket : SaneAt(r, x) => SaneAt(s, x))
      /\ Later(r, s) /\ Calm(r, s) /\ ControlsAlike(r, s) /\ AllQuelled(s)
  BY <1>1, CloseAllClientsKeeps
<1>3. Sane(s)  BY <1>2 DEF Sane
<1> QED  BY <1>2, <1>3, QuelledKept, AlikeCurrent DEF Handles

LEMMA CloseMalformedKeeps ==
  ASSUME NEW r, Sane(r),
         NEW s, s = CloseMalformed(r)
  PROVE  Handles(r, s) /\ Calm(r, s) /\ CurrentOpen(s) = CurrentOpen(r)
<1>1. PICK q : q = IF Malformed(r) # {} /\ CurrentOpen(r) = {}
                   THEN CloseAllClients(r, "incomplete") ELSE r
  OBVIOUS
<1>2. Handles(r, q) /\ Calm(r, q) /\ ControlsAlike(r, q) /\ CurrentOpen(q) = CurrentOpen(r)
  <2>1. CASE q = r  BY <2>1, HandlesSame DEF Calm, ControlsAlike, Alike
  <2>2. CASE q = CloseAllClients(r, "incomplete")
    <3>1. "incomplete" \in Outcome  BY DEF Outcome
    <3> QED  BY <2>2, <3>1, ClosedAllKeeps
  <2> QED  BY <1>1, <2>1, <2>2
<1>3. s = CloseEachOrThrow(q, Malformed(r))  BY <1>1 DEF CloseMalformed
<1>4. Malformed(r) \subseteq Malformed(q)
  BY <1>2 DEF Malformed, ControlsAlike, Alike, Connected
<1>5. Sane(q) /\ Malformed(r) \in SUBSET Malformed(q)  BY <1>2, <1>4 DEF Handles
<1>6. Handles(q, s) /\ Calm(q, s) /\ CurrentOpen(s) = CurrentOpen(q)
  BY <1>3, <1>5, CloseEachOrThrowKeeps
<1> QED  BY <1>2, <1>6, HandlesCompose DEF Calm

LEMMA PruneKeeps ==
  ASSUME NEW r, Sane(r), ~r.thrown,
         NEW s, s = PruneServerTickets(r)
  PROVE  /\ Handles(r, s) /\ Calm(r, s)
         /\ ~s.thrown => Single(s)
         /\ ~s.thrown => \A x \in Control : r.pend[x] # NoValue => ~Routing(s, x)
<1>1. PICK q : q = ReconcileActiveServer(r)  OBVIOUS
<1>2. /\ Handles(r, q) /\ Calm(r, q)
      /\ ~q.thrown => Single(q)
      /\ ~q.thrown => \A x \in Control : r.pend[x] # NoValue => ~Routing(q, x)
  BY <1>1, ReconcileKeeps
<1>3. CASE q.thrown
  <2>1. s = q  BY <1>1, <1>3 DEF PruneServerTickets, Then
  <2> QED  BY <1>2, <1>3, <2>1
<1>4. CASE ~q.thrown
  <2>1. s = CloseMalformed(q)  BY <1>1, <1>4 DEF PruneServerTickets, Then
  <2>2. Sane(q)  BY <1>2 DEF Handles
  <2>3. Handles(q, s) /\ Calm(q, s) /\ CurrentOpen(s) = CurrentOpen(q)
    BY <2>1, <2>2, CloseMalformedKeeps
  <2>4. Handles(r, s) /\ Calm(r, s)  BY <1>2, <2>3, HandlesCompose DEF Calm
  <2>5. Single(s)  BY <1>2, <1>4, <2>3 DEF Single
  <2>6. ASSUME NEW x \in Control, r.pend[x] # NoValue, Routing(s, x) PROVE FALSE
    <3>1. q \in Rooms /\ s \in Rooms /\ Later(q, s) /\ x \in Socket
      BY <2>2, <2>3, Roles DEF Handles, Sane
    <3>2. Routing(q, x)  BY <2>6, <3>1, LaterRouting
    <3> QED  BY <1>2, <1>4, <2>6, <3>2
  <2> QED  BY <2>4, <2>5, <2>6
<1> QED  BY <1>3, <1>4

-----------------------------------------------------------------------------
(* Retrying, from the alarm *)

LEMMA DespiteKeeps ==
  ASSUME NEW r, Sane(r),
         NEW u, u = [r EXCEPT !.thrown = FALSE],
         NEW t, Handles(u, t),
         NEW s, s = Throw(t)
  PROVE  Handles(r, s) /\ s.thrown
<1>1. r \in Rooms  BY DEF Sane
<1>2. /\ u \in Rooms /\ u.gen = r.gen /\ u.sock = r.sock /\ u.att = r.att /\ u.pend = r.pend
      /\ u.inactive = r.inactive /\ u.finalized = r.finalized /\ u.metric = r.metric
  BY <1>1 DEF Rooms
<1>3. Sane(t) /\ Later(u, t) /\ Kept(u, t)  BY DEF Handles
<1>4. Handles(t, s) /\ s.thrown  BY <1>3, ThrowKeeps
<1>5. t \in Rooms /\ s \in Rooms /\ Later(t, s) /\ Kept(t, s) /\ Sane(s)  BY <1>3, <1>4 DEF Sane, Handles
<1>6. Later(u, s)  BY <1>2, <1>3, <1>5, LaterComposes
<1>7. Kept(u, s)  BY <1>2, <1>3, <1>5, KeptComposes
<1>8. \A x : Routing(u, x) <=> Routing(r, x)  BY <1>2 DEF Routing, Open
<1>9. ASSUME NEW x \in Socket PROVE StepAt(r, s, x)
  <2>1. StepAt(u, s, x)  BY <1>6 DEF Later
  <2> QED  BY <1>2, <1>4, <2>1 DEF StepAt
<1>10. Later(r, s)  BY <1>2, <1>4, <1>6, <1>9 DEF Later
<1>11. CurrentOpen(u) = CurrentOpen(r)  BY <1>2 DEF CurrentOpen, Open
<1>12. Kept(r, s)  BY <1>2, <1>7, <1>11 DEF Kept, Held
<1> QED  BY <1>4, <1>5, <1>10, <1>12 DEF Handles

LEMMA UnthrownSane ==
  ASSUME NEW r, Sane(r),
         NEW u, u = [r EXCEPT !.thrown = FALSE]
  PROVE  Sane(u) /\ ~u.thrown /\ (~r.thrown => u = r)
<1>1. r \in Rooms  BY DEF Sane
<1>2. /\ u \in Rooms /\ u.gen = r.gen /\ u.sock = r.sock /\ u.att = r.att /\ u.pend = r.pend
      /\ u.inactive = r.inactive /\ u.finalized = r.finalized /\ u.metric = r.metric
      /\ ~u.thrown
  BY <1>1 DEF Rooms
<1>3. \A x \in Socket : Alike(r, u, x)  BY <1>2 DEF Alike
<1>4. u.inactive \subseteq Control /\ r.inactive \subseteq Control  BY <1>1, <1>2, Fields
<1>5. \A x \in Socket : SaneAt(u, x)  BY <1>3, <1>4, AlikeSane DEF Sane
<1>6. ASSUME ~r.thrown PROVE u = r
  <2>1. r.thrown \in BOOLEAN  BY <1>1, Fields
  <2>2. r.thrown = FALSE  BY <1>6, <2>1
  <2> QED  BY <1>1, <2>2 DEF Rooms
<1> QED  BY <1>2, <1>5, <1>6 DEF Sane

(* One alarm: what was pending is retired, unless something is reported.      *)
LEMMA RetriedKeeps ==
  ASSUME NEW r, Sane(r), ~r.thrown,
         NEW s, s = Retried(r)
  PROVE  /\ Handles(r, s) /\ Calm(r, s)
         /\ ~s.thrown => \A x \in Socket : r.pend[x] # NoValue => ~Routing(s, x)
<1>1. PICK a : a = RetryPending(r)  OBVIOUS
<1>2. /\ Handles(r, a) /\ Calm(r, a)
      /\ ~a.thrown => \A x \in Control : r.pend[x] # NoValue => ~Routing(a, x)
  BY <1>1, RetryPendingKeeps
<1>3. PICK ua : ua = [a EXCEPT !.thrown = FALSE]  OBVIOUS
<1>4. Sane(a)  BY <1>2 DEF Handles
<1>5. Sane(ua) /\ ~ua.thrown /\ (~a.thrown => ua = a)  BY <1>3, <1>4, UnthrownSane
<1>6. PICK ta : ta = ExpireClients(ua)  OBVIOUS
<1>7. /\ Handles(ua, ta) /\ Calm(ua, ta)
      /\ ~ta.thrown => \A c \in Client : ua.pend[c] # NoValue => ~Routing(ta, c)
  BY <1>5, <1>6, ExpireClientsKeeps
<1>8. PICK b : b = IF a.thrown THEN Throw(ta) ELSE ta  OBVIOUS
<1>9. b = Despite(a, ExpireClients)  BY <1>3, <1>5, <1>6, <1>8 DEF Despite
<1>10. /\ Handles(a, b) /\ Calm(a, b)
       /\ a.thrown => b.thrown
       /\ ~b.thrown => \A c \in Client : a.pend[c] # NoValue => ~Routing(b, c)
  <2>1. CASE a.thrown
    <3>1. b = Throw(ta)  BY <1>8, <2>1
    <3>2. Handles(a, b) /\ b.thrown  BY <1>3, <1>4, <1>7, <3>1, DespiteKeeps
    <3>3. b \in Rooms /\ a \in Rooms  BY <1>4, <3>2 DEF Handles, Sane
    <3>4. b.thrown = a.thrown  BY <2>1, <3>2, <3>3, Fields
    <3> QED  BY <2>1, <3>2, <3>4 DEF Calm
  <2>2. CASE ~a.thrown
    <3>1. b = ta /\ ua = a  BY <1>5, <1>8, <2>2
    <3> QED  BY <1>7, <2>2, <3>1
  <2> QED  BY <2>1, <2>2
<1>11. PICK ub : ub = [b EXCEPT !.thrown = FALSE]  OBVIOUS
<1>12. Sane(b)  BY <1>10 DEF Handles
<1>13. Sane(ub) /\ ~ub.thrown /\ (~b.thrown => ub = b)  BY <1>11, <1>12, UnthrownSane
<1>14. PICK tb : tb = PruneServerTickets(ub)  OBVIOUS
<1>15. Handles(ub, tb) /\ Calm(ub, tb)  BY <1>13, <1>14, PruneKeeps
<1>16. s = IF b.thrown THEN Throw(tb) ELSE tb
  BY <1>1, <1>9, <1>11, <1>13, <1>14 DEF Retried, Despite
<1>17. Handles(b, s) /\ Calm(b, s) /\ (b.thrown => s.thrown)
  <2>1. CASE b.thrown
    <3>1. s = Throw(tb)  BY <1>16, <2>1
    <3>2. Handles(b, s) /\ s.thrown  BY <1>11, <1>12, <1>15, <3>1, DespiteKeeps
    <3>3. b \in Rooms /\ s \in Rooms  BY <1>12, <3>2 DEF Handles, Sane
    <3>4. b.thrown = s.thrown  BY <2>1, <3>2, <3>3, Fields
    <3> QED  BY <2>1, <3>2, <3>4 DEF Calm
  <2>2. CASE ~b.thrown
    <3>1. s = tb /\ ub = b  BY <1>13, <1>16, <2>2
    <3> QED  BY <1>15, <2>2, <3>1
  <2> QED  BY <2>1, <2>2
<1>18. Handles(r, b)  BY <1>2, <1>10, HandlesCompose
<1>19. Handles(r, s)  BY <1>17, <1>18, HandlesCompose
<1>20. Calm(r, s)  BY <1>2, <1>10, <1>17 DEF Calm
<1>21. r \in Rooms /\ a \in Rooms /\ b \in Rooms /\ s \in Rooms /\ Later(r, a) /\ Later(a, b) /\ Later(b, s)
  BY <1>2, <1>10, <1>17 DEF Handles, Sane
<1>22. ASSUME NEW x \in Socket, ~s.thrown, r.pend[x] # NoValue, Routing(s, x) PROVE FALSE
  <2>1. ~b.thrown /\ ~a.thrown  BY <1>10, <1>17, <1>22
  <2>2. Routing(b, x)  BY <1>21, <1>22, LaterRouting
  <2>3. Routing(a, x)  BY <1>21, <2>2, LaterRouting
  <2>4. x \in Client  BY <1>2, <1>22, <2>1, <2>3, Roles
  <2>5. a.pend[x] # NoValue  BY <1>21, <1>22, <2>3 DEF Later, StepAt
  <2> QED  BY <1>10, <2>1, <2>2, <2>4, <2>5
<1> QED  BY <1>19, <1>20, <1>22

-----------------------------------------------------------------------------
(* A new generation, and what every request does first *)

(* A control of an old generation was old before, or is reported to be        *)
(* retired.                                                                   *)
Aging(r, s) ==
  \A x \in Control :
    Routing(s, x) /\ s.att[x].gen # s.gen
      => (Routing(r, x) /\ r.att[x].gen # r.gen) \/ (s.thrown /\ s.pend[x] # NoValue)
(* What a handler that may also rotate makes of a room *)
Turned(r, s) ==
  /\ Sane(s) /\ (\A x \in Socket : StepAt(r, s, x)) /\ (r.thrown => s.thrown)
  /\ Kept(r, s) /\ Aging(r, s)

LEMMA HandlesTurned ==
  ASSUME NEW r, Sane(r), NEW s, Handles(r, s)
  PROVE  Turned(r, s)
<1>1. r \in Rooms /\ s \in Rooms /\ Later(r, s)  BY DEF Handles, Sane
<1>2. ASSUME NEW x \in Control, Routing(s, x), s.att[x].gen # s.gen
      PROVE  Routing(r, x) /\ r.att[x].gen # r.gen
  <2>1. x \in Socket /\ x \notin Client  BY Roles
  <2>2. Routing(r, x)  BY <1>1, <1>2, <2>1, LaterRouting
  <2>3. r.att[x] # NoValue  BY <2>1, <2>2 DEF Routing
  <2>4. s.att[x].gen = r.att[x].gen /\ s.gen = r.gen  BY <1>1, <2>1, <2>3 DEF Later, StepAt
  <2> QED  BY <1>2, <2>2, <2>4
<1>3. Aging(r, s)  BY <1>2 DEF Aging
<1> QED  BY <1>1, <1>3 DEF Handles, Later, Turned

LEMMA TurnedHandles ==
  ASSUME NEW r, Sane(r), NEW s, Turned(r, s), NEW t, Handles(s, t)
  PROVE  Turned(r, t)
<1>1. /\ r \in Rooms /\ s \in Rooms /\ t \in Rooms /\ Sane(t) /\ Later(s, t) /\ Kept(s, t)
  BY DEF Turned, Handles, Sane
<1>2. ASSUME NEW x \in Socket PROVE StepAt(r, t, x)
  <2>1. StepAt(r, s, x) /\ StepAt(s, t, x) /\ (s.thrown => t.thrown)  BY <1>1 DEF Turned, Later
  <2> QED  BY <1>1, <2>1, StepsCompose
<1>3. Kept(r, t)  BY <1>1, KeptComposes DEF Turned
<1>4. ASSUME NEW x \in Control, Routing(t, x), t.att[x].gen # t.gen
      PROVE  (Routing(r, x) /\ r.att[x].gen # r.gen) \/ (t.thrown /\ t.pend[x] # NoValue)
  <2>1. x \in Socket /\ x \notin Client  BY Roles
  <2>2. Routing(s, x)  BY <1>1, <1>4, <2>1, LaterRouting
  <2>3. s.att[x] # NoValue  BY <2>1, <2>2 DEF Routing
  <2>4. s.att[x].gen = t.att[x].gen /\ s.gen = t.gen  BY <1>1, <2>1, <2>3 DEF Later, StepAt
  <2>5. (Routing(r, x) /\ r.att[x].gen # r.gen) \/ (s.thrown /\ s.pend[x] # NoValue)
    BY <1>4, <2>2, <2>4 DEF Turned, Aging
  <2> QED  BY <1>1, <1>4, <2>1, <2>5 DEF Later, StepAt
<1>5. Aging(r, t)  BY <1>4 DEF Aging
<1>6. r.thrown => t.thrown  BY <1>1 DEF Turned, Later
<1> QED  BY <1>1, <1>2, <1>3, <1>5, <1>6 DEF Turned

LEMMA RotateKeeps ==
  ASSUME NEW r, Sane(r), NEW g \in Nat,
         NEW s, s = RotateTokenGeneration(r, g)
  PROVE  Turned(r, s) /\ Calm(r, s) /\ s.gen = g
<1>1. r \in Rooms  BY DEF Sane
<1>2. CASE r.gen = g
  <2>1. s = r  BY <1>2 DEF RotateTokenGeneration
  <2> QED  BY <1>2, <2>1, HandlesSame, HandlesTurned DEF Calm
<1>3. CASE r.gen # g
  <2>1. PICK q : q = [r EXCEPT !.gen = g]  OBVIOUS
  <2>2. /\ q \in Rooms /\ q.gen = g /\ q.sock = r.sock /\ q.att = r.att /\ q.pend = r.pend
        /\ q.inactive = r.inactive /\ q.finalized = r.finalized /\ q.metric = r.metric
        /\ q.thrown = r.thrown
    BY <1>1, <2>1 DEF Rooms
  <2>3. \A x \in Socket : Alike(r, q, x)  BY <2>2 DEF Alike
  <2>4. r.inactive \subseteq Control /\ q.inactive \subseteq Control  BY <1>1, <2>2, Fields
  <2>5. Sane(q)  BY <2>2, <2>3, <2>4, AlikeSane DEF Sane
  <2>6. \A x : Routing(q, x) <=> Routing(r, x)  BY <2>2 DEF Routing, Open
  <2>7. PICK S \in SUBSET Control : S = OldConnections(r, Control, g)
    BY DEF OldConnections, Connected
  <2>8. PICK a : a = EndControls(q, S, "incomplete")  OBVIOUS
  <2>9. "incomplete" \in Outcome  BY DEF Outcome
  <2>10. EndedSoFar(q, a, S, MaxControls)  BY <2>5, <2>8, <2>9, EndControlsKeeps
  <2>11. Handles(q, a) /\ Calm(q, a)  BY <2>10 DEF EndedSoFar
  <2>12. a \in Rooms /\ Sane(a) /\ \A c \in Client : SaneAt(a, c)  BY <2>11, Roles DEF Handles, Sane
  <2>13. PICK C \in SUBSET Client : C = OldConnections(a, Client, g)
    BY DEF OldConnections, Connected
  <2>14. s = EndClients(a, C, "incomplete")
    BY <1>3, <2>1, <2>7, <2>8, <2>13 DEF RotateTokenGeneration, EndOldClients
  <2>15. /\ s \in Rooms /\ (\A x \in Socket : SaneAt(a, x) => SaneAt(s, x))
         /\ Later(a, s) /\ Calm(a, s) /\ ControlsAlike(a, s)
    BY <2>9, <2>12, <2>14, EndClientsKeeps
  <2>16. Sane(s)  BY <2>12, <2>15 DEF Sane
  <2>17. Handles(a, s)  BY <2>15, <2>16, AlikeKept DEF Handles
  <2>18. Later(q, s) /\ Later(q, a)  BY <2>5, <2>11, <2>17, HandlesCompose DEF Handles
  <2>19. ASSUME NEW x \in Socket PROVE StepAt(r, s, x)
    <3>1. StepAt(q, s, x)  BY <2>18 DEF Later
    <3> QED  BY <2>2, <2>6, <3>1 DEF StepAt
  <2>20. \A x \in Control : x <= MaxControls  BY DEF Control
  <2>21. ASSUME NEW x \in Control, Routing(r, x), r.att[x].gen # g PROVE x \in S
    BY <2>7, <2>21 DEF OldConnections, Connected, Routing, Open
  <2>22. Kept(r, s)
    <3>1. ASSUME NEW c \in Client, Held(r, c) PROVE AllQuelled(s)
      <4>1. PICK x \in CurrentOpen(r) : TRUE  BY <3>1 DEF Held
      <4>2. x \in Control /\ Routing(r, x) /\ r.att[x].gen = r.gen  BY CurrentRoutes
      <4>3. x \in S  BY <1>3, <2>21, <4>2
      <4>4. AllQuelled(a)  BY <2>6, <2>10, <2>20, <4>2, <4>3 DEF EndedSoFar
      <4> QED  BY <2>12, <2>15, <4>4, QuelledLater
    <3> QED  BY <3>1 DEF Kept, AllQuelled, Quelled
  <2>23. s.gen = g  BY <2>2, <2>18 DEF Later
  <2>24. ASSUME NEW x \in Control, Routing(s, x), s.att[x].gen # s.gen
         PROVE  s.thrown /\ s.pend[x] # NoValue
    <3>1. x \in Socket /\ x \notin Client  BY Roles
    <3>2. Routing(a, x)  BY <2>12, <2>15, <2>24, <3>1, LaterRouting
    <3>3. Routing(q, x)  BY <2>2, <2>12, <2>18, <3>1, <3>2, LaterRouting
    <3>4. r.att[x] # NoValue  BY <2>2, <3>1, <3>3 DEF Routing
    <3>5. s.att[x].gen = r.att[x].gen  BY <2>19, <3>1, <3>4 DEF StepAt
    <3>6. x \in S  BY <2>6, <2>21, <2>23, <2>24, <3>3, <3>5
    <3>7. a.pend[x] # NoValue /\ a.thrown  BY <2>10, <2>20, <3>2, <3>6 DEF EndedSoFar
    <3> QED  BY <2>15, <2>24, <3>1, <3>7 DEF Later, StepAt
  <2>25. Aging(r, s)  BY <2>24 DEF Aging
  <2>26. r.thrown => s.thrown  BY <2>2, <2>18 DEF Later
  <2>27. Calm(r, s)  BY <2>2, <2>11, <2>15 DEF Calm
  <2> QED  BY <2>16, <2>19, <2>22, <2>23, <2>25, <2>26, <2>27 DEF Turned
<1> QED  BY <1>2, <1>3

LEMMA PreparedKeeps ==
  ASSUME NEW r, Sane(r), ~r.thrown, published \in Nat,
         NEW s, s = Prepared(r)
  PROVE  /\ Turned(r, s) /\ s.gen = published
         /\ ~s.thrown => Single(s)
         /\ ~s.thrown => \A x \in Socket : r.pend[x] # NoValue => ~Routing(s, x)
<1>1. PICK a : a = Rotated(r)  OBVIOUS
<1>2. Turned(r, a) /\ a.gen = published
  <2>1. a = RotateTokenGeneration(r, published)  BY <1>1 DEF Rotated
  <2> QED  BY <2>1, RotateKeeps
<1>3. r \in Rooms /\ a \in Rooms /\ Sane(a)  BY <1>2 DEF Turned, Sane
<1>4. PICK b : b = IF a.thrown THEN a ELSE ExpireClients(a)  OBVIOUS
<1>5. /\ Handles(a, b) /\ (a.thrown => b.thrown)
      /\ ~b.thrown => \A c \in Client : a.pend[c] # NoValue => ~Routing(b, c)
  <2>1. CASE a.thrown
    <3>1. b = a  BY <1>4, <2>1
    <3> QED  BY <1>3, <2>1, <3>1, HandlesSame
  <2>2. CASE ~a.thrown
    <3>1. b = ExpireClients(a)  BY <1>4, <2>2
    <3> QED  BY <1>3, <2>2, <3>1, ExpireClientsKeeps
  <2> QED  BY <2>1, <2>2
<1>6. b \in Rooms /\ Sane(b) /\ Later(a, b)  BY <1>5 DEF Handles, Sane
<1>7. s = IF b.thrown THEN b ELSE PruneServerTickets(b)
  BY <1>1, <1>4 DEF Prepared, Then
<1>8. /\ Handles(b, s) /\ (b.thrown => s.thrown)
      /\ ~s.thrown => Single(s)
      /\ ~s.thrown => \A x \in Control : b.pend[x] # NoValue => ~Routing(s, x)
  <2>1. CASE b.thrown
    <3>1. s = b  BY <1>7, <2>1
    <3> QED  BY <1>6, <2>1, <3>1, HandlesSame
  <2>2. CASE ~b.thrown
    <3>1. s = PruneServerTickets(b)  BY <1>7, <2>2
    <3> QED  BY <1>6, <2>2, <3>1, PruneKeeps
  <2> QED  BY <2>1, <2>2
<1>9. s \in Rooms /\ Later(b, s)  BY <1>8 DEF Handles, Sane
<1>10. Handles(a, s)  BY <1>3, <1>5, <1>8, HandlesCompose
<1>11. Turned(r, s)  BY <1>2, <1>10, TurnedHandles
<1>12. s.gen = published  BY <1>2, <1>10 DEF Handles, Later
<1>13. ASSUME NEW x \in Socket, ~s.thrown, r.pend[x] # NoValue, Routing(s, x) PROVE FALSE
  <2>1. ~b.thrown /\ ~a.thrown  BY <1>5, <1>8, <1>13
  <2>2. Routing(b, x)  BY <1>6, <1>9, <1>13, LaterRouting
  <2>3. Routing(a, x)  BY <1>3, <1>6, <2>2, LaterRouting
  <2>4. a.pend[x] # NoValue  BY <1>2, <1>13, <2>3 DEF Turned, StepAt
  <2>5. b.pend[x] # NoValue  BY <1>6, <2>2, <2>4 DEF Later, StepAt
  <2>6. CASE x \in Client  BY <1>5, <2>1, <2>2, <2>4, <2>6
  <2>7. CASE x \in Control  BY <1>8, <1>13, <2>5, <2>7
  <2> QED  BY <2>6, <2>7, Roles
<1> QED  BY <1>8, <1>11, <1>12, <1>13


-----------------------------------------------------------------------------
(* What a handler makes of the room, sockets it adds or removes included *)

ServedAt(r, s, x) ==
  /\ Routing(s, x) => r.sock[x] = "none" \/ Routing(r, x)
  /\ Routing(s, x) /\ r.pend[x] # NoValue => s.pend[x] # NoValue
  /\ Routing(s, x) /\ s.pend[x] # NoValue => s.thrown \/ r.pend[x] # NoValue
  /\ r.sock[x] # "none" => s.sock[x] # "none"
  /\ x \in Control /\ Routing(s, x) /\ s.att[x].gen # s.gen =>
       (Routing(r, x) /\ r.att[x].gen # r.gen) \/ (s.thrown /\ s.pend[x] # NoValue)
Served(r, s) == Sane(s) /\ (r.thrown => s.thrown) /\ \A x \in Socket : ServedAt(r, s, x)

(* A session that goes on without its control, and that nothing will end *)
Overlooked(r, c) == Routing(r, c) /\ r.pend[c] = NoValue /\ ~Held(r, c)
Remembers(r, s) == \A c \in Client : Overlooked(s, c) => Overlooked(r, c)

(* The client is admitted, or its candidate is forwarded. *)
Granted(r, s, c) ==
  \/ r.sock[c] = "none" /\ Routing(s, c) /\ ~s.att[c].summary
  \/ /\ r.att[c] # NoValue /\ r.att[c].stage # "exchange"
     /\ s.att[c] # NoValue /\ s.att[c].stage = "exchange"
Granting(r, s) == \A c \in Client : Granted(r, s, c) => CurrentOpen(s) = {s.att[c].owner}

LEMMA StepServed ==
  ASSUME NEW r, Sane(r), NEW s, Sane(s), NEW x \in Socket, StepAt(r, s, x),
         x \in Control /\ Routing(s, x) /\ s.att[x].gen # s.gen =>
           (Routing(r, x) /\ r.att[x].gen # r.gen) \/ (s.thrown /\ s.pend[x] # NoValue)
  PROVE  ServedAt(r, s, x)
<1>1. r \in Rooms /\ s \in Rooms  BY DEF Sane
<1>2. Routing(s, x) => Routing(r, x)  BY <1>1, StepRouting
<1> QED  BY <1>2 DEF ServedAt, StepAt

LEMMA TurnedServed ==
  ASSUME NEW r, Sane(r), NEW s, Turned(r, s)
  PROVE  Served(r, s)
<1>1. \A x \in Socket : ServedAt(r, s, x)  BY StepServed DEF Turned, Aging
<1> QED  BY <1>1 DEF Served, Turned

LEMMA KeptRemembers ==
  ASSUME NEW r \in Rooms, NEW s \in Rooms, \A c \in Client : StepAt(r, s, c), Kept(r, s)
  PROVE  Remembers(r, s)
<1>1. ASSUME NEW c \in Client, Overlooked(s, c) PROVE Overlooked(r, c)
  <2>1. c \in Socket  BY Roles
  <2>2. Routing(r, c)  BY <1>1, <2>1, StepRouting DEF Overlooked
  <2>3. r.pend[c] = NoValue  BY <1>1 DEF Overlooked, StepAt
  <2>4. ~Held(r, c)  BY <1>1 DEF Overlooked, Kept
  <2> QED  BY <2>2, <2>3, <2>4 DEF Overlooked
<1> QED  BY <1>1 DEF Remembers

LEMMA QuelledRemembers ==
  ASSUME NEW r, NEW s, AllQuelled(s)
  PROVE  Remembers(r, s)
BY DEF AllQuelled, Quelled, Remembers, Overlooked

LEMMA StepsGrant ==
  ASSUME NEW r, Sane(r), NEW s, NEW c \in Client, StepAt(r, s, c)
  PROVE  ~Granted(r, s, c)
<1>1. ASSUME r.sock[c] = "none" PROVE ~Routing(s, c)  BY <1>1 DEF StepAt, Routing, Open
<1>2. ASSUME r.att[c] # NoValue, r.att[c].stage # "exchange" PROVE s.att[c].stage # "exchange"
  BY <1>2 DEF StepAt
<1> QED  BY <1>1, <1>2 DEF Granted

LEMMA TurnedDone ==
  ASSUME NEW r, Sane(r), NEW s, Turned(r, s)
  PROVE  Served(r, s) /\ Remembers(r, s) /\ Granting(r, s)
<1>1. r \in Rooms /\ s \in Rooms  BY DEF Sane, Turned
<1>2. \A c \in Client : StepAt(r, s, c)  BY Roles DEF Turned
<1>3. Remembers(r, s)  BY <1>1, <1>2, KeptRemembers DEF Turned
<1>4. Granting(r, s)  BY <1>2, StepsGrant DEF Granting
<1> QED  BY <1>3, <1>4, TurnedServed

LEMMA HandlesDone ==
  ASSUME NEW r, Sane(r), NEW s, Handles(r, s)
  PROVE  Served(r, s) /\ Remembers(r, s) /\ Granting(r, s)
BY HandlesTurned, TurnedDone

LEMMA ServedComposes ==
  ASSUME NEW r, Sane(r), NEW s, NEW t, Served(r, s), Served(s, t)
  PROVE  Served(r, t)
<1>1. Sane(s) /\ Sane(t)  BY DEF Served
<1>2. ASSUME NEW x \in Socket PROVE ServedAt(r, t, x)
  <2>1. ServedAt(r, s, x) /\ ServedAt(s, t, x) /\ SaneAt(r, x) /\ SaneAt(s, x)
    BY <1>1 DEF Served, Sane
  <2>2. s.thrown => t.thrown  BY DEF Served
  <2>3. r.sock[x] # "none" => s.sock[x] # "none" /\ t.sock[x] # "none"  BY <2>1 DEF ServedAt
  <2>4. Routing(t, x) => r.sock[x] = "none" \/ Routing(r, x)  BY <2>1, <2>3 DEF ServedAt
  <2>5. s.pend[x] # NoValue => s.sock[x] # "none"  BY <2>1 DEF SaneAt
  <2>6. r.pend[x] # NoValue => r.sock[x] # "none"  BY <2>1 DEF SaneAt
  <2>7. Routing(t, x) /\ s.pend[x] # NoValue => Routing(s, x)  BY <2>1, <2>5 DEF ServedAt
  <2>8. Routing(t, x) /\ r.pend[x] # NoValue => t.pend[x] # NoValue
    BY <2>1, <2>3, <2>6 DEF ServedAt
  <2>9. Routing(t, x) /\ t.pend[x] # NoValue => t.thrown \/ r.pend[x] # NoValue
    BY <2>1, <2>2, <2>7 DEF ServedAt
  <2>10. ASSUME x \in Control, Routing(t, x), t.att[x].gen # t.gen
         PROVE  (Routing(r, x) /\ r.att[x].gen # r.gen) \/ (t.thrown /\ t.pend[x] # NoValue)
    <3>1. (Routing(s, x) /\ s.att[x].gen # s.gen) \/ (t.thrown /\ t.pend[x] # NoValue)
      BY <2>1, <2>10 DEF ServedAt
    <3>2. Routing(s, x) /\ s.att[x].gen # s.gen =>
            (Routing(r, x) /\ r.att[x].gen # r.gen) \/ (s.thrown /\ s.pend[x] # NoValue)
      BY <2>1, <2>10 DEF ServedAt
    <3>3. s.pend[x] # NoValue => t.pend[x] # NoValue  BY <2>1, <2>10 DEF ServedAt
    <3> QED  BY <2>2, <3>1, <3>2, <3>3
  <2> QED  BY <2>3, <2>4, <2>8, <2>9, <2>10 DEF ServedAt
<1> QED  BY <1>1, <1>2 DEF Served

LEMMA RemembersComposes ==
  ASSUME NEW r, NEW s, NEW t, Remembers(r, s), Remembers(s, t)
  PROVE  Remembers(r, t)
BY DEF Remembers

-----------------------------------------------------------------------------
(* Installing a control: the loops *)

LEMMA EachEnded ==
  ASSUME NEW r, Sane(r), NEW S \in SUBSET Socket, NEW done, DOMAIN done = S,
         \A x \in S : EndedAt(r, done[x], x),
         NEW s, s = Each(r, done)
  PROVE  /\ Sane(s) /\ Later(r, s)
         /\ \A x \in S : Alike(done[x], s, x)
         /\ \A x \in Socket \ S : Alike(r, s, x)
         /\ s.thrown => r.thrown \/ \E x \in S : done[x].thrown
<1>1. r \in Rooms  BY DEF Sane
<1>2. \A x \in S : done[x] \in Rooms /\ SaneAt(done[x], x) /\ StepAt(r, done[x], x)
  BY DEF EndedAt, Only
<1>3. /\ s \in Rooms /\ Later(r, s)
      /\ \A x \in Socket : x \in S \/ SaneAt(r, x) => SaneAt(s, x)
  BY <1>1, <1>2, EachKeeps
<1>4. /\ \A x \in S : Alike(done[x], s, x)
      /\ \A x \in Socket \ S : Alike(r, s, x)
      /\ s.thrown => r.thrown \/ \E x \in S : done[x].thrown
  <2>1. \A x \in S : done[x] \in Rooms  BY <1>2
  <2> QED  BY <1>1, <2>1, EachAt
<1> QED  BY <1>3, <1>4 DEF Sane

(* What preparing the retirement of x makes of it *)
PreparedAt(r, s, x) ==
  /\ ~Stuck(r, x) => ~Routing(s, x)
  /\ Stuck(r, x) => SameAt(r, s, x)
  /\ Writes(x) => /\ s.att[x] = Demoted(r.att[x]) /\ s.sock[x] = r.sock[x]
                  /\ s.pend[x] = NoValue /\ (x \in s.inactive => x \in r.inactive)

LEMMA PrepareAllKeeps ==
  ASSUME NEW r, Sane(r), NEW S \in SUBSET Control, \A x \in S : r.att[x] # NoValue,
         NEW s, s = PrepareAll(r, S)
  PROVE  /\ Sane(s) /\ Later(r, s) /\ (s.thrown => r.thrown)
         /\ \A x \in S : PreparedAt(r, s, x)
         /\ \A x \in Socket \ S : Alike(r, s, x)
<1> DEFINE done == [x \in S |-> PrepareRetirement(r, x)]
<1>1. DOMAIN done = S /\ S \in SUBSET Socket  BY Roles
<1>2. s = Each(r, done)  BY DEF PrepareAll
<1>3. ASSUME NEW x \in S
      PROVE  EndedAt(r, done[x], x) /\ done[x].thrown = r.thrown /\ PreparedAt(r, done[x], x)
  <2>1. PICK q : q = PrepareRetirement(r, x)  OBVIOUS
  <2>2. x \in Control /\ SaneAt(r, x) /\ r \in Rooms /\ r.att[x] # NoValue  BY Roles DEF Sane
  <2>3. /\ EndedAt(r, q, x) /\ q.thrown = r.thrown
        /\ ~Stuck(r, x) => ~Routing(q, x)
        /\ Stuck(r, x) => q.att = r.att /\ q.sock = r.sock /\ q.pend = r.pend
        /\ Writes(x) => /\ q.att[x] = Demoted(r.att[x])
                        /\ q.sock = r.sock /\ q.pend[x] = NoValue
                        /\ q.inactive = r.inactive
    BY <2>1, <2>2, PrepareKeeps
  <2>4. PreparedAt(r, q, x)  BY <2>3 DEF PreparedAt, SameAt
  <2>5. done[x] = q  BY <2>1
  <2> QED  BY <2>3, <2>4, <2>5
<1> HIDE DEF done
<1>4. /\ Sane(s) /\ Later(r, s)
      /\ \A x \in S : Alike(done[x], s, x)
      /\ \A x \in Socket \ S : Alike(r, s, x)
      /\ s.thrown => r.thrown \/ \E x \in S : done[x].thrown
  BY <1>1, <1>2, <1>3, EachEnded
<1>5. ASSUME NEW x \in S PROVE PreparedAt(r, s, x)
  <2>1. Alike(done[x], s, x) /\ PreparedAt(r, done[x], x)  BY <1>3, <1>4
  <2>2. Routing(s, x) <=> Routing(done[x], x)  BY <2>1, AlikeRouting
  <2>3. x \in Control  OBVIOUS
  <2> QED  BY <2>1, <2>2, <2>3 DEF PreparedAt, Alike, SameAt
<1>6. s.thrown => r.thrown  BY <1>3, <1>4
<1> QED  BY <1>4, <1>5, <1>6

LEMMA FinishAllKeeps ==
  ASSUME NEW r, Sane(r), NEW S \in SUBSET Control,
         NEW s, s = FinishAll(r, S)
  PROVE  /\ Sane(s) /\ Later(r, s) /\ (s.thrown => r.thrown)
         /\ \A x \in Socket \ S : Alike(r, s, x)
<1> DEFINE done == [x \in S |-> FinishRetirement(r, x)]
<1>1. DOMAIN done = S /\ S \in SUBSET Socket  BY Roles
<1>2. s = Each(r, done)  BY DEF FinishAll
<1>3. ASSUME NEW x \in S PROVE EndedAt(r, done[x], x) /\ done[x].thrown = r.thrown
  <2>1. PICK q : q = FinishRetirement(r, x)  OBVIOUS
  <2>2. x \in Control /\ SaneAt(r, x) /\ r \in Rooms  BY Roles DEF Sane
  <2>3. EndedAt(r, q, x) /\ q.thrown = r.thrown  BY <2>1, <2>2, FinishKeeps
  <2>4. done[x] = q  BY <2>1
  <2> QED  BY <2>3, <2>4
<1> HIDE DEF done
<1>4. /\ Sane(s) /\ Later(r, s)
      /\ \A x \in Socket \ S : Alike(r, s, x)
      /\ s.thrown => r.thrown \/ \E x \in S : done[x].thrown
  BY <1>1, <1>2, <1>3, EachEnded
<1>5. s.thrown => r.thrown  BY <1>3, <1>4
<1> QED  BY <1>4, <1>5

LEMMA CloseEachKeeps ==
  ASSUME NEW r, Sane(r), NEW S \in SUBSET Control,
         NEW s, s = CloseEach(r, S)
  PROVE  /\ Sane(s) /\ Later(r, s) /\ (s.thrown => r.thrown)
         /\ \A x \in Socket \ S : Alike(r, s, x)
<1> DEFINE done == [x \in S |-> Close(r, x)]
<1>1. DOMAIN done = S /\ S \in SUBSET Socket  BY Roles
<1>2. s = Each(r, done)  BY DEF CloseEach
<1>3. ASSUME NEW x \in S PROVE EndedAt(r, done[x], x) /\ done[x].thrown = r.thrown
  <2>1. PICK q : q = Close(r, x)  OBVIOUS
  <2>2. x \in Socket /\ SaneAt(r, x) /\ r \in Rooms  BY Roles DEF Sane
  <2>3. EndedAt(r, q, x) /\ q.thrown = r.thrown  BY <2>1, <2>2, CloseKeeps
  <2>4. done[x] = q  BY <2>1
  <2> QED  BY <2>3, <2>4
<1> HIDE DEF done
<1>4. /\ Sane(s) /\ Later(r, s)
      /\ \A x \in Socket \ S : Alike(r, s, x)
      /\ s.thrown => r.thrown \/ \E x \in S : done[x].thrown
  BY <1>1, <1>2, <1>3, EachEnded
<1>5. s.thrown => r.thrown  BY <1>3, <1>4
<1> QED  BY <1>4, <1>5

-----------------------------------------------------------------------------
(* Installing a control *)

(* A room whose requests may be handled: at most one control routes, it is    *)
(* of the room's generation, and it is not to be retired.                     *)
Orderly(r) ==
  /\ Sane(r) /\ ~r.thrown /\ Single(r)
  /\ \A x \in Control : Routing(r, x) => x \in CurrentOpen(r) /\ r.pend[x] = NoValue

LEMMA PreparedOrderly ==
  ASSUME NEW r, Sane(r), ~r.thrown, published \in Nat,
         \A x \in Control : Routing(r, x) /\ r.att[x].gen # r.gen => r.pend[x] # NoValue,
         NEW s, s = Prepared(r), ~s.thrown
  PROVE  Orderly(s)
<1>1. /\ Turned(r, s) /\ Single(s)
      /\ \A x \in Socket : r.pend[x] # NoValue => ~Routing(s, x)
  BY PreparedKeeps
<1>2. Sane(s) /\ s \in Rooms /\ r \in Rooms  BY <1>1 DEF Turned, Sane
<1>3. ASSUME NEW x \in Control, Routing(s, x) PROVE x \in CurrentOpen(s) /\ s.pend[x] = NoValue
  <2>1. x \in Socket /\ x \notin Client  BY Roles
  <2>2. r.pend[x] = NoValue  BY <1>1, <1>3, <2>1
  <2>3. s.pend[x] = NoValue  BY <1>1, <1>3, <2>1, <2>2 DEF Turned, StepAt
  <2>4. ~(Routing(r, x) /\ r.att[x].gen # r.gen)  BY <2>2
  <2>5. s.att[x].gen = s.gen  BY <1>1, <1>3, <2>4 DEF Turned, Aging
  <2>6. Open(s, x) /\ s.att[x] # NoValue /\ s.att[x].current  BY <1>3, <2>1 DEF Routing
  <2> QED  BY <2>3, <2>5, <2>6 DEF CurrentOpen
<1> QED  BY <1>1, <1>2, <1>3 DEF Orderly

LEMMA PreviousIs ==
  ASSUME NEW r, Sane(r), NEW P, P = Previous(r)
  PROVE  /\ P \in SUBSET Control
         /\ \A x \in P : r.att[x] # NoValue /\ r.att[x].current
         /\ \A x \in P : Open(r, x) => Routing(r, x)
         /\ \A x \in Control : Routing(r, x) => x \in P
<1>1. P = {x \in Connected(r, Control) : r.att[x] # NoValue /\ r.att[x].current}  BY DEF Previous
<1>2. P \in SUBSET Control  BY <1>1 DEF Connected
<1>3. \A x \in P : Open(r, x) => Routing(r, x)  BY <1>1, <1>2, Roles DEF Routing
<1>4. \A x \in Control : Routing(r, x) => x \in P  BY <1>1, Roles DEF Routing, Open, Connected
<1> QED  BY <1>1, <1>2, <1>3, <1>4

(* A previous control that is stuck stays what it is. *)
LEMMA StuckKeeps ==
  ASSUME NEW r, Orderly(r), NEW P, P = Previous(r), \E x \in P : Stuck(r, x),
         NEW s, s = FinishAll(PrepareAll(r, P), {x \in P : ~Stuck(r, x)})
  PROVE  Handles(r, s)
<1>1. Sane(r)  BY DEF Orderly
<1>2. /\ P \in SUBSET Control
      /\ \A x \in P : r.att[x] # NoValue
      /\ \A x \in P : Open(r, x) => Routing(r, x)
      /\ \A x \in Control : Routing(r, x) => x \in P
  BY <1>1, PreviousIs
<1>3. PICK p : p = PrepareAll(r, P)  OBVIOUS
<1>4. /\ Sane(p) /\ Later(r, p)
      /\ \A x \in P : PreparedAt(r, p, x)
  BY <1>1, <1>2, <1>3, PrepareAllKeeps
<1>5. PICK T : T = {x \in P : ~Stuck(r, x)}  OBVIOUS
<1>6. T \in SUBSET Control  BY <1>2, <1>5
<1>7. s = FinishAll(p, T)  BY <1>3, <1>5
<1>8. Sane(s) /\ Later(p, s) /\ \A x \in Socket \ T : Alike(p, s, x)
  BY <1>4, <1>6, <1>7, FinishAllKeeps
<1>9. Later(r, s)  BY <1>1, <1>4, <1>8, LaterComposes DEF Sane
<1>10. PICK w \in P : Stuck(r, w)  OBVIOUS
<1>11. Routing(r, w)  BY <1>2, <1>10 DEF Stuck, Closes
<1>12. w \in CurrentOpen(r)  BY <1>2, <1>10, <1>11 DEF Orderly
<1>13. ASSUME NEW y \in CurrentOpen(r) PROVE SameAt(r, s, y)
  <2>1. y = w  BY <1>12 DEF Orderly, Single
  <2>2. SameAt(r, p, w)  BY <1>4, <1>10 DEF PreparedAt
  <2>3. w \in Socket \ T  BY <1>2, <1>5, <1>10, Roles
  <2> QED  BY <1>8, <2>1, <2>2, <2>3 DEF Alike, SameAt
<1>14. Kept(r, s)  BY <1>9, <1>13, SameKept
<1> QED  BY <1>8, <1>9, <1>14 DEF Handles

(* Every previous control was demoted or closed, and the new one is refused. *)
Undone(r, q, n, P) ==
  /\ Sane(q) /\ q.gen = r.gen /\ ~q.thrown /\ ~Routing(q, n)
  /\ \A x \in Socket \ {n} : StepAt(r, q, x)
  /\ \A x \in P : ~Routing(q, x) /\ (Writes(x) /\ Open(q, x) =>
       /\ q.att[x] = Demoted(r.att[x]) /\ q.sock[x] = r.sock[x]
       /\ q.pend[x] = NoValue /\ (x \in q.inactive => x \in r.inactive))

LEMMA UndoneServed ==
  ASSUME NEW r, Orderly(r), NEW P, P = Previous(r), NEW n \in Control, r.sock[n] = "none",
         NEW q, Undone(r, q, n, P)
  PROVE  /\ Served(r, q) /\ (\A c \in Client : StepAt(r, q, c)) /\ CurrentOpen(q) = {}
         /\ n \notin P
<1>1. Sane(r) /\ Sane(q) /\ r \in Rooms /\ q \in Rooms  BY DEF Orderly, Undone, Sane
<1>2. \A x \in Control : Routing(r, x) => x \in P  BY <1>1, PreviousIs
<1>3. ASSUME NEW x \in Control PROVE ~Routing(q, x)
  <2>1. CASE x = n  BY <2>1 DEF Undone
  <2>2. CASE x # n
    <3>1. x \in Socket /\ StepAt(r, q, x)  BY <2>2, Roles DEF Undone
    <3>2. Routing(q, x) => Routing(r, x)  BY <1>1, <3>1, StepRouting
    <3> QED  BY <1>2, <3>2 DEF Undone
  <2> QED  BY <2>1, <2>2
<1>4. ASSUME NEW x \in Socket PROVE ServedAt(r, q, x)
  <2>1. CASE x = n  BY <2>1 DEF ServedAt, Undone
  <2>2. CASE x # n
    <3>1. StepAt(r, q, x)  BY <2>2 DEF Undone
    <3> QED  BY <1>1, <1>3, <3>1, StepServed
  <2> QED  BY <2>1, <2>2
<1>5. Served(r, q)  BY <1>1, <1>4 DEF Served, Orderly
<1>6. \A c \in Client : StepAt(r, q, c)  BY Roles DEF Undone
<1>7. CurrentOpen(q) = {}  BY <1>3, CurrentRoutes
<1>8. n \notin P
  <2>1. ASSUME n \in P PROVE FALSE
    <3>1. n \in Socket /\ r.att[n] # NoValue  BY <1>1, <2>1, PreviousIs, Roles
    <3> QED  BY <1>1, <3>1 DEF Sane, SaneAt
  <2> QED  BY <2>1
<1> QED  BY <1>5, <1>6, <1>7, <1>8

(* No previous control takes a second write: the sessions end. *)
LEMMA NoneRestored ==
  ASSUME NEW r, Orderly(r), NEW P, P = Previous(r), NEW n \in Control, r.sock[n] = "none",
         NEW q, Undone(r, q, n, P),
         NEW s, s = CloseAllClients(FinishAll(q, P), "incomplete")
  PROVE  Served(r, s) /\ Remembers(r, s) /\ Granting(r, s)
<1>1. Sane(r) /\ Sane(q) /\ r \in Rooms /\ q \in Rooms  BY DEF Orderly, Undone, Sane
<1>2. Served(r, q) /\ (\A c \in Client : StepAt(r, q, c)) /\ CurrentOpen(q) = {}
  BY UndoneServed
<1>3. P \in SUBSET Control  BY <1>1, PreviousIs
<1>4. PICK t : t = FinishAll(q, P)  OBVIOUS
<1>5. Sane(t) /\ Later(q, t)  BY <1>1, <1>3, <1>4, FinishAllKeeps
<1>6. Kept(q, t)  BY <1>2, <1>5, CurrentKept
<1>7. Handles(q, t)  BY <1>5, <1>6 DEF Handles
<1>8. "incomplete" \in Outcome  BY DEF Outcome
<1>9. Handles(t, s) /\ AllQuelled(s)  BY <1>4, <1>5, <1>8, ClosedAllKeeps
<1>10. Handles(q, s)  BY <1>1, <1>7, <1>9, HandlesCompose
<1>11. Served(q, s)  BY <1>1, <1>10, HandlesDone
<1>12. Served(r, s)  BY <1>1, <1>2, <1>11, ServedComposes
<1>13. ASSUME NEW c \in Client PROVE StepAt(r, s, c)
  <2>1. c \in Socket /\ s \in Rooms /\ StepAt(r, q, c) /\ StepAt(q, s, c) /\ (q.thrown => s.thrown)
    BY <1>2, <1>10, Roles DEF Handles, Later, Sane
  <2> QED  BY <1>1, <2>1, StepsCompose
<1>14. Granting(r, s)  BY <1>1, <1>13, StepsGrant DEF Granting
<1> QED  BY <1>9, <1>12, <1>14, QuelledRemembers

(* The control that is current again is what it was. *)
Restored(q, P, m) == [FinishAll(q, P \ {m}) EXCEPT !.att[m].current = TRUE]
LEMMA OneRestored ==
  ASSUME NEW r, Orderly(r), NEW P, P = Previous(r), NEW n \in Control, r.sock[n] = "none",
         NEW q, Undone(r, q, n, P), NEW m \in P, Rewrites(m), Open(q, m),
         NEW s, s = Restored(q, P, m)
  PROVE  Served(r, s) /\ Remembers(r, s) /\ Granting(r, s)
<1>1. Sane(r) /\ Sane(q) /\ r \in Rooms /\ q \in Rooms /\ Single(r)  BY DEF Orderly, Undone, Sane
<1>2. Served(r, q) /\ (\A c \in Client : StepAt(r, q, c)) /\ CurrentOpen(q) = {}
  BY UndoneServed
<1>3. P \in SUBSET Control /\ \A x \in P : /\ r.att[x] # NoValue /\ r.att[x].current
                                           /\ Open(r, x) => Routing(r, x)
  BY <1>1, PreviousIs
<1>4. PICK t : t = FinishAll(q, P \ {m})  OBVIOUS
<1>5. Sane(t) /\ Later(q, t) /\ \A x \in Socket \ (P \ {m}) : Alike(q, t, x)
  BY <1>1, <1>3, <1>4, FinishAllKeeps
<1>6. m \in Control /\ m \in Socket /\ m \notin Client /\ t \in Rooms  BY <1>3, <1>5, Roles DEF Sane
<1>7. Alike(q, t, m)  BY <1>5, <1>6
<1>8. /\ q.att[m] = Demoted(r.att[m]) /\ q.sock[m] = r.sock[m]
      /\ q.pend[m] = NoValue /\ (m \in q.inactive => m \in r.inactive)
  BY Rewriting DEF Undone
<1>9. Routing(r, m)  BY <1>3, <1>8 DEF Open
<1>10. m \in CurrentOpen(r) /\ r.pend[m] = NoValue  BY <1>6, <1>9 DEF Orderly
<1>11. r.att[m] \in ControlState /\ r.att[m].current  BY <1>1, <1>3, <1>6 DEF Sane, SaneAt
<1>12. r.att[m] \in Attachment  BY <1>11 DEF Attachment
<1>13. s = AttTo(t, m, r.att[m])
  <2>1. t.att[m] = Demoted(r.att[m])  BY <1>7, <1>8 DEF Alike
  <2>2. [Demoted(r.att[m]) EXCEPT !.current = TRUE] = r.att[m]
    BY <1>11 DEF Demoted, ControlState
  <2>3. [t.att[m] EXCEPT !.current = TRUE] = r.att[m]  BY <2>1, <2>2
  <2>4. s = [t EXCEPT !.att[m].current = TRUE]  BY <1>4 DEF Restored
  <2>5. s = [t EXCEPT !.att = [t.att EXCEPT ![m] = [t.att[m] EXCEPT !.current = TRUE]]]
    BY <1>6, <2>4 DEF Rooms
  <2>6. AttTo(t, m, r.att[m]) = [t EXCEPT !.att = [t.att EXCEPT ![m] = r.att[m]]]
    BY <1>6 DEF Rooms, AttTo
  <2> QED  BY <2>3, <2>5, <2>6
<1>14. /\ Only(t, s, m) /\ s.att[m] = r.att[m] /\ s.sock = t.sock /\ s.pend = t.pend
       /\ s.inactive = t.inactive /\ s.thrown = t.thrown
  BY <1>6, <1>12, <1>13, WithAtt
<1>15. SameAt(r, s, m)  BY <1>7, <1>8, <1>10, <1>14 DEF SameAt, Alike
<1>16. s \in Rooms /\ s.gen = t.gen /\ \A y \in Socket \ {m} : Alike(t, s, y)  BY <1>14 DEF Only
<1>17. s.gen = r.gen  BY <1>5, <1>16 DEF Later, Undone
<1>18. m \notin s.inactive
  <2>1. m \in s.inactive => m \in r.inactive  BY <1>6, <1>7, <1>8, <1>14 DEF Alike
  <2> QED  BY <1>1, <1>6, <1>9, <1>10, <2>1 DEF Sane, SaneAt
<1>19. Sane(s)
  <2>1. SaneAt(s, m)
    <3>1. SaneAt(r, m)  BY <1>1, <1>6 DEF Sane
    <3> QED  BY <1>6, <1>10, <1>11, <1>15, <1>18, <3>1 DEF SaneAt, SameAt
  <2>2. ASSUME NEW y \in Socket, y # m PROVE SaneAt(s, y)
    <3>1. s.inactive \subseteq Control /\ t.inactive \subseteq Control  BY <1>6, <1>16, Fields
    <3> QED  BY <1>5, <1>16, <2>2, <3>1, AlikeSane DEF Sane
  <2> QED  BY <1>16, <2>1, <2>2 DEF Sane
<1>20. Kept(q, t)  BY <1>2, <1>5, CurrentKept
<1>21. Handles(q, t)  BY <1>5, <1>20 DEF Handles
<1>22. Served(q, t)  BY <1>1, <1>21, HandlesDone
<1>23. Served(r, t)  BY <1>1, <1>2, <1>22, ServedComposes
<1>24. ASSUME NEW x \in Socket PROVE ServedAt(r, s, x)
  <2>1. CASE x = m
    <3>1. Routing(s, m) /\ s.att[m].gen = s.gen
      BY <1>6, <1>9, <1>10, <1>15, <1>17 DEF Routing, Open, SameAt, CurrentOpen
    <3> QED  BY <1>9, <1>15, <2>1, <3>1 DEF ServedAt, SameAt
  <2>2. CASE x # m
    <3>1. Alike(t, s, x) /\ ServedAt(r, t, x)  BY <1>16, <1>23, <2>2 DEF Served
    <3>2. Routing(s, x) <=> Routing(t, x)  BY <3>1, AlikeRouting
    <3> QED  BY <1>14, <1>16, <3>1, <3>2 DEF ServedAt, Alike
  <2> QED  BY <2>1, <2>2
<1>25. Served(r, s)  BY <1>19, <1>24 DEF Served, Orderly
<1>26. ASSUME NEW c \in Client PROVE StepAt(r, s, c)
  <2>1. c \in Socket /\ c # m  BY <1>6, Roles
  <2>2. StepAt(r, q, c) /\ StepAt(q, t, c) /\ (q.thrown => t.thrown)
    BY <1>2, <1>5, <2>1 DEF Later
  <2>3. StepAt(r, t, c)  BY <1>1, <1>6, <2>1, <2>2, StepsCompose
  <2>4. Alike(t, s, c)  BY <1>16, <2>1
  <2> QED  BY <1>14, <2>3, <2>4, AlikeStep
<1>27. Granting(r, s)  BY <1>1, <1>26, StepsGrant DEF Granting
<1>28. Kept(r, s)
  <2>1. ASSUME NEW c \in Client, Routing(s, c), Held(r, c) PROVE Held(s, c)
    <3>1. s.att[c] # NoValue  BY <2>1 DEF Routing, Live
    <3>2. s.att[c].owner = r.att[c].owner  BY <1>26, <3>1 DEF StepAt
    <3>3. r.att[c].owner = m  BY <1>1, <1>10, <2>1 DEF Held, Single
    <3>4. m \in CurrentOpen(s)  BY <1>10, <1>15, <1>17 DEF CurrentOpen, SameAt, Open
    <3> QED  BY <1>10, <1>15, <3>2, <3>3, <3>4 DEF Held, SameAt
  <2> QED  BY <2>1 DEF Kept
<1>29. Remembers(r, s)  BY <1>1, <1>16, <1>26, <1>28, KeptRemembers
<1> QED  BY <1>25, <1>27, <1>29

LEMMA RestoreKeeps ==
  ASSUME NEW r, Orderly(r), NEW P, P = Previous(r), NEW n \in Control, r.sock[n] = "none",
         NEW q, Undone(r, q, n, P),
         NEW s, s = RestoreOrCloseAll(q, P)
  PROVE  Served(r, s) /\ Remembers(r, s) /\ Granting(r, s)
<1>1. CASE Restorable(q, P) = {}
  <2>1. s = CloseAllClients(FinishAll(q, P), "incomplete")
    BY <1>1 DEF RestoreOrCloseAll
  <2> QED  BY <2>1, NoneRestored
<1>2. CASE Restorable(q, P) # {}
  <2>1. Restorable(q, P) \in SUBSET Control  BY PreviousIs DEF Restorable, Orderly
  <2>2. PICK m : m = Max(Restorable(q, P))  OBVIOUS
  <2>3. m \in Restorable(q, P)  BY <1>2, <2>1, <2>2, MaxIs
  <2>4. m \in P /\ Rewrites(m) /\ Open(q, m)  BY <2>3 DEF Restorable
  <2>5. s = Restored(q, P, m)
    BY <1>2, <2>2 DEF RestoreOrCloseAll, Restored
  <2> QED  BY <2>4, <2>5, OneRestored
<1> QED  BY <1>1, <1>2

(* A socket is accepted, with the attachment a. *)
Opened(q, n, a) == [q EXCEPT !.sock[n] = "open", !.att[n] = a]

LEMMA OpenedFacts ==
  ASSUME NEW q, Sane(q), NEW n \in Socket, q.sock[n] = "none", NEW a \in Attachment,
         NEW s, s = Opened(q, n, a)
  PROVE  /\ Only(q, s, n) /\ s.sock[n] = "open" /\ s.att[n] = a /\ s.pend = q.pend
         /\ s.inactive = q.inactive /\ s.finalized = q.finalized /\ s.metric = q.metric
         /\ s.thrown = q.thrown
         /\ s.pend[n] = NoValue /\ n \notin s.inactive
         /\ n \in Client => n \notin s.finalized /\ s.metric[n] = <<>>
<1>1. q \in Rooms /\ "open" \in SockState /\ SaneAt(q, n)  BY DEF Sane, SockState
<1>2. PICK o : o = SockTo(q, n, "open")  OBVIOUS
<1>3. /\ Only(q, o, n) /\ o.sock[n] = "open" /\ o.att = q.att /\ o.pend = q.pend
      /\ o.inactive = q.inactive /\ o.finalized = q.finalized /\ o.metric = q.metric
      /\ o.thrown = q.thrown
  BY <1>1, <1>2, WithSock
<1>4. o \in Rooms  BY <1>3 DEF Only
<1>5. s = AttTo(o, n, a)  BY <1>1, <1>2 DEF Opened, SockTo, AttTo, Rooms
<1>6. /\ Only(o, s, n) /\ s.att[n] = a /\ s.sock = o.sock /\ s.pend = o.pend
      /\ s.inactive = o.inactive /\ s.finalized = o.finalized /\ s.metric = o.metric
      /\ s.thrown = o.thrown
  BY <1>4, <1>5, WithAtt
<1>7. Only(q, s, n)  BY <1>3, <1>6, OnlyComposes
<1>8. /\ q.pend[n] = NoValue /\ n \notin q.inactive
      /\ n \in Client => n \notin q.finalized /\ q.metric[n] = <<>>
  BY <1>1 DEF SaneAt
<1> QED  BY <1>3, <1>6, <1>7, <1>8

LEMMA OnlySane ==
  ASSUME NEW q, Sane(q), NEW n \in Socket, NEW s, Only(q, s, n), SaneAt(s, n)
  PROVE  Sane(s)
<1>1. q \in Rooms /\ s \in Rooms  BY DEF Sane, Only
<1>2. q.inactive \subseteq Control /\ s.inactive \subseteq Control  BY <1>1, Fields
<1>3. ASSUME NEW y \in Socket, y # n PROVE SaneAt(s, y)
  BY <1>2, <1>3, AlikeSane DEF Sane, Only
<1> QED  BY <1>1, <1>3 DEF Sane

LEMMA OpenedControl ==
  ASSUME NEW q, Sane(q), NEW n \in Control, q.sock[n] = "none",
         NEW a \in ControlState \cup {NoValue}, a # NoValue => a.gen = q.gen,
         NEW s, s = Opened(q, n, a)
  PROVE  Sane(s) /\ Served(q, s) /\ (\A c \in Client : Alike(q, s, c))
<1>1. n \in Socket /\ n \notin Client /\ a \in Attachment  BY Roles DEF Attachment
<1>2. /\ Only(q, s, n) /\ s.sock[n] = "open" /\ s.att[n] = a /\ s.thrown = q.thrown
      /\ s.pend[n] = NoValue /\ n \notin s.inactive /\ q.pend[n] = NoValue
  BY <1>1, OpenedFacts
<1>3. SaneAt(s, n)  BY <1>1, <1>2 DEF SaneAt
<1>4. Sane(s)  BY <1>1, <1>2, <1>3, OnlySane
<1>5. ASSUME NEW x \in Socket PROVE ServedAt(q, s, x)
  <2>1. CASE x = n
    <3>1. Routing(s, n) => s.att[n] # NoValue  BY <1>1 DEF Routing
    <3>2. s.gen = q.gen  BY <1>2 DEF Only
    <3> QED  BY <1>2, <2>1, <3>1, <3>2 DEF ServedAt
  <2>2. CASE x # n
    <3>1. Alike(q, s, x) /\ s.gen = q.gen  BY <1>2, <2>2 DEF Only
    <3>2. Routing(s, x) <=> Routing(q, x)  BY <3>1, AlikeRouting
    <3> QED  BY <3>1, <3>2 DEF ServedAt, Alike
  <2> QED  BY <2>1, <2>2
<1>6. \A c \in Client : Alike(q, s, c)  BY <1>1, <1>2, Roles DEF Only
<1> QED  BY <1>2, <1>4, <1>5, <1>6 DEF Served

LEMMA RefusedUndone ==
  ASSUME NEW r, Orderly(r), NEW P, P = Previous(r), NEW n \in Control, r.sock[n] = "none",
         NEW q, Undone(r, q, n, P), q.sock[n] = "none",
         NEW s, s = Refused(q, n)
  PROVE  Undone(r, s, n, P)
<1>1. n \in Socket /\ n \notin Client /\ Sane(q) /\ q \in Rooms /\ q.gen \in Nat
  BY Roles, Fields DEF Undone, Sane
<1>2. PICK a : a = IF Writes(n) THEN [current |-> FALSE, gen |-> q.gen] ELSE NoValue  OBVIOUS
<1>3. a \in ControlState \cup {NoValue} /\ (a # NoValue => a.gen = q.gen /\ ~a.current)
  BY <1>1, <1>2 DEF ControlState
<1>4. PICK o : o = Opened(q, n, a)  OBVIOUS
<1>5. Sane(o)  BY <1>1, <1>3, <1>4, OpenedControl
<1>6. a \in Attachment  BY <1>3 DEF Attachment
<1>7. Only(q, o, n) /\ o.att[n] = a /\ o.thrown = q.thrown  BY <1>1, <1>4, <1>6, OpenedFacts
<1>8. s = Close(o, n)
  BY <1>2, <1>4 DEF Refused, Opened
<1>9. EndedAt(o, s, n) /\ s.att = o.att /\ s.thrown = o.thrown
  BY <1>1, <1>5, <1>8, CloseKeeps DEF Sane
<1>10. Sane(s)  BY <1>1, <1>5, <1>9, EndedLater
<1>11. Only(q, s, n)  BY <1>7, <1>9, OnlyComposes DEF EndedAt
<1>12. ~Routing(s, n)  BY <1>1, <1>3, <1>7, <1>9 DEF Routing
<1>13. s.gen = r.gen /\ ~s.thrown  BY <1>7, <1>9, <1>11 DEF Only, Undone
<1>14. ASSUME NEW x \in Socket \ {n} PROVE StepAt(r, s, x)
  <2>1. Alike(q, s, x) /\ StepAt(r, q, x)  BY <1>11 DEF Only, Undone
  <2>2. q.thrown => s.thrown  BY DEF Undone
  <2> QED  BY <2>1, <2>2, AlikeStep
<1>15. n \notin P /\ P \in SUBSET Control  BY UndoneServed, PreviousIs DEF Orderly
<1>16. ASSUME NEW x \in P
       PROVE  ~Routing(s, x) /\ (Writes(x) /\ Open(s, x) =>
                /\ s.att[x] = Demoted(r.att[x]) /\ s.sock[x] = r.sock[x]
                /\ s.pend[x] = NoValue /\ (x \in s.inactive => x \in r.inactive))
  <2>1. x \in Socket \ {n} /\ x \in Control  BY <1>15, Roles
  <2>2. Alike(q, s, x)  BY <1>11, <2>1 DEF Only
  <2>3. Routing(s, x) <=> Routing(q, x)  BY <2>2, AlikeRouting
  <2> QED  BY <2>1, <2>2, <2>3 DEF Undone, Alike, Open
<1> QED  BY <1>10, <1>12, <1>13, <1>14, <1>16 DEF Undone

LEMMA PreparedUndone ==
  ASSUME NEW r, Orderly(r), NEW P, P = Previous(r), \A x \in P : ~Stuck(r, x),
         NEW n \in Control, r.sock[n] = "none", NEW M, M = Malformed(r),
         NEW q, q = CloseEach(PrepareAll(r, P), M)
  PROVE  Undone(r, q, n, P) /\ q.sock[n] = "none"
<1>1. Sane(r) /\ r \in Rooms /\ n \in Socket /\ n \notin Client  BY Roles DEF Orderly, Sane
<1>2. /\ P \in SUBSET Control
      /\ \A x \in P : r.att[x] # NoValue
      /\ \A x \in Control : Routing(r, x) => x \in P
  BY <1>1, PreviousIs
<1>3. PICK p : p = PrepareAll(r, P)  OBVIOUS
<1>4. /\ Sane(p) /\ Later(r, p) /\ (p.thrown => r.thrown)
      /\ \A x \in P : PreparedAt(r, p, x)
  BY <1>1, <1>2, <1>3, PrepareAllKeeps
<1>5. M \in SUBSET Control /\ \A x \in M : r.att[x] = NoValue
  BY DEF Malformed, Connected
<1>6. /\ Sane(q) /\ Later(p, q) /\ (q.thrown => p.thrown)
      /\ \A x \in Socket \ M : Alike(p, q, x)
  BY <1>3, <1>4, <1>5, CloseEachKeeps
<1>7. p \in Rooms /\ q \in Rooms  BY <1>4, <1>6 DEF Sane
<1>8. Later(r, q)  BY <1>1, <1>4, <1>6, <1>7, LaterComposes
<1>9. q.sock[n] = "none"  BY <1>1, <1>8 DEF Later, StepAt
<1>10. ~Routing(q, n)  BY <1>9 DEF Routing, Open
<1>11. ASSUME NEW x \in P
       PROVE  ~Routing(q, x) /\ (Writes(x) /\ Open(q, x) =>
                /\ q.att[x] = Demoted(r.att[x]) /\ q.sock[x] = r.sock[x]
                /\ q.pend[x] = NoValue /\ (x \in q.inactive => x \in r.inactive))
  <2>1. x \in Socket \ M /\ x \in Control  BY <1>2, <1>5, Roles
  <2>2. Alike(p, q, x) /\ PreparedAt(r, p, x)  BY <1>4, <1>6, <2>1
  <2>3. ~Routing(p, x)  BY <2>2 DEF PreparedAt
  <2>4. ~Routing(q, x)  BY <2>2, <2>3, AlikeRouting
  <2> QED  BY <2>1, <2>2, <2>4 DEF PreparedAt, Alike
<1>12. q.gen = r.gen /\ ~q.thrown /\ \A x \in Socket \ {n} : StepAt(r, q, x)
  BY <1>4, <1>6, <1>8 DEF Later, Orderly
<1> QED  BY <1>6, <1>9, <1>10, <1>11, <1>12 DEF Undone

LEMMA InstalledKeeps ==
  ASSUME NEW r, Orderly(r), NEW P, P = Previous(r), NEW n \in Control, r.sock[n] = "none",
         NEW s, s = CloseEach(Installed(PrepareAll(r, P), n, P), Connected(r, Control))
  PROVE  Served(r, s) /\ Remembers(r, s) /\ Granting(r, s)
<1>1. Sane(r) /\ r \in Rooms /\ n \in Socket /\ n \notin Client  BY Roles DEF Orderly, Sane
<1>2. P \in SUBSET Control /\ \A x \in P : r.att[x] # NoValue  BY <1>1, PreviousIs
<1>3. PICK p : p = PrepareAll(r, P)  OBVIOUS
<1>4. Sane(p) /\ Later(r, p)  BY <1>1, <1>2, <1>3, PrepareAllKeeps
<1>5. p \in Rooms /\ p.gen \in Nat /\ p.sock[n] = "none"
  BY <1>1, <1>4, Fields DEF Sane, Later, StepAt
<1>6. PICK a : a = ControlAtt(p.gen)  OBVIOUS
<1>7. a \in ControlState \cup {NoValue} /\ a.gen = p.gen
  BY <1>5, <1>6 DEF ControlAtt, ControlState
<1>8. PICK o : o = Opened(p, n, a)  OBVIOUS
<1>9. Sane(o) /\ Served(p, o) /\ \A c \in Client : Alike(p, o, c)
  BY <1>4, <1>5, <1>7, <1>8, OpenedControl
<1>10. PICK e : e = CloseAllClients(o, "incomplete")  OBVIOUS
<1>11. "incomplete" \in Outcome  BY DEF Outcome
<1>12. Handles(o, e) /\ AllQuelled(e)  BY <1>9, <1>10, <1>11, ClosedAllKeeps
<1>13. PICK f : f = FinishAll(e, P)  OBVIOUS
<1>14. Sane(e) /\ Sane(f) /\ Later(e, f)
  BY <1>2, <1>12, <1>13, FinishAllKeeps DEF Handles
<1>15. f = Installed(p, n, P)
  BY <1>6, <1>8, <1>10, <1>13 DEF Installed, Opened
<1>16. PICK C : C = Connected(r, Control)  OBVIOUS
<1>17. C \in SUBSET Control  BY <1>16 DEF Connected
<1>18. s = CloseEach(f, C)  BY <1>3, <1>15, <1>16
<1>19. Sane(s) /\ Later(f, s)  BY <1>14, <1>17, <1>18, CloseEachKeeps
<1>20. e \in Rooms /\ f \in Rooms /\ s \in Rooms /\ o \in Rooms
  BY <1>9, <1>14, <1>19 DEF Sane
<1>21. Later(e, s)  BY <1>14, <1>19, <1>20, LaterComposes
<1>22. AllQuelled(s)  BY <1>12, <1>20, <1>21, QuelledLater
<1>23. Handles(e, s)  BY <1>19, <1>21, <1>22, QuelledKept DEF Handles
<1>24. Handles(o, s)  BY <1>9, <1>12, <1>23, HandlesCompose
<1>25. Served(o, s)  BY <1>9, <1>24, HandlesDone
<1>26. Served(p, s)  BY <1>4, <1>9, <1>25, ServedComposes
<1>27. Served(r, p)
  <2>1. ASSUME NEW x \in Socket PROVE ServedAt(r, p, x)
    <3>1. StepAt(r, p, x)  BY <1>4 DEF Later
    <3>2. Routing(p, x) => Routing(r, x)  BY <1>1, <1>5, <3>1, StepRouting
    <3>3. x \in Control /\ Routing(p, x) => r.att[x].gen = p.att[x].gen
      <4>1. x \in Control /\ Routing(p, x) => p.att[x] # NoValue  BY Roles DEF Routing
      <4> QED  BY <3>1, <4>1 DEF StepAt
    <3> QED  BY <1>1, <1>4, <3>1, <3>2, <3>3, StepServed DEF Later
  <2> QED  BY <1>4, <2>1 DEF Served, Later
<1>28. Served(r, s)  BY <1>1, <1>26, <1>27, ServedComposes
<1>29. ASSUME NEW c \in Client PROVE StepAt(r, s, c)
  <2>1. c \in Socket  BY Roles
  <2>2. Alike(p, o, c) /\ StepAt(r, p, c) /\ StepAt(o, s, c)
    BY <1>4, <1>9, <1>24, <2>1 DEF Handles, Later
  <2>3. (p.thrown => o.thrown) /\ (o.thrown => s.thrown)  BY <1>9, <1>24 DEF Served, Handles, Later
  <2>4. StepAt(r, o, c)  BY <2>2, <2>3, AlikeStep
  <2> QED  BY <1>1, <1>20, <2>1, <2>2, <2>3, <2>4, StepsCompose
<1>30. Granting(r, s)  BY <1>1, <1>29, StepsGrant DEF Granting
<1> QED  BY <1>22, <1>28, <1>30, QuelledRemembers

LEMMA ReplaceKeeps ==
  ASSUME NEW r, Orderly(r), NEW n \in Control, r.sock[n] = "none",
         NEW s, s = Replace(r, n, Previous(r), Malformed(r))
  PROVE  Served(r, s) /\ Remembers(r, s) /\ Granting(r, s)
<1>1. PICK P : P = Previous(r)  OBVIOUS
<1>2. PICK M : M = Malformed(r)  OBVIOUS
<1>3. s = Replace(r, n, P, M)  BY <1>1, <1>2
<1>4. PICK q : q = CloseEach(PrepareAll(r, P), M)  OBVIOUS
<1>5. CASE \E x \in P : Stuck(r, x)
  <2>1. s = FinishAll(PrepareAll(r, P), {x \in P : ~Stuck(r, x)})  BY <1>3, <1>5 DEF Replace
  <2>2. Handles(r, s)  BY <1>1, <1>5, <2>1, StuckKeeps
  <2> QED  BY <2>2, HandlesDone DEF Orderly
<1>6. CASE (\A x \in P : ~Stuck(r, x)) /\ \E x \in M : ~Closes(r, x)
  <2>1. s = RestoreOrCloseAll(q, P)  BY <1>3, <1>4, <1>6 DEF Replace
  <2>2. Undone(r, q, n, P)  BY <1>1, <1>2, <1>4, <1>6, PreparedUndone
  <2> QED  BY <1>1, <2>1, <2>2, RestoreKeeps
<1>7. CASE (\A x \in P : ~Stuck(r, x)) /\ (\A x \in M : Closes(r, x)) /\ ~Rewrites(n)
  <2>1. PICK f : f = Refused(q, n)  OBVIOUS
  <2>2. s = RestoreOrCloseAll(f, P)  BY <1>3, <1>4, <1>7, <2>1 DEF Replace
  <2>3. Undone(r, q, n, P) /\ q.sock[n] = "none"  BY <1>1, <1>2, <1>4, <1>7, PreparedUndone
  <2>4. Undone(r, f, n, P)  BY <1>1, <2>1, <2>3, RefusedUndone
  <2> QED  BY <1>1, <2>2, <2>4, RestoreKeeps
<1>8. CASE (\A x \in P : ~Stuck(r, x)) /\ (\A x \in M : Closes(r, x)) /\ Rewrites(n)
  <2>1. s = CloseEach(Installed(PrepareAll(r, P), n, P), Connected(r, Control))
    BY <1>3, <1>8 DEF Replace
  <2> QED  BY <1>1, <2>1, InstalledKeeps
<1> QED  BY <1>5, <1>6, <1>7, <1>8

-----------------------------------------------------------------------------
(* Admitting a client *)

(* A client whose session does not route, or is held, disturbs nothing. *)
LEMMA ClientOnly ==
  ASSUME NEW r, Sane(r), NEW c \in Client, NEW s, Only(r, s, c), SaneAt(s, c),
         r.thrown => s.thrown, s.sock[c] # "none",
         Routing(s, c) => (r.sock[c] = "none" \/ Routing(r, c)) /\ s.pend[c] = r.pend[c],
         Overlooked(s, c) => Overlooked(r, c),
         Granted(r, s, c) => CurrentOpen(s) = {s.att[c].owner}
  PROVE  Served(r, s) /\ Remembers(r, s) /\ Granting(r, s)
<1>1. c \in Socket /\ c \notin Control  BY Roles
<1>2. Sane(s) /\ s.gen = r.gen /\ \A y \in Socket \ {c} : Alike(r, s, y)
  BY <1>1, OnlySane DEF Only
<1>3. ControlsAlike(r, s)  BY <1>1, <1>2, Roles DEF ControlsAlike
<1>4. CurrentOpen(s) = CurrentOpen(r)  BY <1>3, AlikeCurrent
<1>5. ASSUME NEW x \in Socket, x # c PROVE ServedAt(r, s, x)
  <2>1. Alike(r, s, x)  BY <1>2, <1>5
  <2>2. Routing(s, x) <=> Routing(r, x)  BY <2>1, AlikeRouting
  <2> QED  BY <1>2, <2>1, <2>2 DEF ServedAt, Alike
<1>6. ServedAt(r, s, c)  BY <1>1 DEF ServedAt
<1>7. Served(r, s)  BY <1>2, <1>5, <1>6 DEF Served
<1>8. ASSUME NEW d \in Client, d # c, Overlooked(s, d) PROVE Overlooked(r, d)
  <2>1. d \in Socket  BY Roles
  <2>2. Alike(r, s, d)  BY <1>2, <1>8, <2>1
  <2>3. Routing(r, d) /\ r.pend[d] = NoValue  BY <1>8, <2>2, AlikeRouting DEF Overlooked, Alike
  <2>4. ASSUME Held(r, d) PROVE FALSE
    <3>1. PICK y \in CurrentOpen(r) : y = r.att[d].owner  BY <2>4 DEF Held
    <3>2. Alike(r, s, y)  BY <1>3, CurrentRoutes DEF ControlsAlike
    <3>3. Held(s, d)  BY <1>4, <2>2, <2>4, <3>1, <3>2 DEF Held, Alike
    <3> QED  BY <1>8, <3>3 DEF Overlooked
  <2> QED  BY <2>3, <2>4 DEF Overlooked
<1>9. Remembers(r, s)  BY <1>8 DEF Remembers
<1>10. ASSUME NEW d \in Client, d # c PROVE ~Granted(r, s, d)
  <2>1. d \in Socket  BY Roles
  <2>2. Alike(r, s, d) /\ SaneAt(r, d)  BY <1>2, <1>10, <2>1 DEF Sane
  <2> QED  BY <2>2 DEF Alike, Granted, Routing, Open
<1>11. Granting(r, s)  BY <1>10 DEF Granting
<1> QED  BY <1>7, <1>9, <1>11

LEMMA ClientAttIs ==
  ASSUME NEW w \in Control, NEW g \in Nat, NEW a, a = ClientAtt(w, g)
  PROVE  /\ a \in ClientState /\ a # NoValue /\ a.owner = w /\ a.stage = "awaiting"
         /\ ~a.summary /\ a.outcome = NoValue
<1>1. 0 \in 0..MaxAttempts  BY ConstantsAssumption
<1>2. a \in ClientState  BY <1>1 DEF ClientAtt, ClientState
<1>3. a # NoValue  BY <1>2, NoValueAssumption
<1> QED  BY <1>2, <1>3 DEF ClientAtt

(* The only current control *)
LEMMA WinnerIs ==
  ASSUME NEW r, Single(r), NEW w \in CurrentOpen(r)
  PROVE  CurrentOpen(r) = {w} /\ Winner(r) = w /\ w \in Control
<1>1. CurrentOpen(r) = {w}  BY DEF Single
<1>2. CurrentOpen(r) \in SUBSET Control  BY DEF CurrentOpen
<1>3. PICK S \in SUBSET Control : S = CurrentOpen(r)  BY <1>2
<1>4. Max(S) \in S  BY <1>1, <1>3, MaxIs
<1>5. Winner(r) = Max(S)  BY <1>1, <1>3 DEF Winner
<1> QED  BY <1>1, <1>2, <1>3, <1>4, <1>5

LEMMA AdmitKeeps ==
  ASSUME NEW r, Orderly(r), CurrentOpen(r) # {}, NEW c \in Client, r.sock[c] = "none",
         NEW s, s = Admit(r, c, ClientAtt(Winner(r), r.gen))
  PROVE  Served(r, s) /\ Remembers(r, s) /\ Granting(r, s)
<1>1. Sane(r) /\ r \in Rooms /\ c \in Socket /\ c \notin Control /\ r.gen \in Nat /\ SaneAt(r, c)
  BY Roles, Fields DEF Orderly, Sane
<1>2. PICK w \in CurrentOpen(r) : w = Winner(r)  BY WinnerIs DEF Orderly
<1>3. CurrentOpen(r) = {w} /\ w \in Control  BY WinnerIs DEF Orderly
<1>4. r.pend[w] = NoValue  BY CurrentRoutes DEF Orderly
<1>5. PICK a : a = ClientAtt(w, r.gen)  OBVIOUS
<1>6. /\ a \in ClientState /\ a # NoValue /\ a.owner = w /\ a.stage = "awaiting"
      /\ ~a.summary /\ a.outcome = NoValue
  BY <1>1, <1>3, <1>5, ClientAttIs
<1>7. a \in Attachment  BY <1>6 DEF Attachment
<1>8. s = Admit(r, c, a)  BY <1>2, <1>5
<1>9. CASE Rewrites(c)
  <2>1. s = Opened(r, c, a)  BY <1>8, <1>9 DEF Admit, Opened
  <2>2. /\ Only(r, s, c) /\ s.sock[c] = "open" /\ s.att[c] = a /\ s.pend = r.pend
        /\ s.thrown = r.thrown /\ s.pend[c] = NoValue
        /\ c \notin s.finalized /\ s.metric[c] = <<>>
    BY <1>1, <1>7, <2>1, OpenedFacts
  <2>3. s \in Rooms  BY <2>2 DEF Only
  <2>4. s.inactive \subseteq Control  BY <2>3, Fields
  <2>5. Len(<<>>) = 0  OBVIOUS
  <2>6. SaneAt(s, c)  BY <1>1, <1>6, <2>2, <2>4, <2>5 DEF SaneAt
  <2>7. s.gen = r.gen /\ \A y \in Control : Alike(r, s, y)  BY <1>1, <2>2, Roles DEF Only
  <2>8. CurrentOpen(s) = {w}  BY <1>3, <2>7, AlikeCurrent DEF ControlsAlike
  <2>9. Held(s, c)  BY <1>4, <1>6, <2>2, <2>8 DEF Held
  <2> QED  BY <1>1, <1>6, <2>2, <2>6, <2>8, <2>9, ClientOnly DEF Overlooked
<1>10. CASE ~Rewrites(c) /\ Writes(c)
  <2>1. PICK b : b = [a EXCEPT !.summary = TRUE]  OBVIOUS
  <2>2. b \in ClientState /\ b # NoValue /\ b.summary /\ b.outcome = NoValue
    BY <1>6, <2>1, NoValueAssumption DEF ClientState
  <2>3. b \in Attachment  BY <2>2 DEF Attachment
  <2>4. PICK o : o = Opened(r, c, b)  OBVIOUS
  <2>5. /\ Only(r, o, c) /\ o.sock[c] = "open" /\ o.att[c] = b /\ o.pend = r.pend
        /\ o.thrown = r.thrown /\ o.pend[c] = NoValue
        /\ c \notin o.finalized /\ o.metric[c] = <<>> /\ o.finalized = r.finalized
    BY <1>1, <2>3, <2>4, OpenedFacts
  <2>6. o \in Rooms  BY <2>5 DEF Only
  <2>7. s = FailClient(o, c, "incomplete")
    BY <1>8, <1>10, <2>1, <2>4 DEF Admit, Opened
  <2>8. FirstOutcome(o, c, "incomplete") = "incomplete"
    BY <2>2, <2>5 DEF FirstOutcome
  <2>9. s = FailWith(o, c, "incomplete")  BY <2>7, <2>8 DEF FailClient
  <2>10. "incomplete" \in Outcome  BY DEF Outcome
  <2>11. Settled(o, c) /\ SummaryKnown(o, c)
    BY <1>10, <2>2, <2>5 DEF Settled, SummaryKnown
  <2>12. /\ Only(o, s, c) /\ s.att[c] \in ClientState
         /\ s.att[c].stage = "terminal"
         /\ s.sock[c] = o.sock[c] \/ (o.sock[c] = "open" /\ s.sock[c] = "closing")
         /\ s.pend[c] = NoValue /\ s.thrown = o.thrown
         /\ Summing(o, s, c, "incomplete")
    BY <1>10, <2>2, <2>5, <2>6, <2>9, <2>10, <2>11, FailWithFacts
  <2>13. s.att[c].summary /\ s.metric[c] = <<>>  BY <2>2, <2>5, <2>11, <2>12 DEF Summing
  <2>14. Only(r, s, c)  BY <2>5, <2>12, OnlyComposes
  <2>15. s \in Rooms  BY <2>14 DEF Only
  <2>16. s.inactive \subseteq Control  BY <2>15, Fields
  <2>17. s.sock[c] # "none" /\ s.att[c] # NoValue  BY <2>5, <2>12, NoValueAssumption
  <2>18. ~Routing(s, c) /\ ~Live(s.att[c])  BY <2>12 DEF Routing, Live
  <2>19. Len(<<>>) = 0  OBVIOUS
  <2>20. SaneAt(s, c)  BY <1>1, <2>12, <2>13, <2>16, <2>17, <2>18, <2>19 DEF SaneAt
  <2>21. ~Granted(r, s, c)  BY <2>12, <2>18 DEF Granted
  <2> QED  BY <1>1, <2>5, <2>12, <2>14, <2>17, <2>18, <2>20, <2>21, ClientOnly DEF Overlooked
<1>11. CASE ~Writes(c)
  <2>1. ~Rewrites(c)  BY <1>11, Rewriting
  <2>2. PICK o : o = SockTo(r, c, "open")  OBVIOUS
  <2>3. "open" \in SockState  BY DEF SockState
  <2>4. /\ Only(r, o, c) /\ o.sock[c] = "open" /\ o.att = r.att /\ o.pend = r.pend
        /\ o.inactive = r.inactive /\ o.finalized = r.finalized /\ o.metric = r.metric
        /\ o.thrown = r.thrown
    BY <1>1, <2>2, <2>3, WithSock
  <2>5. r.att[c] = NoValue  BY <1>1 DEF SaneAt
  <2>6. SaneAt(o, c)  BY <1>1, <2>4, <2>5 DEF SaneAt, Live, Routing
  <2>7. s = Close(o, c)  BY <1>8, <1>11, <2>1, <2>2 DEF Admit, SockTo
  <2>8. o \in Rooms  BY <2>4 DEF Only
  <2>9. EndedAt(o, s, c) /\ s.att = o.att /\ s.pend = o.pend /\ s.thrown = o.thrown
    BY <1>1, <2>6, <2>7, <2>8, CloseKeeps
  <2>10. Only(r, s, c)  BY <2>4, <2>9, OnlyComposes DEF EndedAt
  <2>11. s.sock[c] # "none"  BY <2>4, <2>9 DEF EndedAt, StepAt
  <2>12. s.att[c] = NoValue  BY <2>4, <2>5, <2>9
  <2>13. ~Routing(s, c)  BY <2>12 DEF Routing, Live
  <2>14. ~Granted(r, s, c)  BY <2>12, <2>13 DEF Granted
  <2> QED  BY <1>1, <2>4, <2>9, <2>10, <2>11, <2>13, <2>14, ClientOnly DEF Overlooked, EndedAt
<1> QED  BY <1>9, <1>10, <1>11

-----------------------------------------------------------------------------
(* Messages *)

LEMMA ClientFails ==
  ASSUME NEW r, Sane(r), NEW c \in Client, r.att[c] # NoValue, NEW o \in Outcome,
         NEW s, s = FailClient(r, c, o)
  PROVE  Handles(r, s) /\ (Writes(c) => ~Live(s.att[c]))
<1>1. r \in Rooms /\ SaneAt(r, c) /\ c \in Socket  BY Roles DEF Sane
<1>2. EndedAt(r, s, c) /\ (Writes(c) => ~Live(s.att[c]))  BY <1>1, FailClientKeeps
<1>3. Sane(s) /\ Later(r, s) /\ ControlsAlike(r, s)  BY <1>1, <1>2, EndedLater
<1> QED  BY <1>2, <1>3, AlikeKept DEF Handles

LEMMA FailSocketKeeps ==
  ASSUME NEW r, Sane(r), NEW x \in Socket, NEW o \in Outcome,
         NEW s, s = FailSocket(r, x, o)
  PROVE  Handles(r, s)
<1>1. r \in Rooms /\ SaneAt(r, x)  BY DEF Sane
<1>2. CASE x \in Client /\ r.att[x] = NoValue
  <2>1. s = Close(r, x)  BY <1>2 DEF FailSocket
  <2>2. EndedAt(r, s, x)  BY <1>1, <2>1, CloseKeeps
  <2>3. Sane(s) /\ Later(r, s) /\ ControlsAlike(r, s)  BY <1>2, <2>2, EndedLater
  <2> QED  BY <2>3, AlikeKept DEF Handles
<1>3. CASE x \in Client /\ r.att[x] # NoValue
  <2>1. s = FailClient(r, x, o)  BY <1>3 DEF FailSocket
  <2> QED  BY <1>3, <2>1, ClientFails
<1>4. CASE x \in Control /\ r.att[x] # NoValue
  <2>1. s = FailServer(r, x, o)  BY <1>4, Roles DEF FailSocket
  <2> QED  BY <1>4, <2>1, FailServerKeeps DEF ControlEnded
<1>5. CASE x \in Control /\ r.att[x] = NoValue
  <2>1. PICK e : e = CloseAllClients(r, "incomplete")  OBVIOUS
  <2>2. "incomplete" \in Outcome  BY DEF Outcome
  <2>3. Handles(r, e) /\ AllQuelled(e)  BY <2>1, <2>2, ClosedAllKeeps
  <2>4. s = IF e.thrown THEN e ELSE Close(e, x)  BY <1>5, <2>1, Roles DEF FailSocket
  <2>5. CASE e.thrown  BY <2>3, <2>4, <2>5
  <2>6. CASE ~e.thrown
    <3>1. s = Close(e, x)  BY <2>4, <2>6
    <3>2. e \in Rooms /\ SaneAt(e, x) /\ Sane(e)  BY <2>3 DEF Handles, Sane
    <3>3. EndedAt(e, s, x)  BY <3>1, <3>2, CloseKeeps
    <3>4. Sane(s) /\ Later(e, s)  BY <3>2, <3>3, EndedLater
    <3>5. s \in Rooms  BY <3>4 DEF Sane
    <3>6. AllQuelled(s)  BY <2>3, <3>2, <3>4, <3>5, QuelledLater
    <3>7. Handles(e, s)  BY <3>4, <3>6, QuelledKept DEF Handles
    <3> QED  BY <2>3, <3>7, HandlesCompose
  <2> QED  BY <2>5, <2>6
<1> QED  BY <1>2, <1>3, <1>4, <1>5, Roles

LEMMA ExchangingKeeps ==
  ASSUME NEW r, Sane(r), NEW c \in Client, r.att[c] # NoValue, r.att[c].stage = "awaiting",
         NEW s, s = Exchanging(r, c)
  PROVE  /\ Only(r, s, c) /\ Sane(s) /\ s.sock = r.sock /\ s.pend = r.pend /\ s.thrown = r.thrown
         /\ s.att[c] # NoValue /\ s.att[c].owner = r.att[c].owner
         /\ (Routing(s, c) => Routing(r, c)) /\ s.att[c].stage = "exchange"
<1>1. r \in Rooms /\ SaneAt(r, c) /\ c \in Socket /\ c \notin Control  BY Roles DEF Sane
<1>2. r.att[c] \in ClientState  BY <1>1 DEF SaneAt
<1>3. PICK a : a = [r.att[c] EXCEPT !.stage = "exchange"]  OBVIOUS
<1>4. /\ a \in ClientState /\ a.owner = r.att[c].owner /\ a.summary = r.att[c].summary
      /\ a.stage = "exchange" /\ a.gen = r.att[c].gen
  BY <1>2, <1>3 DEF ClientState
<1>5. a \in Attachment /\ a # NoValue  BY <1>4, NoValueAssumption DEF Attachment
<1>6. s = AttTo(r, c, a)
  BY <1>1, <1>3 DEF Exchanging, AttTo, Rooms
<1>7. /\ Only(r, s, c) /\ s.att[c] = a /\ s.sock = r.sock /\ s.pend = r.pend
      /\ s.inactive = r.inactive
      /\ s.finalized = r.finalized /\ s.metric = r.metric /\ s.thrown = r.thrown
  BY <1>1, <1>5, <1>6, WithAtt
<1>8. Live(r.att[c])  BY DEF Live
<1>9. Routing(s, c) => Routing(r, c)  BY <1>7, <1>8 DEF Routing, Open
<1>10. s.inactive \subseteq Control  BY <1>1, <1>7, Fields
<1>11. SaneAt(s, c)  BY <1>1, <1>4, <1>5, <1>7, <1>8, <1>10 DEF SaneAt
<1> QED  BY <1>1, <1>4, <1>5, <1>7, <1>9, <1>11, OnlySane

LEMMA DispatchKeeps ==
  ASSUME NEW r, Sane(r), Single(r), NEW c \in Client, c \in Connected(r, Client),
         r.att[c] # NoValue, r.att[c].stage = "awaiting", Winner(r) = r.att[c].owner,
         Writes(c), NEW sent,
         NEW s, s = Dispatch(Exchanging(r, c), c, Winner(r), sent)
  PROVE  /\ Served(r, s) /\ Remembers(r, s)
         /\ \A d \in Client \ {c} : StepAt(r, s, d)
         /\ s.att[c] # NoValue /\ s.att[c].stage = "exchange"
              => CurrentOpen(s) = {s.att[c].owner}
         /\ r.sock[c] # "none"
<1>1. r \in Rooms /\ SaneAt(r, c) /\ c \in Socket /\ c \notin Control  BY Roles DEF Sane
<1>2. r.att[c].owner \in Control  BY <1>1 DEF SaneAt, ClientState
<1>3. PICK w \in CurrentOpen(r) : w = r.att[c].owner
  <2>1. CurrentOpen(r) # {}  BY <1>2, NoValueAssumption DEF Winner
  <2> QED  BY <2>1, WinnerIs
<1>4. CurrentOpen(r) = {w} /\ w \in Control /\ w = Winner(r)  BY WinnerIs
<1>5. PICK e : e = Exchanging(r, c)  OBVIOUS
<1>6. /\ Only(r, e, c) /\ Sane(e) /\ e.sock = r.sock /\ e.pend = r.pend /\ e.thrown = r.thrown
      /\ e.att[c] # NoValue /\ e.att[c].owner = r.att[c].owner
      /\ (Routing(e, c) => Routing(r, c)) /\ e.att[c].stage = "exchange"
  BY <1>5, ExchangingKeeps
<1>7. e.gen = r.gen /\ \A y \in Socket \ {c} : Alike(r, e, y)  BY <1>6 DEF Only
<1>8. r.sock[c] # "none"  BY DEF Connected
<1>9. ControlsAlike(r, e) /\ CurrentOpen(e) = {w}
  <2>1. ControlsAlike(r, e)  BY <1>1, <1>7, Roles DEF ControlsAlike
  <2> QED  BY <1>4, <2>1, AlikeCurrent
<1>10. Overlooked(e, c) => Overlooked(r, c)
  <2>1. Alike(r, e, w)  BY <1>4, <1>9 DEF ControlsAlike
  <2>2. Held(r, c) => Held(e, c)  BY <1>3, <1>4, <1>6, <1>9 DEF Held
  <2> QED  BY <1>6, <2>2 DEF Overlooked
<1>11. SaneAt(e, c)  BY <1>1, <1>6 DEF Sane
<1>12. Granted(r, e, c) => CurrentOpen(e) = {e.att[c].owner}  BY <1>3, <1>6, <1>9
<1>13. e.sock[c] # "none" /\ e.pend[c] = r.pend[c]  BY <1>6, <1>8
<1>14. Served(r, e) /\ Remembers(r, e)
  BY <1>6, <1>10, <1>11, <1>12, <1>13, ClientOnly
<1>15. ASSUME NEW d \in Client, d # c PROVE StepAt(r, e, d)
  <2>1. Alike(r, e, d) /\ StepAt(r, r, d)  BY <1>1, <1>7, <1>15, Roles, LaterSame DEF Later
  <2> QED  BY <1>6, <2>1, AlikeStep
<1>16. s = Dispatch(e, c, w, sent)  BY <1>4, <1>5
<1>17. CASE s = e
  BY <1>3, <1>6, <1>8, <1>9, <1>14, <1>15, <1>17
<1>18. CASE Handles(e, s) /\ ~Live(s.att[c])
  <2>1. Served(e, s) /\ Remembers(e, s)  BY <1>6, <1>18, HandlesDone
  <2>2. Served(r, s) /\ Remembers(r, s)
    BY <1>14, <2>1, ServedComposes, RemembersComposes
  <2>3. ASSUME NEW d \in Client, d # c PROVE StepAt(r, s, d)
    <3>1. d \in Socket /\ e \in Rooms /\ s \in Rooms  BY <1>6, <1>18, Roles DEF Handles, Sane
    <3>2. StepAt(e, s, d) /\ (e.thrown => s.thrown)  BY <1>18, <3>1 DEF Handles, Later
    <3> QED  BY <1>1, <1>15, <2>3, <3>1, <3>2, StepsCompose
  <2>4. s.att[c] # NoValue => s.att[c].stage = "terminal"  BY <1>18 DEF Live
  <2> QED  BY <1>8, <2>2, <2>3, <2>4
<1>19. CASE ~Writes(w) \/ (sent /\ ~Rewrites(c))
  <2>1. s = FailClient(e, c, "incomplete")  BY <1>16, <1>19 DEF Dispatch
  <2>2. "incomplete" \in Outcome  BY DEF Outcome
  <2>3. Handles(e, s) /\ ~Live(s.att[c])  BY <1>6, <2>1, <2>2, ClientFails
  <2> QED  BY <1>18, <2>3
<1>20. CASE ~(~Writes(w) \/ (sent /\ ~Rewrites(c))) /\ ~sent
  <2>1. s = FailServer(e, w, "incomplete")  BY <1>16, <1>20 DEF Dispatch
  <2>2. "incomplete" \in Outcome  BY DEF Outcome
  <2>3. w \in CurrentOpen(e)  BY <1>9
  <2>4. e.att[w] # NoValue /\ e.att[w].current  BY <2>3 DEF CurrentOpen
  <2>5. Handles(e, s) /\ \A d \in Connected(e, Client) : Writes(d) => ~Live(s.att[d])
    BY <1>4, <1>6, <2>1, <2>2, <2>4, FailServerKeeps DEF ControlEnded
  <2>6. c \in Connected(e, Client)  BY <1>6 DEF Connected
  <2> QED  BY <1>18, <2>5, <2>6
<1>21. CASE ~(~Writes(w) \/ (sent /\ ~Rewrites(c))) /\ sent
  <2>1. s = e  BY <1>16, <1>21 DEF Dispatch
  <2> QED  BY <1>17, <2>1
<1> QED  BY <1>19, <1>20, <1>21

LEMMA ForwardKeeps ==
  ASSUME NEW q, Sane(q), ~q.thrown, NEW c \in Client, Open(q, c), q.att[c] # NoValue,
         NEW sent,
         NEW s, s = Forward(ReconcileActiveServer(q), c, sent)
  PROVE  Served(q, s) /\ Remembers(q, s) /\ Granting(q, s)
<1>1. PICK r : r = ReconcileActiveServer(q)  OBVIOUS
<1>2. Handles(q, r) /\ (~r.thrown => Single(r))  BY <1>1, ReconcileKeeps
<1>3. Sane(r) /\ c \in Socket /\ q \in Rooms /\ r \in Rooms  BY <1>2, Roles DEF Handles, Sane
<1>4. StepAt(q, r, c)  BY <1>2, <1>3 DEF Handles, Later
<1>5. r.att[c] # NoValue /\ c \in Connected(r, Client)
  BY <1>4 DEF StepAt, Open, Connected
<1>6. s = Forward(r, c, sent)  BY <1>1
<1>7. CASE Handles(r, s)
  <2>1. Handles(q, s)  BY <1>2, <1>7, HandlesCompose
  <2> QED  BY <2>1, HandlesDone
<1>8. ASSUME NEW o \in Outcome, s = FailClient(r, c, o) PROVE Handles(r, s)
  BY <1>3, <1>5, <1>8, ClientFails
<1>9. "incomplete" \in Outcome
  BY DEF Outcome
<1>10. CASE r.thrown
  <2>1. s = r  BY <1>6, <1>10 DEF Forward
  <2>2. Handles(r, s)  BY <1>3, <2>1, HandlesSame
  <2> QED  BY <1>7, <2>2
<1>11. CASE ~r.thrown /\ r.att[c].stage = "awaiting" /\ Winner(r) = r.att[c].owner /\ Writes(c)
            /\ c \notin expired
  <2>1. s = Dispatch(Exchanging(r, c), c, Winner(r), sent)  BY <1>6, <1>11 DEF Forward
  <2>2. /\ Served(r, s) /\ Remembers(r, s)
        /\ \A d \in Client \ {c} : StepAt(r, s, d)
        /\ s.att[c] # NoValue /\ s.att[c].stage = "exchange"
             => CurrentOpen(s) = {s.att[c].owner}
        /\ r.sock[c] # "none"
    BY <1>2, <1>3, <1>5, <1>11, <2>1, DispatchKeeps
  <2>3. Served(q, r) /\ Remembers(q, r)  BY <1>2, HandlesDone
  <2>4. Served(q, s) /\ Remembers(q, s)
    BY <2>2, <2>3, ServedComposes, RemembersComposes
  <2>5. ASSUME NEW d \in Client, Granted(q, s, d) PROVE CurrentOpen(s) = {s.att[d].owner}
    <3>1. CASE d = c
      <4>1. q.sock[c] # "none"  BY DEF Open
      <4>2. s.att[c] # NoValue /\ s.att[c].stage = "exchange"  BY <2>5, <3>1, <4>1 DEF Granted
      <4> QED  BY <2>2, <3>1, <4>2
    <3>2. CASE d # c
      <4>1. d \in Socket /\ s \in Rooms  BY <2>4, Roles DEF Served, Sane
      <4>2. StepAt(q, r, d) /\ StepAt(r, s, d)  BY <1>2, <2>2, <3>2, <4>1 DEF Handles, Later
      <4>3. r.thrown => s.thrown  BY <1>11
      <4>4. StepAt(q, s, d)  BY <1>3, <4>1, <4>2, <4>3, StepsCompose
      <4> QED  BY <2>5, <4>4, StepsGrant
    <3> QED  BY <3>1, <3>2
  <2> QED  BY <2>4, <2>5 DEF Granting
<1>12. CASE ~r.thrown /\ ~(/\ r.att[c].stage = "awaiting" /\ Winner(r) = r.att[c].owner
                           /\ Writes(c) /\ c \notin expired)
  <2>1. s = FailClient(r, c, "incomplete")
    BY <1>6, <1>12 DEF Forward
  <2> QED  BY <1>7, <1>8, <1>9, <2>1
<1> QED  BY <1>10, <1>11, <1>12

LEMMA AnswerKeeps ==
  ASSUME NEW q, Sane(q), ~q.thrown, NEW x \in Control, q.att[x] # NoValue,
         NEW c \in Client, q.att[c] # NoValue, NEW completes,
         NEW s, s = Answer(ReconcileActiveServer(q), x, c, completes)
  PROVE  Handles(q, s)
<1>1. PICK r : r = ReconcileActiveServer(q)  OBVIOUS
<1>2. Handles(q, r) /\ (~r.thrown => Single(r))  BY <1>1, ReconcileKeeps
<1>3. Sane(r) /\ c \in Socket /\ x \in Socket /\ x \notin Client /\ r \in Rooms
  BY <1>2, Roles DEF Handles, Sane
<1>4. r.att[c] # NoValue /\ r.att[x] # NoValue
  BY <1>2, <1>3 DEF Handles, Later, StepAt
<1>5. s = Answer(r, x, c, completes)  BY <1>1
<1>6. SUFFICES Handles(r, s)  BY <1>2, HandlesCompose
<1>7. {"incomplete", "completed"} \subseteq Outcome  BY DEF Outcome
<1>8. CASE s = r  BY <1>3, <1>8, HandlesSame
<1>9. CASE s = FailClient(r, c, "completed")
  BY <1>3, <1>4, <1>7, <1>9, ClientFails
<1>10. CASE s = FailServer(r, x, "incomplete")
  BY <1>3, <1>4, <1>7, <1>10, FailServerKeeps DEF ControlEnded
<1>11. CASE ~r.thrown /\ Winner(r) # x /\ s = Close(r, x)
  <2>1. SaneAt(r, x)  BY <1>3 DEF Sane
  <2>2. EndedAt(r, s, x)  BY <1>3, <1>11, <2>1, CloseKeeps
  <2>3. Sane(s) /\ Later(r, s) /\ \A y \in Control \ {x} : Alike(r, s, y)
    BY <1>3, <2>2, EndedLater
  <2>4. x \notin CurrentOpen(r)  BY <1>2, <1>11, WinnerIs
  <2>5. Kept(r, s)  BY <2>3, <2>4, CurrentKept, CurrentRoutes
  <2> QED  BY <2>3, <2>5 DEF Handles
<1> QED  BY <1>5, <1>8, <1>9, <1>10, <1>11 DEF Answer

LEMMA NoticeKeeps ==
  ASSUME NEW q, Sane(q), ~q.thrown, NEW c \in Client, q.att[c] # NoValue,
         NEW r, r = ReconcileActiveServer(q),
         NEW s, s = IF r.thrown \/ CurrentOpen(r) = {} THEN r
                    ELSE FailClient(r, c, "incomplete")
  PROVE  Handles(q, s)
<1>1. Handles(q, r)  BY ReconcileKeeps
<1>2. Sane(r) /\ c \in Socket  BY <1>1, Roles DEF Handles
<1>3. r.att[c] # NoValue  BY <1>1, <1>2 DEF Handles, Later, StepAt
<1>4. "incomplete" \in Outcome  BY DEF Outcome
<1>5. CASE s = r  BY <1>1, <1>5
<1>6. CASE s = FailClient(r, c, "incomplete")
  <2>1. Handles(r, s)  BY <1>2, <1>3, <1>4, <1>6, ClientFails
  <2> QED  BY <1>1, <2>1, HandlesCompose
<1> QED  BY <1>5, <1>6

-----------------------------------------------------------------------------
(* Sockets that go away *)

LEMMA WithoutFacts ==
  ASSUME NEW q \in Rooms, NEW x \in Socket, NEW s, s = Without(q, x)
  PROVE  /\ Only(q, s, x) /\ s.sock = q.sock /\ s.att[x] = NoValue /\ s.pend[x] = NoValue
         /\ s.inactive = q.inactive /\ s.metric = q.metric /\ s.thrown = q.thrown
<1>1. PICK o : o = AttTo(q, x, NoValue)  OBVIOUS
<1>2. NoValue \in Attachment /\ NoValue \in Outcome \cup {NoValue}  BY DEF Attachment
<1>3. /\ Only(q, o, x) /\ o.att[x] = NoValue /\ o.sock = q.sock /\ o.pend = q.pend
      /\ o.inactive = q.inactive /\ o.finalized = q.finalized /\ o.metric = q.metric
      /\ o.thrown = q.thrown
  BY <1>1, <1>2, WithAtt
<1>4. PICK p : p = PendTo(o, x, NoValue)  OBVIOUS
<1>5. o \in Rooms  BY <1>3 DEF Only
<1>6. /\ Only(o, p, x) /\ p.pend[x] = NoValue /\ p.sock = o.sock /\ p.att = o.att
      /\ p.inactive = o.inactive /\ p.finalized = o.finalized /\ p.metric = o.metric
      /\ p.thrown = o.thrown
  BY <1>2, <1>4, <1>5, WithPend
<1>7. p \in Rooms /\ Only(q, p, x)  BY <1>3, <1>6, OnlyComposes DEF Only
<1>8. s = [p EXCEPT !.finalized = @ \ {x}]
  BY <1>1, <1>4 DEF Without, AttTo, PendTo, Rooms
<1>9. /\ s \in Rooms /\ s.gen = p.gen /\ s.sock = p.sock /\ s.att = p.att /\ s.pend = p.pend
      /\ s.inactive = p.inactive /\ s.metric = p.metric /\ s.thrown = p.thrown
      /\ s.finalized = p.finalized \ {x}
  BY <1>7, <1>8 DEF Rooms
<1>10. Only(p, s, x)  BY <1>9 DEF Only, Alike
<1>11. Only(q, s, x)  BY <1>7, <1>10, OnlyComposes
<1> QED  BY <1>3, <1>6, <1>9, <1>11

LEMMA GoneFacts ==
  ASSUME NEW r, Sane(r), NEW x \in Socket, r.sock[x] # "none", NEW g, g = SockTo(r, x, "gone")
  PROVE  /\ Sane(g) /\ Only(r, g, x) /\ g.sock[x] = "gone" /\ g.att = r.att /\ g.pend = r.pend
         /\ g.inactive = r.inactive /\ g.thrown = r.thrown /\ ~Routing(g, x)
<1>1. r \in Rooms /\ "gone" \in SockState /\ SaneAt(r, x)  BY DEF Sane, SockState
<1>2. /\ Only(r, g, x) /\ g.sock[x] = "gone" /\ g.att = r.att /\ g.pend = r.pend
      /\ g.inactive = r.inactive /\ g.finalized = r.finalized /\ g.metric = r.metric
      /\ g.thrown = r.thrown
  BY <1>1, WithSock
<1>3. ~Routing(g, x)  BY <1>2 DEF Routing, Open
<1>4. SaneAt(g, x)  BY <1>1, <1>2, <1>3 DEF SaneAt
<1>5. Sane(g)  BY <1>2, <1>4, OnlySane
<1> QED  BY <1>2, <1>3, <1>5

LEMMA ClientGoneFacts ==
  ASSUME NEW g, Sane(g), NEW x \in Client, g.sock[x] = "gone", g.att[x] # NoValue,
         NEW local, NEW q, q = ClientGone(g, x, local)
  PROVE  /\ Only(g, q, x) /\ q.sock[x] = "gone" /\ Len(q.metric[x]) <= 1
         /\ (g.thrown => q.thrown)
<1>1. g \in Rooms /\ x \in Socket /\ SaneAt(g, x)  BY Roles DEF Sane
<1>2. g.att[x] \in ClientState /\ Len(g.metric[x]) <= 1  BY <1>1 DEF SaneAt
<1>3. ASSUME NEW o \in Outcome, q = FailClient(g, x, o)
      PROVE  /\ Only(g, q, x) /\ q.sock[x] = "gone" /\ Len(q.metric[x]) <= 1
             /\ (g.thrown => q.thrown)
  <2>1. EndedAt(g, q, x)  BY <1>1, <1>3, FailClientKeeps
  <2> QED  BY <2>1 DEF EndedAt, StepAt, SaneAt
<1>4. CASE g.pend[x] # NoValue
  <2>1. g.pend[x] \in Outcome  BY <1>1, <1>4, Fields
  <2>2. q = FailClient(g, x, g.pend[x])  BY <1>4 DEF ClientGone
  <2> QED  BY <1>3, <2>1, <2>2
<1>5. CASE g.pend[x] = NoValue /\ ~Live(g.att[x])
  <2>1. q = EmitTerminalMetric(g, x, g.att[x].outcome, Writes(x))  BY <1>5 DEF ClientGone
  <2>2. CASE q = g  BY <1>2, <2>2, OnlySame, <1>1
  <2>3. CASE ~SummaryKnown(g, x) /\ q = EmitTo(g, x, g.att[x].outcome)
    <3>1. g.att[x].outcome \in Outcome \cup {NoValue}  BY <1>2 DEF ClientState
    <3>2. /\ Only(g, q, x) /\ q.sock = g.sock /\ q.thrown = g.thrown
          /\ q.metric[x] = Append(g.metric[x], g.att[x].outcome)
      BY <1>1, <1>2, <2>3, <3>1, WithEmit
    <3>3. g.metric[x] = <<>>  BY <1>1, <2>3 DEF SaneAt, SummaryKnown
    <3>4. Len(Append(<<>>, g.att[x].outcome)) = 1  OBVIOUS
    <3> QED  BY <3>2, <3>3, <3>4
  <2> QED  BY <2>1, <2>2, <2>3 DEF EmitTerminalMetric, EmitTo
<1>6. CASE g.pend[x] = NoValue /\ Live(g.att[x]) /\ ~local
  <2>1. q = FailClient(g, x, "incomplete")  BY <1>6 DEF ClientGone
  <2>2. "incomplete" \in Outcome  BY DEF Outcome
  <2> QED  BY <1>3, <2>1, <2>2
<1>7. CASE g.pend[x] = NoValue /\ Live(g.att[x]) /\ local /\ Writes(x)
  <2>1. PICK t : t = Terminal(g.att[x], "incomplete", TRUE)  OBVIOUS
  <2>2. "incomplete" \in Outcome  BY DEF Outcome
  <2>3. t \in ClientState  BY <1>2, <2>1, <2>2, TerminalFacts
  <2>4. t \in Attachment  BY <2>3 DEF Attachment
  <2>5. q = [g EXCEPT !.att[x] = Terminal(@, "incomplete", TRUE)]  BY <1>7 DEF ClientGone
  <2>6. q = AttTo(g, x, t)  BY <1>1, <2>1, <2>5 DEF AttTo, Rooms
  <2>7. Only(g, q, x) /\ q.sock = g.sock /\ q.metric = g.metric /\ q.thrown = g.thrown
    BY <1>1, <2>4, <2>6, WithAtt
  <2> QED  BY <1>2, <2>7
<1>8. CASE g.pend[x] = NoValue /\ Live(g.att[x]) /\ local /\ ~Writes(x)
  <2>1. q = g  BY <1>8 DEF ClientGone
  <2> QED  BY <1>1, <1>2, <2>1, OnlySame
<1> QED  BY <1>4, <1>5, <1>6, <1>7, <1>8

LEMMA ClientDeparted ==
  ASSUME NEW g, Sane(g), NEW x \in Client, g.sock[x] = "gone",
         NEW local, NEW d, d = Departed(g, x, local)
  PROVE  Only(g, d, x) /\ d.sock[x] = "gone" /\ Len(d.metric[x]) <= 1
<1>1. x \in Socket /\ x \notin Control /\ g \in Rooms /\ SaneAt(g, x)  BY Roles DEF Sane
<1>2. CASE g.att[x] = NoValue
  <2>1. d = g  BY <1>2 DEF Departed
  <2>2. Len(g.metric[x]) <= 1  BY <1>1 DEF SaneAt
  <2> QED  BY <1>1, <2>1, <2>2, OnlySame
<1>3. CASE g.att[x] # NoValue
  <2>1. PICK q : q = ClientGone(g, x, local)  OBVIOUS
  <2>2. Only(g, q, x) /\ q.sock[x] = "gone" /\ Len(q.metric[x]) <= 1
    BY <1>3, <2>1, ClientGoneFacts
  <2>3. q \in Rooms /\ NoValue \in Outcome \cup {NoValue}  BY <2>2 DEF Only
  <2>4. d = PendTo(q, x, NoValue)  BY <1>3, <2>1 DEF Departed, PendTo
  <2>5. Only(q, d, x) /\ d.sock = q.sock /\ d.metric = q.metric
    BY <1>1, <2>3, <2>4, WithPend
  <2>6. Only(g, d, x)  BY <2>2, <2>5, OnlyComposes
  <2> QED  BY <2>2, <2>5, <2>6
<1> QED  BY <1>2, <1>3

LEMMA ClientDeparts ==
  ASSUME NEW r, Sane(r), ~r.thrown, NEW x \in Client, r.sock[x] # "none",
         NEW local, NEW g, g = SockTo(r, x, "gone"),
         NEW s, s = Without(Departed(g, x, local), x)
  PROVE  Served(r, s) /\ Remembers(r, s) /\ Granting(r, s)
<1>1. x \in Socket /\ x \notin Control  BY Roles
<1>2. Sane(g) /\ Only(r, g, x) /\ g.sock[x] = "gone" /\ g.att = r.att
  BY <1>1, GoneFacts
<1>3. g \in Rooms /\ SaneAt(g, x)  BY <1>1, <1>2 DEF Sane
<1>4. PICK d : d = Departed(g, x, local)  OBVIOUS
<1>5. Only(g, d, x) /\ d.sock[x] = "gone" /\ Len(d.metric[x]) <= 1
  BY <1>2, <1>4, ClientDeparted
<1>6. d \in Rooms  BY <1>5 DEF Only
<1>7. s = Without(d, x)  BY <1>4
<1>8. /\ Only(d, s, x) /\ s.sock = d.sock /\ s.att[x] = NoValue /\ s.pend[x] = NoValue
      /\ s.metric = d.metric
  BY <1>1, <1>6, <1>7, WithoutFacts
<1>9. Only(r, s, x)
  <2>1. Only(r, d, x)  BY <1>2, <1>5, OnlyComposes
  <2> QED  BY <1>8, <2>1, OnlyComposes
<1>10. ~Routing(s, x) /\ s.sock[x] = "gone"  BY <1>5, <1>8 DEF Routing, Open
<1>11. s.inactive \subseteq Control  BY <1>9, Fields DEF Only
<1>12. ~Live(s.att[x])  BY <1>8 DEF Live
<1>13. SaneAt(s, x)  BY <1>1, <1>5, <1>8, <1>10, <1>11, <1>12 DEF SaneAt
<1>14. ~Granted(r, s, x)  BY <1>8, <1>10 DEF Granted
<1> QED  BY <1>9, <1>10, <1>13, <1>14, ClientOnly DEF Overlooked

(* A socket that no longer routes disturbs nothing that the others are. *)
LEMMA OnlyServed ==
  ASSUME NEW r, Sane(r), NEW x \in Socket, NEW s, Only(r, s, x), SaneAt(s, x),
         ~Routing(s, x), s.sock[x] # "none", r.thrown => s.thrown
  PROVE  Served(r, s)
<1>1. Sane(s) /\ s.gen = r.gen /\ \A y \in Socket \ {x} : Alike(r, s, y)
  BY OnlySane DEF Only
<1>2. ASSUME NEW y \in Socket, y # x PROVE ServedAt(r, s, y)
  <2>1. Alike(r, s, y)  BY <1>1, <1>2
  <2>2. Routing(s, y) <=> Routing(r, y)  BY <2>1, AlikeRouting
  <2> QED  BY <1>1, <2>1, <2>2 DEF ServedAt, Alike
<1>3. ServedAt(r, s, x)  BY DEF ServedAt
<1> QED  BY <1>1, <1>2, <1>3 DEF Served

LEMMA ControlOnly ==
  ASSUME NEW r, Sane(r), NEW x \in Control, NEW s, Only(r, s, x), SaneAt(s, x),
         ~Routing(s, x), s.sock[x] # "none", r.thrown => s.thrown,
         Routing(r, x) => r.pend[x] # NoValue
  PROVE  Served(r, s) /\ Remembers(r, s) /\ Granting(r, s)
<1>1. x \in Socket /\ x \notin Client  BY Roles
<1>2. Served(r, s)  BY <1>1, OnlyServed
<1>3. s.gen = r.gen /\ \A y \in Socket \ {x} : Alike(r, s, y)  BY DEF Only
<1>4. ASSUME NEW c \in Client, Overlooked(s, c) PROVE Overlooked(r, c)
  <2>1. c \in Socket \ {x}  BY <1>1, Roles
  <2>2. Alike(r, s, c)  BY <1>3, <2>1
  <2>3. Routing(r, c) /\ r.pend[c] = NoValue  BY <1>4, <2>2, AlikeRouting DEF Overlooked, Alike
  <2>4. ASSUME Held(r, c) PROVE FALSE
    <3>1. PICK y \in CurrentOpen(r) : y = r.att[c].owner /\ r.pend[y] = NoValue  BY <2>4 DEF Held
    <3>2. y \in Socket /\ Routing(r, y)  BY CurrentRoutes
    <3>3. y # x  BY <3>1, <3>2
    <3>4. Alike(r, s, y)  BY <1>3, <3>2, <3>3
    <3>5. y \in CurrentOpen(s)  BY <1>3, <3>4 DEF CurrentOpen, Alike, Open
    <3>6. Held(s, c)  BY <2>2, <3>1, <3>4, <3>5 DEF Held, Alike
    <3> QED  BY <1>4, <3>6 DEF Overlooked
  <2> QED  BY <2>3, <2>4 DEF Overlooked
<1>5. Remembers(r, s)  BY <1>4 DEF Remembers
<1>6. ASSUME NEW c \in Client PROVE ~Granted(r, s, c)
  <2>1. c \in Socket \ {x}  BY <1>1, Roles
  <2>2. Alike(r, s, c)  BY <1>3, <2>1
  <2> QED  BY <2>2 DEF Alike, Granted, Routing, Open
<1>7. Granting(r, s)  BY <1>6 DEF Granting
<1> QED  BY <1>2, <1>5, <1>7

LEMMA RetireFallbackKeeps ==
  ASSUME NEW r, Sane(r), NEW y \in CurrentOpen(r), NEW s, s = RetireFallback(r, y)
  PROVE  EndedAt(r, s, y)
<1>1. r \in Rooms /\ y \in Control /\ y \in Socket /\ y \notin Client /\ SaneAt(r, y)
      /\ r.att[y] # NoValue
  BY Roles, CurrentRoutes DEF Sane, CurrentOpen
<1>2. PICK q : q = Retire(r, y)  OBVIOUS
<1>3. /\ EndedAt(r, q, y) /\ q.thrown = r.thrown
      /\ Stuck(r, y) => q.att = r.att /\ q.sock = r.sock /\ q.pend = r.pend
  BY <1>1, <1>2, RetireKeeps
<1>4. CASE ~Stuck(r, y)
  <2>1. s = q  BY <1>2, <1>4 DEF RetireFallback
  <2> QED  BY <1>3, <2>1
<1>5. CASE Stuck(r, y)
  <2>1. q \in Rooms  BY <1>3, EndedRooms
  <2>2. PICK p : p = PendTo(q, y, "incomplete")  OBVIOUS
  <2>3. "incomplete" \in Outcome  BY DEF Outcome
  <2>4. "incomplete" \in Outcome \cup {NoValue} /\ "incomplete" # NoValue
    BY <2>3, NoValueAssumption
  <2>5. /\ Only(q, p, y) /\ p.pend[y] = "incomplete" /\ p.sock = q.sock /\ p.att = q.att
        /\ p.thrown = q.thrown
    BY <1>1, <2>1, <2>2, <2>4, WithPend
  <2>6. s = [p EXCEPT !.inactive = @ \cup {y}, !.thrown = TRUE]
    BY <1>2, <1>5, <2>2 DEF RetireFallback, PendTo
  <2>7. p \in Rooms  BY <2>5 DEF Only
  <2>8. /\ s \in Rooms /\ s.gen = p.gen /\ s.sock = p.sock /\ s.att = p.att /\ s.pend = p.pend
        /\ s.thrown /\ s.finalized = p.finalized /\ s.metric = p.metric
        /\ s.inactive = p.inactive \cup {y}
    <3>1. PICK u : u = [p EXCEPT !.inactive = @ \cup {y}]  OBVIOUS
    <3>2. /\ u \in Rooms /\ u.gen = p.gen /\ u.sock = p.sock /\ u.att = p.att /\ u.pend = p.pend
          /\ u.finalized = p.finalized /\ u.metric = p.metric
          /\ u.inactive = p.inactive \cup {y}
      BY <1>1, <2>7, <3>1 DEF Rooms
    <3>3. s = Throw(u)  BY <2>6, <2>7, <3>1 DEF Throw, Rooms
    <3>4. /\ Only(u, s, y) /\ s.sock = u.sock /\ s.att = u.att /\ s.pend = u.pend
          /\ s.inactive = u.inactive
          /\ s.finalized = u.finalized /\ s.metric = u.metric /\ s.thrown
      BY <3>2, <3>3, WithThrow
    <3> QED  BY <3>2, <3>4 DEF Only
  <2>9. Only(p, s, y)  BY <2>8 DEF Only, Alike
  <2>10. Only(r, s, y)  BY <1>3, <2>5, <2>9, OnlyComposes DEF EndedAt
  <2>11. s.pend[y] # NoValue /\ s.sock[y] = r.sock[y] /\ s.att[y] = r.att[y]
    BY <1>3, <1>5, <2>4, <2>5, <2>8
  <2>12. SaneAt(s, y)  BY <1>1, <2>11 DEF SaneAt
  <2>13. StepAt(r, s, y)  BY <1>1, <2>8, <2>11 DEF StepAt
  <2>14. ~AllSound  BY <1>1, <1>5, AllSoundIs DEF Stuck
  <2> QED  BY <2>8, <2>10, <2>12, <2>13, <2>14 DEF EndedAt, Calm
<1> QED  BY <1>4, <1>5

LEMMA ControlGoneKeeps ==
  ASSUME NEW r, Sane(r), ~r.thrown, NEW x, NEW s, s = ControlGone(r, x)
  PROVE  Sane(s) /\ Later(r, s) /\ AllQuelled(s)
<1>1. "incomplete" \in Outcome  BY DEF Outcome
<1>2. CASE CurrentOpen(r) = {} \/ x > Max(CurrentOpen(r))
  <2>1. PICK f : f = RetireFallbacks(r)  OBVIOUS
  <2>2. PICK S : S = CurrentOpen(r)  OBVIOUS
  <2>3. S \in SUBSET Socket  BY <2>2, CurrentRoutes
  <2>4. PICK done : done = [y \in S |-> RetireFallback(r, y)]  OBVIOUS
  <2>5. f = Each(r, done) /\ DOMAIN done = S  BY <2>1, <2>2, <2>4 DEF RetireFallbacks
  <2>6. ASSUME NEW y \in S PROVE EndedAt(r, done[y], y)
    <3>1. PICK q : q = RetireFallback(r, y)  OBVIOUS
    <3>2. y \in CurrentOpen(r)  BY <2>2
    <3>3. EndedAt(r, q, y)  BY <3>1, <3>2, RetireFallbackKeeps
    <3>4. done[y] = q  BY <2>4, <3>1
    <3> QED  BY <3>3, <3>4
  <2>7. Sane(f) /\ Later(r, f)  BY <2>3, <2>5, <2>6, EachEnded
  <2>8. s = CloseAllClients(f, "incomplete")  BY <1>2, <2>1 DEF ControlGone
  <2>9. Handles(f, s) /\ AllQuelled(s)  BY <1>1, <2>7, <2>8, ClosedAllKeeps
  <2> QED  BY <2>7, <2>9, LaterComposes DEF Handles, Sane
<1>3. CASE ~(CurrentOpen(r) = {} \/ x > Max(CurrentOpen(r)))
  <2>1. PICK a : a = ReconcileActiveServer(r)  OBVIOUS
  <2>2. Handles(r, a) /\ (a.thrown => AllQuelled(a))  BY <2>1, ReconcileKeeps
  <2>3. Sane(a) /\ Later(r, a)  BY <2>2 DEF Handles
  <2>4. s = IF a.thrown THEN a ELSE AfterReplacement(a)  BY <1>3, <2>1 DEF ControlGone, Then
  <2>5. CASE a.thrown  BY <2>2, <2>3, <2>4, <2>5
  <2>6. CASE ~a.thrown
    <3>1. PICK b : b = IF CurrentOpen(a) = {} THEN Throw(a) ELSE a  OBVIOUS
    <3>2. Handles(a, b)
      <4>1. CASE b = a  BY <2>3, <4>1, HandlesSame
      <4>2. CASE b = Throw(a)  BY <2>3, <4>2, ThrowKeeps
      <4> QED  BY <3>1, <4>1, <4>2
    <3>3. Sane(b)  BY <3>2 DEF Handles
    <3>4. s = CloseAllClients(b, "incomplete")  BY <2>4, <2>6, <3>1 DEF AfterReplacement
    <3>5. Handles(b, s) /\ AllQuelled(s)  BY <1>1, <3>3, <3>4, ClosedAllKeeps
    <3>6. Handles(a, s)  BY <2>3, <3>2, <3>5, HandlesCompose
    <3> QED  BY <2>3, <3>5, <3>6, LaterComposes DEF Handles, Sane
  <2> QED  BY <2>5, <2>6
<1> QED  BY <1>2, <1>3

LEMMA WithoutSane ==
  ASSUME NEW d, Sane(d), NEW x \in Socket, d.sock[x] = "gone", NEW s, s = Without(d, x)
  PROVE  /\ Only(d, s, x) /\ SaneAt(s, x) /\ Sane(s) /\ ~Routing(s, x) /\ s.sock[x] = "gone"
         /\ s.thrown = d.thrown /\ s.att[x] = NoValue
<1>1. d \in Rooms /\ SaneAt(d, x)  BY DEF Sane
<1>2. /\ Only(d, s, x) /\ s.sock = d.sock /\ s.att[x] = NoValue /\ s.pend[x] = NoValue
      /\ s.inactive = d.inactive /\ s.metric = d.metric /\ s.thrown = d.thrown
  BY <1>1, WithoutFacts
<1>3. ~Routing(s, x)  BY <1>2 DEF Routing, Open
<1>4. ~Live(s.att[x])  BY <1>2 DEF Live
<1>5. SaneAt(s, x)  BY <1>1, <1>2, <1>3, <1>4 DEF SaneAt
<1> QED  BY <1>2, <1>3, <1>5, OnlySane

LEMMA QuelledDeparts ==
  ASSUME NEW r, Sane(r), NEW x \in Control, NEW p, Sane(p), Only(r, p, x), p.sock[x] = "gone",
         r.thrown => p.thrown,
         NEW d, Sane(d), Later(p, d), AllQuelled(d),
         NEW s, s = Without(d, x)
  PROVE  Served(r, s) /\ Remembers(r, s) /\ Granting(r, s)
<1>1. x \in Socket /\ x \notin Client /\ r \in Rooms /\ p \in Rooms /\ d \in Rooms
  BY Roles DEF Sane
<1>2. d.sock[x] = "gone"  BY <1>1 DEF Later, StepAt
<1>3. /\ Only(d, s, x) /\ Sane(s) /\ ~Routing(s, x) /\ s.sock[x] = "gone" /\ s.thrown = d.thrown
  BY <1>1, <1>2, WithoutSane
<1>4. s \in Rooms /\ s.gen = d.gen /\ p.gen = r.gen /\ d.gen = p.gen
  BY <1>3 DEF Only, Later
<1>5. (p.thrown => s.thrown) /\ (p.thrown => d.thrown)  BY <1>3 DEF Later
<1>6. ASSUME NEW y \in Socket, y # x PROVE StepAt(r, s, y) /\ Alike(d, s, y)
  <2>1. Alike(r, p, y) /\ StepAt(r, r, y)  BY <1>1, <1>6, LaterSame DEF Only, Later
  <2>2. StepAt(r, p, y)  BY <2>1, AlikeStep
  <2>3. StepAt(p, d, y)  BY DEF Later
  <2>4. StepAt(r, d, y)  BY <1>1, <1>5, <2>2, <2>3, StepsCompose
  <2>5. Alike(d, s, y)  BY <1>3, <1>6 DEF Only
  <2> QED  BY <1>3, <2>4, <2>5, AlikeStep
<1>7. ASSUME NEW y \in Socket PROVE ServedAt(r, s, y)
  <2>1. CASE y = x  BY <1>3, <2>1 DEF ServedAt
  <2>2. CASE y # x
    <3>1. StepAt(r, s, y)  BY <1>6, <2>2
    <3>2. Routing(s, y) => Routing(r, y)  BY <1>1, <1>4, <3>1, StepRouting
    <3>3. y \in Control /\ Routing(s, y) => s.att[y].gen = r.att[y].gen
      <4>1. y \in Control /\ Routing(s, y) => s.att[y] # NoValue  BY Roles DEF Routing
      <4> QED  BY <3>1, <4>1 DEF StepAt
    <3> QED  BY <1>3, <1>4, <3>1, <3>2, <3>3, StepServed
  <2> QED  BY <2>1, <2>2
<1>8. Served(r, s)  BY <1>3, <1>5, <1>7 DEF Served
<1>9. ASSUME NEW c \in Client PROVE StepAt(r, s, c) /\ Quelled(s, c)
  <2>1. c \in Socket /\ c # x  BY <1>1, Roles
  <2>2. StepAt(r, s, c) /\ Alike(d, s, c)  BY <1>6, <2>1
  <2>3. Quelled(d, c)  BY DEF AllQuelled
  <2> QED  BY <2>2, <2>3, AlikeRouting DEF Quelled, Alike
<1>10. Granting(r, s)  BY <1>9, StepsGrant DEF Granting
<1>11. AllQuelled(s)  BY <1>9 DEF AllQuelled
<1> QED  BY <1>8, <1>10, <1>11, QuelledRemembers

LEMMA ControlDeparts ==
  ASSUME NEW r, Sane(r), ~r.thrown, NEW x \in Control, r.sock[x] # "none",
         NEW local, NEW g, g = SockTo(r, x, "gone"),
         NEW s, s = Without(Departed(g, x, local), x)
  PROVE  Served(r, s) /\ Remembers(r, s) /\ Granting(r, s)
<1>1. x \in Socket /\ x \notin Client /\ r \in Rooms /\ SaneAt(r, x)  BY Roles DEF Sane
<1>2. /\ Sane(g) /\ Only(r, g, x) /\ g.sock[x] = "gone" /\ g.att = r.att /\ g.pend = r.pend
      /\ g.inactive = r.inactive /\ g.thrown = r.thrown /\ ~Routing(g, x)
  BY <1>1, GoneFacts
<1>3. g \in Rooms /\ SaneAt(g, x)  BY <1>1, <1>2 DEF Sane
<1>4. PICK d : d = Departed(g, x, local)  OBVIOUS
<1>5. s = Without(d, x)  BY <1>4
<1>6. PICK p : p = PendTo(g, x, NoValue)  OBVIOUS
<1>7. NoValue \in Outcome \cup {NoValue}  OBVIOUS
<1>8. /\ Only(g, p, x) /\ p.pend[x] = NoValue /\ p.sock = g.sock /\ p.att = g.att
      /\ p.inactive = g.inactive /\ p.finalized = g.finalized /\ p.metric = g.metric
      /\ p.thrown = g.thrown
  BY <1>1, <1>3, <1>6, <1>7, WithPend
<1>9. p \in Rooms /\ Only(r, p, x)  BY <1>2, <1>8, OnlyComposes DEF Only
<1>10. ~Routing(p, x)  BY <1>2, <1>8 DEF Routing, Open
<1>11. SaneAt(p, x)  BY <1>1, <1>3, <1>8, <1>10 DEF SaneAt
<1>12. Sane(p)  BY <1>1, <1>2, <1>8, <1>11, OnlySane
<1>13. CASE g.att[x] = NoValue
  <2>1. d = CloseAllClients(g, "incomplete")  BY <1>1, <1>4, <1>13 DEF Departed
  <2>2. "incomplete" \in Outcome  BY DEF Outcome
  <2>3. Handles(g, d) /\ AllQuelled(d)  BY <1>2, <2>1, <2>2, ClosedAllKeeps
  <2>4. Sane(d) /\ Later(g, d)  BY <2>3 DEF Handles
  <2> QED  BY <1>2, <1>5, <2>3, <2>4, QuelledDeparts
<1>14. CASE g.att[x] # NoValue /\ g.att[x].current /\ ~DeliberatelyRetired(g, x)
  <2>1. d = ControlGone(p, x)  BY <1>1, <1>4, <1>6, <1>14 DEF Departed, PendTo
  <2>2. ~p.thrown  BY <1>2, <1>8
  <2>3. Sane(d) /\ Later(p, d) /\ AllQuelled(d)  BY <1>12, <2>1, <2>2, ControlGoneKeeps
  <2>4. p.sock[x] = "gone"  BY <1>2, <1>8
  <2> QED  BY <1>5, <1>9, <1>12, <2>3, <2>4, QuelledDeparts
<1>15. CASE g.att[x] # NoValue /\ ~(g.att[x].current /\ ~DeliberatelyRetired(g, x))
  <2>1. d = [g EXCEPT !.pend[x] = NoValue, !.inactive = @ \ {x}]
    BY <1>1, <1>4, <1>15 DEF Departed
  <2>2. d = [p EXCEPT !.inactive = @ \ {x}]  BY <1>3, <1>6, <2>1 DEF PendTo, Rooms
  <2>3. /\ d \in Rooms /\ d.gen = p.gen /\ d.sock = p.sock /\ d.att = p.att /\ d.pend = p.pend
        /\ d.finalized = p.finalized /\ d.metric = p.metric /\ d.thrown = p.thrown
        /\ d.inactive = p.inactive \ {x}
    BY <1>9, <2>2 DEF Rooms
  <2>4. Only(p, d, x)  BY <2>3 DEF Only, Alike
  <2>5. ~Routing(d, x)  BY <1>10, <2>3 DEF Routing, Open
  <2>6. SaneAt(d, x)  BY <1>1, <1>11, <2>3, <2>5 DEF SaneAt
  <2>7. Sane(d)  BY <1>1, <1>12, <2>4, <2>6, OnlySane
  <2>8. d.sock[x] = "gone"  BY <1>2, <1>8, <2>3
  <2>9. Only(d, s, x) /\ SaneAt(s, x) /\ ~Routing(s, x) /\ s.sock[x] = "gone"
    BY <1>1, <1>5, <2>7, <2>8, WithoutSane
  <2>10. Only(r, s, x)
    <3>1. Only(r, d, x)  BY <1>9, <2>4, OnlyComposes
    <3> QED  BY <2>9, <3>1, OnlyComposes
  <2>11. Routing(r, x) => r.pend[x] # NoValue
    <3>1. ASSUME Routing(r, x) PROVE x \in r.inactive
      <4>1. r.att[x].current  BY <1>1, <3>1 DEF Routing
      <4> QED  BY <1>2, <1>15, <4>1 DEF DeliberatelyRetired
    <3> QED  BY <1>1, <3>1 DEF SaneAt
  <2> QED  BY <2>9, <2>10, <2>11, ControlOnly
<1> QED  BY <1>13, <1>14, <1>15

-----------------------------------------------------------------------------
(* Quarantine *)

LEMMA ScrubbedIs ==
  ASSUME NEW a \in ClientState, NEW x \in Client, NEW quiet \in BOOLEAN,
         NEW t, t = Scrubbed(a, x, quiet)
  PROVE  /\ t \in ClientState /\ t.stage = "terminal" /\ t.owner = a.owner /\ t.gen = a.gen
         /\ a.summary => t.summary
<1>1. a # NoValue  BY NoValueAssumption
<1>2. PICK b \in BOOLEAN : b = (a.summary \/ quiet)  OBVIOUS
<1>3. t = Terminal(a, "incomplete", b)  BY <1>1, <1>2 DEF Scrubbed
<1>4. "incomplete" \in Outcome  BY DEF Outcome
<1>5. /\ t \in ClientState /\ t.stage = "terminal" /\ t.owner = a.owner /\ t.gen = a.gen
      /\ t.summary = b
  BY <1>3, <1>4, TerminalFacts
<1>6. a.summary \in BOOLEAN  BY DEF ClientState
<1> QED  BY <1>2, <1>5, <1>6

LEMMA DemotedIs ==
  ASSUME NEW a \in ControlState, NEW x \in Control, NEW quiet,
         NEW t, t = Scrubbed(a, x, quiet)
  PROVE  t \in ControlState /\ ~t.current /\ t.gen = a.gen
<1>1. a # NoValue /\ x \notin Client  BY NoValueAssumption, Roles
<1>2. t = [a EXCEPT !.current = FALSE]  BY <1>1 DEF Scrubbed
<1> QED  BY <1>2 DEF ControlState

LEMMA CloseSocketsFacts ==
  ASSUME NEW r, Sane(r), NEW quiet \in BOOLEAN, NEW s, s = CloseSockets(r, quiet)
  PROVE  /\ s \in Rooms /\ s.gen = r.gen /\ s.pend = r.pend /\ s.inactive = r.inactive
         /\ s.finalized = r.finalized /\ s.metric = r.metric /\ s.thrown = r.thrown
         /\ \A x \in Socket :
              /\ s.att[x] = IF x \in Connected(r, Socket) /\ Writes(x)
                            THEN Scrubbed(r.att[x], x, quiet) ELSE r.att[x]
              /\ s.sock[x] = IF r.sock[x] = "open" /\ broken[x].close THEN "closing" ELSE r.sock[x]
<1>1. r \in Rooms /\ \A x \in Socket : SaneAt(r, x)  BY DEF Sane
<1>2. /\ s.gen = r.gen /\ s.pend = r.pend /\ s.inactive = r.inactive
      /\ s.finalized = r.finalized /\ s.metric = r.metric /\ s.thrown = r.thrown
      /\ s.att = [x \in Socket |-> IF x \in Connected(r, Socket) /\ Writes(x)
                                   THEN Scrubbed(r.att[x], x, quiet) ELSE r.att[x]]
      /\ s.sock = [x \in Socket |-> IF r.sock[x] = "open" /\ broken[x].close THEN "closing"
                                    ELSE r.sock[x]]
  BY <1>1 DEF CloseSockets, Rooms
<1>3. ASSUME NEW x \in Socket PROVE s.att[x] \in Attachment /\ s.sock[x] \in SockState
  <2>1. r.att[x] \in Attachment /\ r.sock[x] \in SockState  BY <1>1, Fields
  <2>2. PICK t : t = Scrubbed(r.att[x], x, quiet)  OBVIOUS
  <2>3. t \in Attachment
    <3>1. CASE r.att[x] = NoValue
      <4>1. t = NoValue  BY <2>2, <3>1 DEF Scrubbed
      <4> QED  BY <4>1 DEF Attachment
    <3>2. CASE r.att[x] # NoValue /\ x \in Client
      <4>1. r.att[x] \in ClientState  BY <1>1, <3>2 DEF SaneAt
      <4>2. t \in ClientState  BY <2>2, <3>2, <4>1, ScrubbedIs
      <4> QED  BY <4>2 DEF Attachment
    <3>3. CASE r.att[x] # NoValue /\ x \in Control
      <4>1. r.att[x] \in ControlState  BY <1>1, <3>3 DEF SaneAt
      <4>2. t \in ControlState  BY <2>2, <3>3, <4>1, DemotedIs
      <4> QED  BY <4>2 DEF Attachment
    <3> QED  BY <3>1, <3>2, <3>3, Roles
  <2>4. "closing" \in SockState  BY DEF SockState
  <2> QED  BY <1>2, <2>1, <2>2, <2>3, <2>4
<1>4. s.att \in [Socket -> Attachment] /\ s.sock \in [Socket -> SockState]  BY <1>2, <1>3
<1>5. s = AsRoom(s)  BY <1>1 DEF CloseSockets, Rooms, AsRoom
<1>6. s \in Rooms  BY <1>1, <1>2, <1>4, <1>5, RoomTypes, RoomOf
<1> QED  BY <1>2, <1>6

LEMMA CloseSocketsKeeps ==
  ASSUME NEW r, Sane(r), NEW quiet \in BOOLEAN, NEW s, s = CloseSockets(r, quiet)
  PROVE  /\ Sane(s) /\ Later(r, s) /\ s.thrown = r.thrown /\ s.pend = r.pend
         /\ \A x \in Socket : Routing(s, x) => Routing(r, x) /\ x \in Unsanitized(r, quiet)
<1>1. r \in Rooms /\ \A x \in Socket : SaneAt(r, x)  BY DEF Sane
<1>2. /\ s \in Rooms /\ s.gen = r.gen /\ s.pend = r.pend /\ s.inactive = r.inactive
      /\ s.finalized = r.finalized /\ s.metric = r.metric /\ s.thrown = r.thrown
      /\ \A x \in Socket :
           /\ s.att[x] = IF x \in Connected(r, Socket) /\ Writes(x)
                         THEN Scrubbed(r.att[x], x, quiet) ELSE r.att[x]
           /\ s.sock[x] = IF r.sock[x] = "open" /\ broken[x].close THEN "closing" ELSE r.sock[x]
  BY CloseSocketsFacts
<1>3. ASSUME NEW x \in Socket
      PROVE  /\ s.att[x] = NoValue <=> r.att[x] = NoValue
             /\ x \in Control /\ r.att[x] # NoValue =>
                  /\ s.att[x] \in ControlState /\ s.att[x].gen = r.att[x].gen
                  /\ s.att[x].current => r.att[x].current /\ ~(x \in Connected(r, Socket) /\ Writes(x))
             /\ x \in Client /\ r.att[x] # NoValue =>
                  /\ s.att[x] \in ClientState /\ s.att[x].gen = r.att[x].gen
                  /\ s.att[x].owner = r.att[x].owner
                  /\ s.att[x].stage \in {r.att[x].stage, "terminal"}
                  /\ r.att[x].summary => s.att[x].summary
                  /\ Live(s.att[x]) => /\ s.att[x] = r.att[x]
                                       /\ ~(x \in Connected(r, Socket) /\ Writes(x))
  <2>1. PICK t : t = Scrubbed(r.att[x], x, quiet)  OBVIOUS
  <2>2. s.att[x] = IF x \in Connected(r, Socket) /\ Writes(x) THEN t ELSE r.att[x]  BY <1>2, <2>1
  <2>3. CASE r.att[x] = NoValue
    <3>1. t = NoValue  BY <2>1, <2>3 DEF Scrubbed
    <3> QED  BY <2>2, <2>3, <3>1
  <2>4. CASE r.att[x] # NoValue /\ x \in Client
    <3>1. r.att[x] \in ClientState  BY <1>1, <2>4 DEF SaneAt
    <3>2. /\ t \in ClientState /\ t.stage = "terminal" /\ t.owner = r.att[x].owner
          /\ t.gen = r.att[x].gen /\ (r.att[x].summary => t.summary)
      BY <2>1, <2>4, <3>1, ScrubbedIs
    <3>3. t # NoValue /\ ~Live(t) /\ x \notin Control  BY <2>4, <3>2, NoValueAssumption, Roles DEF Live
    <3> QED  BY <2>2, <2>4, <3>1, <3>2, <3>3
  <2>5. CASE r.att[x] # NoValue /\ x \in Control
    <3>1. r.att[x] \in ControlState  BY <1>1, <2>5 DEF SaneAt
    <3>2. t \in ControlState /\ ~t.current /\ t.gen = r.att[x].gen  BY <2>1, <2>5, <3>1, DemotedIs
    <3>3. t # NoValue /\ x \notin Client  BY <2>5, <3>2, NoValueAssumption, Roles
    <3> QED  BY <2>2, <2>5, <3>1, <3>2, <3>3
  <2> QED  BY <2>3, <2>4, <2>5, Roles
<1>4. ASSUME NEW x \in Socket, Routing(s, x) PROVE Routing(r, x) /\ x \in Unsanitized(r, quiet)
  <2>1. s.sock[x] = "open"  BY <1>4 DEF Routing, Open
  <2>2. r.sock[x] = "open" /\ ~broken[x].close  BY <1>2, <2>1
  <2>3. ~Closes(r, x) /\ x \in Connected(r, Socket)  BY <2>2 DEF Closes, Open, Connected
  <2>4. CASE x \in Client
    <3>1. Live(s.att[x])  BY <1>4, <2>4 DEF Routing
    <3>2. r.att[x] # NoValue  BY <1>3, <3>1 DEF Live
    <3>3. s.att[x] = r.att[x] /\ ~Writes(x)  BY <1>3, <2>3, <2>4, <3>1, <3>2
    <3>4. Left(r, x, quiet)  BY <2>3, <3>1, <3>3 DEF Left, Live
    <3> QED  BY <2>2, <2>3, <2>4, <3>1, <3>3, <3>4 DEF Unsanitized, Routing, Open
  <2>5. CASE x \notin Client
    <3>1. x \in Control /\ s.att[x] # NoValue /\ s.att[x].current  BY <1>4, <2>5, Roles DEF Routing
    <3>2. r.att[x] # NoValue  BY <1>3, <3>1
    <3>3. r.att[x].current /\ ~Writes(x)  BY <1>3, <2>3, <3>1, <3>2
    <3>4. Left(r, x, quiet)  BY <2>3, <2>5, <3>3 DEF Left
    <3> QED  BY <2>2, <2>3, <2>5, <3>2, <3>3, <3>4 DEF Unsanitized, Routing, Open
  <2> QED  BY <2>4, <2>5
<1>5. ASSUME NEW x \in Socket PROVE SaneAt(s, x) /\ StepAt(r, s, x)
  <2>1. SaneAt(r, x)  BY <1>1
  <2>2. s.sock[x] = r.sock[x] \/ (r.sock[x] = "open" /\ s.sock[x] = "closing")  BY <1>2
  <2>3. SaneAt(s, x)
    <3>1. x \in Control => s.att[x] \in ControlState \cup {NoValue}  BY <1>3
    <3>2. x \in Client => s.att[x] \in ClientState \cup {NoValue}  BY <1>3
    <3>3. s.sock[x] = "none" => s.att[x] = NoValue /\ x \notin s.inactive
      BY <1>2, <1>3, <2>1, <2>2 DEF SaneAt
    <3>4. s.att[x] = NoValue => s.pend[x] = NoValue  BY <1>2, <1>3, <2>1 DEF SaneAt
    <3>5. x \in s.inactive /\ Routing(s, x) => s.pend[x] # NoValue
      BY <1>2, <1>4, <2>1 DEF SaneAt
    <3>6. ASSUME x \in Client
          PROVE  /\ Len(s.metric[x]) <= 1
                 /\ s.metric[x] # <<>> => s.sock[x] # "none" /\ (s.att[x] = NoValue \/ s.att[x].summary)
                 /\ Live(s.att[x]) => ~s.att[x].summary /\ x \notin s.finalized
                 /\ s.sock[x] = "none" => x \notin s.finalized
      <4>1. Live(s.att[x]) => r.att[x] # NoValue  BY <1>3 DEF Live
      <4> QED  BY <1>2, <1>3, <2>1, <2>2, <3>6, <4>1 DEF SaneAt
    <3> QED  BY <3>1, <3>2, <3>3, <3>4, <3>5, <3>6 DEF SaneAt
  <2>4. StepAt(r, s, x)  BY <1>2, <1>3, <1>4, <2>2 DEF StepAt
  <2> QED  BY <2>3, <2>4
<1>6. Sane(s) /\ Later(r, s)  BY <1>2, <1>5 DEF Sane, Later
<1> QED  BY <1>2, <1>4, <1>6

LEMMA AsleepKeeps ==
  ASSUME NEW r, Sane(r), NEW s, s = [r EXCEPT !.pend = Fresh.pend, !.inactive = {}, !.finalized = {}]
  PROVE  /\ Sane(s) /\ s.sock = r.sock /\ s.att = r.att /\ s.gen = r.gen /\ s.thrown = r.thrown
         /\ \A x \in Socket : s.pend[x] = NoValue
<1>1. r \in Rooms /\ \A x \in Socket : SaneAt(r, x)  BY DEF Sane
<1>2. PICK p : p = [x \in Socket |-> NoValue]  OBVIOUS
<1>3. Fresh.pend = p  BY <1>2 DEF Fresh
<1>4. s = [r EXCEPT !.pend = p, !.inactive = {}, !.finalized = {}]  BY <1>3
<1>5. p \in [Socket -> Outcome \cup {NoValue}]  BY <1>2
<1>6. /\ s.sock = r.sock /\ s.att = r.att /\ s.gen = r.gen /\ s.thrown = r.thrown
      /\ s.pend = p /\ s.inactive = {} /\ s.finalized = {} /\ s.metric = r.metric
  BY <1>1, <1>4 DEF Rooms
<1>7. s \in Rooms
  <2>1. s = AsRoom(s)  BY <1>1, <1>4 DEF Rooms, AsRoom
  <2> QED  BY <1>1, <1>5, <1>6, <2>1, RoomTypes, RoomOf
<1>8. ASSUME NEW x \in Socket PROVE SaneAt(s, x)
  BY <1>1, <1>2, <1>6 DEF SaneAt
<1> QED  BY <1>2, <1>6, <1>7, <1>8 DEF Sane

-----------------------------------------------------------------------------
(* The inductive invariant *)

Kinds ==
  /\ published \in Nat
  /\ marker \in BOOLEAN /\ persisted \in BOOLEAN /\ required \in BOOLEAN /\ failed \in BOOLEAN
  /\ alarm \in {"soon", "session", "later"} /\ expired \subseteq Client
  /\ doomed \subseteq Socket /\ unmarked \subseteq Socket

(* What is to be retired and still routes has the marker, or had a failure    *)
(* that left none.                                                            *)
Marked ==
  \A x \in Socket : room.pend[x] # NoValue /\ Routing(room, x) => marker \/ x \in unmarked
(* A control of an old generation that still routes is to be retired. *)
OldRetired ==
  \A x \in Control : Routing(room, x) /\ room.att[x].gen # room.gen
    => marker /\ (Working => room.pend[x] # NoValue)
(* No session is overlooked. *)
NoneOverlooked == Working => \A c \in Client : Overlooked(room, c) => c \in unmarked
(* A socket that was reported, and still routes, is to be retired. *)
DoomedRetired ==
  \A x \in doomed : /\ room.sock[x] # "none"
                    /\ Routing(room, x) => marker /\ (Working => room.pend[x] # NoValue)
(* An instance that refuses to work has the marker, or left what routes.      *)
Quarantined ==
  /\ required => marker
  /\ failed => \A x \in Socket : Routing(room, x) => marker \/ x \in unmarked

IInv ==
  /\ Sane(room) /\ ~room.thrown /\ Kinds
  /\ Marked /\ OldRetired /\ NoneOverlooked /\ DoomedRetired /\ Quarantined

(* What every step keeps *)
StepOK == IInv' /\ Granting(room, room') /\ doomed \subseteq doomed'

LEMMA UnthrownFacts ==
  ASSUME NEW r, Sane(r), NEW u, u = [r EXCEPT !.thrown = FALSE]
  PROVE  /\ Sane(u) /\ ~u.thrown /\ u.sock = r.sock /\ u.att = r.att /\ u.pend = r.pend
         /\ u.gen = r.gen
         /\ \A x \in Socket : Routing(u, x) => Routing(r, x)
         /\ CurrentOpen(u) = CurrentOpen(r)
         /\ \A c \in Client : Overlooked(u, c) => Overlooked(r, c)
<1>1. Sane(u) /\ ~u.thrown  BY UnthrownSane
<1>2. r \in Rooms  BY DEF Sane
<1>3. u.sock = r.sock /\ u.att = r.att /\ u.pend = r.pend /\ u.gen = r.gen  BY <1>2 DEF Rooms
<1>4. \A x \in Socket : Routing(u, x) => Routing(r, x)  BY <1>3 DEF Routing, Open
<1>5. CurrentOpen(u) = CurrentOpen(r)  BY <1>3 DEF CurrentOpen, Open
<1>6. \A c \in Client : Overlooked(u, c) => Overlooked(r, c)
  BY <1>3, <1>4, <1>5, Roles DEF Overlooked, Held
<1> QED  BY <1>1, <1>3, <1>4, <1>5, <1>6

LEMMA UnthrownGrants ==
  ASSUME NEW q, NEW r, Sane(r), Granting(q, r), NEW u, u = [r EXCEPT !.thrown = FALSE]
  PROVE  Granting(q, u)
<1>1. /\ u.sock = r.sock /\ u.att = r.att /\ CurrentOpen(u) = CurrentOpen(r)
      /\ \A x \in Socket : Routing(u, x) => Routing(r, x)
  BY UnthrownFacts
<1> QED  BY <1>1, Roles DEF Granting, Granted

LEMMA Advance ==
  ASSUME IInv, NEW r, Served(room, r), Working => Remembers(room, r),
         room' = [r EXCEPT !.thrown = FALSE], Kinds',
         required' = required, failed' = failed,
         marker => \/ marker'
                   \/ \A x \in Socket : room.pend[x] # NoValue \/ ~Working => ~Routing(r, x),
         required => marker', unmarked \subseteq unmarked',
         r.thrown => marker' \/ (r.gen = room.gen /\ (\A x \in Socket : StepAt(room, r, x))
                                 /\ Pending(r) \subseteq unmarked'),
         failed => \A x \in Socket : Routing(r, x) => Routing(room, x),
         doomed' \subseteq doomed \cup {x \in Pending(r) : marker'}
  PROVE  IInv'
<1>1. Sane(r) /\ Sane(room) /\ ~room.thrown  BY DEF Served, IInv
<1>2. PICK u : u = room'  OBVIOUS
<1>3. /\ Sane(u) /\ ~u.thrown /\ u.sock = r.sock /\ u.att = r.att /\ u.pend = r.pend
      /\ u.gen = r.gen
      /\ \A x \in Socket : Routing(u, x) => Routing(r, x)
      /\ \A c \in Client : Overlooked(u, c) => Overlooked(r, c)
  BY <1>1, <1>2, UnthrownFacts
<1>4. Working' = Working  BY DEF Working
<1>5. ASSUME NEW x \in Socket, Routing(r, x), room.pend[x] # NoValue
      PROVE  Routing(room, x) /\ r.pend[x] # NoValue
  <2>1. SaneAt(room, x) /\ ServedAt(room, r, x)  BY <1>1 DEF Sane, Served
  <2>2. room.sock[x] # "none"  BY <1>5, <2>1 DEF SaneAt
  <2> QED  BY <1>5, <2>1, <2>2 DEF ServedAt
<1>6. Marked'
  <2>1. ASSUME NEW x \in Socket, r.pend[x] # NoValue, Routing(r, x) PROVE marker' \/ x \in unmarked'
    <3>1. CASE room.pend[x] # NoValue
      <4>1. marker \/ x \in unmarked  BY <1>5, <2>1, <3>1 DEF IInv, Marked
      <4> QED  BY <2>1, <3>1, <4>1
    <3>2. CASE room.pend[x] = NoValue
      <4>1. r.thrown  BY <2>1, <3>2 DEF Served, ServedAt
      <4>2. x \in Pending(r)  BY <2>1 DEF Pending
      <4> QED  BY <4>1, <4>2
    <3> QED  BY <3>1, <3>2
  <2> QED  BY <1>2, <1>3, <2>1 DEF Marked
<1>7. OldRetired'
  <2>1. ASSUME NEW x \in Control, Routing(r, x), r.att[x].gen # r.gen
        PROVE  marker' /\ (Working => r.pend[x] # NoValue)
    <3>1. x \in Socket /\ x \notin Client  BY Roles
    <3>2. CASE Routing(room, x) /\ room.att[x].gen # room.gen
      <4>1. marker /\ (Working => room.pend[x] # NoValue)  BY <3>2 DEF IInv, OldRetired
      <4>2. Working => r.pend[x] # NoValue  BY <1>5, <2>1, <3>1, <4>1
      <4> QED  BY <2>1, <3>1, <4>1, <4>2
    <3>3. CASE ~(Routing(room, x) /\ room.att[x].gen # room.gen)
      <4>1. r.thrown /\ r.pend[x] # NoValue  BY <2>1, <3>1, <3>3 DEF Served, ServedAt
      <4>2. ~(r.gen = room.gen /\ \A y \in Socket : StepAt(room, r, y))
        <5>1. ASSUME r.gen = room.gen, StepAt(room, r, x) PROVE FALSE
          <6>1. r \in Rooms /\ room \in Rooms  BY <1>1 DEF Sane
          <6>2. Routing(room, x)  BY <2>1, <3>1, <5>1, <6>1, StepRouting
          <6>3. r.att[x] # NoValue  BY <2>1, <3>1 DEF Routing
          <6>4. r.att[x].gen = room.att[x].gen  BY <5>1, <6>3 DEF StepAt
          <6> QED  BY <2>1, <3>3, <5>1, <6>2, <6>4
        <5> QED  BY <3>1, <5>1
      <4> QED  BY <4>1, <4>2
    <3> QED  BY <3>2, <3>3
  <2>2. \A x \in Control : Routing(u, x) => Routing(r, x)  BY <1>3, Roles
  <2> QED  BY <1>2, <1>3, <1>4, <2>1, <2>2 DEF OldRetired
<1>8. NoneOverlooked'
  <2>1. ASSUME Working, NEW c \in Client, Overlooked(r, c) PROVE c \in unmarked'
    <3>1. Overlooked(room, c)  BY <2>1 DEF Remembers
    <3> QED  BY <2>1, <3>1 DEF IInv, NoneOverlooked
  <2> QED  BY <1>2, <1>3, <1>4, <2>1 DEF NoneOverlooked
<1>9. DoomedRetired'
  <2>1. ASSUME NEW x \in doomed'
        PROVE  /\ r.sock[x] # "none"
               /\ Routing(r, x) => marker' /\ (Working => r.pend[x] # NoValue)
    <3>1. CASE x \in doomed
      <4>1. x \in Socket  BY <3>1 DEF IInv, Kinds
      <4>2. /\ room.sock[x] # "none"
            /\ Routing(room, x) => marker /\ (Working => room.pend[x] # NoValue)
        BY <3>1 DEF IInv, DoomedRetired
      <4>3. r.sock[x] # "none" /\ (Routing(r, x) => Routing(room, x))
        BY <4>1, <4>2 DEF Served, ServedAt
      <4>4. Routing(r, x) /\ Working => r.pend[x] # NoValue  BY <1>5, <4>1, <4>2, <4>3
      <4> QED  BY <4>1, <4>2, <4>3, <4>4
    <3>2. CASE x \in Pending(r) /\ marker'
      <4>1. x \in Socket /\ r.pend[x] # NoValue  BY <3>2 DEF Pending
      <4>2. r.sock[x] # "none"  BY <1>1, <4>1 DEF Sane, SaneAt
      <4> QED  BY <3>2, <4>1, <4>2
    <3> QED  BY <3>1, <3>2
  <2>2. \A x \in doomed' : x \in Socket  BY DEF Kinds
  <2> QED  BY <1>2, <1>3, <1>4, <2>1, <2>2 DEF DoomedRetired
<1>10. Quarantined'
  <2>1. ASSUME failed, NEW x \in Socket, Routing(r, x) PROVE marker' \/ x \in unmarked'
    <3>1. marker \/ x \in unmarked  BY <2>1 DEF IInv, Quarantined
    <3>2. ~Working  BY <2>1 DEF Working
    <3> QED  BY <2>1, <3>1, <3>2
  <2> QED  BY <1>2, <1>3, <2>1 DEF Quarantined
<1> QED  BY <1>2, <1>3, <1>6, <1>7, <1>8, <1>9, <1>10 DEF IInv

LEMMA LaterServed ==
  ASSUME NEW r, Sane(r), NEW s, Sane(s), Later(r, s)
  PROVE  Served(r, s)
<1>1. r \in Rooms /\ s \in Rooms  BY DEF Sane
<1>2. ASSUME NEW x \in Socket PROVE ServedAt(r, s, x)
  <2>1. StepAt(r, s, x)  BY DEF Later
  <2>2. Routing(s, x) => Routing(r, x)  BY <1>1, <2>1, StepRouting
  <2>3. x \in Control /\ Routing(s, x) => s.att[x].gen = r.att[x].gen
    <3>1. x \in Control /\ Routing(s, x) => s.att[x] # NoValue  BY Roles DEF Routing
    <3> QED  BY <2>1, <3>1 DEF StepAt
  <2> QED  BY <2>1, <2>2, <2>3, StepServed DEF Later
<1> QED  BY <1>2 DEF Served, Later

(* A working instance whose handler ends with r keeps the invariant. *)
LEMMA Reports ==
  ASSUME IInv, Working, NEW r, Served(room, r), Remembers(room, r), Granting(room, r),
         NEW next \in {"soon", "session", "later"}, Ends(r, next),
         published' \in Nat, expired' \subseteq Client
  PROVE  StepOK
<1>1. Sane(r) /\ r \in Rooms /\ r.thrown \in BOOLEAN  BY Fields DEF Served, Sane
<1>2. /\ room' = [r EXCEPT !.thrown = FALSE] /\ required' = required /\ failed' = failed
      /\ unmarked' = unmarked
      /\ marker' = (marker \/ r.thrown) /\ persisted' = (persisted \/ r.thrown)
  BY DEF Ends
<1>3. doomed' = IF r.thrown THEN doomed \cup Pending(r) ELSE doomed  BY DEF Ends
<1>4. Pending(r) \subseteq Socket  BY DEF Pending
<1>5. Kinds'
  <2>1. alarm' \in {"soon", "session", "later"}  BY DEF Ends
  <2>2. marker' \in BOOLEAN /\ persisted' \in BOOLEAN  BY <1>1, <1>2 DEF IInv, Kinds
  <2>3. doomed' \subseteq Socket /\ unmarked' \subseteq Socket
    BY <1>2, <1>3, <1>4 DEF IInv, Kinds
  <2>4. required' \in BOOLEAN /\ failed' \in BOOLEAN  BY <1>2 DEF IInv, Kinds
  <2> QED  BY <2>1, <2>2, <2>3, <2>4 DEF Kinds
<1>6. (marker => marker') /\ (r.thrown => marker')  BY <1>2
<1>7. required => marker'  BY DEF Working
<1>8. doomed' \subseteq doomed \cup {x \in Pending(r) : marker'}  BY <1>3, <1>6
<1>9. failed => FALSE  BY DEF Working
<1>10. IInv'  BY <1>2, <1>5, <1>6, <1>7, <1>8, <1>9, Advance
<1>11. Granting(room, room')
  <2>1. PICK u : u = room'  OBVIOUS
  <2>2. Granting(room, u)  BY <1>1, <1>2, <2>1, UnthrownGrants
  <2> QED  BY <2>1, <2>2
<1>12. doomed \subseteq doomed'  BY <1>3
<1> QED  BY <1>10, <1>11, <1>12 DEF StepOK

(* A room in which nothing routes keeps it. *)
LEMMA NothingRoutes ==
  ASSUME Kinds', Sane(room'), ~room'.thrown, \A x \in Socket : ~Routing(room', x),
         required' => marker', \A x \in doomed' : room'.sock[x] # "none"
  PROVE  IInv'
<1>1. PICK u : u = room'  OBVIOUS
<1>2. \A x \in Socket : ~Routing(u, x)  BY <1>1
<1>3. \A x \in Control \cup Client : ~Routing(u, x)  BY <1>2, Roles
<1>4. \A c \in Client : ~Overlooked(u, c)  BY <1>3 DEF Overlooked
<1>5. Marked'  BY <1>1, <1>2 DEF Marked
<1>6. OldRetired'  BY <1>1, <1>3 DEF OldRetired
<1>7. NoneOverlooked'  BY <1>1, <1>4 DEF NoneOverlooked
<1>8. DoomedRetired'
  <2>1. \A x \in doomed' : x \in Socket  BY DEF Kinds
  <2> QED  BY <1>1, <1>2, <2>1 DEF DoomedRetired
<1>9. Quarantined'  BY <1>1, <1>2 DEF Quarantined
<1> QED  BY <1>5, <1>6, <1>7, <1>8, <1>9 DEF IInv

(* An instance that waits for the quarantine keeps it. *)
LEMMA MarkerStays ==
  ASSUME Kinds', Sane(room'), ~room'.thrown, marker', required',
         \A x \in doomed' : room'.sock[x] # "none"
  PROVE  IInv'
<1>1. ~Working'  BY DEF Working
<1>2. Marked' /\ OldRetired' /\ NoneOverlooked' /\ DoomedRetired' /\ Quarantined'
  BY <1>1 DEF Marked, OldRetired, NoneOverlooked, DoomedRetired, Quarantined
<1> QED  BY <1>2 DEF IInv

-----------------------------------------------------------------------------
(* Every action keeps it *)

LEMMA NextAlarmIs ==
  ASSUME NEW r
  PROVE  NextAlarm(r) \in {"soon", "session", "later"}
BY DEF NextAlarm

LEMMA OldPending ==
  ASSUME IInv, Working
  PROVE  /\ Sane(room) /\ ~room.thrown /\ published \in Nat /\ expired \subseteq Client
         /\ \A x \in Control : Routing(room, x) /\ room.att[x].gen # room.gen
              => room.pend[x] # NoValue
BY DEF IInv, OldRetired, Kinds

LEMMA RotationAlarmIs ==
  ASSUME IInv
  PROVE  RotationAlarm \in {"soon", "session", "later"} /\ alarm \in {"soon", "session", "later"}
BY NextAlarmIs DEF RotationAlarm, IInv, Kinds

LEMMA StaleRequestOK ==
  ASSUME IInv, StaleRequest
  PROVE  StepOK
<1>1. Working /\ Ends(Rotated(room), RotationAlarm) /\ published' = published /\ expired' = expired
  BY DEF StaleRequest, Quiet, environment
<1>2. PICK r : r = Rotated(room)  OBVIOUS
<1>3. PICK next : next = RotationAlarm  OBVIOUS
<1>4. Ends(r, next)  BY <1>1, <1>2, <1>3
<1>5. Turned(room, r)
  <2>1. PICK g \in Nat : g = published  BY <1>1, OldPending
  <2>2. r = RotateTokenGeneration(room, g)  BY <1>2, <2>1 DEF Rotated
  <2> QED  BY <1>1, <2>2, OldPending, RotateKeeps
<1> QED  BY <1>1, <1>3, <1>4, <1>5, OldPending, RotationAlarmIs, TurnedDone, Reports

LEMMA RefusedUpgradeOK ==
  ASSUME IInv, RefusedUpgrade
  PROVE  StepOK
<1>1. Working /\ Ends(Prepared(room), RotationAlarm) /\ published' = published /\ expired' = expired
  BY DEF RefusedUpgrade, Quiet, environment
<1>2. PICK r : r = Prepared(room)  OBVIOUS
<1>3. PICK next : next = RotationAlarm  OBVIOUS
<1>4. Ends(r, next)  BY <1>1, <1>2, <1>3
<1>5. Turned(room, r)  BY <1>1, <1>2, OldPending, PreparedKeeps
<1> QED  BY <1>1, <1>3, <1>4, <1>5, OldPending, RotationAlarmIs, TurnedDone, Reports

(* What follows on a prepared room: *)
LEMMA PreparedThen ==
  ASSUME NEW q, Sane(q), NEW r, Turned(q, r), NEW s,
         Served(r, s), Remembers(r, s), Granting(r, s)
  PROVE  Served(q, s) /\ Remembers(q, s) /\ Granting(q, s)
<1>1. Served(q, r) /\ Remembers(q, r)  BY TurnedDone
<1>2. Served(q, s) /\ Remembers(q, s)  BY <1>1, ServedComposes, RemembersComposes
<1>3. ASSUME NEW c \in Client, Granted(q, s, c) PROVE Granted(r, s, c)
  <2>1. StepAt(q, r, c) /\ SaneAt(q, c) /\ c \in Socket  BY Roles DEF Turned, Sane
  <2>2. CASE q.sock[c] = "none" /\ Routing(s, c) /\ ~s.att[c].summary
    <3>1. r.sock[c] = "none"  BY <2>1, <2>2 DEF StepAt
    <3> QED  BY <2>2, <3>1 DEF Granted
  <2>3. CASE /\ q.att[c] # NoValue /\ q.att[c].stage # "exchange"
             /\ s.att[c] # NoValue /\ s.att[c].stage = "exchange"
    <3>1. r.att[c] # NoValue /\ r.att[c].stage # "exchange"  BY <2>1, <2>3 DEF StepAt
    <3> QED  BY <2>3, <3>1 DEF Granted
  <2> QED  BY <1>3, <2>2, <2>3 DEF Granted
<1> QED  BY <1>2, <1>3 DEF Granting

LEMMA ServerUpgradeOK ==
  ASSUME IInv, ServerUpgrade
  PROVE  StepOK
<1>1. Working /\ published' = published /\ expired' = expired
  BY DEF ServerUpgrade, Quiet, environment
<1>2. PICK n \in Control, r \in {Prepared(room)} :
        /\ room.sock[n] = "none"
        /\ Ends(IF r.thrown THEN r ELSE Replace(r, n, Previous(r), Malformed(r)), NextAlarm(r))
  BY DEF ServerUpgrade
<1>3. PICK s : s = IF r.thrown THEN r ELSE Replace(r, n, Previous(r), Malformed(r))  OBVIOUS
<1>4. PICK next \in {"soon", "session", "later"} : next = NextAlarm(r)  BY NextAlarmIs
<1>5. Ends(s, next)  BY <1>2, <1>3, <1>4
<1>6. Turned(room, r)  BY <1>1, <1>2, OldPending, PreparedKeeps
<1>7. n \in Socket /\ r.sock[n] = "none"  BY <1>2, <1>6, Roles DEF Turned, StepAt
<1>8. Served(room, s) /\ Remembers(room, s) /\ Granting(room, s)
  <2>1. CASE r.thrown
    <3>1. s = r  BY <1>3, <2>1
    <3> QED  BY <1>1, <1>6, <3>1, OldPending, TurnedDone
  <2>2. CASE ~r.thrown
    <3>1. s = Replace(r, n, Previous(r), Malformed(r))  BY <1>3, <2>2
    <3>2. Orderly(r)  BY <1>1, <1>2, <2>2, OldPending, PreparedOrderly
    <3>3. Served(r, s) /\ Remembers(r, s) /\ Granting(r, s)  BY <1>7, <3>1, <3>2, ReplaceKeeps
    <3> QED  BY <1>1, <1>6, <3>3, OldPending, PreparedThen
  <2> QED  BY <2>1, <2>2
<1> QED  BY <1>1, <1>5, <1>8, OldPending, Reports

LEMMA ClientUpgradeOK ==
  ASSUME IInv, ClientUpgrade
  PROVE  StepOK
<1>1. Working /\ published' = published /\ expired' = expired
  BY DEF ClientUpgrade, environment
<1>2. PICK c \in Client, r \in {Prepared(room)} :
        /\ room.sock[c] = "none" /\ ~r.thrown /\ CurrentOpen(r) # {}
        /\ \E admitted \in {Admit(r, c, ClientAtt(Winner(r), r.gen))} :
             Ends(admitted, IF Rewrites(c) THEN NextAlarm(admitted) ELSE "later")
  BY DEF ClientUpgrade
<1>3. PICK s \in {Admit(r, c, ClientAtt(Winner(r), r.gen))} :
        Ends(s, IF Rewrites(c) THEN NextAlarm(s) ELSE "later")
  BY <1>2
<1>4. PICK next \in {"soon", "session", "later"} :
        next = IF Rewrites(c) THEN NextAlarm(s) ELSE "later"
  BY NextAlarmIs
<1>5. Ends(s, next)  BY <1>3, <1>4
<1>6. Turned(room, r)  BY <1>1, <1>2, OldPending, PreparedKeeps
<1>7. c \in Socket /\ r.sock[c] = "none"  BY <1>2, <1>6, Roles DEF Turned, StepAt
<1>8. Orderly(r)  BY <1>1, <1>2, OldPending, PreparedOrderly
<1>9. Served(r, s) /\ Remembers(r, s) /\ Granting(r, s)
  BY <1>2, <1>3, <1>7, <1>8, AdmitKeeps
<1>10. Served(room, s) /\ Remembers(room, s) /\ Granting(room, s)
  BY <1>1, <1>6, <1>9, OldPending, PreparedThen
<1> QED  BY <1>1, <1>5, <1>10, OldPending, Reports

(* A handler that reports nothing: what it could not retire is left unmarked. *)
LEMMA Unreports ==
  ASSUME IInv, NEW s, Handles(room, s), Unreported(s), UNCHANGED <<memory, doomed, environment>>
  PROVE  StepOK
<1>1. /\ Sane(room) /\ Sane(s) /\ s \in Rooms /\ Later(room, s)
      /\ Served(room, s) /\ Remembers(room, s) /\ Granting(room, s)
  BY HandlesDone DEF Handles, Sane, IInv
<1>2. /\ room' = [s EXCEPT !.thrown = FALSE]
      /\ unmarked' = IF marker THEN unmarked ELSE unmarked \cup Pending(s)
  BY DEF Unreported
<1>3. /\ published' = published /\ expired' = expired /\ doomed' = doomed
      /\ marker' = marker /\ persisted' = persisted /\ required' = required /\ failed' = failed
      /\ alarm' = alarm
  BY DEF memory, environment
<1>4. Pending(s) \subseteq Socket  BY DEF Pending
<1>5. Kinds'
  <2>1. unmarked' \subseteq Socket  BY <1>2, <1>4 DEF IInv, Kinds
  <2> QED  BY <1>3, <2>1 DEF IInv, Kinds
<1>6. unmarked \subseteq unmarked' /\ (marker' \/ Pending(s) \subseteq unmarked')  BY <1>2, <1>3
<1>7. s.gen = room.gen /\ \A x \in Socket : StepAt(room, s, x)  BY <1>1 DEF Later
<1>8. \A x \in Socket : Routing(s, x) => Routing(room, x)  BY <1>1, LaterRouting DEF Sane
<1>9. required => marker'  BY <1>3 DEF IInv, Quarantined
<1>10. doomed' \subseteq doomed \cup {x \in Pending(s) : marker'}  BY <1>3
<1>11. IInv'
  BY <1>1, <1>2, <1>3, <1>5, <1>6, <1>7, <1>8, <1>9, <1>10, Advance
<1>12. Granting(room, room')
  <2>1. PICK u : u = room'  OBVIOUS
  <2>2. Granting(room, u)  BY <1>1, <1>2, <2>1, UnthrownGrants
  <2> QED  BY <2>1, <2>2
<1> QED  BY <1>3, <1>11, <1>12 DEF StepOK

LEMMA RevocationNoticeOK ==
  ASSUME IInv, RevocationNotice
  PROVE  StepOK
<1>1. Working /\ UNCHANGED <<memory, doomed, environment>>  BY DEF RevocationNotice, Quiet
<1>2. PICK c \in Connected(room, Client), r \in {ReconcileActiveServer(room)} :
        /\ room.att[c] # NoValue
        /\ Unreported(IF r.thrown \/ CurrentOpen(r) = {} THEN r
                      ELSE FailClient(r, c, "incomplete"))
  BY DEF RevocationNotice
<1>3. PICK s : s = IF r.thrown \/ CurrentOpen(r) = {} THEN r
                   ELSE FailClient(r, c, "incomplete")
  OBVIOUS
<1>4. Unreported(s)  BY <1>2, <1>3
<1>5. c \in Client  BY DEF Connected
<1>6. Handles(room, s)  BY <1>1, <1>2, <1>3, <1>5, OldPending, NoticeKeeps
<1> QED  BY <1>1, <1>4, <1>6, Unreports

LEMMA FailSocketOK ==
  ASSUME IInv, Working, NEW x \in Socket, NEW o \in Outcome,
         NEW s, s = FailSocket(room, x, o), NEW next \in {"soon", "session", "later"}, Ends(s, next),
         published' = published, expired' = expired
  PROVE  StepOK
<1>1. Served(room, s) /\ Remembers(room, s) /\ Granting(room, s)
  BY OldPending, FailSocketKeeps, HandlesDone
<1> QED  BY <1>1, OldPending, Reports

LEMMA ViolationOK ==
  ASSUME IInv, Violation
  PROVE  StepOK
<1>1. Working /\ published' = published /\ expired' = expired
  BY DEF Violation, Quiet, environment
<1>2. PICK x \in Socket : Ends(FailSocket(room, x, "incomplete"), alarm)  BY DEF Violation
<1>3. PICK next \in {"soon", "session", "later"} : next = alarm  BY RotationAlarmIs
<1>4. PICK s : s = FailSocket(room, x, "incomplete")  OBVIOUS
<1>5. Ends(s, next)  BY <1>2, <1>3, <1>4
<1>6. "incomplete" \in Outcome  BY DEF Outcome
<1> QED  BY <1>1, <1>4, <1>5, <1>6, FailSocketOK

LEMMA StaleMessageOK ==
  ASSUME IInv, StaleMessage
  PROVE  StepOK
<1>1. Working /\ published' = published /\ expired' = expired
  BY DEF StaleMessage, Quiet, environment
<1>2. PICK x \in Socket : Ends(FailSocket(room, x, "incomplete"), alarm)  BY DEF StaleMessage
<1>3. PICK next \in {"soon", "session", "later"} : next = alarm  BY RotationAlarmIs
<1>4. PICK s : s = FailSocket(room, x, "incomplete")  OBVIOUS
<1>5. Ends(s, next)  BY <1>2, <1>3, <1>4
<1>6. "incomplete" \in Outcome  BY DEF Outcome
<1> QED  BY <1>1, <1>4, <1>5, <1>6, FailSocketOK

LEMMA SocketErrorOK ==
  ASSUME IInv, SocketError
  PROVE  StepOK
<1>1. Working /\ published' = published /\ expired' = expired
  BY DEF SocketError, Quiet, environment
<1>2. PICK x \in Connected(room, Socket) :
        \E s \in {FailSocket(room, x, "incomplete")} : Ends(s, NextAlarm(s))
  BY DEF SocketError
<1>3. PICK s \in {FailSocket(room, x, "incomplete")} : Ends(s, NextAlarm(s))  BY <1>2
<1>4. PICK next \in {"soon", "session", "later"} : next = NextAlarm(s)  BY NextAlarmIs
<1>5. Ends(s, next)  BY <1>3, <1>4
<1>6. "incomplete" \in Outcome /\ x \in Socket  BY DEF Outcome, Connected
<1> QED  BY <1>1, <1>3, <1>5, <1>6, FailSocketOK

LEMMA ClientMessageOK ==
  ASSUME IInv, ClientMessage
  PROVE  StepOK
<1>1. Working /\ published' = published /\ expired' = expired  BY DEF ClientMessage
<1>2. PICK c \in Client, sent \in BOOLEAN :
        /\ Open(room, c) /\ room.att[c] # NoValue
        /\ Ends(Forward(ReconcileActiveServer(room), c, sent), alarm)
  BY DEF ClientMessage
<1>3. PICK next \in {"soon", "session", "later"} : next = alarm  BY RotationAlarmIs
<1>4. PICK s : s = Forward(ReconcileActiveServer(room), c, sent)  OBVIOUS
<1>5. Ends(s, next)  BY <1>2, <1>3, <1>4
<1>6. Served(room, s) /\ Remembers(room, s) /\ Granting(room, s)
  BY <1>1, <1>2, <1>4, OldPending, ForwardKeeps
<1> QED  BY <1>1, <1>5, <1>6, OldPending, Reports

LEMMA ServerMessageOK ==
  ASSUME IInv, ServerMessage
  PROVE  StepOK
<1>1. Working /\ published' = published /\ expired' = expired
  BY DEF ServerMessage, environment
<1>2. PICK x \in Control, c \in Client, completes \in BOOLEAN :
        /\ room.att[x] # NoValue /\ room.att[c] # NoValue
        /\ Ends(Answer(ReconcileActiveServer(room), x, c, completes), alarm)
  BY DEF ServerMessage
<1>3. PICK next \in {"soon", "session", "later"} : next = alarm  BY RotationAlarmIs
<1>4. PICK s : s = Answer(ReconcileActiveServer(room), x, c, completes)  OBVIOUS
<1>5. Ends(s, next)  BY <1>2, <1>3, <1>4
<1>6. Handles(room, s)  BY <1>1, <1>2, <1>4, OldPending, AnswerKeeps
<1> QED  BY <1>1, <1>5, <1>6, OldPending, HandlesDone, Reports

LEMMA ClientStepsGrant ==
  ASSUME NEW r, Sane(r), NEW s, \A c \in Client : StepAt(r, s, c)
  PROVE  Granting(r, s)
BY StepsGrant DEF Granting

LEMMA SocketGoneOK ==
  ASSUME IInv, SocketGone
  PROVE  StepOK
<1>1. published' = published  BY DEF SocketGone
<1>2. PICK x \in Connected(room, Socket), local \in BOOLEAN :
        \E gone \in {[room EXCEPT !.sock[x] = "gone"]} :
          /\ IF Working THEN \E r \in {Departed(gone, x, local)} : Ends(Without(r, x), NextAlarm(r))
             ELSE Ends(Without(gone, x), alarm)
          /\ expired' = expired \ {x}
  BY DEF SocketGone
<1>3. PICK g \in {[room EXCEPT !.sock[x] = "gone"]} :
        /\ IF Working THEN \E r \in {Departed(g, x, local)} : Ends(Without(r, x), NextAlarm(r))
           ELSE Ends(Without(g, x), alarm)
        /\ expired' = expired \ {x}
  BY <1>2
<1>4. x \in Socket /\ room.sock[x] # "none"  BY DEF Connected
<1>5. g = SockTo(room, x, "gone")  BY DEF SockTo
<1>6. Sane(room) /\ ~room.thrown /\ published' \in Nat /\ expired' \subseteq Client
  BY <1>1, <1>3 DEF IInv, Kinds
<1>7. CASE Working
  <2>1. PICK r \in {Departed(g, x, local)} : Ends(Without(r, x), NextAlarm(r))  BY <1>3, <1>7
  <2>2. PICK next \in {"soon", "session", "later"} : next = NextAlarm(r)  BY NextAlarmIs
  <2>3. PICK s : s = Without(r, x)  OBVIOUS
  <2>4. s = Without(Departed(g, x, local), x) /\ Ends(s, next)  BY <2>1, <2>2, <2>3
  <2>5. Served(room, s) /\ Remembers(room, s) /\ Granting(room, s)
    <3>1. CASE x \in Client  BY <1>4, <1>5, <1>6, <2>4, <3>1, ClientDeparts
    <3>2. CASE x \in Control  BY <1>4, <1>5, <1>6, <2>4, <3>2, ControlDeparts
    <3> QED  BY <1>4, <3>1, <3>2, Roles
  <2> QED  BY <1>6, <1>7, <2>4, <2>5, Reports
<1>8. CASE ~Working
  <2>1. PICK s : s = Without(g, x)  OBVIOUS
  <2>2. Ends(s, alarm)  BY <1>3, <1>8, <2>1
  <2>3. Sane(g) /\ Only(room, g, x) /\ g.sock[x] = "gone" /\ g.thrown = room.thrown
    BY <1>4, <1>5, <1>6, GoneFacts
  <2>4. /\ Only(g, s, x) /\ SaneAt(s, x) /\ Sane(s) /\ ~Routing(s, x) /\ s.sock[x] = "gone"
        /\ s.thrown = g.thrown /\ s.att[x] = NoValue
    BY <1>4, <2>1, <2>3, WithoutSane
  <2>5. Only(room, s, x) /\ ~s.thrown  BY <1>6, <2>3, <2>4, OnlyComposes
  <2>6. Served(room, s)  BY <1>4, <1>6, <2>4, <2>5, OnlyServed
  <2>7. \A y \in Socket \ {x} : Alike(room, s, y)  BY <2>5 DEF Only
  <2>8. \A y \in Socket : Routing(s, y) => Routing(room, y)  BY <2>4, <2>7, AlikeRouting
  <2>9. ASSUME NEW c \in Client PROVE ~Granted(room, s, c)
    <3>1. c \in Socket  BY Roles
    <3>2. CASE c = x  BY <2>4, <3>2 DEF Granted
    <3>3. CASE c # x
      <4>1. Alike(room, s, c)  BY <2>7, <3>1, <3>3
      <4> QED  BY <4>1 DEF Granted, Alike, Routing, Open
    <3> QED  BY <3>2, <3>3
  <2>10. /\ room' = [s EXCEPT !.thrown = FALSE] /\ required' = required /\ failed' = failed
         /\ unmarked' = unmarked /\ doomed' = doomed /\ alarm' = alarm
         /\ (marker' <=> marker) /\ (persisted' <=> persisted)
         /\ marker' \in BOOLEAN /\ persisted' \in BOOLEAN
    BY <2>2, <2>5 DEF Ends
  <2>11. Kinds'  BY <1>6, <2>10 DEF IInv, Kinds
  <2>12. required => marker'  BY <2>10 DEF IInv, Quarantined
  <2>13. IInv'  BY <1>8, <2>5, <2>6, <2>8, <2>10, <2>11, <2>12, Advance
  <2>14. Granting(room, s)  BY <2>9 DEF Granting
  <2>15. Granting(room, room')
    <3>1. PICK u : u = room'  OBVIOUS
    <3>2. Granting(room, u)  BY <2>4, <2>10, <2>14, <3>1, UnthrownGrants
    <3> QED  BY <3>1, <3>2
  <2> QED  BY <2>10, <2>13, <2>15 DEF StepOK
<1> QED  BY <1>7, <1>8

LEMMA UnchangedOK ==
  ASSUME IInv, UNCHANGED <<room, memory, doomed, unmarked>>, published' \in Nat,
         expired' \subseteq Client
  PROVE  StepOK
<1>1. /\ room' = room /\ marker' = marker /\ persisted' = persisted /\ required' = required
      /\ failed' = failed /\ alarm' = alarm /\ doomed' = doomed /\ unmarked' = unmarked
  BY DEF memory
<1>2. Kinds'  BY <1>1 DEF IInv, Kinds
<1>3. Working' <=> Working  BY <1>1 DEF Working
<1>4. Marked' /\ OldRetired' /\ NoneOverlooked' /\ DoomedRetired' /\ Quarantined'
  BY <1>1, <1>3 DEF IInv, Marked, OldRetired, NoneOverlooked, DoomedRetired, Quarantined
<1>5. Sane(room') /\ ~room'.thrown  BY <1>1 DEF IInv
<1>6. IInv'  BY <1>2, <1>4, <1>5 DEF IInv
<1>7. Granting(room, room')
  <2>1. PICK u : u = room'  OBVIOUS
  <2>2. Sane(u) /\ Later(u, u)  BY <1>5, <2>1, LaterSame DEF Sane
  <2>3. Granting(u, u)  BY <2>2, ClientStepsGrant, Roles DEF Later
  <2> QED  BY <1>1, <2>1, <2>3
<1> QED  BY <1>1, <1>6, <1>7 DEF StepOK

LEMMA EnvironmentOK ==
  ASSUME IInv, Publish \/ Break \/ Heal \/ \E c \in Client : Deadline(c)
  PROVE  StepOK
<1>1. UNCHANGED <<room, memory, doomed, unmarked>>
  BY DEF Publish, Break, Heal, Deadline, Unobserved
<1>2. published' \in Nat
  <2>1. published \in Nat  BY DEF IInv, Kinds
  <2>2. published' = published \/ published' = published + 1
    BY DEF Publish, Break, Heal, Deadline
  <2> QED  BY <2>1, <2>2
<1>3. expired' \subseteq Client  BY DEF IInv, Kinds, Publish, Break, Heal, Deadline
<1> QED  BY <1>1, <1>2, <1>3, UnchangedOK

(* The room an alarm works on, and what it leaves: *)
LEMMA AlarmRoom ==
  ASSUME IInv, NEW q, q = IF required THEN CloseSockets(room, TRUE) ELSE room,
         NEW r, r = IF required /\ ~Sanitized(room, TRUE) THEN q
                    ELSE IF failed THEN CloseSockets(q, FALSE) ELSE Retried(q)
  PROVE  /\ Sane(r) /\ Later(room, r)
         /\ required /\ Sanitized(room, TRUE) => \A x \in Socket : ~Routing(r, x)
         /\ failed => ~r.thrown
         /\ Working => Handles(room, r)
         /\ Working /\ ~r.thrown => \A x \in Socket : room.pend[x] # NoValue => ~Routing(r, x)
<1>1. Sane(room) /\ ~room.thrown /\ room \in Rooms  BY DEF IInv, Sane
<1>2. TRUE \in BOOLEAN /\ FALSE \in BOOLEAN  OBVIOUS
<1>3. /\ Sane(q) /\ Later(room, q) /\ ~q.thrown
      /\ required => \A x \in Socket : Routing(q, x) => x \in Unsanitized(room, TRUE)
      /\ ~required => q = room
  <2>1. CASE required
    <3>1. q = CloseSockets(room, TRUE)  BY <2>1
    <3> QED  BY <1>1, <1>2, <2>1, <3>1, CloseSocketsKeeps
  <2>2. CASE ~required
    <3>1. q = room  BY <2>2
    <3> QED  BY <1>1, <2>2, <3>1, LaterSame
  <2> QED  BY <2>1, <2>2
<1>4. q \in Rooms  BY <1>3 DEF Sane
<1>5. /\ Sane(r) /\ Later(q, r) /\ (failed => ~r.thrown)
      /\ (Working => Handles(q, r))
      /\ Working /\ ~r.thrown => \A x \in Socket : q.pend[x] # NoValue => ~Routing(r, x)
  <2>1. CASE required /\ ~Sanitized(room, TRUE)
    <3>1. r = q  BY <2>1
    <3> QED  BY <1>3, <1>4, <2>1, <3>1, LaterSame DEF Working
  <2>2. CASE ~(required /\ ~Sanitized(room, TRUE)) /\ failed
    <3>1. r = CloseSockets(q, FALSE)  BY <2>2
    <3> QED  BY <1>2, <1>3, <2>2, <3>1, CloseSocketsKeeps DEF Working
  <2>3. CASE ~(required /\ ~Sanitized(room, TRUE)) /\ ~failed
    <3>1. r = Retried(q)  BY <2>3
    <3> QED  BY <1>3, <2>3, <3>1, RetriedKeeps DEF Handles
  <2> QED  BY <2>1, <2>2, <2>3
<1>6. r \in Rooms /\ Later(room, r)  BY <1>1, <1>3, <1>4, <1>5, LaterComposes DEF Sane
<1>7. ASSUME required, Sanitized(room, TRUE), NEW x \in Socket PROVE ~Routing(r, x)
  <2>1. x \notin Unsanitized(room, TRUE)  BY <1>7 DEF Sanitized
  <2> QED  BY <1>3, <1>4, <1>5, <1>6, <1>7, <2>1, LaterRouting
<1>8. Working => q = room  BY <1>3 DEF Working
<1> QED  BY <1>5, <1>6, <1>7, <1>8

LEMMA AlarmOK ==
  ASSUME IInv, Alarm
  PROVE  StepOK
<1>1. /\ published' = published /\ expired' = expired /\ failed' = failed /\ doomed' = doomed
  BY DEF Alarm, Quiet, environment
<1>2. PICK q : q = IF required THEN CloseSockets(room, TRUE) ELSE room  OBVIOUS
<1>3. PICK r : r = IF required /\ ~Sanitized(room, TRUE) THEN q
                   ELSE IF failed THEN CloseSockets(q, FALSE) ELSE Retried(q)
  OBVIOUS
<1>4. /\ Unreported(r)
      /\ required' = (required /\ ~(required => Sanitized(room, TRUE)))
      /\ marker' = (marker /\ ~((required => Sanitized(room, TRUE))
                                /\ (required \/ (persisted /\ ~failed /\ ~r.thrown))))
      /\ persisted' = (persisted /\ ~((required => Sanitized(room, TRUE))
                                      /\ (required \/ (persisted /\ ~failed /\ ~r.thrown))))
      /\ alarm' \in {alarm, "later", NextAlarm(r)}
  BY <1>2, <1>3 DEF Alarm
<1>5. /\ Sane(room) /\ ~room.thrown /\ room \in Rooms /\ Sane(r) /\ r \in Rooms /\ Later(room, r)
      /\ required /\ Sanitized(room, TRUE) => \A x \in Socket : ~Routing(r, x)
      /\ failed => ~r.thrown
      /\ Working => Handles(room, r)
      /\ Working /\ ~r.thrown => \A x \in Socket : room.pend[x] # NoValue => ~Routing(r, x)
  BY <1>2, <1>3, AlarmRoom DEF IInv, Sane
<1>6. /\ room' = [r EXCEPT !.thrown = FALSE]
      /\ unmarked' = IF marker THEN unmarked ELSE unmarked \cup Pending(r)
  BY <1>4 DEF Unreported
<1>7. Pending(r) \subseteq Socket  BY DEF Pending
<1>8. Kinds'
  <2>1. alarm' \in {"soon", "session", "later"}  BY <1>4, NextAlarmIs, RotationAlarmIs
  <2>2. marker' \in BOOLEAN /\ persisted' \in BOOLEAN /\ required' \in BOOLEAN
    BY <1>4
  <2>3. unmarked' \subseteq Socket  BY <1>6, <1>7 DEF IInv, Kinds
  <2> QED  BY <1>1, <2>1, <2>2, <2>3 DEF IInv, Kinds
<1>9. Granting(room, r)  BY <1>5, ClientStepsGrant, Roles DEF Later
<1>10. PICK u : u = room'  OBVIOUS
<1>11. Granting(room, room')
  <2>1. Granting(room, u)  BY <1>5, <1>6, <1>9, <1>10, UnthrownGrants
  <2> QED  BY <1>10, <2>1
<1>12. /\ Sane(u) /\ ~u.thrown /\ u.sock = r.sock
       /\ \A x \in Socket : Routing(u, x) => Routing(r, x)
  BY <1>5, <1>6, <1>10, UnthrownFacts
<1>13. ASSUME NEW x \in doomed' PROVE u.sock[x] # "none"
  <2>1. x \in doomed /\ x \in Socket  BY <1>1, <1>13 DEF IInv, Kinds
  <2>2. room.sock[x] # "none"  BY <2>1 DEF IInv, DoomedRetired
  <2> QED  BY <1>5, <1>12, <2>1, <2>2 DEF Later, StepAt
<1>14. IInv'
  <2>1. CASE required /\ ~Sanitized(room, TRUE)
    <3>1. marker' /\ required'  BY <1>4, <2>1 DEF IInv, Quarantined
    <3>2. Sane(room') /\ ~room'.thrown /\ \A x \in doomed' : room'.sock[x] # "none"
      BY <1>10, <1>12, <1>13
    <3> QED  BY <1>8, <3>1, <3>2, MarkerStays
  <2>2. CASE required /\ Sanitized(room, TRUE)
    <3>1. ~required'  BY <1>4, <2>2
    <3>2. /\ Sane(room') /\ ~room'.thrown /\ (\A x \in doomed' : room'.sock[x] # "none")
          /\ \A x \in Socket : ~Routing(room', x)
      BY <1>5, <1>10, <1>12, <1>13, <2>2
    <3> QED  BY <1>8, <3>1, <3>2, NothingRoutes
  <2>3. CASE ~required
    <3>1. /\ required' = required
          /\ marker' = (marker /\ ~(persisted /\ ~failed /\ ~r.thrown))
      BY <1>4, <2>3 DEF IInv, Kinds
    <3>2. Served(room, r)  BY <1>5, LaterServed
    <3>3. Working => Remembers(room, r)  BY <1>5, HandlesDone
    <3>4. Working <=> ~failed  BY <2>3 DEF Working
    <3>5. marker => \/ marker'
                    \/ \A x \in Socket : room.pend[x] # NoValue \/ ~Working => ~Routing(r, x)
      BY <1>5, <3>1, <3>4
    <3>6. r.thrown => marker' \/ (r.gen = room.gen /\ (\A x \in Socket : StepAt(room, r, x))
                                  /\ Pending(r) \subseteq unmarked')
      <4>1. r.thrown /\ marker => marker'  BY <3>1
      <4>2. ~marker => Pending(r) \subseteq unmarked'  BY <1>6
      <4> QED  BY <1>5, <4>1, <4>2 DEF Later
    <3>7. \A x \in Socket : Routing(r, x) => Routing(room, x)  BY <1>5, LaterRouting
    <3>8. unmarked \subseteq unmarked' /\ doomed' \subseteq doomed \cup {x \in Pending(r) : marker'}
      BY <1>1, <1>6
    <3> QED
      BY <1>1, <1>6, <1>8, <2>3, <3>1, <3>2, <3>3, <3>5, <3>6, <3>7, <3>8, Advance
  <2> QED  BY <2>1, <2>2, <2>3
<1> QED  BY <1>1, <1>11, <1>14 DEF StepOK

(* A session that the next instance overlooks was left unmarked. *)
LEMMA AsleepOverlooked ==
  ASSUME IInv, ~marker, NEW a, a.sock = room.sock, a.att = room.att, a.gen = room.gen,
         \A x \in Socket : a.pend[x] = NoValue,
         NEW c \in Client, Overlooked(a, c)
  PROVE  c \in unmarked
<1>1. c \in Socket  BY Roles
<1>2. Routing(room, c)  BY <1>1 DEF Overlooked, Routing, Open
<1>3. CurrentOpen(a) = CurrentOpen(room)  BY DEF CurrentOpen, Open
<1>4. ~Held(room, c)
  <2>1. ASSUME Held(room, c) PROVE Held(a, c)
    <3>1. PICK y \in CurrentOpen(room) : y = room.att[c].owner  BY <2>1 DEF Held
    <3>2. y \in Socket  BY Roles DEF CurrentOpen
    <3> QED  BY <1>3, <3>1, <3>2 DEF Held
  <2> QED  BY <2>1 DEF Overlooked
<1>5. CASE required  BY <1>5 DEF IInv, Quarantined
<1>6. CASE failed  BY <1>1, <1>2, <1>6 DEF IInv, Quarantined
<1>7. CASE Working
  <2>1. CASE room.pend[c] # NoValue  BY <1>1, <1>2, <2>1 DEF IInv, Marked
  <2>2. CASE room.pend[c] = NoValue
    <3>1. Overlooked(room, c)  BY <1>2, <1>4, <2>2 DEF Overlooked
    <3> QED  BY <1>7, <3>1 DEF IInv, NoneOverlooked
  <2> QED  BY <2>1, <2>2
<1> QED  BY <1>5, <1>6, <1>7 DEF Working

LEMMA ReconstructOK ==
  ASSUME IInv, Reconstruct
  PROVE  StepOK
<1>1. /\ published' = published /\ expired' = expired /\ doomed' = doomed  BY DEF Reconstruct
<1>2. PICK a : a = [room EXCEPT !.pend = Fresh.pend, !.inactive = {}, !.finalized = {}]  OBVIOUS
<1>3. PICK q : q = IF marker THEN CloseSockets(a, TRUE) ELSE a  OBVIOUS
<1>4. PICK fails \in BOOLEAN :
        /\ marker' = (marker /\ ~(marker => Sanitized(a, TRUE)))
        /\ persisted' = ~(marker => Sanitized(a, TRUE))
        /\ required' = ~(marker => Sanitized(a, TRUE))
        /\ failed' = fails
        /\ room' = IF fails THEN CloseSockets(q, FALSE) ELSE q
        /\ \E ledger \in BOOLEAN :
             alarm' = IF ledger THEN "later"
                      ELSE IF ~(marker => Sanitized(a, TRUE)) THEN "soon" ELSE alarm
        /\ unmarked' = IF fails /\ ~marker' THEN unmarked \cup Unsanitized(q, FALSE) ELSE unmarked
  BY <1>2, <1>3 DEF Reconstruct
<1>5. Sane(room) /\ ~room.thrown /\ room \in Rooms  BY DEF IInv, Sane
<1>6. /\ Sane(a) /\ a \in Rooms /\ a.sock = room.sock /\ a.att = room.att /\ a.gen = room.gen
      /\ ~a.thrown /\ \A x \in Socket : a.pend[x] = NoValue
  BY <1>2, <1>5, AsleepKeeps, ZenonT(60) DEF Sane
<1>7. \A x \in Socket : Routing(a, x) => Routing(room, x)  BY <1>6 DEF Routing, Open
<1>8. TRUE \in BOOLEAN /\ FALSE \in BOOLEAN  OBVIOUS
<1>9. /\ Sane(q) /\ q \in Rooms /\ Later(a, q) /\ ~q.thrown
      /\ marker => \A x \in Socket : Routing(q, x) => x \in Unsanitized(a, TRUE)
      /\ ~marker => q = a
      /\ \A x \in Socket : q.pend[x] = NoValue
  <2>1. CASE marker
    <3>1. q = CloseSockets(a, TRUE)  BY <1>3, <2>1
    <3> QED  BY <1>6, <1>8, <2>1, <3>1, CloseSocketsKeeps, ZenonT(60) DEF Sane
  <2>2. CASE ~marker
    <3>1. q = a  BY <1>3, <2>2
    <3> QED  BY <1>6, <2>2, <3>1, LaterSame
  <2> QED  BY <2>1, <2>2
<1>10. PICK w : w = room'  OBVIOUS
<1>11. /\ Sane(w) /\ w \in Rooms /\ Later(q, w) /\ ~w.thrown
       /\ fails => \A x \in Socket : Routing(w, x) => x \in Unsanitized(q, FALSE)
       /\ ~fails => w = q
       /\ \A x \in Socket : w.pend[x] = NoValue
  <2>1. CASE fails
    <3>1. w = CloseSockets(q, FALSE)  BY <1>4, <1>10, <2>1
    <3> QED  BY <1>8, <1>9, <2>1, <3>1, CloseSocketsKeeps DEF Sane
  <2>2. CASE ~fails
    <3>1. w = q  BY <1>4, <1>10, <2>2
    <3> QED  BY <1>9, <2>2, <3>1, LaterSame
  <2> QED  BY <2>1, <2>2
<1>12. Later(a, w)  BY <1>6, <1>9, <1>11, LaterComposes
<1>13. \A x \in Socket : Routing(w, x) => Routing(q, x) /\ Routing(room, x)
  BY <1>6, <1>7, <1>9, <1>11, <1>12, LaterRouting
<1>14. Unsanitized(q, FALSE) \subseteq Socket  BY DEF Unsanitized, Connected
<1>15. Kinds'
  <2>1. alarm' \in {"soon", "session", "later"}  BY <1>4 DEF IInv, Kinds
  <2>2. marker' \in BOOLEAN /\ persisted' \in BOOLEAN /\ required' \in BOOLEAN /\ failed' \in BOOLEAN
    BY <1>4
  <2>3. unmarked' \subseteq Socket  BY <1>4, <1>14 DEF IInv, Kinds
  <2> QED  BY <1>1, <2>1, <2>2, <2>3 DEF IInv, Kinds
<1>16. ASSUME NEW x \in doomed' PROVE w.sock[x] # "none"
  <2>1. x \in doomed /\ x \in Socket  BY <1>1, <1>16 DEF IInv, Kinds
  <2>2. room.sock[x] # "none"  BY <2>1 DEF IInv, DoomedRetired
  <2> QED  BY <1>6, <1>12, <2>1, <2>2 DEF Later, StepAt
<1>17. Sane(room') /\ ~room'.thrown /\ \A x \in doomed' : room'.sock[x] # "none"
  BY <1>10, <1>11, <1>16
<1>18. IInv'
  <2>1. CASE marker /\ ~Sanitized(a, TRUE)
    <3>1. marker' /\ required'  BY <1>4, <2>1
    <3> QED  BY <1>15, <1>17, <3>1, MarkerStays
  <2>2. CASE marker /\ Sanitized(a, TRUE)
    <3>1. ~required'  BY <1>4, <2>2
    <3>2. \A x \in Socket : ~Routing(w, x)  BY <1>9, <1>13, <2>2 DEF Sanitized
    <3>3. \A x \in Socket : ~Routing(room', x)  BY <1>10, <3>2
    <3> QED  BY <1>15, <1>17, <3>1, <3>3, NothingRoutes
  <2>3. CASE ~marker
    <3>1. ~required' /\ ~marker' /\ q = a  BY <1>4, <1>9, <2>3
    <3>2. Marked'  BY <1>10, <1>11 DEF Marked
    <3>3. ASSUME NEW x \in Control, Routing(w, x), w.att[x].gen # w.gen PROVE FALSE
      <4>1. x \in Socket /\ x \notin Client /\ Routing(room, x)  BY <1>13, <3>3, Roles
      <4>2. a.att[x] # NoValue  BY <1>6, <4>1 DEF Routing
      <4>3. w.att[x].gen = room.att[x].gen /\ w.gen = room.gen
        BY <1>6, <1>12, <4>1, <4>2 DEF Later, StepAt
      <4> QED  BY <2>3, <3>3, <4>1, <4>3 DEF IInv, OldRetired
    <3>4. OldRetired'  BY <1>10, <3>3 DEF OldRetired
    <3>5. NoneOverlooked'
      <4>1. CASE fails
        <5>1. failed'  BY <1>4, <4>1
        <5> QED  BY <5>1 DEF NoneOverlooked, Working
      <4>2. CASE ~fails
        <5>1. w = a /\ unmarked' = unmarked  BY <1>4, <1>11, <3>1, <4>2
        <5>2. \A c \in Client : Overlooked(w, c) => c \in unmarked'
          BY <1>6, <2>3, <5>1, AsleepOverlooked
        <5> QED  BY <1>10, <5>2 DEF NoneOverlooked
      <4> QED  BY <4>1, <4>2
    <3>6. ASSUME NEW x \in doomed', Routing(w, x) PROVE FALSE
      <4>1. x \in doomed /\ x \in Socket  BY <1>1, <3>6 DEF IInv, Kinds
      <4>2. Routing(room, x)  BY <1>13, <3>6, <4>1
      <4> QED  BY <2>3, <4>1, <4>2 DEF IInv, DoomedRetired
    <3>7. DoomedRetired'  BY <1>10, <1>16, <3>6 DEF DoomedRetired
    <3>8. Quarantined'
      <4>1. ASSUME failed', NEW x \in Socket, Routing(w, x) PROVE x \in unmarked'
        <5>1. fails  BY <1>4, <4>1
        <5>2. x \in Unsanitized(q, FALSE)  BY <1>11, <4>1, <5>1
        <5> QED  BY <1>4, <3>1, <5>1, <5>2
      <4> QED  BY <1>10, <3>1, <4>1 DEF Quarantined
    <3> QED  BY <1>15, <1>17, <3>2, <3>4, <3>5, <3>7, <3>8 DEF IInv
  <2> QED  BY <2>1, <2>2, <2>3
<1>19. Granting(room, w)
  <2>1. Granting(a, w)  BY <1>6, <1>12, ClientStepsGrant, Roles DEF Later
  <2>2. \A c \in Client : Granted(room, w, c) => Granted(a, w, c)  BY <1>6 DEF Granted
  <2> QED  BY <2>1, <2>2 DEF Granting
<1> QED  BY <1>1, <1>10, <1>18, <1>19 DEF StepOK

-----------------------------------------------------------------------------
(* The theorems *)

LEMMA NextOK ==
  ASSUME IInv, Next
  PROVE  StepOK
BY StaleRequestOK, RefusedUpgradeOK, ServerUpgradeOK, ClientUpgradeOK, RevocationNoticeOK,
   ViolationOK, StaleMessageOK, ClientMessageOK, ServerMessageOK, SocketErrorOK, SocketGoneOK,
   ReconstructOK, AlarmOK, EnvironmentOK DEF Next

LEMMA StutterOK ==
  ASSUME IInv, UNCHANGED vars
  PROVE  StepOK
<1>1. UNCHANGED <<room, memory, doomed, unmarked>> /\ published' = published /\ expired' = expired
  BY DEF vars, environment
<1>2. published' \in Nat /\ expired' \subseteq Client  BY <1>1 DEF IInv, Kinds
<1> QED  BY <1>1, <1>2, UnchangedOK

(* A room without connections, and one whose replacement was interrupted *)
LEMMA FreshFacts ==
  ASSUME NEW s, s = Fresh
  PROVE  /\ s \in Rooms /\ s.gen = 1 /\ ~s.thrown /\ s.inactive = {} /\ s.finalized = {}
         /\ s.sock = [x \in Socket |-> "none"] /\ s.att = [x \in Socket |-> NoValue]
         /\ s.pend = [x \in Socket |-> NoValue] /\ s.metric = [c \in Client |-> <<>>]
<1>1. /\ s.gen = 1 /\ ~s.thrown /\ s.inactive = {} /\ s.finalized = {}
      /\ s.sock = [x \in Socket |-> "none"] /\ s.att = [x \in Socket |-> NoValue]
      /\ s.pend = [x \in Socket |-> NoValue] /\ s.metric = [c \in Client |-> <<>>]
  BY DEF Fresh
<1>2. <<>> \in Seq(Outcome \cup {NoValue})  OBVIOUS
<1>3. /\ s.sock \in [Socket -> SockState] /\ s.att \in [Socket -> Attachment]
      /\ s.pend \in [Socket -> Outcome \cup {NoValue}]
      /\ s.metric \in [Client -> Seq(Outcome \cup {NoValue})]
  BY <1>1, <1>2 DEF SockState, Attachment
<1>4. s = AsRoom(s) /\ s.thrown \in BOOLEAN  BY DEF Fresh, AsRoom
<1>5. s.gen \in Nat /\ s.inactive \subseteq Control /\ s.finalized \subseteq Client  BY <1>1
<1>6. PICK t : t = s  OBVIOUS
<1>7. t \in Rooms  BY <1>3, <1>4, <1>5, <1>6, RoomOf
<1> QED  BY <1>1, <1>6, <1>7

LEMMA FreshSane ==
  ASSUME NEW s, s = Fresh
  PROVE  Sane(s) /\ ~s.thrown /\ \A x \in Socket : s.pend[x] = NoValue /\ ~Routing(s, x)
<1>1. /\ s \in Rooms /\ s.gen = 1 /\ ~s.thrown /\ s.inactive = {} /\ s.finalized = {}
      /\ s.sock = [x \in Socket |-> "none"] /\ s.att = [x \in Socket |-> NoValue]
      /\ s.pend = [x \in Socket |-> NoValue] /\ s.metric = [c \in Client |-> <<>>]
  BY FreshFacts
<1>2. \A x \in Socket : ~Routing(s, x)  BY <1>1 DEF Routing, Open
<1>3. ~Live(NoValue)  BY DEF Live
<1>4. ASSUME NEW x \in Socket PROVE SaneAt(s, x)  BY <1>1, <1>2, <1>3 DEF SaneAt
<1> QED  BY <1>1, <1>2, <1>4 DEF Sane

LEMMA ControlAttIs ==
  ASSUME NEW g \in Nat, NEW a, a = ControlAtt(g)
  PROVE  a \in ControlState /\ a # NoValue /\ a.gen = g /\ a.current
<1>1. a \in ControlState /\ a.gen = g /\ a.current  BY DEF ControlAtt, ControlState
<1> QED  BY <1>1, NoValueAssumption

LEMMA InterruptedFacts ==
  ASSUME NEW C \in SUBSET Client, NEW s, s = Interrupted(C)
  PROVE  /\ s \in Rooms /\ s.gen = 1 /\ ~s.thrown /\ s.inactive = {} /\ s.finalized = {}
         /\ \A x \in Socket :
              /\ s.sock[x] = IF x \in C \cup {1, 2} THEN "open" ELSE "none"
              /\ s.att[x] = IF x \in C THEN ClientAtt(1, 1)
                            ELSE IF x \in {1, 2} THEN ControlAtt(1) ELSE NoValue
              /\ s.pend[x] = NoValue
         /\ \A c \in Client : s.metric[c] = <<>>
<1>1. PICK f : f = Fresh  OBVIOUS
<1>2. /\ f \in Rooms /\ f.gen = 1 /\ ~f.thrown /\ f.inactive = {} /\ f.finalized = {}
      /\ f.sock = [x \in Socket |-> "none"] /\ f.att = [x \in Socket |-> NoValue]
      /\ f.pend = [x \in Socket |-> NoValue] /\ f.metric = [c \in Client |-> <<>>]
  BY <1>1, FreshFacts
<1>3. 1 \in Control /\ 2 \in Control /\ 1 \in Socket /\ 2 \in Socket
  BY ConstantsAssumption DEF Control, Socket
<1>4. PICK a : a = ControlAtt(1)  OBVIOUS
<1>5. a \in Attachment  BY <1>4, ControlAttIs DEF Attachment
<1>6. PICK b : b = ClientAtt(1, 1)  OBVIOUS
<1>7. b \in Attachment  BY <1>3, <1>6, ClientAttIs DEF Attachment
<1>8. PICK k : k = Controls  OBVIOUS
<1>9. k = [f EXCEPT !.sock[1] = "open", !.sock[2] = "open", !.att[1] = a, !.att[2] = a]
  BY <1>1, <1>4, <1>8 DEF Controls
<1>10. "open" \in SockState /\ "none" \in SockState  BY DEF SockState
<1>11. /\ k \in Rooms /\ k.gen = 1 /\ ~k.thrown /\ k.inactive = {} /\ k.finalized = {}
       /\ k.pend = f.pend /\ k.metric = f.metric
       /\ k.sock = [x \in Socket |-> IF x \in {1, 2} THEN "open" ELSE "none"]
       /\ k.att = [x \in Socket |-> IF x \in {1, 2} THEN a ELSE NoValue]
  <2>1. PICK k1 : k1 = SockTo(f, 1, "open")  OBVIOUS
  <2>2. PICK k2 : k2 = SockTo(k1, 2, "open")  OBVIOUS
  <2>3. PICK k3 : k3 = AttTo(k2, 1, a)  OBVIOUS
  <2>4. PICK k4 : k4 = AttTo(k3, 2, a)  OBVIOUS
  <2>5. k1 \in Rooms /\ k1 = [f EXCEPT !.sock = [f.sock EXCEPT ![1] = "open"]]
    BY <1>2, <1>3, <1>10, <2>1, WithSock DEF Only, SockTo
  <2>6. k2 \in Rooms  BY <1>3, <1>10, <2>2, <2>5, WithSock DEF Only
  <2>7. k3 \in Rooms  BY <1>3, <1>5, <2>3, <2>6, WithAtt DEF Only
  <2>8. k4 \in Rooms  BY <1>3, <1>5, <2>4, <2>7, WithAtt DEF Only
  <2>9. k4 = k  BY <1>9, <2>1, <2>2, <2>3, <2>4 DEF SockTo, AttTo
  <2>10. /\ k.gen = f.gen /\ k.thrown = f.thrown /\ k.inactive = f.inactive
         /\ k.finalized = f.finalized /\ k.pend = f.pend /\ k.metric = f.metric
         /\ k.sock = [f.sock EXCEPT ![1] = "open", ![2] = "open"]
         /\ k.att = [f.att EXCEPT ![1] = a, ![2] = a]
    BY <1>2, <1>9 DEF Rooms
  <2>11. k.sock = [x \in Socket |-> IF x \in {1, 2} THEN "open" ELSE "none"]
    BY <1>2, <1>3, <2>10
  <2>12. k.att = [x \in Socket |-> IF x \in {1, 2} THEN a ELSE NoValue]
    BY <1>2, <1>3, <2>10
  <2> QED  BY <1>2, <2>8, <2>9, <2>10, <2>11, <2>12
<1>12. s = [k EXCEPT !.sock = [x \in Socket |-> IF x \in C THEN "open" ELSE k.sock[x]],
                     !.att = [x \in Socket |-> IF x \in C THEN b ELSE k.att[x]]]
  BY <1>6, <1>8, <1>11 DEF Interrupted
<1>13. /\ s.gen = 1 /\ ~s.thrown /\ s.inactive = {} /\ s.finalized = {}
       /\ s.pend = f.pend /\ s.metric = f.metric
       /\ s.sock = [x \in Socket |-> IF x \in C THEN "open" ELSE k.sock[x]]
       /\ s.att = [x \in Socket |-> IF x \in C THEN b ELSE k.att[x]]
  BY <1>11, <1>12 DEF Rooms
<1>14. s = AsRoom(s)  BY <1>11, <1>12 DEF Rooms, AsRoom
<1>15. s.sock \in [Socket -> SockState] /\ s.att \in [Socket -> Attachment]
  BY <1>7, <1>10, <1>11, <1>13 DEF Rooms
<1>16. s \in Rooms
  <2>1. /\ k.pend \in [Socket -> Outcome \cup {NoValue}]
        /\ k.metric \in [Client -> Seq(Outcome \cup {NoValue})]
    BY <1>11, RoomTypes
  <2>2. s.gen \in Nat /\ s.inactive \subseteq Control /\ s.finalized \subseteq Client
    BY <1>13
  <2>3. s.thrown \in BOOLEAN  BY <1>11, <1>12, RoomTypes DEF Rooms
  <2> QED  BY <1>11, <1>13, <1>14, <1>15, <2>1, <2>2, <2>3, RoomOf
<1> QED  BY <1>2, <1>4, <1>6, <1>11, <1>13, <1>16

LEMMA InterruptedSane ==
  ASSUME NEW C \in SUBSET Client, NEW s, s = Interrupted(C)
  PROVE  /\ Sane(s) /\ ~s.thrown /\ \A x \in Socket : s.pend[x] = NoValue
         /\ \A x \in Control : Routing(s, x) => s.att[x].gen = s.gen
         /\ \A c \in Client : Routing(s, c) => Held(s, c)
<1>1. /\ s \in Rooms /\ s.gen = 1 /\ ~s.thrown /\ s.inactive = {} /\ s.finalized = {}
      /\ \A x \in Socket :
           /\ s.sock[x] = IF x \in C \cup {1, 2} THEN "open" ELSE "none"
           /\ s.att[x] = IF x \in C THEN ClientAtt(1, 1)
                         ELSE IF x \in {1, 2} THEN ControlAtt(1) ELSE NoValue
           /\ s.pend[x] = NoValue
      /\ \A c \in Client : s.metric[c] = <<>>
  BY InterruptedFacts
<1>2. 1 \in Control /\ 2 \in Control  BY ConstantsAssumption DEF Control
<1>3. PICK a : a = ControlAtt(1)  OBVIOUS
<1>4. a \in ControlState /\ a # NoValue /\ a.gen = 1 /\ a.current  BY <1>3, ControlAttIs
<1>5. PICK b : b = ClientAtt(1, 1)  OBVIOUS
<1>6. b \in ClientState /\ b # NoValue /\ b.owner = 1 /\ b.stage = "awaiting" /\ ~b.summary
  BY <1>2, <1>5, ClientAttIs
<1>7. ASSUME NEW x \in Control
      PROVE  /\ s.att[x] = IF x \in {1, 2} THEN a ELSE NoValue
             /\ s.sock[x] = IF x \in {1, 2} THEN "open" ELSE "none"
             /\ x \in Socket /\ x \notin Client
  <2>1. x \in Socket /\ x \notin Client /\ x \notin C  BY Roles
  <2> QED  BY <1>1, <1>3, <2>1
<1>8. ASSUME NEW c \in Client
      PROVE  /\ s.att[c] = IF c \in C THEN b ELSE NoValue
             /\ s.sock[c] = IF c \in C THEN "open" ELSE "none"
             /\ c \in Socket /\ c \notin Control
  <2>1. c \in Socket /\ c \notin Control /\ c \notin {1, 2}  BY <1>2, Roles
  <2> QED  BY <1>1, <1>5, <2>1
<1>9. ~Live(NoValue)  BY DEF Live
<1>10. Len(<<>>) <= 1  OBVIOUS
<1>11. ASSUME NEW x \in Control PROVE SaneAt(s, x)
  BY <1>1, <1>4, <1>7 DEF SaneAt
<1>12. ASSUME NEW c \in Client PROVE SaneAt(s, c)
  BY <1>1, <1>6, <1>8, <1>9, <1>10 DEF SaneAt
<1>13. Sane(s)  BY <1>1, <1>11, <1>12, Roles DEF Sane
<1>14. 1 \in CurrentOpen(s)  BY <1>1, <1>2, <1>4, <1>7 DEF CurrentOpen, Open
<1>15. ASSUME NEW c \in Client, Routing(s, c) PROVE Held(s, c)
  <2>1. s.att[c] = b  BY <1>8, <1>9, <1>15 DEF Routing
  <2> QED  BY <1>1, <1>2, <1>6, <1>7, <1>14, <2>1 DEF Held
<1>16. ASSUME NEW x \in Control, Routing(s, x) PROVE s.att[x].gen = s.gen
  <2>1. s.att[x] # NoValue  BY <1>7, <1>16 DEF Routing
  <2> QED  BY <1>1, <1>4, <1>7, <2>1
<1> QED  BY <1>1, <1>13, <1>15, <1>16

LEMMA InitOK ==
  ASSUME Init
  PROVE  IInv
<1>1. PICK r : r = room  OBVIOUS
<1>2. MaxControls + 1 \in Client  BY ConstantsAssumption DEF Client
<1>3. /\ Sane(r) /\ ~r.thrown /\ \A x \in Socket : r.pend[x] = NoValue
      /\ \A x \in Control : Routing(r, x) => r.att[x].gen = r.gen
      /\ \A c \in Client : Routing(r, c) => Held(r, c)
  <2>1. CASE r = Fresh  BY <2>1, FreshSane, Roles
  <2>2. CASE r = Interrupted({})
    <3>1. PICK C \in SUBSET Client : C = {}  OBVIOUS
    <3>2. r = Interrupted(C)  BY <2>2, <3>1
    <3> QED  BY <3>2, InterruptedSane
  <2>3. CASE r = Interrupted({MaxControls + 1})
    <3>1. PICK C \in SUBSET Client : C = {MaxControls + 1}  BY <1>2
    <3>2. r = Interrupted(C)  BY <2>3, <3>1
    <3> QED  BY <3>2, InterruptedSane
  <2> QED  BY <1>1, <2>1, <2>2, <2>3 DEF Init
<1>4. Kinds
  <2>1. PICK next \in {"soon", "session", "later"} : next = NextAlarm(room)  BY NextAlarmIs
  <2> QED  BY <2>1 DEF Init, Kinds
<1>5. Marked  BY <1>1, <1>3 DEF Marked
<1>6. OldRetired  BY <1>1, <1>3 DEF OldRetired
<1>7. NoneOverlooked  BY <1>1, <1>3 DEF NoneOverlooked, Overlooked
<1>8. DoomedRetired /\ Quarantined  BY DEF Init, DoomedRetired, Quarantined
<1> QED  BY <1>1, <1>3, <1>4, <1>5, <1>6, <1>7, <1>8 DEF IInv

LEMMA StepKeeps ==
  ASSUME IInv, [Next]_vars
  PROVE  IInv' /\ Granting(room, room') /\ doomed \subseteq doomed'
BY NextOK, StutterOK DEF StepOK

(* The invariant holds in every state: what is to be retired is remembered as *)
(* long as it routes, and no session is overlooked.                           *)
THEOREM TeardownStaysSound == Spec => []IInv
<1>1. Init => IInv  BY InitOK
<1>2. IInv /\ [Next]_vars => IInv'  BY StepKeeps
<1> QED  BY <1>1, <1>2, PTL DEF Spec

(* Every variable keeps its type, and no failure is under way between two     *)
(* handlers.                                                                  *)
THEOREM TypeCorrect == Spec => []TypeOK
<1>1. ASSUME IInv PROVE TypeOK
  <2>1. room \in Rooms /\ \A x \in Socket : SaneAt(room, x)  BY <1>1 DEF IInv, Sane
  <2>2. /\ room.sock \in [Socket -> SockState] /\ room.pend \in [Socket -> Outcome \cup {NoValue}]
        /\ room.inactive \subseteq Control /\ room.finalized \subseteq Client
        /\ room.thrown \in BOOLEAN
    BY <2>1 DEF Rooms
  <2>3. ~room.thrown  BY <1>1 DEF IInv
  <2>4. room.thrown = FALSE  BY <2>2, <2>3
  <2>5. \A x \in Control : room.att[x] \in ControlState \cup {NoValue}  BY <2>1, Roles DEF SaneAt
  <2>6. \A c \in Client : room.att[c] \in ClientState \cup {NoValue}  BY <2>1, Roles DEF SaneAt
  <2> QED  BY <1>1, <2>2, <2>4, <2>5, <2>6 DEF IInv, Kinds, TypeOK, SockState
<1> QED  BY <1>1, TeardownStaysSound, PTL

(* A session that is served without its current control is remembered: by the *)
(* instance that has to end it (pendingClientOutcomes), by the marker of the  *)
(* quarantine, or by an initialization that failed.  The exceptions are the   *)
(* sockets whose double failure was reported to no one.                       *)
THEOREM OrphansAreRemembered == Spec => []OrphanRemembered
<1>1. ASSUME IInv PROVE OrphanRemembered
  <2>1. ASSUME NEW c \in Client, Routing(room, c), ~Owned(c), c \notin unmarked,
               room.pend[c] = NoValue, ~marker, ~failed
        PROVE  FALSE
    <3>1. Working  BY <1>1, <2>1 DEF IInv, Quarantined, Working
    <3>2. Overlooked(room, c)  BY <2>1 DEF Overlooked, Held, Owned
    <3> QED  BY <1>1, <2>1, <3>1, <3>2 DEF IInv, NoneOverlooked
  <2> QED  BY <2>1 DEF OrphanRemembered
<1> QED  BY <1>1, TeardownStaysSound, PTL

(* No session writes two terminal metrics, whatever fails, is repeated or is  *)
(* forgotten by a hibernation (emitTerminalMetric).                           *)
THEOREM SummariesAtMostOnce == Spec => []SummaryAtMostOnce
<1>1. ASSUME IInv PROVE SummaryAtMostOnce
  <2>1. \A c \in Client : SaneAt(room, c) /\ c \in Socket  BY <1>1, Roles DEF IInv, Sane
  <2> QED  BY <2>1 DEF SaneAt, SummaryAtMostOnce
<1> QED  BY <1>1, TeardownStaysSound, PTL

(* One alarm in which no socket fails retires whatever was left to be retired *)
(* (retryPendingServerTeardowns, expireClients, pruneServerTickets).          *)
THEOREM RetriesFinish == Spec => []RetryFinishes
<1>1. ASSUME IInv PROVE RetryFinishes
  <2>1. ASSUME \A x \in Socket : broken[x] = Sound
        PROVE  ~Retried(room).thrown /\ \A x \in Pending(room) : ~Routing(Retried(room), x)
    <3>1. PICK s : s = Retried(room)  OBVIOUS
    <3>2. Sane(room) /\ ~room.thrown  BY <1>1 DEF IInv
    <3>3. /\ Calm(room, s)
          /\ ~s.thrown => \A x \in Socket : room.pend[x] # NoValue => ~Routing(s, x)
      BY <3>1, <3>2, RetriedKeeps
    <3>4. ~s.thrown  BY <2>1, <3>2, <3>3 DEF Calm, AllSound
    <3>5. \A x \in Pending(room) : ~Routing(s, x)  BY <3>3, <3>4 DEF Pending
    <3> QED  BY <3>1, <3>4, <3>5
  <2> QED  BY <2>1 DEF RetryFinishes
<1> QED  BY <1>1, TeardownStaysSound, PTL

(* A client is admitted (acceptClient), and its candidate forwarded           *)
(* (beginClientTicket), under the one control that is current, even after an  *)
(* interrupted replacement left two.                                          *)
THEOREM OneControlServes == Spec => ServedHasOneControl
<1>1. ASSUME IInv, [Next]_vars
      PROVE  [\A c \in Client : Admitted(c) \/ Forwarded(c)
                => CurrentOpen(room') = {room'.att[c].owner}]_vars
  <2>1. Granting(room, room')  BY <1>1, StepKeeps
  <2>2. ASSUME NEW c \in Client, Admitted(c) \/ Forwarded(c) PROVE Granted(room, room', c)
    BY <2>2 DEF Admitted, Forwarded, Granted, Live
  <2> QED  BY <2>1, <2>2 DEF Granting
<1> QED  BY <1>1, TeardownStaysSound, PTL DEF Spec, ServedHasOneControl

(* The marker of the quarantine is deleted only when no socket it was written *)
(* for routes any more (closeSocketsForTeardownRecovery, alarm).              *)
THEOREM MarkerClearsClean == Spec => MarkerClearedClean
<1>1. ASSUME IInv, [Next]_vars
      PROVE  [marker /\ ~marker' => \A x \in doomed : ~Routing(room', x)]_vars
  <2>1. IInv' /\ doomed \subseteq doomed'  BY <1>1, StepKeeps
  <2>2. \A x \in doomed' : Routing(room', x) => marker'  BY <2>1 DEF IInv, DoomedRetired
  <2> QED  BY <2>1, <2>2
<1> QED  BY <1>1, TeardownStaysSound, PTL DEF Spec, MarkerClearedClean
=============================================================================
