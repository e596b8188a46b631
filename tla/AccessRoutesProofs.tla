------------------------- MODULE AccessRoutesProofs -------------------------
(***************************************************************************)
(* Proofs about AccessRoutes: its types, that stored answers stay true,    *)
(* that rows only move forward, that no grant outlives a revocation,       *)
(* that an observed expiry is final, that a retry changes nothing, and     *)
(* that every live route can be revoked: receipts, nonces and live rows    *)
(* together never outgrow their shared capacity.                           *)
(***************************************************************************)
EXTENDS AccessRoutes, FiniteSetTheorems, TLAPS

-----------------------------------------------------------------------------
(* The inductive invariant                                                    *)

Dated(rows) == \A i \in Index : rows[i] # NoValue =>
                 Live(rows[i]) <=> (rows[i].revokedAt = NoValue)
RowsOK(rows) == rows \in [Index -> Route \cup {NoValue}] /\ Dated(rows)

(* A token has at most one row, dead or live. *)
OneRow(rows) ==
  \A i, j \in Index :
    rows[i] # NoValue /\ rows[j] # NoValue /\ rows[i].server = rows[j].server
      /\ rows[i].token = rows[j].token => i = j
Remembered == \A i \in denied : routes[i] # NoValue /\ ~Live(routes[i])

RInv == /\ TypeOK /\ OneRow(routes) /\ ReceiptsStayTrue
        /\ NoGrantOfRevokedRoute /\ Remembered

-----------------------------------------------------------------------------
(* Clocks and rows                                                            *)

(* A batch is some of the rows it may treat. *)
LEMMA BatchesAreSubsets == \A S : Batches(S) \subseteq SUBSET S
BY DEF Batches

(* The clock of a call is a natural number, at most MaxSkew ahead. *)
LEMMA ClockType == \A at \in Clock : at \in Nat /\ at <= now + MaxSkew
BY ConstantsAssumption DEF Clock, Time

(* What each outcome of a decision says of the row it was taken on. *)
LEMMA DecisionFacts ==
  ASSUME RowsOK(routes), NEW p \in Request, NEW at \in Nat
  PROVE  LET d == Decision(p, at)  r == routes[p.index] IN
         /\ d \in Outcome
         /\ d \in {"reserved", "active", "revoked", "expired"} =>
              ~TokenElsewhere(p) /\ ~OthersRow(p)
         /\ d = "reserved" => p.op = "reserve" /\ r = NoValue
         /\ d = "active" => p.op = "activate" /\ r # NoValue /\ r.state = "reserved"
         /\ d = "revoked" /\ p.op # "revoke" => r # NoValue /\ r.state = "revoked"
<1> DEFINE r == routes[p.index]
<1>1. p \in Payload /\ r \in Route \cup {NoValue}
  BY ConstantsAssumption DEF RowsOK, Payload
<1>2. CASE TokenElsewhere(p) \/ OthersRow(p)
  BY <1>2 DEF Decision, Outcome
<1>3. CASE /\ ~(TokenElsewhere(p) \/ OthersRow(p))
           /\ p.op # "revoke" /\ r # NoValue /\ ~Live(r)
  <2>1. Decision(p, at) = r.state  BY <1>3 DEF Decision
  <2>2. r.state \in {"revoked", "expired"}  BY <1>1, <1>3 DEF Live, Route
  <2> QED  BY <2>1, <2>2, <1>3 DEF Outcome
<1>4. CASE /\ ~(TokenElsewhere(p) \/ OthersRow(p))
           /\ ~(p.op # "revoke" /\ r # NoValue /\ ~Live(r))
  <2>1. CASE p.op = "reserve"
    <3>1. Decision(p, at) = ReserveOutcome(p, at)  BY <1>4, <2>1 DEF Decision
    <3> QED  BY <3>1, <2>1, <1>4 DEF ReserveOutcome, Outcome
  <2>2. CASE p.op = "activate"
    <3>1. Decision(p, at) = ActivateOutcome(p, at)  BY <1>4, <2>2 DEF Decision
    <3> QED  BY <3>1, <2>2, <1>4 DEF ActivateOutcome, Outcome
  <2>3. CASE p.op = "revoke"
    <3>1. Decision(p, at) = RevokeOutcome(p)  BY <1>4, <2>3 DEF Decision
    <3> QED  BY <3>1, <2>3, <1>4 DEF RevokeOutcome, Outcome
  <2>4. CASE p.op = "result"
    <3>1. Decision(p, at) = "unavailable"  BY <1>4, <2>4 DEF Decision
    <3> QED  BY <3>1, <1>4 DEF Outcome
  <2> QED  BY <2>1, <2>2, <2>3, <2>4, <1>1 DEF Payload, Operation
<1> QED  BY <1>2, <1>3, <1>4

(* The row a revocation leaves *)
LEMMA RevokedRowFacts ==
  ASSUME RowsOK(routes), NEW p \in Request, NEW at \in Nat
  PROVE  LET new == RevokedRow(p, at)  r == routes[p.index] IN
         /\ new \in Route /\ new.state = "revoked" /\ new.revokedAt # NoValue
         /\ r = NoValue => new.server = p.server /\ new.token = p.token
         /\ r # NoValue => /\ new.server = r.server /\ new.token = r.token
                           /\ new.handle = r.handle /\ r.revision <= new.revision
                           /\ ~Live(r) => new.revokedAt = r.revokedAt
<1>1. p \in Payload  BY ConstantsAssumption
<1>2. p.index \in Index /\ routes[p.index] \in Route \cup {NoValue}
  BY <1>1 DEF Payload, RowsOK
<1>3. CASE routes[p.index] = NoValue
  BY <1>1, <1>3, ConstantsAssumption DEF RevokedRow, Payload, Route
<1>4. CASE routes[p.index] # NoValue
  <2> DEFINE r == routes[p.index]
  <2>1. r \in Route  BY <1>2, <1>4
  <2>2. RevokedRow(p, at) = [r EXCEPT !.state = "revoked",
          !.revision = Higher(r.revision, p.revision),
          !.revokedAt = IF r.revokedAt = NoValue THEN at ELSE r.revokedAt]
    BY <1>4, <2>1 DEF RevokedRow, Route
  <2>3. Live(r) <=> (r.revokedAt = NoValue)  BY <1>2, <1>4, <1>1 DEF RowsOK, Dated, Payload
  <2>4. r.revision \in Nat /\ p.revision \in Nat  BY <1>1, <2>1 DEF Payload, Route
  <2>a. r.revokedAt \in Nat \cup {NoValue}  BY <2>1 DEF Route
  <2> HIDE DEF r
  <2> DEFINE rev == Higher(r.revision, p.revision)
             end == IF r.revokedAt = NoValue THEN at ELSE r.revokedAt
  <2>b. rev \in Nat /\ r.revision <= rev  BY <2>4 DEF Higher
  <2>c. end \in Nat /\ end # NoValue /\ (~Live(r) => end = r.revokedAt)
    BY <2>3, <2>a, ConstantsAssumption
  <2> HIDE DEF rev, end
  <2>d. RevokedRow(p, at) = [r EXCEPT !.state = "revoked", !.revision = rev, !.revokedAt = end]
    BY <2>2 DEF rev, end
  <2>5. /\ RevokedRow(p, at) \in Route
        /\ RevokedRow(p, at).state = "revoked" /\ RevokedRow(p, at).revokedAt = end
        /\ RevokedRow(p, at).server = r.server /\ RevokedRow(p, at).token = r.token
        /\ RevokedRow(p, at).handle = r.handle /\ RevokedRow(p, at).revision = rev
    BY <2>1, <2>b, <2>c, <2>d DEF Route
  <2> QED  BY <2>5, <2>b, <2>c, <1>4 DEF r
<1> QED  BY <1>3, <1>4

-----------------------------------------------------------------------------
(* What a batch may do to the rows                                            *)

(* Rows stay and move forward; a row that appears is the one of `p'. *)
Advances(old, new) ==
  \A i \in Index : old[i] # NoValue => new[i] # NoValue /\ Forward(old[i], new[i])
OnlyNewRow(old, new, p) ==
  \A i \in Index : old[i] = NoValue /\ new[i] # NoValue =>
    i = p.index /\ new[i].server = p.server /\ new[i].token = p.token
LiveIn(rows) == {i \in Index : Live(rows[i])}

(* A row moves forward from itself. *)
LEMMA ForwardReflexive == \A r \in Route : Forward(r, r)
BY DEF Forward, Rank, Route

(* A live row that expires has moved forward. *)
LEMMA RowExpires ==
  ASSUME NEW r \in Route, NEW t \in Nat, Live(r), r.revokedAt = NoValue
  PROVE  LET new == [r EXCEPT !.state = "expired", !.revokedAt = t] IN
         /\ new \in Route /\ Forward(r, new)
         /\ new.state = "expired" /\ new.revokedAt = t /\ ~Live(new)
         /\ new.server = r.server /\ new.token = r.token
<1> DEFINE new == [r EXCEPT !.state = "expired", !.revokedAt = t]
<1>1. new \in Route  BY DEF Route
<1>2. /\ new.state = "expired" /\ new.revokedAt = t /\ new.server = r.server
      /\ new.token = r.token /\ new.handle = r.handle /\ new.revision = r.revision
  BY DEF Route
<1>3. r.state \in {"reserved", "active"} /\ r.revision \in Nat  BY DEF Live, Route
<1> HIDE DEF new
<1>4. Forward(r, new)  BY <1>2, <1>3 DEF Forward, Rank
<1>5. ~Live(new)  BY <1>2 DEF Live
<1> QED  BY <1>1, <1>2, <1>4, <1>5 DEF new

(* The effects of a decision on the rows and the grants *)
LEMMA ApplyFacts ==
  ASSUME RowsOK(routes), NEW p \in Request, NEW n \in Sequence, NEW at \in Nat,
         Apply(p, Decision(p, at), n, at)
  PROVE  LET d == Decision(p, at)  new == routes'[p.index] IN
         /\ RowsOK(routes') /\ Advances(routes, routes')
         /\ OnlyNewRow(routes, routes', p)
         /\ \A i \in Index \ {p.index} : routes'[i] = routes[i]
         /\ LiveIn(routes') \subseteq LiveIn(routes) \cup
              (IF d = "reserved" THEN {p.index} ELSE {})
         /\ d = "revoked" => ~Live(new)
         /\ d \in {"reserved", "active", "revoked"} =>
              /\ new # NoValue /\ new.server = p.server /\ new.token = p.token
              /\ d = "active" => new.state # "reserved"
              /\ d = "revoked" => new.state = "revoked"
         /\ grants' \subseteq grants
         /\ \A g \in grants' : g.index = p.index /\ routes' # routes =>
              new # NoValue /\ new.state # "revoked"
<1> DEFINE d == Decision(p, at)
           r == routes[p.index]
           new == routes'[p.index]
<1>1. p \in Payload /\ p.index \in Index /\ r \in Route \cup {NoValue}
  BY ConstantsAssumption DEF RowsOK, Payload
<1>2. r # NoValue => r \in Route /\ (Live(r) <=> r.revokedAt = NoValue)
  BY <1>1 DEF RowsOK, Dated
<1>3. /\ d \in Outcome
      /\ d \in {"reserved", "active", "revoked", "expired"} =>
           ~TokenElsewhere(p) /\ ~OthersRow(p)
      /\ d = "reserved" => p.op = "reserve" /\ r = NoValue
      /\ d = "active" => p.op = "activate" /\ r # NoValue /\ r.state = "reserved"
      /\ d = "revoked" /\ p.op # "revoke" => r # NoValue /\ r.state = "revoked"
  BY DecisionFacts
<1>4. d \in {"reserved", "active", "revoked", "expired"} /\ r # NoValue =>
        r.server = p.server /\ r.token = p.token
  BY <1>3 DEF OthersRow
<1>5. \A i \in Index : routes[i] # NoValue => routes[i] \in Route
  BY DEF RowsOK
<1>6. NoValue \notin Route  BY ConstantsAssumption
(* It is enough to know the one row that may differ. *)
<1>7. ASSUME NEW row \in Route, routes' = [routes EXCEPT ![p.index] = row],
             Live(row) <=> (row.revokedAt = NoValue), r # NoValue => Forward(r, row),
             row.server = p.server, row.token = p.token,
             Live(row) => Live(r) \/ d = "reserved"
      PROVE  /\ RowsOK(routes') /\ Advances(routes, routes')
             /\ OnlyNewRow(routes, routes', p)
             /\ \A i \in Index \ {p.index} : routes'[i] = routes[i]
             /\ LiveIn(routes') \subseteq LiveIn(routes) \cup
                  (IF d = "reserved" THEN {p.index} ELSE {})
             /\ new = row
  <2>1. new = row /\ \A i \in Index \ {p.index} : routes'[i] = routes[i]
    BY <1>1, <1>7 DEF RowsOK
  <2>2. routes' \in [Index -> Route \cup {NoValue}]  BY <1>1, <1>7 DEF RowsOK
  <2>3. Dated(routes')
    <3>1. \A i \in Index \ {p.index} : routes'[i] # NoValue =>
            Live(routes'[i]) <=> (routes'[i].revokedAt = NoValue)
      BY <2>1 DEF RowsOK, Dated
    <3> QED  BY <3>1, <2>1, <1>7 DEF Dated
  <2>4. Advances(routes, routes')
    <3> SUFFICES ASSUME NEW i \in Index, routes[i] # NoValue
                 PROVE  routes'[i] # NoValue /\ Forward(routes[i], routes'[i])
      BY DEF Advances
    <3>1. CASE i = p.index  BY <3>1, <2>1, <1>6, <1>7
    <3>2. CASE i # p.index  BY <3>2, <2>1, <1>5, ForwardReflexive
    <3> QED  BY <3>1, <3>2
  <2>5. OnlyNewRow(routes, routes', p)  BY <2>1, <1>7 DEF OnlyNewRow
  <2>6. LiveIn(routes') \subseteq LiveIn(routes) \cup
          (IF d = "reserved" THEN {p.index} ELSE {})
    <3> SUFFICES ASSUME NEW i \in Index, Live(routes'[i])
                 PROVE  Live(routes[i]) \/ (d = "reserved" /\ i = p.index)
      BY DEF LiveIn
    <3> QED  BY <2>1, <1>7
  <2> QED  BY <2>1, <2>2, <2>3, <2>4, <2>5, <2>6 DEF RowsOK
<1>8. ASSUME routes' = routes
      PROVE  /\ RowsOK(routes') /\ Advances(routes, routes')
             /\ OnlyNewRow(routes, routes', p)
             /\ \A i \in Index \ {p.index} : routes'[i] = routes[i]
             /\ LiveIn(routes') \subseteq LiveIn(routes) \cup
                  (IF d = "reserved" THEN {p.index} ELSE {})
             /\ new = r
  <2>1. Advances(routes, routes)  BY <1>5, ForwardReflexive DEF Advances
  <2> QED  BY <1>8, <2>1 DEF RowsOK, OnlyNewRow, LiveIn
<1> HIDE DEF d
<1>a. /\ p.server \in Server /\ p.token \in Token /\ p.revision \in Nat
      /\ p.expires \in Nat \cup {NoValue} /\ ReservationLife \in Nat /\ NoValue \notin Nat
  BY <1>1, ConstantsAssumption DEF Payload
<1>b. CASE d = "reserved"
  <2> DEFINE row == [server |-> p.server, token |-> p.token, revision |-> p.revision,
                     state |-> "reserved", expires |-> p.expires, handle |-> n,
                     until |-> at + ReservationLife, revokedAt |-> NoValue]
  <2>1. routes' = [routes EXCEPT ![p.index] = row] /\ grants' = grants
    BY <1>b DEF Apply, d
  <2>2. row \in Route  BY <1>a DEF Route
  <2>3. /\ row.server = p.server /\ row.token = p.token
        /\ row.state = "reserved" /\ row.revokedAt = NoValue
    OBVIOUS
  <2> HIDE DEF row
  <2>4. Live(row)  BY <2>2, <2>3, <1>6 DEF Live
  <2>5. r = NoValue  BY <1>3, <1>b
  <2>9. /\ RowsOK(routes') /\ Advances(routes, routes')
        /\ OnlyNewRow(routes, routes', p)
        /\ \A i \in Index \ {p.index} : routes'[i] = routes[i]
        /\ LiveIn(routes') \subseteq LiveIn(routes) \cup
             (IF d = "reserved" THEN {p.index} ELSE {})
        /\ new = row
    BY <1>7, <1>b, <2>1, <2>2, <2>3, <2>4, <2>5
  <2> QED  BY <1>b, <2>1, <2>9, <2>2, <2>3, <2>5, <1>6 DEF d
<1>c. CASE d = "active"
  <2> DEFINE row == [r EXCEPT !.state = "active", !.revokedAt = NoValue]
  <2>1. routes' = [routes EXCEPT ![p.index].state = "active"] /\ grants' = grants
    BY <1>c DEF Apply, d
  <2>2. r # NoValue /\ r \in Route /\ r.state = "reserved" /\ Live(r)
    BY <1>1, <1>2, <1>3, <1>c DEF Live
  <2>3. r.revokedAt = NoValue  BY <1>2, <2>2
  <2>4. routes' = [routes EXCEPT ![p.index] = row]
    <3>1. row = [r EXCEPT !.state = "active"]  BY <2>2, <2>3 DEF Route
    <3> QED  BY <2>1, <3>1
  <2>5. /\ row \in Route /\ Forward(r, row)
        /\ row.state = "active" /\ row.revokedAt = NoValue
        /\ Live(row) <=> (row.revokedAt = NoValue)
        /\ row.server = r.server /\ row.token = r.token
    <3>1. row \in Route  BY <2>2 DEF Route
    <3>2. /\ row.state = "active" /\ row.revokedAt = NoValue /\ row.server = r.server
          /\ row.token = r.token /\ row.handle = r.handle /\ row.revision = r.revision
      BY <2>2 DEF Route
    <3>3. r.revision \in Nat  BY <2>2 DEF Route
    <3> HIDE DEF row
    <3>4. Forward(r, row)  BY <2>2, <3>2, <3>3 DEF Forward, Rank
    <3>5. Live(row)  BY <3>1, <3>2, <1>6 DEF Live
    <3> QED  BY <3>1, <3>2, <3>4, <3>5
  <2> HIDE DEF row
  <2>6. row.server = p.server /\ row.token = p.token  BY <2>2, <2>5, <1>4, <1>c
  <2>9. /\ RowsOK(routes') /\ Advances(routes, routes')
        /\ OnlyNewRow(routes, routes', p)
        /\ \A i \in Index \ {p.index} : routes'[i] = routes[i]
        /\ LiveIn(routes') \subseteq LiveIn(routes) \cup
             (IF d = "reserved" THEN {p.index} ELSE {})
        /\ new = row
    BY <1>7, <2>2, <2>4, <2>5, <2>6
  <2> QED  BY <1>c, <2>1, <2>9, <2>5, <2>6, <1>6 DEF d
<1>d. CASE d = "revoked" /\ p.op = "revoke"
  <2> DEFINE row == RevokedRow(p, at)
  <2>1. routes' = [routes EXCEPT ![p.index] = row] /\ grants' = DropGrantsOf(p.index)
    BY <1>d DEF Apply, d
  <2>2. /\ row \in Route /\ row.state = "revoked" /\ row.revokedAt # NoValue
        /\ r = NoValue => row.server = p.server /\ row.token = p.token
        /\ r # NoValue => /\ row.server = r.server /\ row.token = r.token
                          /\ row.handle = r.handle /\ r.revision <= row.revision
                          /\ ~Live(r) => row.revokedAt = r.revokedAt
    BY RevokedRowFacts
  <2> HIDE DEF row
  <2>3. ~Live(row) /\ row.server = p.server /\ row.token = p.token
    BY <2>2, <1>4, <1>d DEF Live
  <2>4. r # NoValue => Forward(r, row)
    BY <2>2, <1>1 DEF Forward, Rank, Route
  <2>5. /\ RowsOK(routes') /\ Advances(routes, routes')
        /\ OnlyNewRow(routes, routes', p)
        /\ \A i \in Index \ {p.index} : routes'[i] = routes[i]
        /\ LiveIn(routes') \subseteq LiveIn(routes) \cup
             (IF d = "reserved" THEN {p.index} ELSE {})
        /\ new = row
    BY <1>7, <2>1, <2>2, <2>3, <2>4
  <2>6. grants' \subseteq grants /\ \A g \in grants' : g.index # p.index
    BY <2>1 DEF DropGrantsOf
  <2> QED  BY <1>d, <2>2, <2>3, <2>5, <2>6, <1>6 DEF d
<1>e. CASE d = "expired" /\ Live(r)
  <2> DEFINE row == [r EXCEPT !.state = "expired", !.revokedAt = at]
  <2>1. /\ routes' = [routes EXCEPT ![p.index].state = "expired", ![p.index].revokedAt = at]
        /\ grants' = grants
    BY <1>e DEF Apply, d
  <2>2. r # NoValue /\ r \in Route /\ r.revokedAt = NoValue
    BY <1>1, <1>2, <1>e DEF Live
  <2>3. routes' = [routes EXCEPT ![p.index] = row]
    BY <2>1, <1>1 DEF RowsOK
  <2>4. at # NoValue  BY <1>a
  <2>5. /\ row \in Route /\ Forward(r, row)
        /\ row.state = "expired" /\ row.revokedAt = at
        /\ Live(row) <=> (row.revokedAt = NoValue)
        /\ row.server = r.server /\ row.token = r.token
    BY <2>2, <2>4, <1>e, RowExpires
  <2> HIDE DEF row
  <2>6. row.server = p.server /\ row.token = p.token  BY <2>2, <2>5, <1>4, <1>e
  <2>9. /\ RowsOK(routes') /\ Advances(routes, routes')
        /\ OnlyNewRow(routes, routes', p)
        /\ \A i \in Index \ {p.index} : routes'[i] = routes[i]
        /\ LiveIn(routes') \subseteq LiveIn(routes) \cup
             (IF d = "reserved" THEN {p.index} ELSE {})
        /\ new = row
    BY <1>7, <1>e, <2>2, <2>3, <2>5, <2>6
  <2> QED  BY <1>e, <2>1, <2>9, <2>5, <2>6, <1>6 DEF d
<1>f. CASE \/ d \in {"conflict", "not_found", "unavailable"}
           \/ d = "revoked" /\ p.op # "revoke"
           \/ d = "expired" /\ ~Live(r)
  <2>1. routes' = routes /\ grants' = grants  BY <1>f DEF Apply, d
  <2> QED  BY <2>1, <1>3, <1>4, <1>8, <1>f DEF d, Live
<1> QED  BY <1>3, <1>b, <1>c, <1>d, <1>e, <1>f DEF d, Outcome

(* A row that lapses was live. *)
LEMMA LapsedWasLive ==
  \A r \in Route, at \in Nat : ExpiredRoute(r, at) => Live(r)
BY ConstantsAssumption DEF ExpiredRoute, Live

(* What expiring some live rows does *)
LEMMA ExpireFacts ==
  ASSUME RowsOK(routes), NEW at \in Nat, NEW E \in SUBSET Index,
         \A i \in E : Live(routes[i])
  PROVE  LET new == ExpireRoutes(E, at) IN
         /\ RowsOK(new) /\ Advances(routes, new)
         /\ \A i \in Index : routes[i] = NoValue => new[i] = NoValue
         /\ \A i \in Index : new[i] # NoValue /\ new[i].state = "revoked" =>
              routes[i].state = "revoked"
         /\ \A i \in E : new[i] # NoValue /\ ~Live(new[i])
         /\ \A i \in Index \ E : new[i] = routes[i]
<1> DEFINE new == ExpireRoutes(E, at)
<1>1. \A i \in Index : routes[i] # NoValue => routes[i] \in Route  BY DEF RowsOK
<1>2. \A i \in E : routes[i] # NoValue /\ routes[i] \in Route /\ routes[i].revokedAt = NoValue
  BY <1>1 DEF RowsOK, Dated, Live
<1>3. \A i \in E : new[i] = [routes[i] EXCEPT !.state = "expired", !.revokedAt = at]
  BY DEF ExpireRoutes
<1>4. \A i \in Index \ E : new[i] = routes[i]  BY DEF ExpireRoutes
<1>5. NoValue \notin Route /\ at # NoValue  BY ConstantsAssumption
<1>6. ASSUME NEW i \in E
      PROVE  /\ new[i] \in Route /\ Forward(routes[i], new[i]) /\ new[i].state = "expired"
             /\ new[i].revokedAt = at /\ ~Live(new[i])
  <2>1. LET x == [routes[i] EXCEPT !.state = "expired", !.revokedAt = at] IN
        /\ x \in Route /\ Forward(routes[i], x) /\ x.state = "expired"
        /\ x.revokedAt = at /\ ~Live(x)
    BY <1>2, <1>6, RowExpires
  <2> QED  BY <2>1, <1>3, <1>6
<1>7. new \in [Index -> Route \cup {NoValue}]
  <2>1. \A i \in Index : new[i] \in Route \cup {NoValue}  BY <1>1, <1>4, <1>6
  <2> QED  BY <2>1 DEF ExpireRoutes
<1> HIDE DEF new
<1>8. Dated(new)
  <2> SUFFICES ASSUME NEW i \in Index, new[i] # NoValue
               PROVE  Live(new[i]) <=> (new[i].revokedAt = NoValue)
    BY DEF Dated
  <2>1. CASE i \in E  BY <2>1, <1>5, <1>6
  <2>2. CASE i \notin E  BY <2>2, <1>4 DEF RowsOK, Dated
  <2> QED  BY <2>1, <2>2
<1>9. Advances(routes, new)
  <2> SUFFICES ASSUME NEW i \in Index, routes[i] # NoValue
               PROVE  new[i] # NoValue /\ Forward(routes[i], new[i])
    BY DEF Advances
  <2>1. CASE i \in E  BY <2>1, <1>5, <1>6
  <2>2. CASE i \notin E  BY <2>2, <1>1, <1>4, ForwardReflexive
  <2> QED  BY <2>1, <2>2
<1>10. \A i \in Index : new[i] # NoValue /\ new[i].state = "revoked" =>
         routes[i].state = "revoked"
  BY <1>4, <1>6
<1>11. \A i \in E : new[i] # NoValue /\ ~Live(new[i])  BY <1>5, <1>6
<1>12. \A i \in Index : routes[i] = NoValue => new[i] = NoValue  BY <1>2, <1>4
<1> QED  BY <1>4, <1>7, <1>8, <1>9, <1>10, <1>11, <1>12 DEF new, RowsOK

(* What a batch that observes expiry does to the rows *)
LEMMA ObserveFacts ==
  ASSUME RowsOK(routes), NEW at \in Nat, NEW I \in SUBSET Index, ObserveExpiry(I, at)
  PROVE  /\ RowsOK(routes') /\ Advances(routes, routes')
         /\ \A i \in Index : routes[i] = NoValue => routes'[i] = NoValue
         /\ \A i \in Index : routes'[i] # NoValue /\ routes'[i].state = "revoked" =>
              routes[i].state = "revoked"
         /\ denied' \subseteq denied \cup Index
         /\ \A i \in denied' \ denied : routes'[i] # NoValue /\ ~Live(routes'[i])
<1> DEFINE E == {i \in I : /\ routes[i] # NoValue /\ routes[i].state = "active"
                           /\ Past(routes[i].expires, at)}
<1>1. routes' = ExpireRoutes(E, at)  BY DEF ObserveExpiry, RememberExpiry
<1>2. E \in SUBSET Index /\ \A i \in E : Live(routes[i])  BY DEF Live
<1>3. denied' = denied \cup {i \in I : /\ routes[i] # NoValue
                                      /\ routes[i].state \in {"active", "expired"}
                                      /\ Past(routes[i].expires, at)}
  BY DEF ObserveExpiry
<1>4. \A i \in denied' \ denied : i \in E \/ (i \in Index /\ routes[i] # NoValue
                                              /\ routes[i].state = "expired")
  BY <1>3
<1> HIDE DEF E
<1>5. /\ RowsOK(routes') /\ Advances(routes, routes')
      /\ \A i \in Index : routes[i] = NoValue => routes'[i] = NoValue
      /\ \A i \in Index : routes'[i] # NoValue /\ routes'[i].state = "revoked" =>
           routes[i].state = "revoked"
      /\ \A i \in E : routes'[i] # NoValue /\ ~Live(routes'[i])
      /\ \A i \in Index \ E : routes'[i] = routes[i]
  BY <1>1, <1>2, ExpireFacts
<1>6. \A i \in denied' \ denied : routes'[i] # NoValue /\ ~Live(routes'[i])
  BY <1>4, <1>5 DEF Live
<1> QED  BY <1>3, <1>5, <1>6

-----------------------------------------------------------------------------
(* What rows that move forward keep                                           *)

ReceiptTrue(c, rows) ==
  c.outcome \in {"reserved", "active", "revoked"} =>
    LET r == rows[c.payload.index] IN
    /\ r # NoValue /\ r.server = c.payload.server /\ r.token = c.payload.token
    /\ c.outcome = "active" => r.state # "reserved"
    /\ c.outcome = "revoked" => r.state = "revoked"

(* A receipt that is true stays true of a row that has moved forward. *)
LEMMA AnswerAdvances ==
  ASSUME NEW c, c.payload.index \in Index, NEW old, NEW new,
         RowsOK(old), RowsOK(new), Advances(old, new), ReceiptTrue(c, old)
  PROVE  ReceiptTrue(c, new)
<1> SUFFICES ASSUME c.outcome \in {"reserved", "active", "revoked"}
             PROVE  ReceiptTrue(c, new)
  BY DEF ReceiptTrue
<1> DEFINE i == c.payload.index
<1>1. /\ old[i] # NoValue /\ old[i].server = c.payload.server
      /\ old[i].token = c.payload.token
      /\ c.outcome = "active" => old[i].state # "reserved"
      /\ c.outcome = "revoked" => old[i].state = "revoked"
  BY DEF ReceiptTrue
<1>2. new[i] # NoValue /\ Forward(old[i], new[i])  BY <1>1 DEF Advances
<1>3. old[i] \in Route /\ new[i] \in Route  BY <1>1, <1>2 DEF RowsOK
<1>4. /\ new[i].server = old[i].server /\ new[i].token = old[i].token
      /\ Rank[old[i].state] <= Rank[new[i].state]
  BY <1>2 DEF Forward
<1>5. /\ old[i].state # "reserved" => new[i].state # "reserved"
      /\ old[i].state = "revoked" => new[i].state = "revoked"
  BY <1>3, <1>4 DEF Rank, Route
<1> QED  BY <1>1, <1>2, <1>4, <1>5 DEF ReceiptTrue

(* No token gets a second row. *)
LEMMA OneRowKept ==
  ASSUME NEW new, NEW p, RowsOK(routes), OneRow(routes), Advances(routes, new),
         OnlyNewRow(routes, new, p), p.index \in Index,
         routes[p.index] = NoValue /\ new[p.index] # NoValue => ~TokenElsewhere(p)
  PROVE  OneRow(new)
<1> SUFFICES ASSUME NEW i \in Index, NEW j \in Index,
                    new[i] # NoValue, new[j] # NoValue,
                    new[i].server = new[j].server, new[i].token = new[j].token, i # j
             PROVE  FALSE
  BY DEF OneRow
<1>1. \A k \in Index : routes[k] # NoValue =>
        new[k].server = routes[k].server /\ new[k].token = routes[k].token
  BY DEF Advances, Forward
<1>2. CASE routes[i] # NoValue /\ routes[j] # NoValue
  BY <1>1, <1>2 DEF OneRow
<1>3. CASE routes[i] = NoValue /\ routes[j] # NoValue
  <2>1. i = p.index /\ new[i].server = p.server /\ new[i].token = p.token
    BY <1>3 DEF OnlyNewRow
  <2> QED  BY <2>1, <1>1, <1>3 DEF TokenElsewhere
<1>4. CASE routes[i] # NoValue /\ routes[j] = NoValue
  <2>1. j = p.index /\ new[j].server = p.server /\ new[j].token = p.token
    BY <1>4 DEF OnlyNewRow
  <2> QED  BY <2>1, <1>1, <1>4 DEF TokenElsewhere
<1>5. CASE routes[i] = NoValue /\ routes[j] = NoValue
  BY <1>5 DEF OnlyNewRow
<1> QED  BY <1>2, <1>3, <1>4, <1>5

-----------------------------------------------------------------------------
(* Every step keeps the invariant                                             *)

(* The invariant, spelled with the parts the lemmas above use *)
LEMMA InvariantRows ==
  ASSUME RInv
  PROVE  /\ RowsOK(routes) /\ OneRow(routes)
         /\ \A c \in receipts : c \in Receipt /\ c.payload.index \in Index
                               /\ ReceiptTrue(c, routes)
<1>1. RowsOK(routes)  BY DEF RInv, TypeOK, RowsOK, Dated
<1>2. \A c \in receipts : c \in Receipt /\ c.payload.index \in Index
  BY DEF RInv, TypeOK, Receipt, Payload
<1>3. \A c \in receipts : ReceiptTrue(c, routes)
  BY DEF RInv, ReceiptsStayTrue, ReceiptTrue
<1> QED  BY <1>1, <1>2, <1>3 DEF RInv

(* Rows that only move forward, none of them new, keep their parts of it. *)
LEMMA ForwardKeeps ==
  ASSUME RInv, RowsOK(routes'), Advances(routes, routes'),
         \A i \in Index : routes[i] = NoValue => routes'[i] = NoValue,
         receipts' = receipts
  PROVE  OneRow(routes') /\ ReceiptsStayTrue'
<1>1. /\ RowsOK(routes) /\ OneRow(routes)
      /\ \A c \in receipts : c.payload.index \in Index /\ ReceiptTrue(c, routes)
  BY InvariantRows
<1>2. \A i \in Index : routes'[i] # NoValue =>
        /\ routes[i] # NoValue /\ routes'[i].server = routes[i].server
        /\ routes'[i].token = routes[i].token
  BY DEF Advances, Forward
<1>3. OneRow(routes')  BY <1>1, <1>2 DEF OneRow
<1>4. \A c \in receipts : ReceiptTrue(c, routes')  BY <1>1, AnswerAdvances
<1>5. ReceiptsStayTrue'  BY <1>4 DEF ReceiptsStayTrue, ReceiptTrue
<1> QED  BY <1>3, <1>5

(* A stored receipt has its type. *)
LEMMA ReceiptType ==
  ASSUME RowsOK(routes), NEW p \in Request, NEW n \in Sequence, NEW at \in Nat
  PROVE  /\ ReceiptFor(p, Decision(p, at), n, at) \in Receipt
         /\ ReceiptFor(p, Decision(p, at), n, at).payload = p
         /\ ReceiptFor(p, Decision(p, at), n, at).outcome = Decision(p, at)
<1> DEFINE r == routes[p.index]  d == Decision(p, at)
<1>1. p \in Payload /\ r \in Route \cup {NoValue}
  BY ConstantsAssumption DEF RowsOK, Payload
<1>2. d \in Outcome  BY DecisionFacts
<1>3. p.revision \in Nat /\ (r # NoValue => r.revision \in Nat)  BY <1>1 DEF Payload, Route
<1>4. ReceiptRevision(p, d) \in Nat  BY <1>3 DEF ReceiptRevision, Higher
<1>5. /\ at + ReservationLife \in Nat /\ at + Retention \in Nat
  BY ConstantsAssumption
<1>6. r # NoValue => r.handle \in Sequence \cup {NoValue} /\ r.until \in Nat
  BY <1>1 DEF Route
<1> HIDE DEF d, r
<1>7. /\ ReceiptFor(p, d, n, at) \in Receipt
      /\ ReceiptFor(p, d, n, at).payload = p /\ ReceiptFor(p, d, n, at).outcome = d
  BY <1>1, <1>2, <1>4, <1>5, <1>6 DEF ReceiptFor, Receipt, r
<1> QED  BY <1>7 DEF d

(* A route mutation: at most the row of its request changes, and forward. *)
LEMMA MutateKeeps ==
  ASSUME RInv, MutateAccessRoute
  PROVE  RInv' /\ Advances(routes, routes')
<1>1. PICK p \in Request, n \in Sequence, nonce \in Nonce, at \in Clock :
        Mutate(p, n, nonce, at)
  BY DEF MutateAccessRoute
<1>2. UNCHANGED <<now, resolving, issued, denied>>  BY DEF MutateAccessRoute
<1>3. PICK dropped \in Batches(ExpiredNonces(at)) :
        LET kept == nonces \ dropped IN
        \/ nonces' = kept /\ UNCHANGED <<presence, routes, receipts, replay, grants>>
        \/ /\ nonces' = kept \cup {NonceRow(p.server, nonce, at)}
           /\ replay' = [replay EXCEPT ![p.server] = n]
           /\ \/ /\ receipts' = receipts \cup {ReceiptFor(p, Decision(p, at), n, at)}
                 /\ Apply(p, Decision(p, at), n, at)
              \/ UNCHANGED <<receipts, routes, grants>>
           /\ UNCHANGED presence
  BY <1>1 DEF Mutate
<1>4. at \in Nat  BY ClockType
<1>5. p \in Payload /\ p.server \in Server /\ p.index \in Index
  BY ConstantsAssumption DEF Payload
<1>6. /\ RowsOK(routes) /\ OneRow(routes)
      /\ \A c \in receipts : c \in Receipt /\ c.payload.index \in Index
                            /\ ReceiptTrue(c, routes)
  BY InvariantRows
<1>7. /\ \A x \in nonces' : x.server \in Server /\ x.nonce \in Nonce /\ x.until \in Nat
      /\ replay' \in [Server -> Sequence \cup {NoValue}] /\ presence' = presence
  BY <1>3, <1>4, <1>5, ConstantsAssumption DEF RInv, TypeOK, NonceRow
<1>8. CASE UNCHANGED <<receipts, routes, grants>>
  <2>1. TypeOK'  BY <1>2, <1>7, <1>8 DEF RInv, TypeOK, Live, Resolution
  <2>2. Advances(routes, routes')  BY <1>6, <1>8, ForwardReflexive DEF RowsOK, Advances
  <2> QED
    BY <2>1, <2>2, <1>2, <1>8
    DEF RInv, OneRow, ReceiptsStayTrue, NoGrantOfRevokedRoute, Remembered, Live
<1>9. CASE /\ receipts' = receipts \cup {ReceiptFor(p, Decision(p, at), n, at)}
           /\ Apply(p, Decision(p, at), n, at)
  <2> DEFINE d == Decision(p, at)
             c == ReceiptFor(p, d, n, at)
             new == routes'[p.index]
  <2>1. /\ RowsOK(routes') /\ Advances(routes, routes')
        /\ OnlyNewRow(routes, routes', p)
        /\ \A i \in Index \ {p.index} : routes'[i] = routes[i]
        /\ d \in {"reserved", "active", "revoked"} =>
              /\ new # NoValue /\ new.server = p.server /\ new.token = p.token
              /\ d = "active" => new.state # "reserved"
              /\ d = "revoked" => new.state = "revoked"
        /\ grants' \subseteq grants
        /\ \A g \in grants' : g.index = p.index /\ routes' # routes =>
              new # NoValue /\ new.state # "revoked"
        /\ LiveIn(routes') \subseteq LiveIn(routes) \cup
             (IF d = "reserved" THEN {p.index} ELSE {})
    BY <1>4, <1>6, <1>9, ApplyFacts
  <2>2. /\ d \in {"reserved", "active", "revoked", "expired"} => ~TokenElsewhere(p)
        /\ d = "reserved" => routes[p.index] = NoValue
    BY <1>4, <1>6, DecisionFacts
  <2>3. c \in Receipt /\ c.payload = p /\ c.outcome = d  BY <1>4, <1>6, ReceiptType
  <2>4. d \in Outcome  BY <1>4, <1>6, DecisionFacts
  <2>5. routes[p.index] = NoValue /\ new # NoValue => ~TokenElsewhere(p)
    <3>1. d \in {"conflict", "not_found", "unavailable"} => routes' = routes
      BY <1>9 DEF Apply, d
    <3> QED  BY <3>1, <2>2, <2>4 DEF Outcome
  <2> HIDE DEF d, c
  <2>6. TypeOK'
    BY <1>2, <1>7, <1>9, <2>1, <2>3 DEF RInv, TypeOK, RowsOK, Dated, c, d
  <2>7. OneRow(routes')  BY <1>5, <1>6, <2>1, <2>5, OneRowKept
  <2>8. ReceiptsStayTrue'
    <3>1. \A x \in receipts : ReceiptTrue(x, routes')  BY <1>6, <2>1, AnswerAdvances
    <3>2. ReceiptTrue(c, routes')  BY <2>1, <2>3 DEF ReceiptTrue
    <3> QED  BY <3>1, <3>2, <1>9 DEF ReceiptsStayTrue, ReceiptTrue, c, d
  <2>9. NoGrantOfRevokedRoute'
    <3> SUFFICES ASSUME NEW g \in grants'
                 PROVE  routes'[g.index] # NoValue /\ routes'[g.index].state # "revoked"
      BY DEF NoGrantOfRevokedRoute
    <3>1. g \in grants /\ g.index \in Index  BY <2>1 DEF RInv, TypeOK, Grant
    <3>2. routes[g.index] # NoValue /\ routes[g.index].state # "revoked"
      BY <3>1 DEF RInv, NoGrantOfRevokedRoute
    <3>3. CASE g.index # p.index  BY <3>1, <3>2, <3>3, <2>1
    <3>4. CASE g.index = p.index  BY <3>2, <3>4, <2>1
    <3> QED  BY <3>3, <3>4
  <2>10. Remembered'
    <3> SUFFICES ASSUME NEW i \in denied
                 PROVE  routes'[i] # NoValue /\ ~Live(routes'[i])
      BY <1>2 DEF Remembered, Live
    <3>1. i \in Index /\ routes[i] # NoValue /\ ~Live(routes[i])
      BY DEF RInv, TypeOK, Remembered
    <3>2. i \notin LiveIn(routes')  BY <3>1, <2>1, <2>2 DEF LiveIn
    <3> QED  BY <3>1, <3>2, <2>1 DEF LiveIn, Advances
  <2> QED  BY <2>1, <2>6, <2>7, <2>8, <2>9, <2>10 DEF RInv, OneRow
<1> QED  BY <1>3, <1>8, <1>9

(* The cleanup: rows that lapse, and tombstones no receipt speaks of any more *)
LEMMA CleanupKeeps ==
  ASSUME RInv, CleanupAccessState
  PROVE  RInv' /\ \A i \in Index : routes[i] # NoValue =>
                    MovesForward(routes[i], routes'[i])
<1>1. PICK at \in Clock : CleanupAt(at)  BY DEF CleanupAccessState
<1>2. UNCHANGED <<now, presence, replay, nonces, resolving, issued>>
  BY DEF CleanupAccessState
<1>3. PICK G, E, R, T :
        /\ E \subseteq {i \in Index : routes[i] # NoValue /\ ExpiredRoute(routes[i], at)}
        /\ T \subseteq Tombstones(ExpireRoutes(E, at), receipts \ R, at)
        /\ routes' = [i \in Index |-> IF i \in T THEN NoValue
                                      ELSE ExpireRoutes(E, at)[i]]
        /\ receipts' = receipts \ R
        /\ grants' = {g \in grants \ G : g.index \notin T}
        /\ denied' = denied \ T
  <2>1. PICK G \in Batches({g \in grants : g.until <= at}),
             E \in Batches({i \in Index : routes[i] # NoValue /\ ExpiredRoute(routes[i], at)}),
             R \in Batches({c \in receipts : c.expires <= at}) :
          LET after == ExpireRoutes(E, at) IN
          \E T \in Batches(Tombstones(after, receipts \ R, at)) :
            /\ G # {} \/ E # {} \/ R # {} \/ T # {}
            /\ routes' = [i \in Index |-> IF i \in T THEN NoValue ELSE after[i]]
            /\ receipts' = receipts \ R
            /\ grants' = {g \in grants \ G : g.index \notin T}
            /\ denied' = denied \ T
    BY <1>1 DEF CleanupAt
  <2>2. PICK T \in Batches(Tombstones(ExpireRoutes(E, at), receipts \ R, at)) :
          /\ routes' = [i \in Index |-> IF i \in T THEN NoValue
                                        ELSE ExpireRoutes(E, at)[i]]
          /\ receipts' = receipts \ R
          /\ grants' = {g \in grants \ G : g.index \notin T}
          /\ denied' = denied \ T
    BY <2>1
  <2>3. /\ E \subseteq {i \in Index : routes[i] # NoValue /\ ExpiredRoute(routes[i], at)}
        /\ T \subseteq Tombstones(ExpireRoutes(E, at), receipts \ R, at)
    BY BatchesAreSubsets
  <2> QED  BY <2>2, <2>3, Zenon
<1> DEFINE after == ExpireRoutes(E, at)
<1>4. at \in Nat /\ at <= now + MaxSkew  BY ClockType
<1>5. /\ RowsOK(routes) /\ OneRow(routes)
      /\ \A c \in receipts : c \in Receipt /\ c.payload.index \in Index
                            /\ ReceiptTrue(c, routes)
  BY InvariantRows
<1>6. E \in SUBSET Index /\ \A i \in E : Live(routes[i])
  BY <1>3, <1>4, <1>5, LapsedWasLive DEF RowsOK
<1>7. /\ RowsOK(after) /\ Advances(routes, after)
      /\ \A i \in Index : routes[i] = NoValue => after[i] = NoValue
      /\ \A i \in Index : after[i] # NoValue /\ after[i].state = "revoked" =>
           routes[i].state = "revoked"
      /\ \A i \in E : after[i] # NoValue /\ ~Live(after[i])
      /\ \A i \in Index \ E : after[i] = routes[i]
  BY <1>4, <1>5, <1>6, ExpireFacts
<1>8. T \subseteq Index /\ \A i \in T : /\ after[i] # NoValue /\ ~Live(after[i])
                                      /\ after[i].revokedAt <= at - Retention
                                      /\ ~HasReceipt(after[i], receipts')
  BY <1>3 DEF Tombstones
<1>9. \A i \in Index : routes'[i] = IF i \in T THEN NoValue ELSE after[i]
  BY <1>3
<1>10. routes' \in [Index -> Route \cup {NoValue}]
  BY <1>3, <1>7 DEF RowsOK
<1> HIDE DEF after
<1>11. RowsOK(routes')  BY <1>7, <1>9, <1>10 DEF RowsOK, Dated
<1>12. TypeOK'
  <2>1. /\ \A c \in receipts' : c \in Receipt
        /\ \A g \in grants' : g \in Grant
        /\ denied' \subseteq Index
    BY <1>3 DEF RInv, TypeOK
  <2> QED  BY <2>1, <1>2, <1>11 DEF RInv, TypeOK, RowsOK, Dated
<1>13. OneRow(routes')
  <2>1. \A i \in Index : routes'[i] # NoValue =>
          /\ routes[i] # NoValue /\ routes'[i].server = routes[i].server
          /\ routes'[i].token = routes[i].token
    BY <1>7, <1>9 DEF Advances, Forward
  <2> QED  BY <2>1, <1>5 DEF OneRow
<1>14. ReceiptsStayTrue'
  <2> SUFFICES ASSUME NEW c \in receipts'
               PROVE  ReceiptTrue(c, routes')
    BY DEF ReceiptsStayTrue, ReceiptTrue
  <2>1. c \in receipts /\ c.payload.index \in Index /\ ReceiptTrue(c, routes)
    BY <1>3, <1>5
  <2>2. ReceiptTrue(c, after)  BY <2>1, <1>5, <1>7, AnswerAdvances
  <2>3. CASE c.payload.index \notin T
    <3>1. routes'[c.payload.index] = after[c.payload.index]  BY <2>1, <2>3, <1>9
    <3> QED  BY <2>2, <3>1 DEF ReceiptTrue
  <2>4. CASE c.payload.index \in T
    <3>1. c.outcome \notin {"reserved", "active", "revoked"}
      BY <2>2, <2>4, <1>8 DEF ReceiptTrue, HasReceipt
    <3> QED  BY <3>1 DEF ReceiptTrue
  <2> QED  BY <2>3, <2>4
<1>15. NoGrantOfRevokedRoute'
  <2> SUFFICES ASSUME NEW g \in grants'
               PROVE  routes'[g.index] # NoValue /\ routes'[g.index].state # "revoked"
    BY DEF NoGrantOfRevokedRoute
  <2>1. g \in grants /\ g.index \in Index /\ g.index \notin T
    BY <1>3 DEF RInv, TypeOK, Grant
  <2>2. routes[g.index] # NoValue /\ routes[g.index].state # "revoked"
    BY <2>1 DEF RInv, NoGrantOfRevokedRoute
  <2> QED  BY <2>1, <2>2, <1>7, <1>9 DEF Advances
<1>16. Remembered'
  <2> SUFFICES ASSUME NEW i \in denied'
               PROVE  routes'[i] # NoValue /\ ~Live(routes'[i])
    BY DEF Remembered, Live
  <2>1. i \in Index /\ i \notin T /\ routes[i] # NoValue /\ ~Live(routes[i])
    BY <1>3 DEF RInv, TypeOK, Remembered
  <2>2. after[i] = routes[i]  BY <2>1, <1>6, <1>7
  <2> QED  BY <2>1, <2>2, <1>9
<1>17. ASSUME NEW i \in Index, routes[i] # NoValue
       PROVE  MovesForward(routes[i], routes'[i])
  <2>1. CASE i \notin T
    BY <2>1, <1>7, <1>9, <1>17 DEF Advances, MovesForward
  <2>2. CASE i \in T
    <3>1. routes'[i] = NoValue  BY <2>2, <1>9
    <3>2. ~Live(after[i]) /\ after[i].revokedAt <= at - Retention /\ after[i] \in Route
      BY <2>2, <1>7, <1>8 DEF RowsOK
    <3>3. i \notin E
      <4> SUFFICES ASSUME i \in E PROVE FALSE  OBVIOUS
      <4>1. after[i].revokedAt = at  BY <1>17, <1>5 DEF ExpireRoutes, RowsOK, Route, after
      <4>2. Retention \in Nat /\ Retention > 0  BY ConstantsAssumption
      <4> QED  BY <4>1, <4>2, <3>2, <1>4
    <3>4. after[i] = routes[i]  BY <3>3, <1>7
    <3>5. after[i].revokedAt \in Nat
      BY <2>2, <3>2, <1>7, <1>8, ConstantsAssumption DEF RowsOK, Dated, Route
    <3>6. now \in Nat /\ MaxSkew \in Nat /\ Retention \in Nat
      <4>1. now \in 0..MaxTime  BY DEF RInv, TypeOK
      <4>2. MaxTime \in Nat /\ MaxSkew \in Nat /\ Retention \in Nat  BY ConstantsAssumption
      <4> QED  BY <4>1, <4>2
    <3>7. routes[i].revokedAt + Retention <= now + MaxSkew
      BY <3>2, <3>4, <3>5, <3>6, <1>4
    <3> QED  BY <3>1, <3>2, <3>4, <3>7 DEF MovesForward
  <2> QED  BY <2>1, <2>2
<1> QED  BY <1>12, <1>13, <1>14, <1>15, <1>16, <1>17 DEF RInv, OneRow

(* Observing expiry and then issuing or redeeming, or neither: what matters   *)
(* of the grants is that a new one is of a row in use, an old one of its own. *)
LEMMA ObserveKeeps ==
  ASSUME RInv, NEW at \in Nat, NEW I \in SUBSET Index, ObserveExpiry(I, at),
         UNCHANGED <<now, presence, receipts, replay, nonces>>,
         \A g \in grants' : g \in Grant, \A q \in resolving' : q \in Resolution,
         issued' \in 0..MaxIssued,
         \A g \in grants' : (\E h \in grants : h.index = g.index)
                           \/ RouteUsable(g.index, at)
  PROVE  RInv' /\ Advances(routes, routes')
<1>1. RowsOK(routes)  BY InvariantRows
<1>2. /\ RowsOK(routes') /\ Advances(routes, routes')
      /\ \A i \in Index : routes[i] = NoValue => routes'[i] = NoValue
      /\ \A i \in Index : routes'[i] # NoValue /\ routes'[i].state = "revoked" =>
           routes[i].state = "revoked"
      /\ denied' \subseteq denied \cup Index
      /\ \A i \in denied' \ denied : routes'[i] # NoValue /\ ~Live(routes'[i])
  BY <1>1, ObserveFacts
<1>3. denied' \subseteq Index  BY <1>2 DEF RInv, TypeOK
<1>4. TypeOK'  BY <1>2, <1>3 DEF RInv, TypeOK, RowsOK, Dated
<1>5. OneRow(routes') /\ ReceiptsStayTrue'  BY <1>2, ForwardKeeps
<1>6. NoGrantOfRevokedRoute'
  <2> SUFFICES ASSUME NEW g \in grants'
               PROVE  routes'[g.index] # NoValue /\ routes'[g.index].state # "revoked"
    BY DEF NoGrantOfRevokedRoute
  <2>1. g.index \in Index  BY DEF Grant
  <2>2. routes[g.index] # NoValue /\ routes[g.index].state # "revoked"
    BY DEF RInv, NoGrantOfRevokedRoute, RouteUsable
  <2> QED  BY <2>1, <2>2, <1>2 DEF Advances
<1>7. Remembered'
  <2> SUFFICES ASSUME NEW i \in denied'
               PROVE  routes'[i] # NoValue /\ ~Live(routes'[i])
    BY DEF Remembered, Live
  <2>1. CASE i \notin denied  BY <2>1, <1>2
  <2>2. CASE i \in denied
    <3>1. i \in Index /\ routes[i] # NoValue /\ ~Live(routes[i])
      BY <2>2 DEF RInv, TypeOK, Remembered
    <3>2. routes'[i] # NoValue /\ Forward(routes[i], routes'[i])
      BY <3>1, <1>2 DEF Advances
    <3>3. routes[i] \in Route /\ routes'[i] \in Route
      BY <3>1, <3>2, <1>1, <1>2 DEF RowsOK
    <3> QED  BY <3>1, <3>2, <3>3 DEF Forward, Rank, Live, Route
  <2> QED  BY <2>1, <2>2
<1> QED  BY <1>2, <1>4, <1>5, <1>6, <1>7 DEF RInv, OneRow

(* Starting a resolution *)
LEMMA ResolveKeeps ==
  ASSUME RInv, NEW i \in Index, NEW at \in Clock, Resolve(i, at)
  PROVE  RInv' /\ Advances(routes, routes')
<1>1. at \in Nat  BY ClockType
<1>2. ObserveExpiry({i}, at) /\ {i} \in SUBSET Index  BY DEF Resolve
<1>3. UNCHANGED <<now, presence, receipts, replay, nonces, grants, issued>>
  BY DEF Resolve
<1>4. \A q \in resolving' : q \in Resolution
  BY <1>1 DEF Resolve, RInv, TypeOK, Resolution
<1>5. /\ \A g \in grants' : g \in Grant /\ \E h \in grants : h.index = g.index
      /\ issued' \in 0..MaxIssued
  BY <1>3 DEF RInv, TypeOK
<1> QED  BY <1>1, <1>2, <1>3, <1>4, <1>5, ObserveKeeps

(* Issuing a grant: the row it is for is in use when it is issued. *)
LEMMA IssueKeeps ==
  ASSUME RInv, NEW q \in resolving, IssueAccessGrant(q)
  PROVE  RInv' /\ Advances(routes, routes')
<1>1. q.at \in Nat /\ q.index \in Index /\ q.gen \in Generation /\ q \in Resolution
  BY DEF RInv, TypeOK, Resolution, IssueAccessGrant
<1>2. ObserveExpiry({q.index}, q.at) /\ {q.index} \in SUBSET Index
  BY <1>1 DEF IssueAccessGrant
<1>3. UNCHANGED <<now, presence, receipts, replay, nonces>> /\ resolving' = resolving \ {q}
  BY DEF IssueAccessGrant
<1>4. \A x \in resolving' : x \in Resolution  BY <1>3 DEF RInv, TypeOK
<1>5. PICK G \in Batches({g \in grants : g.until <= q.at}) :
        \/ /\ GrantAllowed(q, grants \ G) /\ issued < MaxIssued
           /\ issued' = issued + 1
           /\ grants' = (grants \ G) \cup
                {[tag |-> issued + 1, index |-> q.index, server |-> routes[q.index].server,
                  revision |-> routes[q.index].revision, gen |-> q.gen,
                  until |-> q.at + GrantLife, redeemed |-> NoValue]}
        \/ ~GrantAllowed(q, grants \ G) /\ grants' = grants \ G /\ UNCHANGED issued
  BY DEF IssueAccessGrant
<1>6. CASE ~GrantAllowed(q, grants \ G) /\ grants' = grants \ G /\ UNCHANGED issued
  <2>1. /\ \A g \in grants' : g \in Grant /\ \E h \in grants : h.index = g.index
        /\ issued' \in 0..MaxIssued
    BY <1>6 DEF RInv, TypeOK
  <2> QED  BY <1>1, <1>2, <1>3, <1>4, <2>1, ObserveKeeps
<1>7. CASE /\ GrantAllowed(q, grants \ G) /\ issued < MaxIssued
           /\ issued' = issued + 1
           /\ grants' = (grants \ G) \cup
                {[tag |-> issued + 1, index |-> q.index, server |-> routes[q.index].server,
                  revision |-> routes[q.index].revision, gen |-> q.gen,
                  until |-> q.at + GrantLife, redeemed |-> NoValue]}
  <2> DEFINE new == [tag |-> issued + 1, index |-> q.index,
                     server |-> routes[q.index].server,
                     revision |-> routes[q.index].revision, gen |-> q.gen,
                     until |-> q.at + GrantLife, redeemed |-> NoValue]
  <2>1. RouteUsable(q.index, q.at)  BY <1>7 DEF GrantAllowed, Eligible
  <2>2. routes[q.index] \in Route
    BY <1>1, <2>1, InvariantRows DEF RouteUsable, RowsOK
  <2>3. issued \in Nat /\ issued + 1 \in 0..MaxIssued /\ GrantLife \in Nat
    <3>1. issued \in 0..MaxIssued  BY DEF RInv, TypeOK
    <3>2. MaxIssued \in Nat /\ GrantLife \in Nat  BY ConstantsAssumption
    <3> QED  BY <3>1, <3>2, <1>7
  <2>4. new \in Grant /\ new.index = q.index
    BY <1>1, <2>2, <2>3 DEF Grant, Route
  <2>5. grants' = (grants \ G) \cup {new}  BY <1>7
  <2> HIDE DEF new
  <2>6. \A g \in grants' : /\ g \in Grant
                          /\ \/ \E h \in grants : h.index = g.index
                             \/ RouteUsable(g.index, q.at)
    BY <2>1, <2>4, <2>5 DEF RInv, TypeOK
  <2>7. issued' \in 0..MaxIssued  BY <1>7, <2>3
  <2> QED  BY <1>1, <1>2, <1>3, <1>4, <2>6, <2>7, ObserveKeeps
<1> QED  BY <1>5, <1>6, <1>7

(* Redeeming a grant leaves its row's identity. *)
LEMMA RedeemKeeps ==
  ASSUME RInv, NEW g \in grants, NEW id \in Redemption, NEW at \in Clock,
         RedeemAccessGrant(g, id, at)
  PROVE  RInv' /\ Advances(routes, routes')
<1>1. at \in Nat /\ g \in Grant /\ g.index \in Index
  BY ClockType DEF RInv, TypeOK, Grant
<1>2. ObserveExpiry({g.index}, at) /\ {g.index} \in SUBSET Index
  BY <1>1 DEF RedeemAccessGrant
<1>3. UNCHANGED <<now, presence, receipts, replay, nonces, resolving, issued>>
  BY DEF RedeemAccessGrant
<1>4. grants' \subseteq grants \cup {[g EXCEPT !.redeemed = id]}
  BY DEF RedeemAccessGrant
<1>5. [g EXCEPT !.redeemed = id] \in Grant /\ [g EXCEPT !.redeemed = id].index = g.index
  BY <1>1 DEF Grant
<1>6. \A h \in grants' : h \in Grant /\ \E x \in grants : x.index = h.index
  BY <1>4, <1>5 DEF RInv, TypeOK
<1>7. (\A q \in resolving' : q \in Resolution) /\ issued' \in 0..MaxIssued
  BY <1>3 DEF RInv, TypeOK
<1> QED  BY <1>1, <1>2, <1>3, <1>6, <1>7, ObserveKeeps

(* The steps that leave routes, receipts, grants and denials alone *)
LEMMA ElsewhereKeeps ==
  ASSUME RInv, UNCHANGED <<routes, receipts, grants, denied>>,
         now' \in 0..MaxTime, presence' \in [Server -> Presence \cup {NoValue}],
         replay' \in [Server -> Sequence \cup {NoValue}],
         \A x \in nonces' : x.server \in Server /\ x.nonce \in Nonce /\ x.until \in Nat,
         \A q \in resolving' : q \in Resolution, issued' \in 0..MaxIssued
  PROVE  RInv'
<1>1. TypeOK'  BY DEF RInv, TypeOK, Live
<1> QED  BY <1>1 DEF RInv, OneRow, ReceiptsStayTrue, NoGrantOfRevokedRoute, Remembered, Live

(* Publication *)
LEMMA PublicationKeeps ==
  ASSUME RInv, Publication
  PROVE  RInv' /\ UNCHANGED routes
<1>1. PICK s \in Server, n \in Sequence, nonce \in Nonce, at \in Clock :
        Publish(s, n, nonce, at)
  BY DEF Publication
<1>2. UNCHANGED <<now, routes, receipts, grants, resolving, issued, denied>>
  BY DEF Publication
<1>3. PICK dropped \in Batches(ExpiredNonces(at)), g \in Generation, required \in BOOLEAN :
        /\ replay' = [replay EXCEPT ![s] = n]
        /\ nonces' = (nonces \ dropped) \cup {NonceRow(s, nonce, at)}
        /\ presence' = [presence EXCEPT ![s] = [seen |-> at, gen |-> g, required |-> required]]
  BY <1>1 DEF Publish
<1>4. at \in Nat /\ NonceLife \in Nat  BY ClockType, ConstantsAssumption
<1>5. [seen |-> at, gen |-> g, required |-> required] \in Presence  BY <1>4 DEF Presence
<1>6. NonceRow(s, nonce, at).until \in Nat  BY <1>4 DEF NonceRow
<1>7. /\ presence' \in [Server -> Presence \cup {NoValue}]
      /\ replay' \in [Server -> Sequence \cup {NoValue}]
      /\ \A x \in nonces' : x.server \in Server /\ x.nonce \in Nonce /\ x.until \in Nat
  BY <1>3, <1>5, <1>6 DEF RInv, TypeOK, NonceRow
<1>8. /\ now' \in 0..MaxTime /\ (\A q \in resolving' : q \in Resolution)
      /\ issued' \in 0..MaxIssued
  BY <1>2 DEF RInv, TypeOK
<1> QED  BY <1>2, <1>7, <1>8, ElsewhereKeeps

(* The reads of a resolution, presence expiry, nonce cleanup and time *)
LEMMA QuietKeeps ==
  ASSUME RInv,
         \/ \E q \in resolving : ReadTarget(q) \/ Refuse(q)
         \/ \E s \in Server : PresenceExpires(s)
         \/ \E at \in Clock : NoncesExpire(at)
         \/ Tick
         \/ UNCHANGED vars
  PROVE  RInv' /\ UNCHANGED routes
<1>1. ASSUME NEW q \in resolving, ReadTarget(q)
      PROVE  RInv' /\ UNCHANGED routes
  <2>1. RouteUsable(q.index, q.at) /\ TargetReady(routes[q.index].server, q.at)
    BY <1>1 DEF ReadTarget, Eligible
  <2>2. q \in Resolution /\ q.index \in Index  BY DEF RInv, TypeOK, Resolution
  <2>3. routes[q.index].server \in Server
    BY <2>1, <2>2 DEF RInv, TypeOK, RouteUsable, Route
  <2>4. presence[routes[q.index].server].gen \in Generation
    BY <2>1, <2>3 DEF RInv, TypeOK, TargetReady, Fresh, Presence
  <2>5. [q EXCEPT !.gen = presence[routes[q.index].server].gen] \in Resolution
    BY <2>2, <2>4 DEF Resolution
  <2>6. resolving' = (resolving \ {q}) \cup
          {[q EXCEPT !.gen = presence[routes[q.index].server].gen]}
    BY <1>1 DEF ReadTarget
  <2>7. \A x \in resolving' : x \in Resolution  BY <2>5, <2>6 DEF RInv, TypeOK
  <2>8. UNCHANGED <<now, d1Vars, issued, denied>>  BY <1>1 DEF ReadTarget
  <2> QED  BY <2>7, <2>8, ElsewhereKeeps DEF d1Vars, RInv, TypeOK
<1>2. ASSUME NEW q \in resolving, Refuse(q)
      PROVE  RInv' /\ UNCHANGED routes
  <2>1. resolving' \subseteq resolving /\ UNCHANGED <<now, d1Vars, issued, denied>>
    BY <1>2 DEF Refuse
  <2> QED  BY <2>1, ElsewhereKeeps DEF d1Vars, RInv, TypeOK
<1>3. ASSUME NEW s \in Server, PresenceExpires(s)
      PROVE  RInv' /\ UNCHANGED routes
  <2>1. presence' = [presence EXCEPT ![s] = NoValue]  BY <1>3 DEF PresenceExpires
  <2>2. UNCHANGED <<now, routes, receipts, replay, nonces, grants, resolving, issued, denied>>
    BY <1>3 DEF PresenceExpires
  <2> QED  BY <2>1, <2>2, ElsewhereKeeps DEF RInv, TypeOK
<1>4. ASSUME NEW at \in Clock, NoncesExpire(at)
      PROVE  RInv' /\ UNCHANGED routes
  <2>1. nonces' \subseteq nonces
    BY <1>4 DEF NoncesExpire
  <2>2. UNCHANGED <<now, presence, routes, receipts, replay, grants, resolving, issued, denied>>
    BY <1>4 DEF NoncesExpire
  <2> QED  BY <2>1, <2>2, ElsewhereKeeps DEF RInv, TypeOK
<1>5. ASSUME Tick
      PROVE  RInv' /\ UNCHANGED routes
  <2>1. now \in 0..MaxTime /\ MaxTime \in Nat  BY ConstantsAssumption DEF RInv, TypeOK
  <2>2. now' \in 0..MaxTime /\ UNCHANGED <<d1Vars, resolving, issued, denied>>
    BY <1>5, <2>1 DEF Tick
  <2> QED  BY <2>2, ElsewhereKeeps DEF d1Vars, RInv, TypeOK
<1>6. ASSUME UNCHANGED vars
      PROVE  RInv' /\ UNCHANGED routes
  BY <1>6, ElsewhereKeeps DEF vars, d1Vars, RInv, TypeOK
<1> QED  BY <1>1, <1>2, <1>3, <1>4, <1>5, <1>6

-----------------------------------------------------------------------------
(* Theorems                                                                   *)

(* No row, receipt or grant: the invariant holds. *)
LEMMA InitRoutes == Init => RInv
<1> SUFFICES ASSUME Init PROVE RInv  OBVIOUS
<1>1. TypeOK
  <2>1. MaxTime \in Nat /\ MaxIssued \in Nat  BY ConstantsAssumption
  <2> QED  BY <2>1 DEF Init, TypeOK
<1>2. /\ OneRow(routes) /\ ReceiptsStayTrue /\ NoGrantOfRevokedRoute /\ Remembered
  BY DEF Init, OneRow, ReceiptsStayTrue, NoGrantOfRevokedRoute, Remembered
<1> QED  BY <1>1, <1>2 DEF RInv

(* Rows that only advance move forward. *)
LEMMA AdvancesMove ==
  Advances(routes, routes') => \A i \in Index : routes[i] # NoValue =>
                                 MovesForward(routes[i], routes'[i])
BY DEF Advances, MovesForward

(* A step keeps the invariant, and the rows move forward. *)
LEMMA StepRoutes ==
  RInv /\ [Next]_vars =>
    RInv' /\ \A i \in Index : routes[i] # NoValue => MovesForward(routes[i], routes'[i])
<1> SUFFICES ASSUME RInv, [Next]_vars
             PROVE  RInv' /\ \A i \in Index : routes[i] # NoValue =>
                                MovesForward(routes[i], routes'[i])
  OBVIOUS
<1>1. CASE MutateAccessRoute  BY <1>1, MutateKeeps, AdvancesMove
<1>2. CASE CleanupAccessState  BY <1>2, CleanupKeeps
<1>3. ASSUME NEW i \in Index, NEW at \in Clock, Resolve(i, at)
      PROVE  RInv' /\ Advances(routes, routes')
  BY <1>3, ResolveKeeps
<1>4. ASSUME NEW q \in resolving, IssueAccessGrant(q)
      PROVE  RInv' /\ Advances(routes, routes')
  BY <1>4, IssueKeeps
<1>5. ASSUME NEW g \in grants, NEW id \in Redemption, NEW at \in Clock,
             RedeemAccessGrant(g, id, at)
      PROVE  RInv' /\ Advances(routes, routes')
  BY <1>5, RedeemKeeps
<1>6. ASSUME RInv' /\ UNCHANGED routes
      PROVE  RInv' /\ Advances(routes, routes')
  BY <1>6, InvariantRows, ForwardReflexive DEF Advances, RowsOK
<1>7. CASE \/ Publication
           \/ \E q \in resolving : ReadTarget(q) \/ Refuse(q)
           \/ \E s \in Server : PresenceExpires(s)
           \/ \E at \in Clock : NoncesExpire(at)
           \/ Tick
           \/ UNCHANGED vars
  BY <1>6, <1>7, PublicationKeeps, QuietKeeps, AdvancesMove
<1> QED  BY <1>1, <1>2, <1>3, <1>4, <1>5, <1>7, AdvancesMove DEF Next

(* The inductive invariant holds in every behavior. *)
LEMMA RoutesInvariant == Spec => []RInv
BY InitRoutes, StepRoutes, PTL DEF Spec

(* The variables have their types in every behavior, and a row is dated       *)
(* exactly when it is over, as the CHECK of access_routes demands.            *)
THEOREM RoutesTypeCorrect == Spec => []TypeOK
<1>1. RInv => TypeOK  BY DEF RInv
<1> QED  BY <1>1, RoutesInvariant, PTL

(* A stored answer stays true as long as it is stored. *)
THEOREM AnswersStayTrue == Spec => []ReceiptsStayTrue
<1>1. RInv => ReceiptsStayTrue  BY DEF RInv
<1> QED  BY <1>1, RoutesInvariant, PTL

(* No grant outlives the revocation of its route. *)
THEOREM RevocationWins == Spec => []NoGrantOfRevokedRoute
<1>1. RInv => NoGrantOfRevokedRoute  BY DEF RInv
<1> QED  BY <1>1, RoutesInvariant, PTL

(* An observed expiry is final, whatever the clocks of the workers show. *)
THEOREM ExpiryIsFinal == Spec => []ObservedExpiry
<1>1. RInv => ObservedExpiry  BY DEF RInv, ObservedExpiry, Remembered
<1> QED  BY <1>1, RoutesInvariant, PTL

(* A row never goes back: no activation, retry or cleanup revives it. *)
THEOREM RoutesMoveForward == Spec => RouteOnlyMovesForward
<1>1. RInv /\ [Next]_vars =>
        [\A i \in Index : routes[i] # NoValue => MovesForward(routes[i], routes'[i])]_vars
  BY StepRoutes
<1> QED  BY <1>1, RoutesInvariant, PTL DEF Spec, RouteOnlyMovesForward

-----------------------------------------------------------------------------
(* One effect per request                                                     *)

(* The receipt c is new, of a request that had none, and says what row i became. *)
NewReceipt(i, c) ==
  /\ c \in receipts' \ receipts /\ c.payload.index = i /\ c.outcome = routes'[i].state
  /\ ~\E d \in receipts : SameRequest(d, c.payload)

(* Rows that are dropped, expire or stay show no effect. *)
LEMMA NoEffect ==
  ASSUME NEW i \in Index, NEW E, NEW at,
         routes'[i] \in {NoValue, routes[i], ExpireRoutes(E, at)[i]}, RowsOK(routes),
         i \in E => routes[i] # NoValue
  PROVE  ~Effect(routes[i], routes'[i])
<1>1. CASE routes'[i] \in {NoValue, routes[i]}  BY <1>1 DEF Effect
<1>2. CASE routes'[i] = ExpireRoutes(E, at)[i] /\ i \notin E
  BY <1>2 DEF Effect, ExpireRoutes
<1>3. CASE routes'[i] = ExpireRoutes(E, at)[i] /\ i \in E
  <2>1. routes'[i] = [routes[i] EXCEPT !.state = "expired", !.revokedAt = at]
    BY <1>3 DEF ExpireRoutes
  <2>2. routes[i] \in Route  BY <1>3 DEF RowsOK
  <2>3. routes'[i].state = "expired"  BY <2>1, <2>2 DEF Route
  <2> QED  BY <2>3 DEF Effect
<1> QED  BY <1>1, <1>2, <1>3

(* The decision that changes a row's state is the outcome in the new receipt. *)
LEMMA EffectIsRecorded ==
  ASSUME RInv, MutateAccessRoute, NEW i \in Index, Effect(routes[i], routes'[i])
  PROVE  \E c : NewReceipt(i, c)
<1>1. PICK p \in Request, n \in Sequence, nonce \in Nonce, at \in Clock :
        Mutate(p, n, nonce, at)
  BY DEF MutateAccessRoute
<1>2. at \in Nat /\ RowsOK(routes)  BY ClockType, InvariantRows
<1>3. p.index \in Index  BY ConstantsAssumption DEF Payload
<1> DEFINE d == Decision(p, at)
           c == ReceiptFor(p, d, n, at)
<1>4. routes' # routes  BY DEF Effect
<1>5. /\ Recorded(p, at) /\ Apply(p, d, n, at) /\ receipts' = receipts \cup {c}
  BY <1>1, <1>4 DEF Mutate
<1>6. ~\E x \in receipts : SameRequest(x, p)  BY <1>5 DEF Recorded, Unanswered, Answered
<1>7. c.payload = p /\ c.outcome = d  BY <1>2, ReceiptType
<1> HIDE DEF c
<1>8. c \in receipts' \ receipts  BY <1>5, <1>6, <1>7 DEF SameRequest
<1>9. i = p.index /\ (\A j \in Index \ {p.index} : routes'[j] = routes[j])
  <2>1. \A j \in Index \ {p.index} : routes'[j] = routes[j]  BY <1>2, <1>5, ApplyFacts
  <2> QED  BY <2>1 DEF Effect
<1>10. routes[i] = NoValue \/ routes[i] \in Route  BY <1>2 DEF RowsOK
<1>11. DOMAIN routes = Index  BY <1>2 DEF RowsOK
<1>12. d = routes'[i].state
  <2>1. CASE d = "reserved"  BY <2>1, <1>3, <1>5, <1>9, <1>11 DEF Apply, d
  <2>2. CASE d = "active"
    <3>1. routes[i] # NoValue  BY <2>2, <1>2, <1>9, DecisionFacts DEF d
    <3>2. routes'[i] = [routes[i] EXCEPT !.state = "active"]
      BY <2>2, <1>3, <1>5, <1>9, <1>11 DEF Apply
    <3> QED  BY <2>2, <3>1, <3>2, <1>10 DEF Route
  <2>3. CASE d = "revoked"
    <3>1. p.op = "revoke" /\ routes' = [routes EXCEPT ![p.index] = RevokedRow(p, at)]
      BY <2>3, <1>4, <1>5 DEF Apply
    <3>2. RevokedRow(p, at).state = "revoked"  BY <1>2, RevokedRowFacts
    <3> QED  BY <2>3, <3>1, <3>2, <1>3, <1>9, <1>11
  <2>4. CASE d = "expired"
    <3>1. Live(routes[i]) /\ routes' =
            [routes EXCEPT ![p.index].state = "expired", ![p.index].revokedAt = at]
      BY <2>4, <1>4, <1>5, <1>9 DEF Apply
    <3>2. routes[i] \in Route  BY <3>1, <1>10 DEF Live
    <3>3. routes'[i].state = "expired"  BY <3>1, <3>2, <1>3, <1>9, <1>11 DEF Route
    <3> QED  BY <3>3 DEF Effect
  <2> HIDE DEF d
  <2>5. CASE d \in {"conflict", "not_found", "unavailable"}  BY <2>5, <1>4, <1>5 DEF Apply
  <2>6. d \in Outcome  BY <1>2, DecisionFacts DEF d
  <2> QED  BY <2>1, <2>2, <2>3, <2>4, <2>5, <2>6 DEF Outcome
<1>13. NewReceipt(i, c)  BY <1>6, <1>7, <1>8, <1>9, <1>12 DEF NewReceipt
<1> QED  BY <1>13

(* A retry changes nothing: a route is reserved, activated or revoked only by  *)
(* a request that had no receipt, in the batch that stores it.                 *)
THEOREM RetriesChangeNothing == Spec => OneEffectPerRequest
<1>1. ASSUME RInv, [Next]_vars, NEW i \in Index, Effect(routes[i], routes'[i])
      PROVE  \E c : NewReceipt(i, c)
  <2>1. RowsOK(routes)  BY <1>1, InvariantRows
  <2>2. CASE MutateAccessRoute  BY <2>2, <1>1, EffectIsRecorded
  <2>3. CASE CleanupAccessState
    <3>1. PICK at \in Clock : CleanupAt(at)  BY <2>3 DEF CleanupAccessState
    <3>2. PICK E \in Batches({j \in Index : routes[j] # NoValue /\ ExpiredRoute(routes[j], at)}) :
            \E T : routes' = [j \in Index |-> IF j \in T THEN NoValue ELSE ExpireRoutes(E, at)[j]]
      BY <3>1 DEF CleanupAt
    <3>3. i \in E => routes[i] # NoValue  BY <3>2, BatchesAreSubsets
    <3>4. routes'[i] \in {NoValue, ExpireRoutes(E, at)[i]}  BY <3>2
    <3> QED  BY <1>1, <2>1, <3>3, <3>4, NoEffect
  <2>4. ASSUME NEW I \in SUBSET Index, NEW at, ObserveExpiry(I, at)  PROVE FALSE
    <3> DEFINE E == {j \in I : /\ routes[j] # NoValue /\ routes[j].state = "active"
                               /\ Past(routes[j].expires, at)}
    <3>1. routes' = ExpireRoutes(E, at)  BY <2>4 DEF ObserveExpiry, RememberExpiry
    <3>2. i \in E => routes[i] # NoValue  OBVIOUS
    <3> HIDE DEF E
    <3>3. routes'[i] = ExpireRoutes(E, at)[i]  BY <3>1
    <3> QED  BY <1>1, <2>1, <3>2, <3>3, NoEffect
  <2>5. ASSUME NEW j \in Index, NEW at \in Clock, Resolve(j, at)  PROVE FALSE
    BY <2>4, <2>5 DEF Resolve
  <2>6. ASSUME NEW q \in resolving, IssueAccessGrant(q)  PROVE FALSE
    <3>1. q.index \in Index  BY <1>1 DEF RInv, TypeOK, Resolution
    <3> QED  BY <2>4, <2>6, <3>1 DEF IssueAccessGrant
  <2>7. ASSUME NEW g \in grants, NEW id \in Redemption, NEW at \in Clock,
               RedeemAccessGrant(g, id, at)  PROVE FALSE
    <3>1. g.index \in Index  BY <1>1 DEF RInv, TypeOK, Grant
    <3> QED  BY <2>4, <2>7, <3>1 DEF RedeemAccessGrant
  <2>8. CASE \/ Publication
             \/ \E q \in resolving : ReadTarget(q) \/ Refuse(q)
             \/ \E s \in Server : PresenceExpires(s)
             \/ \E at \in Clock : NoncesExpire(at)
             \/ Tick
             \/ UNCHANGED vars
    <3>1. UNCHANGED routes  BY <2>8, <1>1, PublicationKeeps, QuietKeeps
    <3> QED  BY <3>1, <1>1 DEF Effect
  <2> QED  BY <1>1, <2>2, <2>3, <2>5, <2>6, <2>7, <2>8 DEF Next
<1>2. RInv /\ [Next]_vars =>
        [\A i \in Index : Effect(routes[i], routes'[i]) =>
           \E c \in receipts' \ receipts :
             /\ c.payload.index = i /\ c.outcome = routes'[i].state
             /\ ~\E d \in receipts : SameRequest(d, c.payload)]_vars
  BY <1>1 DEF NewReceipt
<1> QED  BY <1>2, RoutesInvariant, PTL DEF Spec, OneEffectPerRequest

-----------------------------------------------------------------------------
(* Cardinalities                                                              *)

(* A set that gains at most one element grows by at most one. *)
LEMMA GainsOne ==
  ASSUME NEW S, IsFiniteSet(S), NEW x, NEW T, T \subseteq S \cup {x}
  PROVE  IsFiniteSet(T) /\ Cardinality(T) \in Nat /\ Cardinality(T) <= Cardinality(S) + 1
<1>a. Cardinality(S) \in Nat  BY FS_CardinalityType
<1>b. /\ IsFiniteSet(S \cup {x})
      /\ Cardinality(S \cup {x}) = IF x \in S THEN Cardinality(S) ELSE Cardinality(S) + 1
  BY FS_AddElement
<1>1. IsFiniteSet(S \cup {x}) /\ Cardinality(S) \in Nat
      /\ Cardinality(S \cup {x}) <= Cardinality(S) + 1
  BY <1>a, <1>b
<1>2. /\ IsFiniteSet(T) /\ Cardinality(T) \in Nat
      /\ Cardinality(T) <= Cardinality(S \cup {x}) /\ Cardinality(S \cup {x}) \in Nat
  BY <1>1, FS_Subset, FS_CardinalityType
<1> QED  BY <1>1, <1>2

(* A subset is no larger. *)
LEMMA GainsNone ==
  ASSUME NEW S, IsFiniteSet(S), NEW T, T \subseteq S
  PROVE  /\ IsFiniteSet(T) /\ Cardinality(T) \in Nat /\ Cardinality(S) \in Nat
         /\ Cardinality(T) <= Cardinality(S)
BY FS_Subset, FS_CardinalityType

(* A subset that misses an element is smaller. *)
LEMMA LosesOne ==
  ASSUME NEW S, IsFiniteSet(S), NEW x \in S, NEW T, T \subseteq S \ {x}
  PROVE  Cardinality(T) \in Nat /\ Cardinality(T) + 1 <= Cardinality(S)
<1>1. IsFiniteSet(S \ {x}) /\ Cardinality(S \ {x}) = Cardinality(S) - 1
  BY FS_RemoveElement
<1>2. Cardinality(S) \in Nat  BY FS_CardinalityType
<1>3. Cardinality(T) \in Nat /\ Cardinality(T) <= Cardinality(S \ {x})
  BY <1>1, FS_Subset, FS_CardinalityType
<1> QED  BY <1>1, <1>2, <1>3

-----------------------------------------------------------------------------
(* The inductive invariant                                                    *)

LiveOf(rows, s) == {i \in LiveIn(rows) : rows[i].server = s}

Capacity ==
  /\ Cardinality(receipts) + Cardinality(LiveIn(routes)) <= MaxReceipts
  /\ Cardinality(nonces) + Cardinality(LiveIn(routes)) <= MaxNonces
  /\ \A s \in Server : Cardinality(ReceiptsOf(s)) + Cardinality(LiveOf(routes, s))
                         <= MaxServerReceipts
CInv == RInv /\ IsFiniteSet(receipts) /\ IsFiniteSet(nonces) /\ Capacity

(* Live rows, of all servers and of one, under the names of the two modules *)
LEMMA LiveSets ==
  /\ LiveRoutes = LiveIn(routes)
  /\ \A s : LiveRoutesOf(s) = LiveOf(routes, s)
BY DEF LiveRoutes, LiveIn, LiveRoutesOf, RoutesOf, LiveOf, Live

(* Live rows are finitely many. *)
LEMMA LiveFinite ==
  \A rows, s : /\ IsFiniteSet(LiveIn(rows)) /\ Cardinality(LiveIn(rows)) \in Nat
               /\ IsFiniteSet(LiveOf(rows, s)) /\ Cardinality(LiveOf(rows, s)) \in Nat
<1> TAKE rows, s
<1>1. LiveIn(rows) \subseteq Index /\ LiveOf(rows, s) \subseteq Index
  BY DEF LiveIn, LiveOf
<1>2. IsFiniteSet(Index)  BY ConstantsAssumption
<1> QED  BY <1>1, <1>2, GainsNone

(* Rows that move forward, none of them new, leave no more live ones. *)
LEMMA FewerLive ==
  ASSUME RowsOK(routes), RowsOK(routes'),
         \A i \in Index : routes[i] # NoValue => MovesForward(routes[i], routes'[i]),
         \A i \in Index : routes[i] = NoValue => routes'[i] = NoValue
  PROVE  /\ LiveIn(routes') \subseteq LiveIn(routes)
         /\ \A s : LiveOf(routes', s) \subseteq LiveOf(routes, s)
<1>1. \A i \in Index : Live(routes'[i]) => Live(routes[i]) /\ routes'[i].server = routes[i].server
  <2> SUFFICES ASSUME NEW i \in Index, Live(routes'[i])
               PROVE  Live(routes[i]) /\ routes'[i].server = routes[i].server
    OBVIOUS
  <2>1. routes[i] # NoValue /\ routes'[i] # NoValue  BY DEF Live
  <2>2. Forward(routes[i], routes'[i])  BY <2>1 DEF MovesForward
  <2>3. routes[i] \in Route /\ routes'[i] \in Route  BY <2>1 DEF RowsOK
  <2> QED  BY <2>1, <2>2, <2>3 DEF Forward, Rank, Live, Route
<1> QED  BY <1>1 DEF LiveIn, LiveOf

(* What only shrinks stays within the capacity. *)
LEMMA FewerKeep ==
  ASSUME CInv, receipts' \subseteq receipts, nonces' \subseteq nonces,
         LiveIn(routes') \subseteq LiveIn(routes),
         \A s \in Server : LiveOf(routes', s) \subseteq LiveOf(routes, s)
  PROVE  IsFiniteSet(receipts') /\ IsFiniteSet(nonces') /\ Capacity'
<1>1. /\ IsFiniteSet(receipts') /\ Cardinality(receipts') \in Nat
      /\ Cardinality(receipts) \in Nat /\ Cardinality(receipts') <= Cardinality(receipts)
  BY GainsNone DEF CInv
<1>2. /\ IsFiniteSet(nonces') /\ Cardinality(nonces') \in Nat
      /\ Cardinality(nonces) \in Nat /\ Cardinality(nonces') <= Cardinality(nonces)
  BY GainsNone DEF CInv
<1>3. /\ Cardinality(LiveIn(routes')) <= Cardinality(LiveIn(routes))
      /\ Cardinality(LiveIn(routes')) \in Nat /\ Cardinality(LiveIn(routes)) \in Nat
  BY LiveFinite, GainsNone
<1>4. MaxReceipts \in Nat /\ MaxNonces \in Nat /\ MaxServerReceipts \in Nat
  BY ConstantsAssumption
<1>5. ASSUME NEW s \in Server
      PROVE  Cardinality(ReceiptsOf(s)') + Cardinality(LiveOf(routes', s)) <= MaxServerReceipts
  <2>1. ReceiptsOf(s)' \subseteq ReceiptsOf(s) /\ ReceiptsOf(s) \subseteq receipts
    BY DEF ReceiptsOf
  <2>2. IsFiniteSet(ReceiptsOf(s))  BY <2>1, GainsNone DEF CInv
  <2>3. /\ Cardinality(ReceiptsOf(s)') <= Cardinality(ReceiptsOf(s))
        /\ Cardinality(ReceiptsOf(s)') \in Nat /\ Cardinality(ReceiptsOf(s)) \in Nat
    BY <2>1, <2>2, GainsNone
  <2>4. /\ Cardinality(LiveOf(routes', s)) <= Cardinality(LiveOf(routes, s))
        /\ Cardinality(LiveOf(routes', s)) \in Nat /\ Cardinality(LiveOf(routes, s)) \in Nat
    BY LiveFinite, GainsNone
  <2>5. Cardinality(ReceiptsOf(s)) + Cardinality(LiveOf(routes, s)) <= MaxServerReceipts
    BY DEF CInv, Capacity
  <2> QED  BY <2>3, <2>4, <2>5, <1>4
<1>6. /\ Cardinality(receipts) + Cardinality(LiveIn(routes)) <= MaxReceipts
      /\ Cardinality(nonces) + Cardinality(LiveIn(routes)) <= MaxNonces
  BY DEF CInv, Capacity
<1>7. /\ Cardinality(receipts') + Cardinality(LiveIn(routes')) <= MaxReceipts
      /\ Cardinality(nonces') + Cardinality(LiveIn(routes')) <= MaxNonces
  BY <1>1, <1>2, <1>3, <1>4, <1>6
<1> QED  BY <1>1, <1>2, <1>5, <1>7 DEF Capacity

-----------------------------------------------------------------------------
(* A mutation                                                                 *)

(* The live rows a batch leaves: one more after a reservation, one less after *)
(* the revocation of a live route, no others than before otherwise. *)
LEMMA ApplyLive ==
  ASSUME RInv, NEW p \in Request, NEW n \in Sequence, NEW at \in Nat,
         Apply(p, Decision(p, at), n, at)
  PROVE  LET d == Decision(p, at)  i == p.index  s == p.server IN
         /\ LiveIn(routes') \subseteq LiveIn(routes) \cup (IF d = "reserved" THEN {i} ELSE {})
         /\ \A z \in Server : LiveOf(routes', z) \subseteq LiveOf(routes, z) \cup
              (IF d = "reserved" /\ z = s THEN {i} ELSE {})
         /\ d = "revoked" /\ Live(routes[i]) =>
              /\ i \in LiveIn(routes) /\ LiveIn(routes') \subseteq LiveIn(routes) \ {i}
              /\ i \in LiveOf(routes, s)
              /\ LiveOf(routes', s) \subseteq LiveOf(routes, s) \ {i}
<1> DEFINE d == Decision(p, at)
<1>1. RowsOK(routes)  BY InvariantRows
<1>2. p.index \in Index  BY ConstantsAssumption DEF Payload
<1>3. /\ Advances(routes, routes') /\ OnlyNewRow(routes, routes', p)
      /\ LiveIn(routes') \subseteq LiveIn(routes) \cup (IF d = "reserved" THEN {p.index} ELSE {})
      /\ d = "revoked" => ~Live(routes'[p.index])
  BY <1>1, ApplyFacts
<1>4. d = "revoked" => ~OthersRow(p)  BY <1>1, DecisionFacts
<1> HIDE DEF d
<1>5. \A i \in Index : routes[i] # NoValue => routes'[i].server = routes[i].server
  BY <1>3 DEF Advances, Forward
<1>6. \A z \in Server : LiveOf(routes', z) \subseteq LiveOf(routes, z) \cup
              (IF d = "reserved" /\ z = p.server THEN {p.index} ELSE {})
  <2> SUFFICES ASSUME NEW z \in Server, NEW i \in LiveOf(routes', z)
               PROVE  i \in LiveOf(routes, z) \cup
                        (IF d = "reserved" /\ z = p.server THEN {p.index} ELSE {})
    OBVIOUS
  <2>1. i \in Index /\ i \in LiveIn(routes') /\ routes'[i].server = z /\ routes'[i] # NoValue
    BY DEF LiveOf, LiveIn, Live
  <2>2. CASE i \in LiveIn(routes)
    BY <2>1, <2>2, <1>5 DEF LiveOf, LiveIn, Live
  <2>3. CASE i \notin LiveIn(routes)
    <3>1. d = "reserved" /\ i = p.index  BY <2>1, <2>3, <1>3
    <3>2. Decision(p, at) = "reserved"  BY <3>1 DEF d
    <3>3. routes[p.index] = NoValue  BY <3>2, <1>1, DecisionFacts
    <3>4. z = p.server  BY <3>1, <3>3, <2>1, <1>3 DEF OnlyNewRow
    <3> QED  BY <3>1, <3>4
  <2> QED  BY <2>2, <2>3
<1>7. ASSUME d = "revoked", Live(routes[p.index])
      PROVE  /\ p.index \in LiveIn(routes) /\ LiveIn(routes') \subseteq LiveIn(routes) \ {p.index}
             /\ p.index \in LiveOf(routes, p.server)
             /\ LiveOf(routes', p.server) \subseteq LiveOf(routes, p.server) \ {p.index}
  <2>1. routes[p.index].server = p.server  BY <1>4, <1>7 DEF OthersRow, Live
  <2>2. p.index \notin LiveIn(routes')  BY <1>3, <1>7 DEF LiveIn
  <2>3. p.server \in Server  BY ConstantsAssumption DEF Payload
  <2>4. LiveOf(routes', p.server) \subseteq LiveIn(routes')  BY DEF LiveOf
  <2>5. LiveOf(routes', p.server) \subseteq LiveOf(routes, p.server)  BY <1>6, <1>7, <2>3
  <2>6. p.index \in LiveIn(routes) /\ p.index \in LiveOf(routes, p.server)
    BY <1>2, <1>7, <2>1 DEF LiveIn, LiveOf
  <2>7. LiveIn(routes') \subseteq LiveIn(routes)  BY <1>3, <1>7
  <2> QED  BY <2>2, <2>4, <2>5, <2>6, <2>7
<1> QED  BY <1>3, <1>6, <1>7 DEF d

(* A recorded mutation takes no receipt slot that a live route needs. *)
LEMMA ReceiptsStayReserved ==
  ASSUME CInv, NEW p \in Request, NEW n \in Sequence, NEW at \in Nat, NEW c,
         c.payload = p, receipts' = receipts \cup {c},
         ReceiptRoomFor(p.server, Growth(p, Decision(p, at))),
         Apply(p, Decision(p, at), n, at)
  PROVE  /\ IsFiniteSet(receipts')
         /\ Cardinality(receipts') + Cardinality(LiveIn(routes')) <= MaxReceipts
         /\ \A s \in Server : Cardinality(ReceiptsOf(s)') + Cardinality(LiveOf(routes', s))
                                <= MaxServerReceipts
<1> DEFINE d == Decision(p, at)
           g == Growth(p, d)
<1>0. p.server \in Server /\ RInv  BY ConstantsAssumption DEF Payload, CInv
<1>1. /\ LiveIn(routes') \subseteq LiveIn(routes) \cup (IF d = "reserved" THEN {p.index} ELSE {})
      /\ \A z \in Server : LiveOf(routes', z) \subseteq LiveOf(routes, z) \cup
           (IF d = "reserved" /\ z = p.server THEN {p.index} ELSE {})
      /\ d = "revoked" /\ Live(routes[p.index]) =>
           /\ p.index \in LiveIn(routes) /\ LiveIn(routes') \subseteq LiveIn(routes) \ {p.index}
           /\ p.index \in LiveOf(routes, p.server)
           /\ LiveOf(routes', p.server) \subseteq LiveOf(routes, p.server) \ {p.index}
  BY <1>0, ApplyLive
<1>2. /\ Cardinality(receipts) + Cardinality(LiveIn(routes)) + g <= MaxReceipts
      /\ Cardinality(ReceiptsOf(p.server)) + Cardinality(LiveOf(routes, p.server)) + g
           <= MaxServerReceipts
  BY LiveSets DEF ReceiptRoomFor
<1>3. /\ d = "reserved" => g = 2
      /\ d = "revoked" /\ Live(routes[p.index]) => g = 0
      /\ d # "reserved" /\ ~(d = "revoked" /\ Live(routes[p.index])) => g = 1
  BY DEF Growth
<1> HIDE DEF d, g
<1>4. /\ IsFiniteSet(receipts') /\ Cardinality(receipts') \in Nat
      /\ Cardinality(receipts') <= Cardinality(receipts) + 1
  BY GainsOne DEF CInv
<1>5. \A s : /\ IsFiniteSet(ReceiptsOf(s)) /\ Cardinality(ReceiptsOf(s)) \in Nat
             /\ Cardinality(ReceiptsOf(s)') \in Nat
             /\ Cardinality(ReceiptsOf(s)') <= Cardinality(ReceiptsOf(s))
                                                + (IF s = p.server THEN 1 ELSE 0)
  <2> SUFFICES ASSUME NEW s
               PROVE  /\ IsFiniteSet(ReceiptsOf(s)) /\ Cardinality(ReceiptsOf(s)) \in Nat
                      /\ Cardinality(ReceiptsOf(s)') \in Nat
                      /\ Cardinality(ReceiptsOf(s)') <= Cardinality(ReceiptsOf(s))
                                                         + (IF s = p.server THEN 1 ELSE 0)
    OBVIOUS
  <2>1. ReceiptsOf(s) \subseteq receipts  BY DEF ReceiptsOf
  <2>2. IsFiniteSet(ReceiptsOf(s)) /\ Cardinality(ReceiptsOf(s)) \in Nat
    BY <2>1, GainsNone DEF CInv
  <2>3. CASE s = p.server
    <3>1. ReceiptsOf(s)' \subseteq ReceiptsOf(s) \cup {c}  BY DEF ReceiptsOf
    <3> QED  BY <2>2, <2>3, <3>1, GainsOne
  <2>4. CASE s # p.server
    <3>1. ReceiptsOf(s)' \subseteq ReceiptsOf(s)  BY <2>4 DEF ReceiptsOf
    <3> QED  BY <2>2, <2>4, <3>1, GainsNone
  <2> QED  BY <2>3, <2>4
<1>6. /\ MaxReceipts \in Nat /\ MaxServerReceipts \in Nat /\ Cardinality(receipts) \in Nat
      /\ \A s \in Server : Cardinality(ReceiptsOf(s)) + Cardinality(LiveOf(routes, s))
                             <= MaxServerReceipts
  BY ConstantsAssumption, FS_CardinalityType DEF CInv, Capacity
<1>7. \A s \in Server : s # p.server =>
        Cardinality(LiveOf(routes', s)) <= Cardinality(LiveOf(routes, s))
  <2> TAKE s \in Server
  <2>1. s # p.server => LiveOf(routes', s) \subseteq LiveOf(routes, s)  BY <1>1
  <2> QED  BY <2>1, LiveFinite, GainsNone
<1>8. /\ Cardinality(LiveIn(routes')) + 1 <= Cardinality(LiveIn(routes)) + g
      /\ Cardinality(LiveOf(routes', p.server)) + 1 <= Cardinality(LiveOf(routes, p.server)) + g
  <2>1. CASE d = "reserved"
    <3>1. /\ LiveIn(routes') \subseteq LiveIn(routes) \cup {p.index}
          /\ LiveOf(routes', p.server) \subseteq LiveOf(routes, p.server) \cup {p.index}
      BY <1>0, <1>1, <2>1
    <3>2. /\ Cardinality(LiveIn(routes')) <= Cardinality(LiveIn(routes)) + 1
          /\ Cardinality(LiveOf(routes', p.server)) <= Cardinality(LiveOf(routes, p.server)) + 1
      BY <3>1, LiveFinite, GainsOne
    <3> QED  BY <3>2, <1>3, <2>1, LiveFinite
  <2>2. CASE d = "revoked" /\ Live(routes[p.index])
    <3>1. /\ Cardinality(LiveIn(routes')) + 1 <= Cardinality(LiveIn(routes))
          /\ Cardinality(LiveOf(routes', p.server)) + 1 <= Cardinality(LiveOf(routes, p.server))
      BY <1>1, <2>2, LiveFinite, LosesOne
    <3> QED  BY <3>1, <1>3, <2>2, LiveFinite
  <2>3. CASE d # "reserved" /\ ~(d = "revoked" /\ Live(routes[p.index]))
    <3>1. /\ LiveIn(routes') \subseteq LiveIn(routes)
          /\ LiveOf(routes', p.server) \subseteq LiveOf(routes, p.server)
      BY <1>0, <1>1, <2>3
    <3>2. /\ Cardinality(LiveIn(routes')) <= Cardinality(LiveIn(routes))
          /\ Cardinality(LiveOf(routes', p.server)) <= Cardinality(LiveOf(routes, p.server))
      BY <3>1, LiveFinite, GainsNone
    <3> QED  BY <3>2, <1>3, <2>3, LiveFinite
  <2> QED  BY <2>1, <2>2, <2>3
<1>9. g \in Nat  BY <1>3
<1>10. Cardinality(receipts') + Cardinality(LiveIn(routes')) <= MaxReceipts
  BY <1>2, <1>4, <1>6, <1>8, <1>9, LiveFinite
<1>11. ASSUME NEW s \in Server
       PROVE  Cardinality(ReceiptsOf(s)') + Cardinality(LiveOf(routes', s)) <= MaxServerReceipts
  <2>1. /\ Cardinality(LiveOf(routes', s)) \in Nat /\ Cardinality(LiveOf(routes, s)) \in Nat
    BY LiveFinite
  <2>2. CASE s = p.server  BY <1>2, <1>5, <1>6, <1>8, <1>9, <2>1, <2>2
  <2>3. CASE s # p.server  BY <1>5, <1>6, <1>7, <2>1, <2>3
  <2> QED  BY <2>2, <2>3
<1> QED  BY <1>4, <1>10, <1>11

(* The replay statement reserves nothing only for the revocation of a live    *)
(* route that the statements after it then carry out. *)
LEMMA FreeRevocation ==
  ASSUME RInv, NEW p \in Request, NEW at \in Nat, NonceGrowth(p) = 0
  PROVE  /\ Live(routes[p.index]) /\ Decision(p, at) = "revoked"
         /\ Recorded(p, at)
<1> DEFINE r == routes[p.index]
<1>1. /\ p.op = "revoke" /\ Live(r) /\ r.server = p.server /\ r.token = p.token
      /\ ~Answered(p) /\ ReceiptRoomFor(p.server, 0)
  BY DEF NonceGrowth
<1>2. OneRow(routes) /\ p.index \in Index
  BY InvariantRows, ConstantsAssumption DEF Payload
<1>3. r # NoValue  BY <1>1 DEF Live
<1>4. ~TokenElsewhere(p)  BY <1>1, <1>2, <1>3 DEF TokenElsewhere, OneRow
<1>5. ~OthersRow(p)  BY <1>1 DEF OthersRow
<1>6. Decision(p, at) = "revoked"  BY <1>1, <1>3, <1>4, <1>5 DEF Decision, RevokeOutcome
<1>7. Growth(p, "revoked") = 0  BY <1>1 DEF Growth
<1> QED  BY <1>1, <1>6, <1>7 DEF Recorded, Unanswered

(* A mutation takes no nonce slot that a live route needs. *)
LEMMA NoncesStayReserved ==
  ASSUME CInv, NEW p \in Request, NEW n \in Sequence, NEW at \in Nat,
         NEW kept, kept \subseteq nonces, NEW x, nonces' = kept \cup {x},
         NonceRoomFor(kept, NonceGrowth(p)),
         \/ Apply(p, Decision(p, at), n, at)
         \/ ~Recorded(p, at) /\ UNCHANGED routes
  PROVE  /\ IsFiniteSet(nonces')
         /\ Cardinality(nonces') + Cardinality(LiveIn(routes')) <= MaxNonces
<1> DEFINE d == Decision(p, at)
           g == NonceGrowth(p)
<1>1. /\ IsFiniteSet(kept) /\ Cardinality(kept) \in Nat /\ Cardinality(nonces) \in Nat
      /\ Cardinality(kept) <= Cardinality(nonces)
  BY GainsNone DEF CInv
<1>2. /\ IsFiniteSet(nonces') /\ Cardinality(nonces') \in Nat
      /\ Cardinality(nonces') <= Cardinality(kept) + 1
  BY <1>1, GainsOne
<1>3. /\ Cardinality(LiveIn(routes)) \in Nat /\ Cardinality(LiveIn(routes')) \in Nat
      /\ IsFiniteSet(LiveIn(routes))
  BY LiveFinite
<1>4. Cardinality(nonces) + Cardinality(LiveIn(routes)) <= MaxNonces /\ MaxNonces \in Nat
  BY ConstantsAssumption DEF CInv, Capacity
<1>5. g # 0 => Cardinality(kept) + Cardinality(LiveIn(routes)) + g <= MaxNonces
  BY LiveSets DEF NonceRoomFor
<1>6. g \in {0, 1, 2} /\ (p.op = "reserve" => g = 2)  BY DEF NonceGrowth
<1>7. RInv  BY DEF CInv
<1>8. RowsOK(routes)  BY <1>7, InvariantRows
<1>9. d = "reserved" => p.op = "reserve"  BY <1>8, DecisionFacts
<1>10. CASE g = 0
  <2>1. Live(routes[p.index]) /\ d = "revoked" /\ Recorded(p, at)
    BY <1>7, <1>10, FreeRevocation
  <2>2. Apply(p, Decision(p, at), n, at)  BY <2>1
  <2>3. p.index \in LiveIn(routes) /\ LiveIn(routes') \subseteq LiveIn(routes) \ {p.index}
    BY <1>7, <2>1, <2>2, ApplyLive
  <2>4. Cardinality(LiveIn(routes')) + 1 <= Cardinality(LiveIn(routes))
    BY <2>3, <1>3, LosesOne
  <2> QED  BY <2>4, <1>1, <1>2, <1>3, <1>4
<1>11. CASE g # 0
  <2>1. LiveIn(routes') \subseteq LiveIn(routes) \cup (IF d = "reserved" THEN {p.index} ELSE {})
    BY <1>7, ApplyLive DEF LiveIn, Live
  <2> HIDE DEF d, g
  <2>2. CASE d = "reserved"
    <3>1. Cardinality(LiveIn(routes')) <= Cardinality(LiveIn(routes)) + 1
      BY <2>1, <2>2, <1>3, GainsOne
    <3> QED  BY <3>1, <2>2, <1>1, <1>2, <1>3, <1>4, <1>5, <1>6, <1>9
  <2>3. CASE d # "reserved"
    <3>1. Cardinality(LiveIn(routes')) <= Cardinality(LiveIn(routes))
      BY <2>1, <2>3, <1>3, GainsNone
    <3> QED  BY <3>1, <1>1, <1>2, <1>3, <1>4, <1>5, <1>6, <1>11
  <2> QED  BY <2>2, <2>3
<1> QED  BY <1>2, <1>10, <1>11

(* A mutation keeps the capacity. *)
LEMMA MutateCapacity ==
  ASSUME CInv, MutateAccessRoute
  PROVE  IsFiniteSet(receipts') /\ IsFiniteSet(nonces') /\ Capacity'
<1>1. PICK p \in Request, n \in Sequence, nonce \in Nonce, at \in Clock :
        Mutate(p, n, nonce, at)
  BY DEF MutateAccessRoute
<1>2. at \in Nat /\ RInv  BY ClockType DEF CInv
<1>3. PICK dropped \in Batches(ExpiredNonces(at)) :
        LET kept == nonces \ dropped IN
        \/ nonces' = kept /\ UNCHANGED <<routes, receipts>>
        \/ /\ nonces' = kept \cup {NonceRow(p.server, nonce, at)}
           /\ NonceRoomFor(kept, NonceGrowth(p))
           /\ \/ /\ Recorded(p, at)
                 /\ receipts' = receipts \cup {ReceiptFor(p, Decision(p, at), n, at)}
                 /\ Apply(p, Decision(p, at), n, at)
              \/ ~Recorded(p, at) /\ UNCHANGED <<receipts, routes>>
  BY <1>1 DEF Mutate
<1> DEFINE kept == nonces \ dropped
<1>4. CASE nonces' = kept /\ UNCHANGED <<routes, receipts>>
  BY <1>4, FewerKeep DEF LiveOf
<1>5. CASE /\ nonces' = kept \cup {NonceRow(p.server, nonce, at)}
           /\ NonceRoomFor(kept, NonceGrowth(p))
           /\ Recorded(p, at)
           /\ receipts' = receipts \cup {ReceiptFor(p, Decision(p, at), n, at)}
           /\ Apply(p, Decision(p, at), n, at)
  <2>1. RowsOK(routes)  BY <1>2, InvariantRows
  <2>2. ReceiptFor(p, Decision(p, at), n, at).payload = p  BY <1>2, <2>1, ReceiptType
  <2>3. ReceiptRoomFor(p.server, Growth(p, Decision(p, at)))  BY <1>5 DEF Recorded
  <2>4. /\ IsFiniteSet(nonces')
        /\ Cardinality(nonces') + Cardinality(LiveIn(routes')) <= MaxNonces
    BY <1>2, <1>5, NoncesStayReserved
  <2>5. /\ IsFiniteSet(receipts')
        /\ Cardinality(receipts') + Cardinality(LiveIn(routes')) <= MaxReceipts
        /\ \A s \in Server : Cardinality(ReceiptsOf(s)') + Cardinality(LiveOf(routes', s))
                               <= MaxServerReceipts
    BY <1>2, <1>5, <2>2, <2>3, ReceiptsStayReserved
  <2> QED  BY <2>4, <2>5 DEF Capacity
<1>6. CASE /\ nonces' = kept \cup {NonceRow(p.server, nonce, at)}
           /\ NonceRoomFor(kept, NonceGrowth(p))
           /\ ~Recorded(p, at) /\ UNCHANGED <<receipts, routes>>
  <2>1. /\ IsFiniteSet(nonces')
        /\ Cardinality(nonces') + Cardinality(LiveIn(routes')) <= MaxNonces
    BY <1>2, <1>6, NoncesStayReserved
  <2> QED  BY <2>1, <1>6 DEF CInv, Capacity, ReceiptsOf, LiveOf, LiveIn, Live
<1> QED  BY <1>3, <1>4, <1>5, <1>6

-----------------------------------------------------------------------------
(* The other batches                                                          *)

(* A publication takes a nonce slot only if one is left for every live route. *)
LEMMA PublicationCapacity ==
  ASSUME CInv, Publication
  PROVE  IsFiniteSet(receipts') /\ IsFiniteSet(nonces') /\ Capacity'
<1>1. PICK s \in Server, n \in Sequence, nonce \in Nonce, at \in Clock :
        Publish(s, n, nonce, at)
  BY DEF Publication
<1>2. PICK dropped \in Batches(ExpiredNonces(at)) :
        /\ Cardinality(nonces \ dropped) + Cardinality(LiveIn(routes)) + 1 <= MaxNonces
        /\ nonces' = (nonces \ dropped) \cup {NonceRow(s, nonce, at)}
  BY <1>1, LiveSets DEF Publish
<1>3. UNCHANGED <<routes, receipts>>  BY DEF Publication
<1>4. /\ IsFiniteSet(nonces \ dropped) /\ Cardinality(nonces \ dropped) \in Nat
  BY GainsNone DEF CInv
<1>5. /\ IsFiniteSet(nonces') /\ Cardinality(nonces') \in Nat
      /\ Cardinality(nonces') <= Cardinality(nonces \ dropped) + 1
  BY <1>2, <1>4, GainsOne
<1>6. Cardinality(LiveIn(routes)) \in Nat /\ MaxNonces \in Nat
  BY LiveFinite, ConstantsAssumption
<1>7. Cardinality(nonces') + Cardinality(LiveIn(routes)) <= MaxNonces
  BY <1>2, <1>4, <1>5, <1>6
<1> QED  BY <1>3, <1>5, <1>7 DEF CInv, Capacity, ReceiptsOf, LiveOf, LiveIn, Live

(* Every other step leaves rows that were missing missing, and adds no        *)
(* receipt and no nonce. *)
LEMMA OthersShrink ==
  ASSUME RInv, [Next]_vars, ~MutateAccessRoute, ~Publication
  PROVE  /\ receipts' \subseteq receipts /\ nonces' \subseteq nonces
         /\ \A i \in Index : routes[i] = NoValue => routes'[i] = NoValue
<1>1. RowsOK(routes)  BY InvariantRows
<1> DEFINE Shrinks == /\ receipts' \subseteq receipts /\ nonces' \subseteq nonces
                      /\ \A i \in Index : routes[i] = NoValue => routes'[i] = NoValue
<1>2. ASSUME CleanupAccessState
      PROVE  Shrinks
  <2>1. PICK at \in Clock : CleanupAt(at)  BY <1>2 DEF CleanupAccessState
  <2>2. UNCHANGED nonces  BY <1>2 DEF CleanupAccessState
  <2>3. PICK G \in Batches({g \in grants : g.until <= at}),
             E \in Batches({i \in Index : routes[i] # NoValue /\ ExpiredRoute(routes[i], at)}),
             R \in Batches({c \in receipts : c.expires <= at}) :
          LET after == ExpireRoutes(E, at) IN
          \E T \in Batches(Tombstones(after, receipts \ R, at)) :
            /\ G # {} \/ E # {} \/ R # {} \/ T # {}
            /\ routes' = [i \in Index |-> IF i \in T THEN NoValue ELSE after[i]]
            /\ receipts' = receipts \ R
            /\ grants' = {g \in grants \ G : g.index \notin T}
            /\ denied' = denied \ T
    BY <2>1 DEF CleanupAt
  <2>4. PICK T \in Batches(Tombstones(ExpireRoutes(E, at), receipts \ R, at)) :
          /\ routes' = [i \in Index |-> IF i \in T THEN NoValue ELSE ExpireRoutes(E, at)[i]]
          /\ receipts' = receipts \ R
    BY <2>3
  <2>5. \A i \in E : routes[i] # NoValue  BY BatchesAreSubsets
  <2>6. ASSUME NEW i \in Index, routes[i] = NoValue
        PROVE  routes'[i] = NoValue
    <3>1. ExpireRoutes(E, at)[i] = NoValue  BY <2>5, <2>6 DEF ExpireRoutes
    <3> QED  BY <2>4, <3>1
  <2> QED  BY <2>2, <2>4, <2>6
<1>3. ASSUME NEW at \in Nat, NEW I \in SUBSET Index, ObserveExpiry(I, at),
             UNCHANGED <<receipts, nonces>>
      PROVE  Shrinks
  <2>1. \A i \in Index : routes[i] = NoValue => routes'[i] = NoValue
    BY <1>1, <1>3, ObserveFacts
  <2> QED  BY <2>1, <1>3
<1>4. ASSUME NEW i \in Index, NEW at \in Clock, Resolve(i, at)
      PROVE  Shrinks
  BY <1>3, <1>4, ClockType DEF Resolve
<1>5. ASSUME NEW q \in resolving, IssueAccessGrant(q)
      PROVE  Shrinks
  <2>1. q.at \in Nat /\ q.index \in Index  BY DEF RInv, TypeOK, Resolution
  <2> QED  BY <1>3, <1>5, <2>1 DEF IssueAccessGrant
<1>6. ASSUME NEW g \in grants, NEW id \in Redemption, NEW at \in Clock,
             RedeemAccessGrant(g, id, at)
      PROVE  Shrinks
  <2>1. at \in Nat /\ g.index \in Index  BY ClockType DEF RInv, TypeOK, Grant
  <2> QED  BY <1>3, <1>6, <2>1 DEF RedeemAccessGrant
<1>7. ASSUME NEW q \in resolving, ReadTarget(q) \/ Refuse(q)
      PROVE  Shrinks
  BY <1>7 DEF ReadTarget, Refuse, d1Vars
<1>8. ASSUME NEW s \in Server, PresenceExpires(s)
      PROVE  Shrinks
  BY <1>8 DEF PresenceExpires
<1>9. ASSUME NEW at \in Clock, NoncesExpire(at)
      PROVE  Shrinks
  BY <1>9 DEF NoncesExpire
<1>10. ASSUME Tick \/ UNCHANGED vars
       PROVE  Shrinks
  BY <1>10 DEF Tick, vars, d1Vars
<1> HIDE DEF Shrinks
<1>11. Shrinks
  BY <1>2, <1>4, <1>5, <1>6, <1>7, <1>8, <1>9, <1>10 DEF Next
<1> QED  BY <1>11 DEF Shrinks

-----------------------------------------------------------------------------
(* The theorem                                                                *)

(* A step keeps the capacity invariant. *)
LEMMA StepCapacity == CInv /\ [Next]_vars => CInv'
<1> SUFFICES ASSUME CInv, [Next]_vars PROVE CInv'  OBVIOUS
<1>1. /\ RInv /\ RInv'
      /\ \A i \in Index : routes[i] # NoValue => MovesForward(routes[i], routes'[i])
  BY StepRoutes DEF CInv
<1>2. CASE MutateAccessRoute  BY <1>1, <1>2, MutateCapacity DEF CInv
<1>3. CASE Publication  BY <1>1, <1>3, PublicationCapacity DEF CInv
<1>4. CASE ~MutateAccessRoute /\ ~Publication
  <2>1. /\ receipts' \subseteq receipts /\ nonces' \subseteq nonces
        /\ \A i \in Index : routes[i] = NoValue => routes'[i] = NoValue
    BY <1>1, <1>4, OthersShrink
  <2>2. RowsOK(routes) /\ RowsOK(routes')
    BY <1>1 DEF RInv, TypeOK, RowsOK, Dated
  <2>3. /\ LiveIn(routes') \subseteq LiveIn(routes)
        /\ \A s \in Server : LiveOf(routes', s) \subseteq LiveOf(routes, s)
    BY <1>1, <2>1, <2>2, FewerLive
  <2> QED  BY <1>1, <2>1, <2>3, FewerKeep DEF CInv
<1> QED  BY <1>2, <1>3, <1>4

(* The capacity invariant implies what the runs check. *)
LEMMA CapacityReserves == CInv => RevocationReserved
<1> SUFFICES ASSUME CInv PROVE RevocationReserved  OBVIOUS
<1>1. OneRow(routes)  BY DEF CInv, RInv
<1>2. \A i, j \in LiveRoutes : routes[i].server = routes[j].server
                               /\ routes[i].token = routes[j].token => i = j
  BY <1>1 DEF OneRow, LiveRoutes, Live
<1> QED  BY <1>2, LiveSets DEF CInv, Capacity, RevocationReserved

(* Nothing is stored at first. *)
LEMMA InitCapacity == Init => CInv
<1> SUFFICES ASSUME Init PROVE CInv  OBVIOUS
<1>1. IsFiniteSet({}) /\ Cardinality({}) = 0  BY FS_EmptySet
<1>2. receipts = {} /\ nonces = {} /\ LiveIn(routes) = {}
  BY DEF Init, LiveIn, Live
<1>3. \A s \in Server : ReceiptsOf(s) = {} /\ LiveOf(routes, s) = {}
  BY <1>2 DEF ReceiptsOf, LiveOf
<1>4. Cardinality(receipts) = 0 /\ Cardinality(nonces) = 0 /\ Cardinality(LiveIn(routes)) = 0
  BY <1>1, <1>2
<1>5. \A s \in Server : Cardinality(ReceiptsOf(s)) = 0 /\ Cardinality(LiveOf(routes, s)) = 0
  BY <1>1, <1>3
<1>6. /\ MaxReceipts \in Nat /\ MaxReceipts >= 0 /\ MaxNonces \in Nat /\ MaxNonces >= 0
      /\ MaxServerReceipts \in Nat /\ MaxServerReceipts >= 0
  BY ConstantsAssumption
<1>7. Capacity  BY <1>4, <1>5, <1>6 DEF Capacity
<1> QED  BY <1>1, <1>2, <1>7, InitRoutes DEF CInv

(* Receipts and nonces never crowd out the revocation of a live route, for    *)
(* any number of servers, tokens and requests and for any limits: the slot    *)
(* mutateAccessRoute sets aside at the reservation is still there, whatever   *)
(* publications, retries and other mutations were admitted in between. *)
THEOREM RevocationIsReserved == Spec => []RevocationReserved
BY InitCapacity, StepCapacity, CapacityReserves, PTL DEF Spec
=============================================================================
