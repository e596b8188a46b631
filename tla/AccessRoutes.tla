---------------------------- MODULE AccessRoutes ----------------------------
(***************************************************************************)
(* Access-token routing in D1: signed route mutations with their receipts  *)
(* (access-route-state.ts), the replay rows and nonces they share with     *)
(* publication (publisher-nonces.ts, rendezvous-publication.ts), and the   *)
(* short-lived grants (access-grants.ts). One action is one D1 batch.      *)
(*                                                                         *)
(* Requests reach D1 in any order, late, repeated or never, and each       *)
(* carries the clock of the worker that took it: a batch may run at an     *)
(* earlier time than one before it.                                        *)
(***************************************************************************)
EXTENDS Integers, FiniteSets

CONSTANTS
  Server, Index, Token, RequestId, Nonce, Redemption,
  Request,          \* the route payloads a publisher may sign
  Generation,       \* rendezvous generations of a server
  NoValue,          \* null / missing
  MaxLive,          \* live routes a server may have (1024)
  MaxServerRoutes, MaxRoutes,        \* retained routes (4096, 65536)
  MaxServerReceipts, MaxReceipts,    \* receipts plus live routes (4096, 65536)
  MaxNonces,        \* nonces plus live routes (131072)
  MaxServerGrants, MaxGrants,        \* 32, 32768
  CleanupBatch,     \* rows one cleanup statement treats
  ReservationLife, Retention, NonceLife, GrantLife, Freshness,
  MaxSequence, MaxTime, MaxIssued, MaxSkew   \* bounds of the model

VARIABLES
  now,        \* a clock; a worker's may be MaxSkew behind or ahead
  presence,   \* server_presence: server -> its last publication
  routes,     \* access_routes: index -> row
  receipts,   \* access_route_receipts
  replay,     \* publisher_replay.last_sequence
  nonces,     \* publisher_nonces
  grants,     \* access_grants
  resolving,  \* resolutions under way, with the generation once they read it
  issued,     \* grants issued so far: each has a tag of its own
  denied      \* routes a resolver or a room has observed to be past expiry

d1Vars == <<presence, routes, receipts, replay, nonces, grants>>
vars   == <<now, d1Vars, resolving, issued, denied>>

Operation == {"reserve", "activate", "revoke", "result"}
Outcome   == {"reserved", "active", "revoked", "conflict", "expired",
              "not_found", "unavailable"}
Sequence  == 1..MaxSequence
Time      == 0..(MaxTime + MaxSkew)

(* A reservation handle is random: here the sequence that reserved it. *)
Payload ==
  [op : Operation, server : Server, request : RequestId, token : Token,
   index : Index, revision : Nat, handle : Sequence \cup {NoValue},
   expires : Nat \cup {NoValue}]
Route ==
  [server : Server, token : Token, revision : Nat,
   state : {"reserved", "active", "revoked", "expired"},
   expires : Nat \cup {NoValue}, handle : Sequence \cup {NoValue}, until : Nat,
   revokedAt : Nat \cup {NoValue}]
Receipt ==
  [payload : Payload, outcome : Outcome, handle : Sequence \cup {NoValue},
   until : Nat \cup {NoValue}, revision : Nat, sequence : Sequence, expires : Nat]
Presence == [seen : Nat, gen : Generation, required : BOOLEAN]
Grant ==
  [tag : Nat, index : Index, server : Server, revision : Nat, gen : Generation,
   until : Nat, redeemed : Redemption \cup {NoValue}]
Resolution == [index : Index, gen : Generation \cup {NoValue}, at : Nat]

ASSUME ConstantsAssumption ==
  /\ IsFiniteSet(Server) /\ IsFiniteSet(Index) /\ IsFiniteSet(RequestId)
  /\ IsFiniteSet(Nonce)
  /\ Request \subseteq Payload
  /\ NoValue \notin Nat \cup Redemption \cup Generation /\ NoValue \notin Route /\ NoValue \notin Presence
  /\ \A n \in {MaxLive, MaxServerRoutes, MaxRoutes, MaxServerReceipts, MaxReceipts,
               MaxNonces, MaxServerGrants, MaxGrants, ReservationLife, Retention,
               NonceLife, GrantLife, Freshness, MaxSequence, MaxTime, MaxIssued,
               MaxSkew} : n \in Nat
  /\ CleanupBatch \in Nat \ {0} /\ ReservationLife > 0 /\ Retention > 0

-----------------------------------------------------------------------------
(* Rows *)

Clock == {t \in Time : now - MaxSkew <= t /\ t <= now + MaxSkew}
Live(r) == r # NoValue /\ r.state \in {"reserved", "active"}
LiveRoutes == {i \in Index : Live(routes[i])}
RoutesOf(s) == {i \in Index : routes[i] # NoValue /\ routes[i].server = s}
LiveRoutesOf(s) == LiveRoutes \cap RoutesOf(s)
ReceiptsOf(s) == {c \in receipts : c.payload.server = s}
SameRequest(c, p) == c.payload.server = p.server /\ c.payload.request = p.request
Answered(p) == \E c \in receipts : SameRequest(c, p)
Past(expires, at) == expires # NoValue /\ expires <= at
Fresh(s, at) == presence[s] # NoValue /\ presence[s].seen > at - Freshness

(* The rows one LIMITed cleanup statement picks of those it may treat *)
Batches(S) == {D \in SUBSET S : \/ D = S /\ Cardinality(S) <= CleanupBatch
                                \/ Cardinality(D) = CleanupBatch}

(* receipts and live routes share the receipt capacity: each live route       *)
(* keeps a slot for the receipt of its revocation                             *)
ReceiptRoomFor(s, growth) ==
  /\ Cardinality(receipts) + Cardinality(LiveRoutes) + growth <= MaxReceipts
  /\ Cardinality(ReceiptsOf(s)) + Cardinality(LiveRoutesOf(s)) + growth
       <= MaxServerReceipts

(* publisherNonceCapacity, after the cleanup left `kept' *)
NonceRoomFor(kept, growth) ==
  growth = 0 \/ Cardinality(kept) + Cardinality(LiveRoutes) + growth <= MaxNonces

(* The sequence and nonce fence of one signed request *)
Unused(kept, s, n, nonce) ==
  /\ replay[s] # NoValue /\ n > replay[s]
  /\ ~\E x \in kept : x.server = s /\ x.nonce = nonce
NonceRow(s, nonce, at) == [server |-> s, nonce |-> nonce, until |-> at + NonceLife]
ExpiredNonces(at) == {x \in nonces : x.until <= at}

-----------------------------------------------------------------------------
(* The decision of a mutation at clock `at', on the row it finds *)

TokenElsewhere(p) ==
  \E i \in Index \ {p.index} : /\ routes[i] # NoValue
                               /\ routes[i].server = p.server
                               /\ routes[i].token = p.token
OthersRow(p) ==
  LET r == routes[p.index]
  IN r # NoValue /\ (r.server # p.server \/ r.token # p.token)
RoutesFull(s) == \/ Cardinality({i \in Index : routes[i] # NoValue}) >= MaxRoutes
                 \/ Cardinality(RoutesOf(s)) >= MaxServerRoutes

ReserveOutcome(p, at) ==
  IF routes[p.index] # NoValue THEN "conflict"
  ELSE IF Past(p.expires, at) THEN "expired"
  ELSE IF \/ ~Fresh(p.server, at) \/ RoutesFull(p.server)
          \/ Cardinality(LiveRoutesOf(p.server)) >= MaxLive
       THEN "unavailable" ELSE "reserved"

ActivateOutcome(p, at) ==
  LET r == routes[p.index] IN
  IF r = NoValue THEN "not_found"
  ELSE IF r.revision # p.revision \/ r.handle # p.handle \/ r.expires # p.expires
       THEN "conflict"
  ELSE IF r.until <= at \/ Past(r.expires, at) THEN "expired"
  ELSE IF r.state # "reserved" THEN "conflict" ELSE "active"

RevokeOutcome(p) ==
  IF routes[p.index] = NoValue /\ RoutesFull(p.server) THEN "unavailable"
  ELSE "revoked"

Decision(p, at) ==
  IF TokenElsewhere(p) \/ OthersRow(p) THEN "conflict"
  ELSE IF p.op # "revoke" /\ routes[p.index] # NoValue /\ ~Live(routes[p.index])
       THEN routes[p.index].state
  ELSE CASE p.op = "reserve"  -> ReserveOutcome(p, at)
         [] p.op = "activate" -> ActivateOutcome(p, at)
         [] p.op = "revoke"   -> RevokeOutcome(p)
         [] OTHER             -> "unavailable"

(* What the mutation adds to receipts plus live routes *)
GrowthOfOne(p, outcome) ==      \* mutant: nothing is set aside for the revocation
  IF outcome = "revoked" /\ Live(routes[p.index]) THEN 0 ELSE 1
Growth(p, outcome) ==
  IF outcome = "reserved" THEN 2
  ELSE IF outcome = "revoked" /\ Live(routes[p.index]) THEN 0 ELSE 1

(* What the replay statement, which runs first, reserves for it *)
NonceGrowth(p) ==
  LET r == routes[p.index] IN
  IF p.op = "reserve" THEN 2
  ELSE IF /\ p.op = "revoke" /\ Live(r) /\ r.server = p.server /\ r.token = p.token
          /\ ~Answered(p) /\ ReceiptRoomFor(p.server, 0)
       THEN 0 ELSE 1

Higher(a, b) == IF a < b THEN b ELSE a
ReceiptRevision(p, outcome) ==
  LET r == routes[p.index] IN
  IF r = NoValue THEN p.revision
  ELSE IF p.op # "revoke" /\ ~Live(r) THEN r.revision
  ELSE IF outcome = "revoked" THEN Higher(r.revision, p.revision)
  ELSE p.revision

ReceiptFor(p, outcome, n, at) ==
  LET r == routes[p.index] IN
  [payload |-> p, outcome |-> outcome, sequence |-> n,
   handle |-> IF outcome = "reserved" THEN n
              ELSE IF r = NoValue THEN NoValue ELSE r.handle,
   until |-> IF outcome = "reserved" THEN at + ReservationLife
             ELSE IF r = NoValue THEN NoValue ELSE r.until,
   revision |-> ReceiptRevision(p, outcome), expires |-> at + Retention]

-----------------------------------------------------------------------------
(* mutateAccessRoute: one batch, fenced by its replay row                     *)

DropGrantsOf(i) == {g \in grants : g.index # i}

RevokedRow(p, at) ==
  LET r == routes[p.index] IN
  IF r = NoValue
  THEN [server |-> p.server, token |-> p.token, revision |-> p.revision,
        state |-> "revoked", expires |-> p.expires, handle |-> p.handle,
        until |-> at + ReservationLife, revokedAt |-> at]
  ELSE [r EXCEPT !.state = "revoked", !.revision = Higher(r.revision, p.revision),
                 !.revokedAt = IF @ = NoValue THEN at ELSE @]

(* The statements after the receipt, each fenced by the receipt's outcome *)
Apply(p, outcome, n, at) ==
  LET r == routes[p.index] IN
  \/ /\ outcome = "reserved"
     /\ routes' = [routes EXCEPT ![p.index] =
          [server |-> p.server, token |-> p.token, revision |-> p.revision,
           state |-> "reserved", expires |-> p.expires, handle |-> n,
           until |-> at + ReservationLife, revokedAt |-> NoValue]]
     /\ UNCHANGED grants
  \/ /\ outcome = "active"
     /\ routes' = [routes EXCEPT ![p.index].state = "active"]
     /\ UNCHANGED grants
  \/ /\ outcome = "revoked" /\ p.op = "revoke"
     /\ routes' = [routes EXCEPT ![p.index] = RevokedRow(p, at)]
     /\ grants' = DropGrantsOf(p.index)
  \/ /\ outcome = "expired"
     /\ routes' = IF Live(r)
                  THEN [routes EXCEPT ![p.index].state = "expired",
                                      ![p.index].revokedAt = at]
                  ELSE routes
     /\ UNCHANGED grants
  \/ /\ \/ outcome \in {"conflict", "not_found", "unavailable"}
        \/ outcome = "revoked" /\ p.op # "revoke"
     /\ UNCHANGED <<routes, grants>>

(* The request is answered from its receipt: a new one if it has none yet and *)
(* the budget admits it, else the old one, and then nothing else happens.     *)
Unfenced(p) == TRUE                   \* mutant: a retry is decided again
Unanswered(p) == ~Answered(p)
Recorded(p, at) == /\ p.op # "result" /\ Unanswered(p)
                   /\ ReceiptRoomFor(p.server, Growth(p, Decision(p, at)))
Mutate(p, n, nonce, at) ==
  \E dropped \in Batches(ExpiredNonces(at)) :
    LET kept == nonces \ dropped IN
    \/ /\ ~(Unused(kept, p.server, n, nonce) /\ NonceRoomFor(kept, NonceGrowth(p)))
       /\ dropped # {} /\ nonces' = kept
       /\ UNCHANGED <<presence, routes, receipts, replay, grants>>
    \/ /\ Unused(kept, p.server, n, nonce) /\ NonceRoomFor(kept, NonceGrowth(p))
       /\ nonces' = kept \cup {NonceRow(p.server, nonce, at)}
       /\ replay' = [replay EXCEPT ![p.server] = n]
       /\ \/ /\ Recorded(p, at)
             /\ receipts' = receipts \cup {ReceiptFor(p, Decision(p, at), n, at)}
             /\ Apply(p, Decision(p, at), n, at)
          \/ ~Recorded(p, at) /\ UNCHANGED <<receipts, routes, grants>>
       /\ UNCHANGED presence

MutateAccessRoute ==
  /\ \E p \in Request, n \in Sequence, nonce \in Nonce, at \in Clock :
       Mutate(p, n, nonce, at)
  /\ UNCHANGED <<now, resolving, issued, denied>>

-----------------------------------------------------------------------------
(* cleanupAccessState: grants, expiry, receipts and tombstones, in this order *)

ExpiredRoute(r, at) ==
  \/ r.state = "reserved" /\ r.until <= at
  \/ r.state = "active" /\ Past(r.expires, at)
ExpireRoutes(E, at) ==
  [i \in Index |-> IF i \in E THEN [routes[i] EXCEPT !.state = "expired", !.revokedAt = at]
                   ELSE routes[i]]
HasReceipt(r, kept) ==
  \E c \in kept : c.payload.server = r.server /\ c.payload.token = r.token
TombstonesRegardless(after, kept, at) ==      \* mutant: receipts do not matter
  {i \in Index : after[i] # NoValue /\ ~Live(after[i])
                 /\ after[i].revokedAt <= at - Retention}
Tombstones(after, kept, at) ==
  {i \in Index : /\ after[i] # NoValue /\ ~Live(after[i])
                 /\ after[i].revokedAt <= at - Retention
                 /\ ~HasReceipt(after[i], kept)}

CleanupGrantsOnly(at) ==      \* mutant: receipts are kept, and so their routes
  \E G \in Batches({g \in grants : g.until <= at}) :
    G # {} /\ grants' = grants \ G /\ UNCHANGED <<routes, receipts, denied>>
CleanupAt(at) ==
  \E G \in Batches({g \in grants : g.until <= at}),
     E \in Batches({i \in Index : routes[i] # NoValue /\ ExpiredRoute(routes[i], at)}),
     R \in Batches({c \in receipts : c.expires <= at}) :
    LET after == ExpireRoutes(E, at) IN
    \E T \in Batches(Tombstones(after, receipts \ R, at)) :
      /\ G # {} \/ E # {} \/ R # {} \/ T # {}
      /\ routes' = [i \in Index |-> IF i \in T THEN NoValue ELSE after[i]]
      /\ receipts' = receipts \ R
      /\ grants' = {g \in grants \ G : g.index \notin T}     \* ON DELETE CASCADE
      /\ denied' = denied \ T
CleanupAccessState ==
  /\ \E at \in Clock : CleanupAt(at)
  /\ UNCHANGED <<now, presence, replay, nonces, resolving, issued>>

-----------------------------------------------------------------------------
(* Resolution and grants. A resolver expires the route it looks at, reads its *)
(* target, consults the room, and only then issues, still at its first clock. *)

RouteUsable(i, at) ==
  /\ routes[i] # NoValue /\ routes[i].state = "active" /\ ~Past(routes[i].expires, at)
TargetReady(s, at) == Fresh(s, at) /\ presence[s].required

ForgetExpiry(I, at) == UNCHANGED routes            \* mutant: nothing is kept
RememberExpiry(I, at) ==
  routes' = ExpireRoutes({i \in I : /\ routes[i] # NoValue /\ routes[i].state = "active"
                                    /\ Past(routes[i].expires, at)}, at)
ObserveExpiry(I, at) ==
  /\ RememberExpiry(I, at)
  /\ denied' = denied \cup {i \in I : /\ routes[i] # NoValue
                                      /\ routes[i].state \in {"active", "expired"}
                                      /\ Past(routes[i].expires, at)}

Resolve(i, at) ==
  /\ Cardinality(resolving) < MaxIssued
  /\ ObserveExpiry({i}, at)
  /\ resolving' = resolving \cup {[index |-> i, gen |-> NoValue, at |-> at]}
  /\ UNCHANGED <<now, presence, receipts, replay, nonces, grants, issued>>

Eligible(q) == RouteUsable(q.index, q.at) /\ TargetReady(routes[q.index].server, q.at)
ReadTarget(q) ==
  /\ q.gen = NoValue /\ Eligible(q)
  /\ resolving' = (resolving \ {q}) \cup
       {[q EXCEPT !.gen = presence[routes[q.index].server].gen]}
  /\ UNCHANGED <<now, d1Vars, issued, denied>>

(* The uniform denial: not eligible, over budget, or the room does not answer. *)
Refuse(q) ==
  /\ resolving' = resolving \ {q}
  /\ UNCHANGED <<now, d1Vars, issued, denied>>

GrantAnyRoute(q, kept) == routes[q.index] # NoValue        \* mutant
GrantAllowed(q, kept) ==
  /\ Eligible(q)
  /\ presence[routes[q.index].server].gen = q.gen
  /\ Cardinality(kept) < MaxGrants
  /\ Cardinality({g \in kept : g.server = routes[q.index].server}) < MaxServerGrants

IssueAccessGrant(q) ==
  /\ q.gen # NoValue /\ resolving' = resolving \ {q}
  /\ ObserveExpiry({q.index}, q.at)
  /\ \E G \in Batches({g \in grants : g.until <= q.at}) :
       \/ /\ GrantAllowed(q, grants \ G) /\ issued < MaxIssued
          /\ issued' = issued + 1
          /\ grants' = (grants \ G) \cup
               {[tag |-> issued + 1, index |-> q.index, server |-> routes[q.index].server,
                 revision |-> routes[q.index].revision, gen |-> q.gen,
                 until |-> q.at + GrantLife, redeemed |-> NoValue]}
       \/ /\ ~GrantAllowed(q, grants \ G)
          /\ grants' = grants \ G /\ UNCHANGED issued
  /\ UNCHANGED <<now, presence, receipts, replay, nonces>>

(* isAccessRedemptionLive, and the same conditions in redeemAccessGrant *)
GrantLive(g, at) ==
  /\ g.until > at /\ RouteUsable(g.index, at)
  /\ routes[g.index].revision = g.revision
  /\ TargetReady(g.server, at) /\ presence[g.server].gen = g.gen

Redeemable(g, at) == g.redeemed = NoValue /\ GrantLive(g, at)
RedeemAccessGrant(g, id, at) ==
  /\ g \in grants /\ \A x \in grants : x.redeemed # id     \* random and UNIQUE
  /\ ObserveExpiry({g.index}, at)
  /\ \/ /\ g.until <= at /\ grants' = grants \ {g}
     \/ /\ g.until > at /\ Redeemable(g, at)
        /\ grants' = (grants \ {g}) \cup {[g EXCEPT !.redeemed = id]}
     \/ /\ g.until > at /\ ~Redeemable(g, at) /\ UNCHANGED grants
  /\ UNCHANGED <<now, presence, receipts, replay, nonces, resolving, issued>>

-----------------------------------------------------------------------------
(* Publication, presence expiry and time                                      *)

(* persistSignedPublication: the same fence, one nonce, new presence *)
Publish(s, n, nonce, at) ==
  \E dropped \in Batches(ExpiredNonces(at)), g \in Generation, required \in BOOLEAN :
    LET kept == nonces \ dropped IN
    /\ n > (IF replay[s] = NoValue THEN 0 ELSE replay[s])
    /\ ~\E x \in kept : x.server = s /\ x.nonce = nonce
    /\ Cardinality(kept) + Cardinality(LiveRoutes) + 1 <= MaxNonces
    /\ replay' = [replay EXCEPT ![s] = n]
    /\ nonces' = kept \cup {NonceRow(s, nonce, at)}
    /\ presence' = [presence EXCEPT ![s] = [seen |-> at, gen |-> g, required |-> required]]
Publication ==
  /\ \E s \in Server, n \in Sequence, nonce \in Nonce, at \in Clock :
       Publish(s, n, nonce, at)
  /\ UNCHANGED <<now, routes, receipts, grants, resolving, issued, denied>>

(* expireDirectoryEntries deletes presence that is not fresh any more. *)
PresenceExpires(s) ==
  /\ presence[s] # NoValue /\ presence[s].seen <= now - Freshness
  /\ presence' = [presence EXCEPT ![s] = NoValue]
  /\ UNCHANGED <<now, routes, receipts, replay, nonces, grants, resolving, issued, denied>>

(* cleanupExpiredState: expired nonces, whether or not a writer comes *)
NoncesExpire(at) ==
  /\ \E D \in Batches(ExpiredNonces(at)) : D # {} /\ nonces' = nonces \ D
  /\ UNCHANGED <<now, presence, routes, receipts, replay, grants, resolving, issued, denied>>

Tick == now < MaxTime /\ now' = now + 1
        /\ UNCHANGED <<d1Vars, resolving, issued, denied>>

Init ==
  /\ now = 0
  /\ presence = [s \in Server |-> NoValue] /\ routes = [i \in Index |-> NoValue]
  /\ receipts = {} /\ replay = [s \in Server |-> NoValue] /\ nonces = {}
  /\ grants = {} /\ resolving = {} /\ issued = 0 /\ denied = {}

Next ==
  \/ MutateAccessRoute \/ CleanupAccessState \/ Publication
  \/ \E i \in Index, at \in Clock : Resolve(i, at)
  \/ \E q \in resolving : ReadTarget(q) \/ Refuse(q) \/ IssueAccessGrant(q)
  \/ \E g \in grants, id \in Redemption, at \in Clock : RedeemAccessGrant(g, id, at)
  \/ \E s \in Server : PresenceExpires(s)
  \/ \E at \in Clock : NoncesExpire(at)
  \/ Tick

Spec == Init /\ [][Next]_vars

(* The cron runs cleanupAccessState every few minutes, whatever else happens. *)
LiveSpec == Spec /\ WF_vars(CleanupAccessState) /\ WF_vars(Tick)
-----------------------------------------------------------------------------
(* Properties *)

(* Types of the variables, and the CHECK of access_routes: a row has a date    *)
(* of its end exactly when it is over. *)
TypeOK ==
  /\ now \in 0..MaxTime
  /\ presence \in [Server -> Presence \cup {NoValue}]
  /\ routes \in [Index -> Route \cup {NoValue}]
  /\ \A i \in Index : routes[i] # NoValue => Live(routes[i]) <=> (routes[i].revokedAt = NoValue)
  /\ \A c \in receipts : c \in Receipt
  /\ replay \in [Server -> Sequence \cup {NoValue}]
  /\ \A x \in nonces : x.server \in Server /\ x.nonce \in Nonce /\ x.until \in Nat
  /\ \A g \in grants : g \in Grant
  /\ \A q \in resolving : q \in Resolution
  /\ issued \in 0..MaxIssued /\ denied \subseteq Index

(* Whatever was admitted before, every live route can still be revoked: a     *)
(* receipt slot and a nonce slot are left for each (rate-limits.md:178-184,   *)
(* access-route-state.ts:82-84), so neither the budgets nor the capacity      *)
(* triggers of the tables can refuse it, and no unique key stands in its way. *)
RevocationReserved ==
  /\ Cardinality(receipts) + Cardinality(LiveRoutes) <= MaxReceipts
  /\ Cardinality(nonces) + Cardinality(LiveRoutes) <= MaxNonces
  /\ \A s \in Server : Cardinality(ReceiptsOf(s)) + Cardinality(LiveRoutesOf(s))
                         <= MaxServerReceipts
  /\ \A i, j \in LiveRoutes : routes[i].server = routes[j].server
                              /\ routes[i].token = routes[j].token => i = j

(* A publisher who asks again for the result of a request is told something   *)
(* that is still true: the row a receipt speaks of is there while the receipt *)
(* is, is the same token's, and has not gone back behind that outcome.        *)
ReceiptsStayTrue ==
  \A c \in receipts :
    c.outcome \in {"reserved", "active", "revoked"} =>
      LET r == routes[c.payload.index] IN
      /\ r # NoValue /\ r.server = c.payload.server /\ r.token = c.payload.token
      /\ c.outcome = "active" => r.state # "reserved"
      /\ c.outcome = "revoked" => r.state = "revoked"

(* Committed revocation wins: whatever resolutions read before it, no grant   *)
(* of a revoked or forgotten route exists (access-grants.ts:62).              *)
NoGrantOfRevokedRoute ==
  \A g \in grants : routes[g.index] # NoValue /\ routes[g.index].state # "revoked"

(* A route some batch saw past its expiry is never usable again, although     *)
(* another worker's clock may be behind (access-controller.ts:66-67).         *)
ObservedExpiry == \A i \in denied : ~Live(routes[i])

(* A row goes reserved, active, expired, revoked, skipping but never          *)
(* returning; its identity and the time it died do not change; it is          *)
(* forgotten only after its retention.                                        *)
Rank == [reserved |-> 0, active |-> 1, expired |-> 2, revoked |-> 3]
Forward(r, new) == /\ Rank[r.state] <= Rank[new.state] /\ r.revision <= new.revision
                   /\ r.server = new.server /\ r.token = new.token
                   /\ r.handle = new.handle
                   /\ ~Live(r) => new.revokedAt = r.revokedAt
MovesForward(r, new) ==
  IF new = NoValue THEN ~Live(r) /\ r.revokedAt + Retention <= now + MaxSkew
  ELSE Forward(r, new)
RouteOnlyMovesForward ==
  [][\A i \in Index : routes[i] # NoValue => MovesForward(routes[i], routes'[i])]_vars

(* However small its batches, the cleanup catches up: again and again no      *)
(* expired grant, lapsed route, expired receipt or forgettable tombstone is   *)
(* left (access-route-state.ts:208-224).                                      *)
BacklogDrains ==
  []<>(/\ \A g \in grants : g.until > now
       /\ \A i \in Index : routes[i] # NoValue => ~ExpiredRoute(routes[i], now)
       /\ \A c \in receipts : c.expires > now
       /\ Tombstones(routes, receipts, now) = {})

(* A route is reserved, activated or revoked only by a request that had no    *)
(* receipt, in the batch that stores its receipt: a retry changes nothing.    *)
Effect(r, new) == /\ new # NoValue /\ new.state # "expired"
                  /\ r = NoValue \/ r.state # new.state
OneEffectPerRequest ==
  [][\A i \in Index : Effect(routes[i], routes'[i]) =>
       \E c \in receipts' \ receipts :
         /\ c.payload.index = i /\ c.outcome = routes'[i].state
         /\ ~\E d \in receipts : SameRequest(d, c.payload)]_vars

=============================================================================
