--------------------------- MODULE RendezvousRoom ---------------------------
(***************************************************************************)
(* The room of one game server (rendezvous-room.ts): the control socket of *)
(* the server, the sessions of clients with their hibernation attachments, *)
(* the operations the room queues (upgrades, publications, access_init and *)
(* revocation notices) and the messages it does not queue with them.       *)
(*                                                                         *)
(* One action is one stretch of code between two awaits, or one answer of  *)
(* D1.  Attachment writes and closes succeed.  A deadline is a flag that   *)
(* an environment action sets (`expired'), and the 24 hours an admission   *)
(* is retained are longer than every behaviour.                            *)
(***************************************************************************)
EXTENDS Integers, FiniteSets

CONSTANTS
  Ticket,            \* tickets clients present; a grant is the ticket of a protected one
  Protected,         \* tickets that are access grants
  NoValue,
  MaxClients,        \* bound on client connections
  MaxControls,       \* bound on server connections
  MaxGeneration,     \* bound on publications
  MaxActive,         \* rendezvousActiveClientLimit
  MaxAdmissions,     \* MAX_RENDEZVOUS_REPLAY_ADMISSIONS
  MaxTickets,        \* MAX_RETAINED_TICKETS
  MaxServerFrames,   \* MAX_SERVER_CANDIDATES
  MaxFaults          \* bound on what disturbs the room: failing D1 calls and sends,
                     \* revocations, expiries, violations of the protocol, peers that
                     \* go away, hibernations

ASSUME ConstantsAssumption ==
  /\ Protected \subseteq Ticket /\ IsFiniteSet(Ticket) /\ NoValue \notin Ticket
  /\ MaxClients \in Nat /\ MaxControls \in Nat /\ MaxGeneration \in Nat \ {0}
  /\ MaxActive \in Nat /\ MaxAdmissions \in Nat /\ MaxTickets \in Nat
  /\ MaxServerFrames \in Nat /\ MaxFaults \in Nat

Client == 1..MaxClients          \* connection ids, in the order they are accepted
Generation == 1..MaxGeneration   \* publication tokens; 0 is no presence row

(* What the attachment of a client and that of a control hold *)
Session ==
  [stage : {"awaiting", "exchange", "terminal"}, auth : {"awaiting_init", "ready", "terminal"},
   control : 1..MaxControls, gen : Generation, ticket : Ticket, raw : BOOLEAN,
   digest : BOOLEAN, summary : BOOLEAN, frames : 0..MaxServerFrames + 2]
TicketState ==
  [ticket : Ticket, client : Client, active : BOOLEAN, sent : 0..MaxServerFrames,
   done : BOOLEAN]
ControlState ==
  [id : 1..MaxControls, gen : Generation, access : BOOLEAN, open : BOOLEAN,
   tickets : SUBSET TicketState]

ASSUME NoValueAssumption == NoValue \notin Session \cup ControlState

VARIABLES
  (* D1 *)
  published,  \* server_presence.rendezvous_generation, or 0 without a row
  issued,     \* generations publishers have drawn so far
  revoked,    \* grants whose route was revoked, expired or replaced
  redeemed,   \* grant -> the connection that redeemed it, or NoValue
  (* the room's storage, alarm and sockets *)
  generation, \* TOKEN_GENERATION_KEY and currentGeneration
  claims,     \* rendezvous_admissions: tickets once admitted
  alarm,      \* "session" at the earliest deadline, "replay" in hours, "none"
  server,     \* the current control: its attachment and socket, or NoValue
  controls,   \* controls accepted so far
  client,     \* connection -> attachment, NoValue before it is accepted
  socket,     \* connection -> "none", "open", "closing" or "gone"
  expired,    \* connections whose expiresAt has passed
  (* its memory *)
  finalized,  \* finalizedConnections
  op,         \* the operation at the head of operationTail, or NoValue
  notice,     \* a revocation notice at its head, or NoValue
  handler,    \* connection -> the message its queue is at, or NoValue
  control,    \* the message the control's queue is at, or NoValue
  (* history *)
  notified,   \* grants revoked before a notice that was answered
  summaries,  \* connection -> terminal metrics written for it
  faults

d1Vars      == <<published, issued, revoked, redeemed>>
sessionVars == <<server, client, socket, finalized, summaries>>
roomVars    == <<generation, claims, alarm, controls, expired>>
queueVars   == <<op, notice, handler, control>>
vars        == <<d1Vars, sessionVars, roomVars, queueVars, notified, faults>>

-----------------------------------------------------------------------------
(* Sockets and attachments *)

Connected == {c \in Client : socket[c] \in {"open", "closing"}}
Ongoing(c) == client[c] # NoValue /\ client[c].stage # "terminal"
Attachments(S) == [c \in S |-> client[c]]

(* reconcileActiveServer *)
Active == server # NoValue /\ server.open /\ server.gen = generation
ActiveControl(id, g) == Active /\ server.id = id /\ server.gen = g

(* countActiveClients *)
ActiveClients == {c \in Client : socket[c] = "open" /\ Ongoing(c) /\ c \notin expired
                                 /\ client[c].control = server.id}

(* The attachment of a connection when it is accepted *)
NewSession(q) ==
  [stage |-> "awaiting",
   auth |-> IF q.ticket \in Protected THEN "awaiting_init" ELSE "ready",
   control |-> q.control, gen |-> q.gen, ticket |-> q.ticket,
   raw |-> TRUE,          \* boundTicketHash, accessGrant, accessRedemption are set
   digest |-> FALSE,      \* ticket, ticketDigest are set
   summary |-> TRUE, frames |-> 0]

(* transitionClientTerminal, then emitTerminalMetric *)
Emits(c, att) == ~att.summary /\ c \notin finalized
Terminated(c, att) ==
  [att EXCEPT !.stage = "terminal", !.auth = "terminal", !.raw = FALSE,
              !.digest = FALSE, !.summary = @ \/ Emits(c, att)]
(* markTicketTerminal *)
TicketOfEnded(c, att, x) == att.digest                          \* mutant
OwnTicket(c, att, x) == att.digest /\ x.client = c /\ x.ticket = att.ticket
Marked(s, atts) ==
  IF s = NoValue THEN s
  ELSE [s EXCEPT !.tickets =
         {IF \E c \in DOMAIN atts : OwnTicket(c, atts[c], x)
          THEN [x EXCEPT !.active = FALSE] ELSE x : x \in @}]

(* failClient for every connection of atts, with the attachment its caller    *)
(* holds; s is the control the caller leaves.                                 *)
Fail(atts, s) ==
  /\ client' = [c \in Client |-> IF c \in DOMAIN atts THEN Terminated(c, atts[c])
                                 ELSE client[c]]
  /\ socket' = [c \in Client |-> IF c \in DOMAIN atts /\ socket[c] = "open"
                                 THEN "closing" ELSE socket[c]]
  /\ finalized' = finalized \cup {c \in DOMAIN atts : Emits(c, atts[c])}
  /\ summaries' = [c \in Client |-> IF c \in DOMAIN atts /\ Emits(c, atts[c])
                                    THEN summaries[c] + 1 ELSE summaries[c]]
  /\ server' = Marked(s, atts)
FailClient(c) == Fail(Attachments({c}), server)
FailControl == Fail(<<>>, NoValue)                             \* mutant
FailServer == Fail(Attachments(Connected), NoValue)

(* expireClients and pruneServerTickets *)
Pruned(s) == IF s = NoValue THEN s
             ELSE [s EXCEPT !.tickets = {x \in @ : x.client \notin expired}]
ExpireClients == Fail(Attachments({c \in Connected : c \in expired /\ Ongoing(c)}), Pruned(server))

(* rotateTokenGeneration *)
RotateControls(g) == generation' = g /\ UNCHANGED sessionVars   \* mutant
RotateTokenGeneration(g) ==
  /\ generation' = g
  /\ IF generation = g THEN UNCHANGED sessionVars
     ELSE IF server # NoValue /\ server.gen # g THEN FailServer
     ELSE Fail(Attachments({c \in Connected : client[c].gen # g}), server)

(* scheduleAdmissionAlarm and scheduleNextAlarm, after the step *)
AdmissionAlarm == IF claims = {} THEN "none" ELSE "replay"
NextAlarm ==
  IF \/ \E c \in Client : socket'[c] = "open" /\ client'[c].stage # "terminal"
     \/ server' # NoValue /\ server'.open /\ server'.tickets # {}
  THEN "session" ELSE AdmissionAlarm

-----------------------------------------------------------------------------
(* D1 *)

(* isAccessRedemptionLive *)
Live(t, g) == t \notin revoked /\ published = g
Failing == IF faults < MaxFaults THEN {"error"} ELSE {}
Answers(t, g) == {IF Live(t, g) THEN "live" ELSE "dead"} \cup Failing
Counted(answer) == faults' = IF answer = "error" THEN faults + 1 ELSE faults
Faulty == faults < MaxFaults /\ faults' = faults + 1

(* A revocation, an expiry, or a grant whose life is over *)
Revoke(t) ==
  /\ Faulty /\ t \in Protected \ revoked /\ revoked' = revoked \cup {t}
  /\ UNCHANGED <<published, issued, redeemed, sessionVars, roomVars, queueVars, notified>>

(* expireDirectoryEntries *)
PresenceExpires ==
  /\ Faulty /\ published # 0 /\ published' = 0
  /\ UNCHANGED <<issued, revoked, redeemed, sessionVars, roomVars, queueVars, notified>>

-----------------------------------------------------------------------------
(* Operations of the room's queue *)

(* An operation begins where D1 answers readPublishedGeneration: that read and *)
(* the code up to the next await are one step, and nothing is left of an       *)
(* operation whose read fails.                                                 *)
RoomFree == op = NoValue /\ notice = NoValue
Operation(kind, at) ==
  [kind |-> kind, at |-> at, gen |-> published, client |-> NoValue, ticket |-> NoValue,
   control |-> NoValue, access |-> FALSE, answer |-> "live"]
At(place) == op # NoValue /\ op.at = place
OpOf(kind) == op # NoValue /\ op.kind = kind

(* An upgrade or a publication that names another generation than D1's is     *)
(* refused, after reconcilePublishedGeneration.                               *)
Reconcile ==
  /\ RotateTokenGeneration(published)
  /\ alarm' = IF generation = published THEN alarm ELSE NextAlarm
StaleRequest ==
  /\ RoomFree /\ issued > 0 /\ Reconcile
  /\ UNCHANGED <<d1Vars, claims, controls, expired, queueVars, notified, faults>>

(* acceptServer: the previous control and every client are retired. *)
ServerUpgrade ==
  /\ RoomFree /\ published # 0 /\ controls < MaxControls
  /\ generation' = published
  /\ IF generation = published THEN ExpireClients ELSE RotateTokenGeneration(published)
  /\ alarm' = NextAlarm
  /\ \E access \in BOOLEAN : op' = [Operation("server", "serve") EXCEPT !.access = access]
  /\ UNCHANGED <<d1Vars, claims, controls, expired, notice, handler, control, notified, faults>>
AcceptServer ==
  /\ At("serve")
  /\ controls' = controls + 1
  /\ Fail(Attachments(Connected), [id |-> controls + 1, gen |-> op.gen, access |-> op.access,
                                   open |-> TRUE, tickets |-> {}])
  /\ op' = NoValue
  /\ UNCHANGED <<d1Vars, generation, claims, alarm, expired, notice, handler, control,
                 notified, faults>>

(* acceptClient up to its first await *)
Unused == {c \in Client : socket[c] = "none"}
RoomForClient == Cardinality(ActiveClients) < MaxActive
ClientUpgrade ==
  /\ RoomFree /\ published # 0 /\ generation' = published
  /\ IF generation = published THEN ExpireClients ELSE RotateTokenGeneration(published)
  /\ alarm' = IF generation = published THEN alarm ELSE NextAlarm
  /\ \E t \in Ticket, c \in Unused :
       /\ \A d \in Unused : c <= d
       /\ op' = IF /\ generation = published /\ Active /\ RoomForClient
                   /\ t \in Protected => server.access
                THEN [Operation("client", IF t \in Protected THEN "redeem" ELSE "claim")
                        EXCEPT !.client = c, !.ticket = t, !.control = server.id]
                ELSE NoValue
  /\ UNCHANGED <<d1Vars, claims, controls, expired, notice, handler, control, notified, faults>>

(* redeemAccessGrant; its answer may be lost after it took effect. *)
Redeem ==
  /\ At("redeem")
  /\ \E answer \in {"answered"} \cup Failing :
       /\ Counted(answer)
       /\ IF redeemed[op.ticket] = NoValue /\ Live(op.ticket, op.gen)
          THEN /\ redeemed' = [redeemed EXCEPT ![op.ticket] = op.client]
               /\ op' = IF answer = "error" THEN NoValue ELSE [op EXCEPT !.at = "redeemed"]
          ELSE op' = NoValue /\ UNCHANGED redeemed
  /\ UNCHANGED <<published, issued, revoked, sessionVars, roomVars, notice, handler,
                 control, notified>>

(* isAccessRedemptionLive, asked before the claim and before the delivery. *)
ReadReceipt ==
  /\ At("redeemed") \/ At("claimed")
  /\ \E answer \in Answers(op.ticket, op.gen) :
       /\ Counted(answer)
       /\ op' = IF op.at = "claimed" THEN [op EXCEPT !.at = "deliver", !.answer = answer]
                ELSE IF answer = "live" THEN [op EXCEPT !.at = "claim"] ELSE NoValue
  /\ UNCHANGED <<d1Vars, sessionVars, roomVars, notice, handler, control, notified>>

(* Every local fence is read again before the claim; the proof may have       *)
(* expired too.                                                               *)
ClaimFence == ActiveControl(op.control, op.gen) /\ RoomForClient
RefuseClaim ==
  /\ At("claim") /\ op' = NoValue
  /\ alarm' \in {alarm} \cup (IF ClaimFence /\ Cardinality(claims) >= MaxAdmissions
                             THEN {AdmissionAlarm} ELSE {})
  /\ UNCHANGED <<d1Vars, sessionVars, generation, claims, controls, expired, notice,
                 handler, control, notified, faults>>
Claim ==
  /\ At("claim") /\ ClaimFence
  /\ op.ticket \notin claims /\ Cardinality(claims) < MaxAdmissions
  /\ claims' = claims \cup {op.ticket}
  /\ client' = [client EXCEPT ![op.client] = NewSession(op)]
  /\ socket' = [socket EXCEPT ![op.client] = "open"]
  /\ UNCHANGED <<server, finalized, summaries>>
  /\ alarm' = NextAlarm
  /\ op' = [op EXCEPT !.at = IF op.ticket \in Protected THEN "claimed" ELSE "deliver"]
  /\ UNCHANGED <<d1Vars, generation, controls, expired, notice, handler, control,
                 notified, faults>>

(* The last check before the upgrade is answered *)
DeliverFence ==
  LET c == op.client IN
  /\ op.answer = "live" /\ c \notin expired /\ Ongoing(c) /\ socket[c] = "open"
  /\ ActiveControl(op.control, op.gen)
Deliver ==
  /\ At("deliver") /\ DeliverFence
  /\ client' = [client EXCEPT ![op.client] = [NewSession(op) EXCEPT !.summary = FALSE]]
  /\ op' = NoValue
  /\ UNCHANGED <<d1Vars, server, socket, finalized, summaries, roomVars, notice, handler,
                 control, notified, faults>>
(* The catch branch; the proof may have expired although the fence holds. *)
FailAdmission ==
  /\ At("deliver")
  /\ FailClient(op.client)
  /\ alarm' = AdmissionAlarm /\ op' = NoValue
  /\ UNCHANGED <<d1Vars, generation, claims, controls, expired, notice, handler, control,
                 notified, faults>>

(* commitPublication: the room leaves the old generation before D1 does. *)
Publish ==
  /\ RoomFree /\ issued < MaxGeneration /\ issued' = issued + 1
  /\ RotateTokenGeneration(issued + 1)
  /\ alarm' = NextAlarm
  /\ op' = [Operation("publication", "persist") EXCEPT !.gen = issued + 1]
  /\ UNCHANGED <<published, revoked, redeemed, claims, controls, expired, notice, handler,
                 control, notified, faults>>
Persist ==
  /\ At("persist")
  /\ \/ published' = op.gen /\ op' = NoValue /\ UNCHANGED faults
     \/ UNCHANGED <<published, faults>> /\ op' = [op EXCEPT !.at = "rejected"]  \* a replay
     \/ /\ Faulty      \* an ambiguous answer
        /\ published' \in {published, op.gen} /\ op' = [op EXCEPT !.at = "match"]
  /\ UNCHANGED <<issued, revoked, redeemed, sessionVars, roomVars, notice, handler,
                 control, notified>>
(* rendezvousPublicationMatches *)
Match ==
  /\ At("match")
  /\ \E answer \in {"read"} \cup Failing :
       /\ Counted(answer)
       /\ op' = IF answer = "error" \/ published = op.gen THEN NoValue
                ELSE [op EXCEPT !.at = "unmatched"]
  /\ UNCHANGED <<d1Vars, sessionVars, roomVars, notice, handler, control, notified>>
(* The publication was not stored: the room returns to D1's generation. A     *)
(* rejection whose read fails takes the path of an ambiguous answer.          *)
Return ==
  /\ At("rejected") \/ At("unmatched")
  /\ \/ Reconcile /\ op' = NoValue /\ UNCHANGED faults
     \/ /\ Faulty /\ UNCHANGED <<sessionVars, generation, alarm>>
        /\ op' = IF At("rejected") THEN [op EXCEPT !.at = "match"] ELSE NoValue
  /\ UNCHANGED <<d1Vars, claims, controls, expired, notice, handler, control, notified>>

(* access_init waits for its turn among the operations: acceptAccessInit *)
InitFence(c) == /\ client[c].auth = "awaiting_init" /\ client[c].stage = "awaiting"
                /\ c \notin expired /\ client[c].raw
EnterInit(c) ==
  /\ RoomFree /\ handler[c] # NoValue /\ handler[c].at = "init"
  /\ IF InitFence(c)
     THEN /\ op' = [Operation("init", "confirm") EXCEPT !.gen = client[c].gen, !.client = c,
                                                      !.ticket = client[c].ticket]
          /\ UNCHANGED <<sessionVars, handler>>
     ELSE FailClient(c) /\ handler' = [handler EXCEPT ![c] = NoValue] /\ UNCHANGED op
  /\ UNCHANGED <<d1Vars, roomVars, notice, control, notified, faults>>
ReadInit ==
  /\ At("confirm")
  /\ \E answer \in Answers(op.ticket, op.gen) :
       Counted(answer) /\ op' = [op EXCEPT !.at = "confirmed", !.answer = answer]
  /\ UNCHANGED <<d1Vars, sessionVars, roomVars, notice, handler, control, notified>>
AcceptAccessInit ==
  LET c == op.client IN
  /\ At("confirmed")
  /\ IF /\ op.answer = "live" /\ InitFence(c) /\ socket[c] = "open"
        /\ ActiveControl(client[c].control, client[c].gen)
     THEN /\ client' = [client EXCEPT ![c].auth = "ready"]
          /\ UNCHANGED <<server, socket, finalized, summaries>>
     ELSE FailClient(c)
  /\ op' = NoValue /\ handler' = [handler EXCEPT ![c] = NoValue]
  /\ UNCHANGED <<d1Vars, roomVars, notice, control, notified, faults>>

-----------------------------------------------------------------------------
(* The revocation notice *)

NoticeUnserialized ==    \* mutant
  /\ notice = NoValue /\ Active /\ server.access
  /\ notice' = [todo |-> Connected, client |-> NoValue, att |-> NoValue,
                answer |-> NoValue, since |-> revoked]
  /\ UNCHANGED <<d1Vars, sessionVars, roomVars, op, handler, control, notified, faults>>
NoticeRequest ==
  /\ RoomFree /\ Active /\ server.access
  /\ notice' = [todo |-> Connected, client |-> NoValue, att |-> NoValue,
                answer |-> NoValue, since |-> revoked]
  /\ UNCHANGED <<d1Vars, sessionVars, roomVars, op, handler, control, notified, faults>>
(* The attachment is read before D1 is asked, and D1 only for a redemption. *)
NoticeRead(c) ==
  /\ notice # NoValue /\ notice.client = NoValue /\ c \in notice.todo
  /\ IF client[c].raw /\ client[c].ticket \in Protected
     THEN \E answer \in Answers(client[c].ticket, client[c].gen) :
            /\ Counted(answer)
            /\ notice' = IF answer = "error" THEN NoValue
                         ELSE [notice EXCEPT !.client = c, !.att = client[c], !.answer = answer]
     ELSE notice' = [notice EXCEPT !.todo = @ \ {c}] /\ UNCHANGED faults
  /\ UNCHANGED <<d1Vars, sessionVars, roomVars, op, handler, control, notified>>
NoticeFail ==
  /\ notice # NoValue /\ notice.client # NoValue
  /\ IF notice.answer = "dead"
     THEN Fail([c \in {notice.client} |-> notice.att], server)
     ELSE UNCHANGED sessionVars
  /\ notice' = [notice EXCEPT !.todo = @ \ {notice.client}, !.client = NoValue,
                              !.att = NoValue, !.answer = NoValue]
  /\ UNCHANGED <<d1Vars, roomVars, op, handler, control, notified, faults>>
NoticeDone ==
  /\ notice # NoValue /\ notice.todo = {}
  /\ notified' = notified \cup notice.since /\ notice' = NoValue
  /\ UNCHANGED <<d1Vars, sessionVars, roomVars, op, handler, control, faults>>

-----------------------------------------------------------------------------
(* Frames of clients: one at a time is in the queue of a socket, and it is of *)
(* the kind the session awaits; any other fails the session as BadFrame does. *)
(* `late' is a frame that arrived when its grant was no longer live.          *)

Stale(t, g) == t \in Protected /\ ~Live(t, g)
Delivered(c) == ~(OpOf("client") /\ op.client = c)
Waits(c, at) ==
  handler' = [handler EXCEPT ![c] =
               [at |-> at, late |-> Stale(client[c].ticket, client[c].gen), answer |-> "live"]]
Drops(c) == FailClient(c) /\ handler' = [handler EXCEPT ![c] = NoValue]

(* handleClientMessage; the hash, then for a grant D1, are awaited next. *)
HandleCandidate(c, next) ==
  IF c \notin expired /\ client[c].stage = "awaiting" /\ client[c].auth = "ready"
  THEN (IF handler[c] = NoValue THEN Waits(c, next)
        ELSE handler' = [handler EXCEPT ![c].at = next]) /\ UNCHANGED sessionVars
  ELSE Drops(c)
ClientFrame(c) ==
  /\ socket[c] = "open" /\ handler[c] = NoValue /\ Delivered(c)
  /\ client[c].stage = "awaiting"
  /\ IF client[c].gen # generation THEN Drops(c)
     ELSE IF client[c].ticket \notin Protected THEN HandleCandidate(c, "dispatch")
     ELSE /\ Waits(c, IF client[c].auth = "awaiting_init" THEN "init" ELSE "check")
          /\ UNCHANGED sessionVars
  /\ UNCHANGED <<d1Vars, roomVars, op, notice, control, notified, faults>>
ReadFrame(c) ==
  /\ handler[c] # NoValue /\ handler[c].at \in {"check", "recheck"}
  /\ \E answer \in Answers(client[c].ticket, client[c].gen) :
       /\ Counted(answer)
       /\ handler' = [handler EXCEPT ![c].at = IF @ = "check" THEN "checked" ELSE "dispatch",
                                     ![c].answer = answer]
  /\ UNCHANGED <<d1Vars, sessionVars, roomVars, op, notice, control, notified>>
CheckFrame(c) ==
  /\ handler[c] # NoValue /\ handler[c].at = "checked"
  /\ IF /\ handler[c].answer = "live" /\ Ongoing(c) /\ c \notin expired
        /\ client[c].gen = generation
     THEN HandleCandidate(c, "recheck")
     ELSE Drops(c)
  /\ UNCHANGED <<d1Vars, roomVars, op, notice, control, notified, faults>>

(* beginClientTicket after its last await *)
DispatchUnread(c) ==     \* mutant
  /\ handler[c].answer = "live" /\ c \notin expired
  /\ ActiveControl(client[c].control, client[c].gen)
DispatchFence(c) ==
  LET kept == Pruned(server).tickets IN
  /\ handler[c].answer = "live" /\ socket[c] = "open" /\ c \notin expired
  /\ client[c].stage = "awaiting" /\ client[c].auth = "ready"
  /\ ActiveControl(client[c].control, client[c].gen) /\ client[c].gen = generation
  /\ \A x \in kept : x.ticket # client[c].ticket
  /\ Cardinality(kept) < MaxTickets
DispatchFrame(c) ==
  /\ handler[c] # NoValue /\ handler[c].at = "dispatch"
  /\ handler' = [handler EXCEPT ![c] = NoValue]
  /\ \/ /\ DispatchFence(c)
        /\ client' = [client EXCEPT ![c].stage = "exchange", ![c].digest = TRUE,
                                    ![c].frames = 1]
        /\ server' = [Pruned(server) EXCEPT !.tickets = @ \cup
                       {[ticket |-> client[c].ticket, client |-> c, active |-> TRUE,
                         sent |-> 0, done |-> FALSE]}]
        /\ UNCHANGED <<socket, finalized, summaries, faults>>
     \/ DispatchFence(c) /\ Faulty /\ FailServer      \* the send fails
     \/ ~DispatchFence(c) /\ FailClient(c) /\ UNCHANGED faults
  /\ UNCHANGED <<d1Vars, roomVars, op, notice, control, notified>>

-----------------------------------------------------------------------------
(* Frames of the control, for a ticket it retains: handleServerMessage *)

ServerFrame ==
  /\ server # NoValue /\ server.open /\ control = NoValue
  /\ IF server.gen # generation THEN FailServer /\ UNCHANGED control
     ELSE \E kind \in {"candidate", "complete"}, x \in server.tickets :
       /\ control' = [id |-> server.id, kind |-> kind, ticket |-> x.ticket, at |-> "route",
                      client |-> NoValue, late |-> Stale(x.ticket, server.gen),
                      answer |-> "live"]
       /\ UNCHANGED sessionVars
  /\ UNCHANGED <<d1Vars, roomVars, op, notice, handler, notified, faults>>

Routing(at) == control # NoValue /\ control.at = at
Current == Active /\ server.id = control.id

(* applyServerFrameBudget *)
Budgeted(x) == IF control.kind = "candidate" THEN x.sent < MaxServerFrames ELSE ~x.done
Spent(x) == IF control.kind = "candidate" THEN [x EXCEPT !.sent = @ + 1]
            ELSE [x EXCEPT !.done = TRUE, !.active = FALSE]
With(s, x, y) == [s EXCEPT !.tickets = (@ \ {x}) \cup {y}]

(* findTicketClient *)
IsTarget(x) ==
  LET c == x.client IN
  /\ x.active /\ c \notin expired /\ socket[c] = "open" /\ Ongoing(c)
  /\ client[c].control = server.id /\ client[c].gen = server.gen
  /\ client[c].digest /\ client[c].ticket = x.ticket

(* The frame is spent and sent; a completion ends the session. *)
Forward(s, x) ==
  LET c == x.client
      forwarded == [client[c] EXCEPT !.frames = @ + 1] IN
  \/ /\ ~Budgeted(x) \/ client[c].stage # "exchange"
     /\ FailServer /\ UNCHANGED faults
  \/ /\ Budgeted(x) /\ client[c].stage = "exchange" /\ UNCHANGED faults
     /\ IF control.kind = "complete"
        THEN Fail([d \in {c} |-> forwarded], With(s, x, Spent(x)))
        ELSE /\ client' = [client EXCEPT ![c] = forwarded]
             /\ server' = With(s, x, Spent(x))
             /\ UNCHANGED <<socket, finalized, summaries>>
  \/ /\ Budgeted(x) /\ client[c].stage = "exchange"    \* the send fails
     /\ Faulty
     /\ Fail(Attachments({c}), With(s, x, Spent(x)))

RouteFrame ==
  /\ Routing("route")
  /\ LET kept == {x \in Pruned(server).tickets : x.ticket = control.ticket} IN
     \/ ~Current /\ control' = NoValue /\ UNCHANGED <<sessionVars, faults>>
     \/ /\ Current /\ kept = {}
        /\ FailServer /\ control' = NoValue /\ UNCHANGED faults
     \/ /\ Current
        /\ \E x \in kept :
             \/ /\ ~IsTarget(x)
                /\ IF Budgeted(x)
                   THEN /\ server' = With(Pruned(server), x, [Spent(x) EXCEPT !.active = FALSE])
                        /\ UNCHANGED <<client, socket, finalized, summaries>>
                   ELSE FailServer
                /\ control' = NoValue /\ UNCHANGED faults
             \/ /\ IsTarget(x) /\ x.ticket \in Protected
                /\ control' = [control EXCEPT !.at = "check", !.client = x.client]
                /\ UNCHANGED <<sessionVars, faults>>
             \/ /\ IsTarget(x) /\ x.ticket \notin Protected
                /\ Forward(Pruned(server), x) /\ control' = NoValue
  /\ UNCHANGED <<d1Vars, roomVars, op, notice, handler, notified>>
ReadRoute ==
  /\ Routing("check")
  /\ \E answer \in Answers(control.ticket, client[control.client].gen) :
       Counted(answer) /\ control' = [control EXCEPT !.at = "forward", !.answer = answer]
  /\ UNCHANGED <<d1Vars, sessionVars, roomVars, op, notice, handler, notified>>
(* Everything is read again: the ticket as the control now has it. *)
ForwardUnasked(c) ==     \* mutant
  /\ Ongoing(c) /\ c \notin expired /\ client[c].gen = generation /\ socket[c] = "open"
  /\ Current
ForwardFence(c) ==
  /\ control.answer = "live" /\ Ongoing(c) /\ c \notin expired
  /\ client[c].gen = generation /\ socket[c] = "open" /\ Current
Routes(c) == {x \in server.tickets : x.ticket = control.ticket /\ x.client = c /\ x.active}
ForwardFrame ==
  LET c == control.client IN
  /\ Routing("forward") /\ control' = NoValue
  /\ \/ /\ control.answer = "error" /\ UNCHANGED faults
        /\ IF server # NoValue /\ server.id = control.id THEN FailServer
           ELSE UNCHANGED sessionVars
     \/ ForwardFence(c) /\ \E x \in Routes(c) : Forward(server, x)
     \/ /\ control.answer # "error"
        /\ ForwardFence(c) => Routes(c) = {}
        /\ FailClient(c) /\ UNCHANGED faults
  /\ UNCHANGED <<d1Vars, roomVars, op, notice, handler, notified>>

-----------------------------------------------------------------------------
(* Violations, alarms, closed sockets, hibernation *)

(* failProtocolViolation, and webSocketError *)
BadFrame ==
  /\ Faulty
  /\ \/ \E c \in Client : socket[c] = "open" /\ Delivered(c) /\ FailClient(c)
     \/ server # NoValue /\ server.open /\ FailServer
  /\ alarm' \in {alarm, NextAlarm}
  /\ UNCHANGED <<d1Vars, generation, claims, controls, expired, queueVars, notified>>

Expire(c) ==
  /\ Faulty /\ Ongoing(c) /\ c \notin expired /\ expired' = expired \cup {c}
  /\ UNCHANGED <<d1Vars, sessionVars, generation, claims, alarm, controls, queueVars,
                 notified>>
Alarm ==
  /\ alarm = "session"
  /\ ExpireClients /\ alarm' = NextAlarm
  /\ UNCHANGED <<d1Vars, generation, claims, controls, expired, queueVars, notified, faults>>

(* handleSocketGone of a client; its counters are gone with the socket. A     *)
(* close with a signature of the room's own ends the session without metric.  *)
ClientGone(c) ==
  /\ \/ socket[c] = "closing" /\ UNCHANGED faults
     \/ socket[c] = "open" /\ Delivered(c) /\ Faulty
  /\ socket' = [socket EXCEPT ![c] = "gone"]
  /\ \/ /\ client' = [client EXCEPT ![c] = [Terminated(c, @) EXCEPT !.frames = 0]]
        /\ finalized' = finalized \cup (IF Emits(c, client[c]) THEN {c} ELSE {})
        /\ summaries' = [summaries EXCEPT ![c] = IF Emits(c, client[c]) THEN @ + 1 ELSE @]
     \/ /\ Ongoing(c)
        /\ client' = [client EXCEPT ![c] = [Terminated(c, @) EXCEPT !.summary = TRUE, !.frames = 0]]
        /\ UNCHANGED <<finalized, summaries>>
  /\ server' = Marked(server, Attachments({c}))
  /\ alarm' = NextAlarm
  /\ UNCHANGED <<d1Vars, generation, claims, controls, expired, queueVars, notified>>

(* The peer of the control is away before its close event is delivered. *)
ControlLost ==
  /\ Faulty /\ server # NoValue /\ server.open /\ server' = [server EXCEPT !.open = FALSE]
  /\ UNCHANGED <<d1Vars, client, socket, finalized, summaries, roomVars, queueVars, notified>>
ControlGone ==
  /\ \/ server # NoValue /\ ~server.open /\ FailServer
     \/ controls > (IF server = NoValue THEN 0 ELSE 1) /\ UNCHANGED sessionVars   \* a retired one
  /\ alarm' = NextAlarm
  /\ UNCHANGED <<d1Vars, generation, claims, controls, expired, queueVars, notified, faults>>

Quiet == RoomFree /\ control = NoValue /\ \A c \in Client : handler[c] = NoValue
Hibernate ==
  /\ Faulty /\ Quiet /\ finalized # {} /\ finalized' = {}
  /\ UNCHANGED <<d1Vars, server, client, socket, summaries, roomVars, queueVars, notified>>

-----------------------------------------------------------------------------
Init ==
  /\ published = 0 /\ issued = 0 /\ revoked = {}
  /\ redeemed = [t \in Protected |-> NoValue]
  /\ generation = 0 /\ claims = {} /\ alarm = "none" /\ controls = 0 /\ expired = {}
  /\ server = NoValue /\ client = [c \in Client |-> NoValue]
  /\ socket = [c \in Client |-> "none"]
  /\ finalized = {} /\ op = NoValue /\ notice = NoValue
  /\ handler = [c \in Client |-> NoValue] /\ control = NoValue
  /\ notified = {} /\ summaries = [c \in Client |-> 0] /\ faults = 0

Environment ==
  PresenceExpires \/ (\E t \in Protected : Revoke(t)) \/ (\E c \in Client : Expire(c))
RoomQueue ==
  \/ StaleRequest \/ ServerUpgrade \/ AcceptServer
  \/ ClientUpgrade \/ Redeem \/ ReadReceipt \/ RefuseClaim \/ Claim \/ Deliver \/ FailAdmission
  \/ Publish \/ Persist \/ Match \/ Return
  \/ (\E c \in Client : EnterInit(c)) \/ ReadInit \/ AcceptAccessInit
  \/ NoticeRequest \/ (\E c \in Client : NoticeRead(c)) \/ NoticeFail \/ NoticeDone
Messages ==
  \/ \E c \in Client : ClientFrame(c) \/ ReadFrame(c) \/ CheckFrame(c) \/ DispatchFrame(c)
  \/ ServerFrame \/ RouteFrame \/ ReadRoute \/ ForwardFrame \/ BadFrame
Events ==
  Alarm \/ (\E c \in Client : ClientGone(c)) \/ ControlLost \/ ControlGone \/ Hibernate

Next == Environment \/ RoomQueue \/ Messages \/ Events
Spec == Init /\ [][Next]_vars

-----------------------------------------------------------------------------
(* Properties *)

(* The types of the room's state, with its limits: the control keeps at most *)
(* MAX_RETAINED_TICKETS tickets, no ticket more frames than its budget, and  *)
(* the admissions stay under their capacity.                                 *)
TypeOK ==
  /\ published \in 0..issued /\ issued \in 0..MaxGeneration
  /\ generation \in 0..MaxGeneration /\ revoked \subseteq Protected
  /\ redeemed \in [Protected -> Client \cup {NoValue}]
  /\ claims \subseteq Ticket /\ Cardinality(claims) <= MaxAdmissions
  /\ alarm \in {"none", "replay", "session"} /\ controls \in 0..MaxControls
  /\ expired \subseteq Client /\ finalized \subseteq Client /\ notified \subseteq revoked
  /\ client \in [Client -> Session \cup {NoValue}]
  /\ socket \in [Client -> {"none", "open", "closing", "gone"}]
  /\ server # NoValue =>
       /\ server \in ControlState /\ server.id <= controls
       /\ Cardinality(server.tickets) <= MaxTickets
  /\ summaries \in [Client -> Nat] /\ faults \in 0..MaxFaults

(* Once a revocation notice was answered, no session admitted by a grant that *)
(* was revoked before it goes on, whatever admission, access_init or message  *)
(* was under way (serializeRoomOperation, rendezvous-room.ts:203).            *)
NotifiedSessionsEnded == \A c \in Client : Ongoing(c) => client[c].ticket \notin notified

(* A session that goes on belongs to the control that is current: a session  *)
(* never survives the replacement, the failure or the loss of its server     *)
(* (acceptServer, failServer, handleSocketGone).                             *)
LiveSessionIsOwned ==
  \A c \in Client : Ongoing(c) => server # NoValue /\ client[c].control = server.id
                                  /\ client[c].gen = server.gen

(* No session outlives its publication: by the time D1 shows another token,  *)
(* every session of the old one has ended, also when the write was ambiguous *)
(* (commitPublication rotates before it persists).                           *)
SessionsAreCurrent ==
  \A c \in Client : Ongoing(c) => client[c].gen = generation /\ published \in {0, generation}

(* The two attachments agree: a session in its exchange has its active ticket *)
(* in the attachment of the control, although each of the two is read, kept   *)
(* over an await and written back by several handlers.                        *)
RoutedSessionHasTicket ==
  \A c \in Client : Ongoing(c) /\ client[c].stage = "exchange" /\ c \notin expired =>
    \E x \in server.tickets : x.client = c /\ x.ticket = client[c].ticket /\ x.active

(* A frame of either side that arrives when the grant of its session is over  *)
(* is never forwarded, with or without a notice: D1 is asked again after the  *)
(* last hash (beginClientTicket, handleServerMessage).                        *)
Forwarded(c) == Ongoing(c) /\ client[c]'.frames > client[c].frames
NoFrameOfRevokedRoute ==
  [][\A c \in Client : Forwarded(c) =>
       LET frame == IF handler[c]' = handler[c] THEN control ELSE handler[c] IN ~frame.late]_vars

(* A session that ended stays ended and its secrets stay cleared, although   *)
(* operations and messages write attachments they read before an await.      *)
EndedStaysEnded ==
  [][\A c \in Client : client[c] # NoValue /\ ~Ongoing(c) => ~Ongoing(c)' /\ ~client[c]'.raw]_vars

(* docs/rate-limits.md:101 and docs/privacy.md:448: one alarm enforces the    *)
(* earliest unfinished deadline of a client or ticket.                        *)
SessionHasAlarm ==
  RoomFree => \A c \in Client : Ongoing(c) /\ socket[c] = "open" => alarm = "session"

(* rendezvous-room.ts:2067: a connection's terminal metric is written at most *)
(* once, also across a reconstruction of the room.                            *)
SummaryAtMostOnce == \A c \in Client : summaries[c] <= 1
=============================================================================
