---------------------------- MODULE RoomTeardown ----------------------------
(***************************************************************************)
(* Retiring controls and sessions of a room (rendezvous-room.ts) when the  *)
(* write of an attachment, the close of a socket, or both, fail: the       *)
(* outcomes an instance remembers, the marker that makes a reconstructed   *)
(* room quarantine itself, the alarm that retries, and the choice of one   *)
(* control after an interrupted replacement.                               *)
(*                                                                         *)
(* One action is one handler: what it awaits here is the room's storage,   *)
(* which holds back every other event.  (RendezvousRoom has the awaits of  *)
(* D1 and of Web Crypto, and no failing socket.)  Which socket fails is a  *)
(* variable that only the environment changes, between two handlers.       *)
(***************************************************************************)
EXTENDS Integers, Sequences, FiniteSetsExt

CONSTANTS
  MaxControls,    \* bound on server connections
  MaxClients,     \* bound on client connections
  MaxGeneration,  \* bound on publications
  MaxAttempts,    \* MAX_TERMINAL_CLOSE_ATTEMPTS
  MaxFaults,      \* bound on what disturbs the room: sockets that break, sends and
                  \* starts that fail, hibernations, publications
  NoValue

ASSUME ConstantsAssumption ==
  /\ MaxControls \in Nat \ {0, 1} /\ MaxClients \in Nat \ {0}
  /\ MaxGeneration \in Nat \ {0} /\ MaxAttempts \in Nat
  /\ MaxFaults \in Nat

(* Control ids grow with openedAt, so the newest control is the greatest;     *)
(* connection ids of clients continue after them.                             *)
Control == 1..MaxControls
Client == MaxControls + 1 .. MaxControls + MaxClients
Socket == Control \cup Client
(* No branch of the room looks at which of the seven ways a session failed    *)
(* in, only at whether an outcome is known: they are one value here.          *)
Outcome == {"completed", "incomplete"}

VARIABLES
  room,      \* sockets and what the room knows of them, see Fresh
  published, \* server_presence.rendezvous_generation in D1
  marker,    \* TEARDOWN_RECOVERY_KEY in the room's storage
  persisted, \* teardownRecoveryPersisted
  required,  \* teardownRecoveryRequired
  failed,    \* initializationFailed
  alarm,     \* "soon" (one millisecond), "session" (earliest deadline) or "later"
  expired,   \* clients whose expiresAt has passed
  broken,    \* socket -> [write: "ok", "late" (from the second write on) or "fail",
             \*            close: whether close() works]
  (* history *)
  doomed,    \* sockets whose double failure the room reported
  unmarked,  \* sockets whose double failure left no marker
  faults

memory == <<marker, persisted, required, failed, alarm>>
environment == <<published, expired, broken, faults>>
vars == <<room, memory, environment, doomed, unmarked>>

Sound == [write |-> "ok", close |-> TRUE]

(* A room without a connection.  `thrown': a RendezvousTeardownIntegrityError *)
(* is under way.                                                              *)
Fresh ==
  [sock |-> [x \in Socket |-> "none"],    \* "none", "open", "closing", "gone"
   att |-> [x \in Socket |-> NoValue],    \* its serialized attachment
   gen |-> 1,                             \* TOKEN_GENERATION_KEY and currentGeneration
   pend |-> [x \in Socket |-> NoValue],   \* pendingClientOutcomes, pendingServerOutcomes
   inactive |-> {},                       \* inactiveControls
   finalized |-> {},                      \* finalizedConnections
   metric |-> [c \in Client |-> <<>>],    \* terminal metrics written (history)
   thrown |-> FALSE]

(* Attachments: of a control, and of a client.                                *)
ControlState == [current : BOOLEAN, gen : Nat]
ClientState == [stage : {"awaiting", "exchange", "terminal"}, owner : Control, gen : Nat,
                summary : BOOLEAN, outcome : Outcome \cup {NoValue}, attempts : 0..MaxAttempts]
ASSUME NoValueAssumption == NoValue \notin Outcome \cup ControlState \cup ClientState \cup Control

ControlAtt(g) == [current |-> TRUE, gen |-> g]
ClientAtt(owner, g) == [stage |-> "awaiting", owner |-> owner, gen |-> g, summary |-> FALSE,
                        outcome |-> NoValue, attempts |-> 0]

-----------------------------------------------------------------------------
(* Sockets *)

Connected(r, S) == {x \in S : r.sock[x] \in {"open", "closing"}}   \* getWebSockets
Open(r, x) == r.sock[x] = "open"
Writes(x) == broken[x].write # "fail"
Rewrites(x) == broken[x].write = "ok"
Closes(r, x) == Open(r, x) => broken[x].close                      \* closeSocket's result
Close(r, x) == IF Open(r, x) /\ broken[x].close THEN [r EXCEPT !.sock[x] = "closing"] ELSE r
CloseOrThrow(r, x) == [Close(r, x) EXCEPT !.thrown = @ \/ ~Closes(r, x)]
Then(r, Stage(_)) == IF r.thrown THEN r ELSE Stage(r)
Throw(r) == [r EXCEPT !.thrown = TRUE]
Live(a) == a # NoValue /\ a.stage # "terminal"
Routing(r, x) ==
  Open(r, x) /\ (IF x \in Client THEN Live(r.att[x]) ELSE r.att[x] # NoValue /\ r.att[x].current)

(* A loop over sockets whose turns do not touch each other: `done' is what    *)
(* handling each of them alone makes of the room.                             *)
Each(r, done) ==
  [r EXCEPT
     !.sock = [x \in Socket |-> IF x \in DOMAIN done THEN done[x].sock[x] ELSE r.sock[x]],
     !.att = [x \in Socket |-> IF x \in DOMAIN done THEN done[x].att[x] ELSE r.att[x]],
     !.pend = [x \in Socket |-> IF x \in DOMAIN done THEN done[x].pend[x] ELSE r.pend[x]],
     !.inactive = {x \in Control : x \in IF x \in DOMAIN done THEN done[x].inactive ELSE r.inactive},
     !.finalized = {c \in Client : c \in IF c \in DOMAIN done THEN done[c].finalized ELSE r.finalized},
     !.metric = [c \in Client |-> IF c \in DOMAIN done THEN done[c].metric[c] ELSE r.metric[c]],
     !.thrown = r.thrown \/ \E x \in DOMAIN done : done[x].thrown]

-----------------------------------------------------------------------------
(* Ending a session *)

Terminal(a, outcome, summary) ==
  IF a.stage = "terminal" THEN [a EXCEPT !.summary = summary]
  ELSE [a EXCEPT !.stage = "terminal", !.outcome = outcome, !.summary = summary,
                 !.attempts = 0]

(* The outcome that was first decided stays the outcome. *)
FirstOutcome(r, c, outcome) ==
  IF r.att[c].outcome # NoValue THEN r.att[c].outcome
  ELSE IF r.pend[c] # NoValue THEN r.pend[c] ELSE outcome

(* emitTerminalMetric: the marker in the attachment is written before the     *)
(* metric.                                                                    *)
SummaryInMemory(r, c) == c \in r.finalized                       \* mutant
SummaryKnown(r, c) == r.att[c].summary \/ c \in r.finalized
EmitTerminalMetric(r, c, outcome, writes) ==
  IF SummaryKnown(r, c) \/ ~writes THEN r
  ELSE [r EXCEPT !.att[c].summary = TRUE, !.finalized = @ \cup {c},
                 !.metric[c] = Append(@, outcome)]

(* failClient: the session is settled when it was terminal, when the terminal *)
(* attachment is written, or when its summary needs no write.                 *)
Ended(r, c) == r.att[c].stage = "terminal" /\ r.pend[c] = NoValue
Settled(r, c) == Ended(r, c) \/ Writes(c) \/ SummaryKnown(r, c)
SummaryWrites(r, c) == IF Ended(r, c) THEN Writes(c) ELSE Rewrites(c)
Scrub(r, c, outcome) ==
  IF Writes(c) THEN [r EXCEPT !.att[c] = Terminal(@, outcome, @.summary)] ELSE r
FailWith(r, c, first) ==
  [Close(EmitTerminalMetric(Scrub(r, c, first), c, first, SummaryWrites(r, c)), c) EXCEPT
     !.pend[c] = IF Settled(r, c) THEN NoValue ELSE first,
     !.thrown = @ \/ (~Settled(r, c) /\ ~Closes(r, c))]
FailClient(r, c, outcome) == FailWith(r, c, FirstOutcome(r, c, outcome))

(* A connection without a readable attachment can only be closed. *)
EndClient(r, c, outcome) ==
  IF r.att[c] = NoValue THEN CloseOrThrow(r, c) ELSE FailClient(r, c, outcome)
EndClients(r, C, outcome) == Each(r, [c \in C |-> EndClient(r, c, outcome)])
CloseAllClients(r, outcome) == EndClients(r, Connected(r, Client), outcome)

-----------------------------------------------------------------------------
(* Retiring a control *)

(* prepareServerRetirement finds neither a durable demotion nor a close. *)
Stuck(r, x) == ~Writes(x) /\ ~Closes(r, x)
PrepareRetirement(r, x) ==
  IF Writes(x) THEN [r EXCEPT !.att[x].current = FALSE, !.pend[x] = NoValue]
  ELSE IF Closes(r, x) THEN [Close(r, x) EXCEPT !.inactive = @ \cup {x}, !.pend[x] = NoValue]
  ELSE [r EXCEPT !.inactive = @ \ {x}]
FinishRetirement(r, x) == IF Writes(x) THEN Close(r, x) ELSE r
(* retireServerImmediately *)
Retire(r, x) ==
  IF Stuck(r, x) THEN PrepareRetirement(r, x) ELSE FinishRetirement(PrepareRetirement(r, x), x)
PrepareAll(r, S) == Each(r, [x \in S |-> PrepareRetirement(r, x)])
FinishAll(r, S) == Each(r, [x \in S |-> FinishRetirement(r, x)])

(* restorePreviousServer: the newest demoted control that is still open and   *)
(* takes a second write is current again.                                     *)
Restorable(r, S) == {x \in S : Rewrites(x) /\ Open(r, x)}
RestoreOrCloseAll(r, S) ==
  IF Restorable(r, S) = {} THEN CloseAllClients(FinishAll(r, S), "incomplete")
  ELSE [FinishAll(r, S \ {Max(Restorable(r, S))})
          EXCEPT !.att[Max(Restorable(r, S))].current = TRUE]

(* failServer: a control that was current, or is pending, takes its clients   *)
(* along.                                                                     *)
Demote(r, x) == [r EXCEPT !.att[x].current = @ /\ ~Writes(x),
                          !.inactive = IF r.att[x].current THEN @ \cup {x} ELSE @]
CloseServer(r, x, first) ==
  [Close(r, x) EXCEPT !.pend[x] = IF Stuck(r, x) THEN first ELSE NoValue,
                      !.thrown = @ \/ Stuck(r, x)]
FailServer(r, x, outcome) ==
  IF r.pend[x] # NoValue
  THEN CloseServer(CloseAllClients(Demote(r, x), r.pend[x]), x, r.pend[x])
  ELSE IF r.att[x].current THEN CloseServer(CloseAllClients(Demote(r, x), outcome), x, outcome)
  ELSE Close(r, x)

(* One control after another, since each may take the clients along *)
EndControl(r, x, outcome) ==
  IF r.att[x] = NoValue THEN CloseOrThrow(r, x) ELSE FailServer(r, x, outcome)
EndControls(r, S, outcome) ==
  LET after[n \in 0..MaxControls] ==
        IF n = 0 THEN r
        ELSE IF n \in S THEN EndControl(after[n - 1], n, outcome) ELSE after[n - 1]
  IN after[MaxControls]

(* retryPendingServerTeardowns: a pending outcome overrides the one given. *)
RetryNone(r) == r                                                \* mutant
RetryPending(r) ==
  EndControls(r, {x \in Connected(r, Control) : r.pend[x] # NoValue}, "incomplete")

(* currentOpenServers *)
CurrentOpen(r) ==
  {x \in Control : Open(r, x) /\ r.att[x] # NoValue /\ r.att[x].current /\ r.att[x].gen = r.gen}

(* reconcileActiveServer: of several current controls the newest wins, unless *)
(* an older one cannot be retired and the winner can.                         *)
Contested(r, w, x) ==
  Throw(CloseAllClients([r EXCEPT !.inactive = @ \cup {w, x}, !.pend[w] = "incomplete",
                                  !.pend[x] = "incomplete"], "incomplete"))
Challenge(acc, x) ==
  IF acc.room.thrown THEN acc
  ELSE IF ~Stuck(acc.room, x) THEN [acc EXCEPT !.room = Retire(@, x)]
  ELSE IF ~Stuck(acc.room, acc.winner)
       THEN [room |-> Retire(PrepareRetirement(acc.room, x), acc.winner), winner |-> x]
  ELSE [acc EXCEPT !.room = Contested(@, acc.winner, x)]
(* The newest of S is challenged by the others, the next newest first. *)
RetireOthers(r, S) ==
  LET after[n \in 0..MaxControls] ==
        IF n = 0 THEN [room |-> r, winner |-> Max(S)]
        ELSE IF MaxControls + 1 - n \in S \ {Max(S)}
             THEN Challenge(after[n - 1], MaxControls + 1 - n) ELSE after[n - 1]
  IN after[MaxControls].room
ReplacedClients(r) == CloseAllClients(r, "incomplete")
LeaveControls(r) == r                                            \* mutant
SettleControls(r) ==
  IF \A x, y \in CurrentOpen(r) : x = y THEN r
  ELSE Then(RetireOthers(r, CurrentOpen(r)), ReplacedClients)
ReconcileActiveServer(r) == Then(RetryPending(r), SettleControls)
Winner(r) == IF CurrentOpen(r) = {} THEN NoValue ELSE Max(CurrentOpen(r))

-----------------------------------------------------------------------------
(* Deadlines, generations and what a request does first *)

(* expireClients; terminalCloseAttemptAt bounds the attempts on a terminal one. *)
Exhausted(r, c) == r.att[c].attempts >= MaxAttempts
ExpireClient(r, c) ==
  IF r.att[c] = NoValue THEN CloseOrThrow(r, c)
  ELSE IF r.pend[c] # NoValue THEN FailClient(r, c, r.pend[c])
  ELSE IF c \notin expired THEN r
  ELSE IF Live(r.att[c]) THEN FailClient(r, c, "incomplete")
  ELSE IF Exhausted(r, c) THEN r
  ELSE IF Writes(c) THEN Close([r EXCEPT !.att[c].attempts = @ + 1], c)
  ELSE CloseOrThrow(r, c)
ExpireClients(r) == Each(r, [c \in Connected(r, Client) |-> ExpireClient(r, c)])

(* pruneServerTickets *)
Malformed(r) == {x \in Connected(r, Control) : r.att[x] = NoValue}
CloseEachOrThrow(r, S) == Each(r, [x \in S |-> CloseOrThrow(r, x)])
CloseMalformed(r) ==
  CloseEachOrThrow(IF Malformed(r) # {} /\ CurrentOpen(r) = {}
                   THEN CloseAllClients(r, "incomplete") ELSE r,
                   Malformed(r))
PruneServerTickets(r) == Then(ReconcileActiveServer(r), CloseMalformed)

(* rotateTokenGeneration *)
OldConnections(r, S, g) == {x \in Connected(r, S) : r.att[x] = NoValue \/ r.att[x].gen # g}
EndOldClients(r, g) == EndClients(r, OldConnections(r, Client, g), "incomplete")
RotateTokenGeneration(r, g) ==
  IF r.gen = g THEN r
  ELSE EndOldClients(
         EndControls([r EXCEPT !.gen = g], OldConnections(r, Control, g), "incomplete"), g)

(* A request up to its role: each stage stops at the first that throws. *)
Rotated(r) == RotateTokenGeneration(r, published)
Prepared(r) == Then(Then(Rotated(r), ExpireClients), PruneServerTickets)

-----------------------------------------------------------------------------
(* How a handler ends *)

(* scheduleNextAlarm *)
NextAlarm(r) ==
  IF \E c \in Client : /\ Open(r, c) /\ r.att[c] # NoValue
                       /\ r.att[c].stage = "terminal" => r.att[c].attempts < MaxAttempts
  THEN "session" ELSE "later"

Working == ~required /\ ~failed                                  \* ensureInitialized
Pending(r) == {x \in Socket : r.pend[x] # NoValue}

(* A handler that ends with r: rethrowTeardownFailure when something was      *)
(* thrown, and otherwise the alarm it leaves.                                 *)
Ends(r, nextAlarm) ==
  /\ room' = [r EXCEPT !.thrown = FALSE]
  /\ marker' = (marker \/ r.thrown)
  /\ persisted' = (persisted \/ r.thrown)
  /\ alarm' = IF r.thrown THEN "soon" ELSE nextAlarm
  /\ doomed' = IF r.thrown THEN doomed \cup Pending(r) ELSE doomed
  /\ UNCHANGED <<required, failed, unmarked>>
(* A handler that leaves no marker and no alarm whatever was thrown *)
Unreported(r) ==
  /\ room' = [r EXCEPT !.thrown = FALSE]
  /\ unmarked' = IF marker THEN unmarked ELSE unmarked \cup Pending(r)
Quiet == UNCHANGED environment

-----------------------------------------------------------------------------
(* Requests *)

RotationAlarm == IF room.gen = published THEN alarm ELSE NextAlarm(Rotated(room))

(* A request that names another generation than D1's: only the rotation. *)
StaleRequest ==
  /\ Working
  /\ Ends(Rotated(room), RotationAlarm)
  /\ Quiet

(* acceptServer after its first lines, for the new control n: without it when *)
(* a previous control is stuck, or when it or a malformed control fails.      *)
Previous(r) == {x \in Connected(r, Control) : r.att[x] # NoValue /\ r.att[x].current}
CloseEach(r, S) == Each(r, [x \in S |-> Close(r, x)])
Refused(r, n) ==
  Close([r EXCEPT !.sock[n] = "open",
                  !.att[n] = IF Writes(n) THEN [current |-> FALSE, gen |-> r.gen] ELSE NoValue],
        n)
Installed(r, n, previous) ==
  FinishAll(CloseAllClients([r EXCEPT !.sock[n] = "open", !.att[n] = ControlAtt(r.gen)],
                            "incomplete"),
            previous)
Replace(r, n, previous, malformed) ==
  IF \E x \in previous : Stuck(r, x)
  THEN FinishAll(PrepareAll(r, previous), {x \in previous : ~Stuck(r, x)})
  ELSE IF \E x \in malformed : ~Closes(r, x)
  THEN RestoreOrCloseAll(CloseEach(PrepareAll(r, previous), malformed), previous)
  ELSE IF ~Rewrites(n)
  THEN RestoreOrCloseAll(Refused(CloseEach(PrepareAll(r, previous), malformed), n), previous)
  ELSE CloseEach(Installed(PrepareAll(r, previous), n, previous), Connected(r, Control))
ServerUpgrade ==
  /\ Working
  /\ \E n \in Control, r \in {Prepared(room)} :
       /\ room.sock[n] = "none" /\ \A m \in Control : room.sock[m] = "none" => n <= m
       /\ Ends(IF r.thrown THEN r ELSE Replace(r, n, Previous(r), Malformed(r)), NextAlarm(r))
  /\ Quiet

(* acceptClient: the summary is suppressed until the last write. *)
Admit(r, c, a) ==
  IF Rewrites(c) THEN [r EXCEPT !.sock[c] = "open", !.att[c] = a]
  ELSE IF Writes(c)
  THEN FailClient([r EXCEPT !.sock[c] = "open", !.att[c] = [a EXCEPT !.summary = TRUE]], c,
                  "incomplete")
  ELSE Close([r EXCEPT !.sock[c] = "open"], c)
ClientUpgrade ==
  /\ Working
  /\ \E c \in Client, r \in {Prepared(room)} :
       /\ room.sock[c] = "none" /\ \A d \in Client : room.sock[d] = "none" => c <= d
       /\ ~r.thrown /\ CurrentOpen(r) # {}
       /\ \E admitted \in {Admit(r, c, ClientAtt(Winner(r), r.gen))} :
            Ends(admitted, IF Rewrites(c) THEN NextAlarm(admitted) ELSE "later")
  /\ UNCHANGED environment

(* An upgrade that acceptClient refuses: without a control, or with a proof   *)
(* that is too old                                                            *)
RefusedUpgrade == Working /\ Ends(Prepared(room), RotationAlarm) /\ Quiet

(* A revocation notice for an admitted client (its grant is a choice of D1);  *)
(* fetch catches nothing here.                                                *)
RevocationNotice ==
  /\ Working
  /\ \E c \in Connected(room, Client), r \in {ReconcileActiveServer(room)} :
       /\ room.att[c] # NoValue
       /\ Unreported(IF r.thrown \/ CurrentOpen(r) = {} THEN r
                     ELSE FailClient(r, c, "incomplete"))
  /\ UNCHANGED <<memory, doomed>> /\ Quiet

-----------------------------------------------------------------------------
(* Messages *)

(* The socket of a message that is refused, and of an error event *)
FailSocket(r, x, outcome) ==
  IF x \in Client THEN IF r.att[x] = NoValue THEN Close(r, x) ELSE FailClient(r, x, outcome)
  ELSE IF r.att[x] # NoValue THEN FailServer(r, x, outcome)
  ELSE LET s == CloseAllClients(r, "incomplete") IN IF s.thrown THEN s ELSE Close(s, x)

(* failProtocolViolation *)
Violation ==
  /\ Working
  /\ \E x \in Socket : Open(room, x) /\ Ends(FailSocket(room, x, "incomplete"), alarm)
  /\ Quiet

(* A message of a socket without an attachment or of an old generation *)
StaleMessage ==
  /\ Working
  /\ \E x \in Socket :
       /\ Open(room, x) /\ (room.att[x] # NoValue => room.att[x].gen # room.gen)
       /\ Ends(FailSocket(room, x, "incomplete"), alarm)
  /\ Quiet

(* The candidate of a client, after its hash: beginClientTicket and the catch *)
(* of processWebSocketMessage, which fails the session when a write fails.    *)
Exchanging(r, c) == [r EXCEPT !.att[c].stage = "exchange"]
Dispatch(r, c, w, sent) ==
  IF ~Writes(w) \/ (sent /\ ~Rewrites(c)) THEN FailClient(r, c, "incomplete")
  ELSE IF ~sent THEN FailServer(r, w, "incomplete") ELSE r
Forward(r, c, sent) ==
  IF r.thrown THEN r
  ELSE IF \/ c \in expired \/ r.att[c].stage # "awaiting"
          \/ Winner(r) # r.att[c].owner \/ ~Writes(c)
  THEN FailClient(r, c, "incomplete")
  ELSE Dispatch(Exchanging(r, c), c, Winner(r), sent)
ClientMessage ==
  /\ Working
  /\ \E c \in Client, sent \in BOOLEAN :
       /\ Open(room, c) /\ room.att[c] # NoValue /\ room.att[c].gen = room.gen
       /\ sent \/ faults < MaxFaults
       /\ Ends(Forward(ReconcileActiveServer(room), c, sent), alarm)
       /\ faults' = IF sent THEN faults ELSE faults + 1
  /\ UNCHANGED <<published, expired, broken>>

(* A frame of the control for an exchanging client: handleServerMessage. *)
TicketClient(r, x, c) ==
  Winner(r) = x /\ Open(r, c) /\ r.att[c].stage = "exchange" /\ c \notin expired
Answer(r, x, c, completes) ==
  IF r.thrown THEN r
  ELSE IF Winner(r) # x THEN Close(r, x)
  ELSE IF ~Writes(x) \/ (TicketClient(r, x, c) /\ ~completes /\ ~Rewrites(c))
       THEN FailServer(r, x, "incomplete")
  ELSE IF TicketClient(r, x, c) /\ completes THEN FailClient(r, c, "completed")
  ELSE r
ServerMessage ==
  /\ Working
  /\ \E x \in Control, c \in Client, completes \in BOOLEAN :
       /\ Open(room, x) /\ room.att[x] # NoValue /\ room.att[x].gen = room.gen
       /\ room.att[c] # NoValue /\ room.att[c].owner = x /\ room.att[c].stage # "awaiting"
       /\ Ends(Answer(ReconcileActiveServer(room), x, c, completes), alarm)
  /\ UNCHANGED environment

-----------------------------------------------------------------------------
(* Sockets that fail or go away *)

(* webSocketError *)
SocketError ==
  /\ Working
  /\ \E x \in Connected(room, Socket) :
       \E r \in {FailSocket(room, x, "incomplete")} : Ends(r, NextAlarm(r))
  /\ Quiet

(* handleSocketGone, for a control that was current and not retired by the    *)
(* room, and for a client                                                     *)
RetireFallback(r, x) ==
  IF Stuck(r, x) THEN [Retire(r, x) EXCEPT !.pend[x] = "incomplete",
                                           !.inactive = @ \cup {x}, !.thrown = TRUE]
  ELSE Retire(r, x)
RetireFallbacks(r) == Each(r, [y \in CurrentOpen(r) |-> RetireFallback(r, y)])
AfterReplacement(r) ==
  CloseAllClients(IF CurrentOpen(r) = {} THEN Throw(r) ELSE r, "incomplete")
ControlGone(r, x) ==
  IF CurrentOpen(r) = {} \/ x > Max(CurrentOpen(r))
  THEN CloseAllClients(RetireFallbacks(r), "incomplete")
  ELSE Then(ReconcileActiveServer(r), AfterReplacement)
ClientGone(r, c, local) ==
  IF r.pend[c] # NoValue THEN FailClient(r, c, r.pend[c])
  ELSE IF ~Live(r.att[c]) THEN EmitTerminalMetric(r, c, r.att[c].outcome, Writes(c))
  ELSE IF ~local THEN FailClient(r, c, "incomplete")
  ELSE IF Writes(c) THEN [r EXCEPT !.att[c] = Terminal(@, "incomplete", TRUE)] ELSE r
AnyDeparture(r, x) == TRUE                                       \* mutant
DeliberatelyRetired(r, x) == x \in r.inactive
Departed(r, x, local) ==
  IF x \in Client
  THEN IF r.att[x] = NoValue THEN r ELSE [ClientGone(r, x, local) EXCEPT !.pend[x] = NoValue]
  ELSE IF r.att[x] = NoValue THEN CloseAllClients(r, "incomplete")
  ELSE IF r.att[x].current /\ ~DeliberatelyRetired(r, x)
  THEN ControlGone([r EXCEPT !.pend[x] = NoValue], x)
  ELSE [r EXCEPT !.pend[x] = NoValue, !.inactive = @ \ {x}]

(* A connection that is gone is not asked for again. *)
Without(r, x) == [r EXCEPT !.att[x] = NoValue, !.pend[x] = NoValue, !.finalized = @ \ {x}]

(* webSocketClose.  The peer of a socket the room closed answers with the     *)
(* room's own close; another peer may copy one.                               *)
SocketGone ==
  /\ \E x \in Connected(room, Socket), local \in BOOLEAN :
     \E gone \in {[room EXCEPT !.sock[x] = "gone"]} :
       /\ room.sock[x] = "closing" => local
       /\ IF Working THEN \E r \in {Departed(gone, x, local)} : Ends(Without(r, x), NextAlarm(r))
          ELSE Ends(Without(gone, x), alarm)
       /\ expired' = expired \ {x} /\ broken' = [broken EXCEPT ![x] = Sound]
  /\ UNCHANGED <<published, faults>>

-----------------------------------------------------------------------------
(* Quarantine and the alarm *)

(* closeSocketsForTeardownRecovery and closeSocketsForInitializationFailure:  *)
(* the first also suppresses the summaries.                                   *)
Scrubbed(a, x, quiet) ==
  IF a = NoValue THEN a
  ELSE IF x \in Client THEN Terminal(a, "incomplete", a.summary \/ quiet)
  ELSE [a EXCEPT !.current = FALSE]
CloseSockets(r, quiet) ==
  [r EXCEPT !.att = [x \in Socket |-> IF x \in Connected(r, Socket) /\ Writes(x)
                                      THEN Scrubbed(@[x], x, quiet) ELSE @[x]],
            !.sock = [x \in Socket |-> IF @[x] = "open" /\ broken[x].close THEN "closing"
                                       ELSE @[x]]]
SanitizedUnchecked(r, quiet) == TRUE                             \* mutant
Left(r, x, quiet) ==
  /\ r.att[x] # NoValue => ~Writes(x) /\ (x \in Client => quiet \/ r.att[x].stage # "terminal")
  /\ ~Closes(r, x)
Unsanitized(r, quiet) == {x \in Connected(r, Socket) : Left(r, x, quiet)}
Sanitized(r, quiet) == Unsanitized(r, quiet) = {}

(* A hibernation, and the constructor of the next instance.  Reading the      *)
(* generation, the ledger or the keys may fail.                               *)
Reconstruct ==
  /\ faults < MaxFaults
  /\ LET asleep == [room EXCEPT !.pend = Fresh.pend, !.inactive = {}, !.finalized = {}]
         recovered == IF marker THEN CloseSockets(asleep, TRUE) ELSE asleep
         clean == marker => Sanitized(asleep, TRUE)
     IN \E fails \in IF faults + 1 < MaxFaults THEN BOOLEAN ELSE {FALSE} :
       /\ marker' = (marker /\ ~clean)
       /\ persisted' = ~clean /\ required' = ~clean
       /\ failed' = fails /\ faults' = IF fails THEN faults + 2 ELSE faults + 1
       /\ room' = IF fails THEN CloseSockets(recovered, FALSE) ELSE recovered
       /\ \E ledger \in IF fails /\ Sanitized(recovered, FALSE) THEN BOOLEAN ELSE {FALSE} :
            alarm' = IF ledger THEN "later" ELSE IF ~clean THEN "soon" ELSE alarm
       /\ unmarked' = IF fails /\ ~marker' THEN unmarked \cup Unsanitized(recovered, FALSE) ELSE unmarked
  /\ UNCHANGED <<published, expired, broken, doomed>>

(* alarm: a handler that throws is delivered again by the platform, so the    *)
(* alarm stays.                                                               *)
Due == alarm = "soon" \/ (alarm = "session" /\ expired # {})
(* Every stage is tried whatever the ones before it threw. *)
Despite(r, Stage(_)) ==
  IF r.thrown THEN Throw(Stage([r EXCEPT !.thrown = FALSE])) ELSE Stage(r)
Retried(r) == Despite(Despite(RetryPending(r), ExpireClients), PruneServerTickets)
Alarm ==
  /\ Due
  /\ LET recovers == required => Sanitized(room, TRUE)
         quarantined == IF required THEN CloseSockets(room, TRUE) ELSE room
         completed == recovers /\ (failed => Sanitized(quarantined, FALSE))
     IN \E r \in {IF ~recovers THEN quarantined
                  ELSE IF failed THEN CloseSockets(quarantined, FALSE) ELSE Retried(quarantined)} :
       LET cleared == recovers /\ (required \/ (persisted /\ ~failed /\ ~r.thrown)) IN
       /\ Unreported(r)
       /\ required' = (required /\ ~recovers)
       /\ marker' = (marker /\ ~cleared) /\ persisted' = (persisted /\ ~cleared)
       /\ alarm' = IF ~completed \/ r.thrown THEN alarm
                   ELSE IF failed THEN "later" ELSE NextAlarm(r)
  /\ UNCHANGED <<failed, doomed>> /\ Quiet

-----------------------------------------------------------------------------
(* The environment *)

Unobserved == UNCHANGED <<room, memory, doomed, unmarked>>
Publish ==
  /\ published < MaxGeneration /\ published' = published + 1
  /\ faults < MaxFaults /\ faults' = faults + 1
  /\ Unobserved /\ UNCHANGED <<expired, broken>>
Deadline(c) ==
  /\ c \notin expired /\ c \in Connected(room, Client) /\ expired' = expired \cup {c}
  /\ Unobserved /\ UNCHANGED <<published, broken, faults>>
(* One socket that still may be used breaks, or all of them do. *)
Breakage == {[write |-> "late", close |-> TRUE], [write |-> "fail", close |-> TRUE],
             [write |-> "ok", close |-> FALSE], [write |-> "fail", close |-> FALSE]}
Break ==
  /\ faults < MaxFaults /\ faults' = faults + 1
  /\ \E S \in {{x} : x \in {y \in Socket : room.sock[y] # "gone"}} \cup {Socket}, b \in Breakage :
       /\ \A x \in S : broken[x] = Sound
       /\ broken' = [x \in Socket |-> IF x \in S THEN b ELSE broken[x]]
  /\ Unobserved /\ UNCHANGED <<published, expired>>
Heal ==
  /\ \E x \in Socket : broken[x] # Sound
  /\ broken' = [x \in Socket |-> Sound]
  /\ Unobserved /\ UNCHANGED <<published, expired, faults>>

(* A fresh room, or one in which the process ended between the two writes of  *)
(* a replacement (the state the comment in reconcileActiveServer names), with *)
(* a client of the older control or none.                                     *)
Controls == [Fresh EXCEPT !.sock[1] = "open", !.sock[2] = "open",
                          !.att[1] = ControlAtt(1), !.att[2] = ControlAtt(1)]
Interrupted(C) ==
  [Controls EXCEPT !.sock = [x \in Socket |-> IF x \in C THEN "open" ELSE @[x]],
                   !.att = [x \in Socket |-> IF x \in C THEN ClientAtt(1, 1) ELSE @[x]]]
Init ==
  /\ room \in {Fresh, Interrupted({}), Interrupted({MaxControls + 1})} /\ published = 1
  /\ marker = FALSE /\ persisted = FALSE /\ required = FALSE /\ failed = FALSE
  /\ alarm = NextAlarm(room)
  /\ expired = {} /\ broken = [x \in Socket |-> Sound]
  /\ doomed = {} /\ unmarked = {}
  /\ faults = 0

Next ==
  \/ StaleRequest \/ RefusedUpgrade \/ ServerUpgrade \/ ClientUpgrade \/ RevocationNotice
  \/ Violation \/ StaleMessage \/ ClientMessage \/ ServerMessage
  \/ SocketError \/ SocketGone \/ Reconstruct \/ Alarm
  \/ Publish \/ Break \/ Heal \/ \E c \in Client : Deadline(c)

Spec == Init /\ [][Next]_vars

-----------------------------------------------------------------------------
(* Properties *)

TypeOK ==
  /\ room.sock \in [Socket -> {"none", "open", "closing", "gone"}]
  /\ \A x \in Control : room.att[x] \in ControlState \cup {NoValue}
  /\ \A c \in Client : room.att[c] \in ClientState \cup {NoValue}
  /\ room.pend \in [Socket -> Outcome \cup {NoValue}]
  /\ room.inactive \subseteq Control /\ room.finalized \subseteq Client
  /\ room.thrown = FALSE
  /\ marker \in BOOLEAN /\ persisted \in BOOLEAN /\ required \in BOOLEAN /\ failed \in BOOLEAN
  /\ alarm \in {"soon", "session", "later"} /\ expired \subseteq Client
  /\ doomed \subseteq Socket /\ unmarked \subseteq Socket

(* A delivered session whose control is gone, replaced or demoted is over, or *)
(* the room still knows that it has to end it: in the instance's memory, or   *)
(* by the marker of the quarantine. Two paths leave no marker when they can   *)
(* neither rewrite nor close a socket, and it speaks of no session they left  *)
(* (`unmarked'): the revocation notice (rendezvous-room.ts:226) and a failed  *)
(* initialization (190-195).                                                  *)
Owned(c) == room.att[c].owner \in CurrentOpen(room)
OrphanRemembered ==
  \A c \in Client :
    Routing(room, c) /\ ~room.att[c].summary /\ ~Owned(c) /\ c \notin unmarked
      => room.pend[c] # NoValue \/ marker \/ failed

(* A client is admitted, and its candidate forwarded, only while its control  *)
(* is the only current one.                                                   *)
Admitted(c) == room.sock[c] = "none" /\ Routing(room', c) /\ ~room'.att[c].summary
Forwarded(c) ==
  Live(room.att[c]) /\ room.att[c].stage = "awaiting" /\ room'.att[c] # NoValue
    /\ room'.att[c].stage = "exchange"
ServedHasOneControl ==
  [][\A c \in Client : Admitted(c) \/ Forwarded(c)
       => CurrentOpen(room') = {room'.att[c].owner}]_vars

(* No terminal metric is written twice, hibernations included. *)
SummaryAtMostOnce == \A c \in Client : Len(room.metric[c]) <= 1

(* The marker is deleted only when nothing it stood for routes any more. *)
MarkerClearedClean ==
  [][marker /\ ~marker' => \A x \in doomed : ~Routing(room', x)]_vars

(* Whatever is left to be retired, one alarm in which no socket fails retires *)
(* all of it.                                                                 *)
RetryFinishes ==
  Working /\ (\A x \in Socket : broken[x] = Sound)
    => ~Retried(room).thrown /\ \A x \in Pending(room) : ~Routing(Retried(room), x)

=============================================================================
