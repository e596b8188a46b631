------------------------ MODULE RendezvousRoomProofs ------------------------
(***************************************************************************)
(* Theorems about one room: no session survives its control, its           *)
(* publication or an answered revocation notice; an ended session stays    *)
(* ended; the attachments of a session and of its control agree; no frame  *)
(* that came after the end of its grant is forwarded.  All six follow from *)
(* one inductive invariant, `RoomInv', that says what each of the four     *)
(* things which may wait for D1 (an operation, a notice, a message of a    *)
(* client, a message of the control) still knows about the room.           *)
(***************************************************************************)
EXTENDS RendezvousRoom, FiniteSetTheorems, TLAPS

-----------------------------------------------------------------------------
(* What the four waiting things hold *)

Places == {"serve", "redeem", "redeemed", "claim", "claimed", "deliver", "persist", "match",
           "rejected", "unmatched", "confirm", "confirmed"}
Admitting == {"redeem", "redeemed", "claim", "claimed", "deliver"}
Answered == {"live", "dead", "error"}
OpState ==
  [kind : {"server", "client", "publication", "init"}, at : Places, gen : Int,
   client : Client \cup {NoValue}, ticket : Ticket \cup {NoValue},
   control : Int \cup {NoValue}, access : BOOLEAN, answer : Answered]
NoticeState ==
  [todo : SUBSET Client, client : Client \cup {NoValue}, att : Session \cup {NoValue},
   answer : Answered \cup {NoValue}, since : SUBSET revoked]
MessageState ==
  [at : {"init", "check", "checked", "recheck", "dispatch"}, late : BOOLEAN, answer : Answered]
FrameState ==
  [id : 1..MaxControls, kind : {"candidate", "complete"}, ticket : Ticket,
   at : {"route", "check", "forward"}, client : Client \cup {NoValue}, late : BOOLEAN,
   answer : Answered]

Numbers ==
  /\ issued \in 0..MaxGeneration /\ published \in 0..issued /\ generation \in 0..issued
  /\ controls \in 0..MaxControls /\ revoked \subseteq Protected /\ notified \subseteq revoked
  /\ claims \subseteq Ticket

(* The sockets, with the attachments of the accepted ones *)
Sockets ==
  /\ client \in [Client -> Session \cup {NoValue}]
  /\ socket \in [Client -> {"none", "open", "closing", "gone"}]
  /\ \A c \in Client : client[c] = NoValue <=> socket[c] = "none"
  /\ \A c \in Client : client[c] # NoValue /\ ~Ongoing(c) => ~client[c].raw

(* The control, with a ticket of each name at most *)
ServerOK ==
  server # NoValue =>
    /\ server \in ControlState /\ server.id <= controls /\ server.gen <= issued
    /\ \A x, y \in server.tickets : x.ticket = y.ticket => x = y

(* A session that goes on belongs to the present control and publication *)
Owned(c) ==
  /\ socket[c] = "open" /\ server # NoValue
  /\ client[c].control = server.id /\ client[c].gen = server.gen
  /\ client[c].gen = generation /\ published \in {0, generation}
  /\ client[c].raw /\ client[c].ticket \notin notified

(* its exchange is what the attachment of the control says it is, *)
Exchange(c) ==
  /\ client[c].stage = "awaiting" => client[c].frames = 0
  /\ client[c].stage = "exchange" =>
       /\ client[c].digest
       /\ c \notin expired =>
            /\ \E x \in server.tickets : x.client = c /\ x.ticket = client[c].ticket /\ x.active
            /\ \A x \in server.tickets : x.client = c /\ x.ticket = client[c].ticket =>
                                          client[c].frames <= 1 + x.sent
SessionOK(c) == Ongoing(c) => Owned(c) /\ Exchange(c)

(* and a message that came when the grant was over finds it over at every read. *)
Over(t, g) == t \in Protected /\ (t \in revoked \/ published # g)
MessageOK(c) ==
  handler[c] # NoValue =>
    /\ handler[c] \in MessageState /\ client[c] # NoValue
    /\ handler[c].late /\ Ongoing(c) =>
         /\ Over(client[c].ticket, client[c].gen)
         /\ handler[c].at = "dispatch" => handler[c].answer # "live"

FrameOK ==
  control # NoValue =>
    /\ control \in FrameState /\ control.id <= controls
    /\ control.late /\ server # NoValue /\ server.id = control.id =>
         Over(control.ticket, server.gen)
    /\ control.at # "route" =>
         /\ control.client \in Client /\ client[control.client] # NoValue
         /\ Ongoing(control.client) => client[control.client].ticket = control.ticket
    /\ /\ control.at = "forward" /\ control.late /\ Ongoing(control.client)
       /\ server # NoValue /\ server.id = control.id
       => control.answer # "live"

(* An operation works on the generation of the room; an admission on a      *)
(* connection of its own, with a ticket no answered notice has covered.     *)
OpOK ==
  op # NoValue =>
    /\ op \in OpState /\ notice = NoValue
    /\ op.kind = "client" <=> op.at \in Admitting
    /\ op.at \in Admitting =>
         /\ op.client \in Client /\ op.ticket \in Ticket /\ handler[op.client] = NoValue
         /\ op.gen = generation /\ op.gen # 0 /\ published \in {0, generation}
         /\ op.at \in {"claimed", "deliver"} <=> client[op.client] # NoValue
         /\ Ongoing(op.client) =>
              client[op.client].ticket = op.ticket /\ client[op.client].stage = "awaiting"
         /\ op.at = "redeem" => op.ticket \in Protected
         /\ op.at # "redeem" => op.ticket \notin notified
    /\ op.at \in {"confirm", "confirmed"} => op.client \in Client /\ client[op.client] # NoValue
    /\ op.at = "serve" => op.gen = generation /\ op.gen # 0 /\ controls < MaxControls
    /\ op.at = "persist" => op.gen = generation /\ server = NoValue

(* A notice has still to come to every session it is about, or has read that *)
(* its route is dead.                                                       *)
NoticeOK ==
  notice # NoValue =>
    /\ notice \in NoticeState /\ op = NoValue
    /\ \A c \in notice.todo : client[c] # NoValue
    /\ \A c \in Client : Ongoing(c) /\ client[c].ticket \in notice.since =>
         c \in notice.todo /\ (notice.client = c /\ c # NoValue => notice.answer = "dead")
    /\ notice.client # NoValue =>
         /\ notice.client \in Client /\ notice.att \in Session
         /\ client[notice.client] # NoValue
         /\ Ongoing(notice.client) => notice.att.frames <= client[notice.client].frames

SessionsOK == \A c \in Client : SessionOK(c)
MessagesOK == /\ handler = [c \in Client |-> handler[c]]
              /\ \A c \in Client : MessageOK(c)
RoomInv ==
  /\ Numbers /\ Sockets /\ ServerOK /\ SessionsOK
  /\ MessagesOK /\ FrameOK /\ OpOK /\ NoticeOK

-----------------------------------------------------------------------------
(* Steps that end sessions *)

Stays(c) == client'[c] = client[c] /\ socket'[c] = socket[c]
Ends(c) ==
  /\ client[c] # NoValue /\ client'[c] \in Session /\ socket'[c] \in {"open", "closing", "gone"}
  /\ client'[c].stage = "terminal" /\ ~client'[c].raw
Functions == /\ client' \in [Client -> Session \cup {NoValue}]
             /\ socket' \in [Client -> {"none", "open", "closing", "gone"}]
EndsOnly == Functions /\ \A c \in Client : Stays(c) \/ Ends(c)

(* A control keeps what it says of every session but those of E. *)
KeepsBut(s, t, E) ==
  /\ t \in ControlState /\ t.id = s.id /\ t.gen = s.gen
  /\ \A x, y \in t.tickets : x.ticket = y.ticket => x = y
  /\ \A y \in t.tickets : y.client \notin E => \E x \in s.tickets :
       x.client = y.client /\ x.ticket = y.ticket /\ x.sent <= y.sent
  /\ \A x \in s.tickets : x.client \notin E => x \in t.tickets
Named(s) == s \in ControlState /\ \A x, y \in s.tickets : x.ticket = y.ticket => x = y

LEMMA KeepsNamed ==
  ASSUME NEW s, NEW t, NEW E, Named(s), KeepsBut(s, t, E)
  PROVE  Named(t) /\ t # NoValue
BY NoValueAssumption DEF KeepsBut, Named

LEMMA KeepsTwice ==
  ASSUME NEW s, NEW t, NEW u, NEW E, NEW D, NEW U, E \subseteq U, D \subseteq U,
         Named(s), KeepsBut(s, t, E), KeepsBut(t, u, D)
  PROVE  KeepsBut(s, u, U)
<1>1. \A y \in u.tickets : y.client \notin U => \E x \in s.tickets :
        x.client = y.client /\ x.ticket = y.ticket /\ x.sent <= y.sent
  <2> SUFFICES ASSUME NEW y \in u.tickets, y.client \notin U
      PROVE \E x \in s.tickets : x.client = y.client /\ x.ticket = y.ticket /\ x.sent <= y.sent
      OBVIOUS
  <2>1. PICK z \in t.tickets : z.client = y.client /\ z.ticket = y.ticket /\ z.sent <= y.sent
    BY DEF KeepsBut
  <2>2. PICK x \in s.tickets : x.client = z.client /\ x.ticket = z.ticket /\ x.sent <= z.sent
    BY <2>1 DEF KeepsBut
  <2>3. x.sent \in Int /\ z.sent \in Int /\ y.sent \in Int
    BY ConstantsAssumption DEF KeepsBut, Named, ControlState, TicketState
  <2> QED  BY <2>1, <2>2, <2>3
<1> QED  BY <1>1 DEF KeepsBut

(* pruneServerTickets *)
LEMMA PrunedKeeps ==
  ASSUME NEW s, Named(s), NEW E, expired \subseteq E
  PROVE  KeepsBut(s, Pruned(s), E)
<1>1. s # NoValue  BY NoValueAssumption DEF Named
<1>2. PICK t : t = Pruned(s)  OBVIOUS
<1>3. t = [s EXCEPT !.tickets = {x \in @ : x.client \notin expired}]  BY <1>1, <1>2 DEF Pruned
<1>4. /\ t \in ControlState /\ t.id = s.id /\ t.gen = s.gen
      /\ t.tickets = {x \in s.tickets : x.client \notin expired}
  BY <1>3 DEF Named, ControlState
<1>5. \A x \in s.tickets : x.sent \in Int
  BY ConstantsAssumption DEF Named, ControlState, TicketState
<1> QED  BY <1>2, <1>4, <1>5 DEF KeepsBut, Named

(* markTicketTerminal *)
LEMMA MarkedKeeps ==
  ASSUME NEW s, Named(s), NEW atts, NEW E, DOMAIN atts \subseteq E
  PROVE  KeepsBut(s, Marked(s, atts), E)
<1>1. s # NoValue  BY NoValueAssumption DEF Named
<1> DEFINE over(x) == \E c \in DOMAIN atts : OwnTicket(c, atts[c], x)
           mark(x) == IF over(x) THEN [x EXCEPT !.active = FALSE] ELSE x
<1>2. PICK t : t = Marked(s, atts)  OBVIOUS
<1>3. t = [s EXCEPT !.tickets = {mark(x) : x \in @}]  BY <1>1, <1>2 DEF Marked
<1>4. \A x \in s.tickets :
        /\ mark(x) \in TicketState /\ mark(x).client = x.client
        /\ mark(x).ticket = x.ticket /\ mark(x).sent = x.sent /\ x.sent \in Int
        /\ x.client \notin E => mark(x) = x
  <2> SUFFICES ASSUME NEW x \in s.tickets
      PROVE  /\ mark(x) \in TicketState /\ mark(x).client = x.client
             /\ mark(x).ticket = x.ticket /\ mark(x).sent = x.sent /\ x.sent \in Int
             /\ x.client \notin E => mark(x) = x
      OBVIOUS
  <2>1. x \in TicketState  BY DEF Named, ControlState
  <2>2. x.client \notin E => ~over(x)  BY DEF OwnTicket
  <2>3. [x EXCEPT !.active = FALSE] \in TicketState  BY <2>1 DEF TicketState
  <2> QED  BY <2>1, <2>2, <2>3, ConstantsAssumption DEF TicketState
<1> HIDE DEF mark
<1>5. /\ t \in ControlState /\ t.id = s.id /\ t.gen = s.gen
      /\ t.tickets = {mark(x) : x \in s.tickets}
  BY <1>3, <1>4 DEF Named, ControlState
<1>6. \A x, y \in t.tickets : x.ticket = y.ticket => x = y
  BY <1>4, <1>5 DEF Named
<1>7. \A x \in s.tickets : x.client \notin E => x \in t.tickets
  BY <1>4, <1>5
<1>8. \A y \in t.tickets : \E x \in s.tickets :
        x.client = y.client /\ x.ticket = y.ticket /\ x.sent <= y.sent
  BY <1>4, <1>5
<1> QED  BY <1>2, <1>5, <1>6, <1>7, <1>8 DEF KeepsBut

(* A frame is counted. *)
LEMMA WithKeeps ==
  ASSUME NEW s, Named(s), NEW x \in s.tickets, NEW y \in TicketState, NEW E,
         y.ticket = x.ticket, y.client = x.client, x.sent <= y.sent, x.client \in E
  PROVE  KeepsBut(s, With(s, x, y), E) /\ y \in With(s, x, y).tickets
<1>1. PICK t : t = With(s, x, y)  OBVIOUS
<1>2. /\ t \in ControlState /\ t.id = s.id /\ t.gen = s.gen
      /\ t.tickets = (s.tickets \ {x}) \cup {y}
  BY <1>1 DEF With, Named, ControlState
<1>3. \A z \in s.tickets : z.sent \in Int
  BY ConstantsAssumption DEF Named, ControlState, TicketState
<1> QED  BY <1>1, <1>2, <1>3 DEF KeepsBut, Named

(* failClient for each session of atts *)
LEMMA FailEnds ==
  ASSUME Sockets, NEW atts, NEW s, Fail(atts, s),
         \A c \in DOMAIN atts : c \in Client /\ client[c] # NoValue /\ atts[c] \in Session
  PROVE  /\ Functions
         /\ \A c \in Client : c \in DOMAIN atts =>
              Ends(c) /\ client'[c].frames = atts[c].frames
         /\ \A c \in Client : c \notin DOMAIN atts => Stays(c)
         /\ server' = Marked(s, atts)
<1>1. \A c \in DOMAIN atts : /\ Terminated(c, atts[c]) \in Session
                             /\ Terminated(c, atts[c]).frames = atts[c].frames
                             /\ Terminated(c, atts[c]).stage = "terminal"
                             /\ ~Terminated(c, atts[c]).raw
  <2> SUFFICES ASSUME NEW c \in DOMAIN atts, NEW a \in Session, a = atts[c]
      PROVE /\ Terminated(c, a) \in Session /\ Terminated(c, a).frames = a.frames
            /\ Terminated(c, a).stage = "terminal" /\ ~Terminated(c, a).raw
      OBVIOUS
  <2>1. Emits(c, a) \in BOOLEAN  BY DEF Emits
  <2>2. PICK b \in BOOLEAN : b = (a.summary \/ Emits(c, a))  OBVIOUS
  <2>3. Terminated(c, a) = [a EXCEPT !.stage = "terminal", !.auth = "terminal", !.raw = FALSE,
                                     !.digest = FALSE, !.summary = b]
    BY <2>2 DEF Terminated
  <2> QED  BY <2>3 DEF Session
<1>2. /\ client' = [c \in Client |-> IF c \in DOMAIN atts THEN Terminated(c, atts[c])
                                     ELSE client[c]]
      /\ socket' = [c \in Client |-> IF c \in DOMAIN atts /\ socket[c] = "open"
                                     THEN "closing" ELSE socket[c]]
      /\ server' = Marked(s, atts)
  BY DEF Fail
<1>3. Functions
  BY <1>1, <1>2 DEF Functions, Sockets
<1>4. \A c \in Client : c \in DOMAIN atts => Ends(c) /\ client'[c].frames = atts[c].frames
  BY <1>1, <1>2 DEF Ends, Sockets
<1>5. \A c \in Client : c \notin DOMAIN atts => Stays(c)
  BY <1>2 DEF Stays
<1> QED  BY <1>2, <1>3, <1>4, <1>5

(* Once every session has ended, nothing is left to say about them. *)
NobodyNext == \A c \in Client : ~Ongoing(c)'

LEMMA EndsSockets ==
  ASSUME Sockets, EndsOnly
  PROVE  Sockets' /\ \A c \in Client : Ongoing(c)' => Stays(c) /\ Ongoing(c)
<1>1. Functions /\ \A c \in Client : Stays(c) \/ Ends(c)  BY DEF EndsOnly
<1>2. \A c \in Client : Ends(c) => client'[c] # NoValue /\ ~Ongoing(c)'
  BY NoValueAssumption DEF Ends, Ongoing
<1>3. \A c \in Client : Stays(c) => Ongoing(c)' = Ongoing(c)  BY DEF Stays, Ongoing
<1>4. ASSUME NEW c \in Client
      PROVE /\ client'[c] = NoValue <=> socket'[c] = "none"
            /\ client'[c] # NoValue /\ ~Ongoing(c)' => ~client'[c].raw
  <2>1. CASE Stays(c)  BY <2>1, <1>3 DEF Stays, Sockets
  <2>2. CASE Ends(c)  BY <2>2, <1>2 DEF Ends
  <2> QED  BY <1>1, <2>1, <2>2
<1> QED  BY <1>1, <1>2, <1>3, <1>4 DEF Sockets, Functions

LEMMA NobodySessions ==
  ASSUME NobodyNext
  PROVE  SessionsOK'
BY DEF NobodyNext, SessionsOK, SessionOK

LEMMA KeptServer ==
  ASSUME ServerOK, server # NoValue, NEW E, KeepsBut(server, server', E),
         controls' = controls, issued' \in Int, issued \in Int, issued <= issued'
  PROVE  ServerOK'
<1>1. Named(server)  BY DEF ServerOK, Named
<1>2. server' \in ControlState /\ server'.id = server.id /\ server'.gen = server.gen
  BY DEF KeepsBut
<1>3. server'.gen \in Int  BY <1>2, ConstantsAssumption DEF ControlState, Generation
<1>4. server'.gen <= issued'  BY <1>2, <1>3 DEF ServerOK
<1> QED  BY <1>1, <1>2, <1>4 DEF ServerOK, KeepsBut

(* A session that goes on as it was is still owned, and still in its exchange. *)
LEMMA SessionStays ==
  ASSUME Sockets, ServerOK, NEW c \in Client, SessionOK(c), Stays(c), server # NoValue,
         NEW E, KeepsBut(server, server', E), c \in E => c \in expired' \/ ~Ongoing(c)',
         generation' = generation, published' \in {0, published}, notified' = notified,
         expired \subseteq expired'
  PROVE  SessionOK(c)'
<1> SUFFICES ASSUME Ongoing(c)' PROVE Owned(c)' /\ Exchange(c)'
  BY DEF SessionOK
<1>1. Ongoing(c) /\ client'[c] = client[c] /\ socket'[c] = socket[c]  BY DEF Stays, Ongoing
<1>2. Owned(c) /\ Exchange(c)  BY <1>1 DEF SessionOK
<1>3. server' # NoValue /\ server'.id = server.id /\ server'.gen = server.gen
  BY NoValueAssumption DEF KeepsBut
<1>4. Owned(c)'  BY <1>1, <1>2, <1>3 DEF Owned
<1>5. client[c] \in Session  BY <1>1 DEF Sockets, Ongoing
<1>6. ASSUME client[c].stage = "exchange", c \notin expired', NEW y \in server'.tickets,
             y.client = c, y.ticket = client[c].ticket
      PROVE  client[c].frames <= 1 + y.sent
  <2>1. PICK x \in server.tickets : x.client = c /\ x.ticket = client[c].ticket /\ x.sent <= y.sent
    BY <1>6 DEF KeepsBut
  <2>2. client[c].frames <= 1 + x.sent  BY <1>2, <1>6, <2>1 DEF Exchange
  <2>3. x.sent \in Int /\ y.sent \in Int /\ client[c].frames \in Int
    BY <1>5, ConstantsAssumption DEF ServerOK, KeepsBut, ControlState, TicketState, Session
  <2> QED  BY <2>1, <2>2, <2>3
<1>7. ASSUME client[c].stage = "exchange", c \notin expired'
      PROVE  \E y \in server'.tickets : y.client = c /\ y.ticket = client[c].ticket /\ y.active
  <2>1. PICK x \in server.tickets : x.client = c /\ x.ticket = client[c].ticket /\ x.active
    BY <1>2, <1>7 DEF Exchange
  <2>2. c \notin E  BY <1>7
  <2> QED  BY <2>1, <2>2 DEF KeepsBut
<1> QED  BY <1>1, <1>2, <1>4, <1>6, <1>7 DEF Exchange

LEMMA KeptSessions ==
  ASSUME Numbers, Sockets, ServerOK, SessionsOK, EndsOnly, server # NoValue,
         NEW E, KeepsBut(server, server', E),
         \A c \in Client : c \in E => c \in expired' \/ ~Ongoing(c)',
         generation' = generation, published' \in {0, published}, notified' = notified,
         expired \subseteq expired', controls' = controls, issued' = issued
  PROVE  Sockets' /\ ServerOK' /\ SessionsOK'
<1>1. Sockets' /\ \A c \in Client : Ongoing(c)' => Stays(c) /\ Ongoing(c)  BY EndsSockets
<1>2. ServerOK'
  <2>1. issued \in Int  BY ConstantsAssumption DEF Numbers
  <2> QED  BY <2>1, KeptServer
<1>3. ASSUME NEW c \in Client PROVE SessionOK(c)'
  <2>1. CASE Ongoing(c)'
    <3>1. SessionOK(c) /\ Stays(c)  BY <1>1, <2>1 DEF SessionsOK
    <3>2. c \in E => c \in expired' \/ ~Ongoing(c)'  OBVIOUS
    <3> QED  BY <3>1, <3>2, SessionStays
  <2>2. CASE ~Ongoing(c)'  BY <2>2 DEF SessionOK
  <2> QED  BY <2>1, <2>2
<1> QED  BY <1>1, <1>2, <1>3 DEF SessionsOK

-----------------------------------------------------------------------------
(* What waits, while sessions only end, go on, or count a frame *)

Carries(c) ==
  client[c] # NoValue =>
    /\ client'[c] # NoValue
    /\ Ongoing(c)' => /\ Ongoing(c) /\ client'[c].ticket = client[c].ticket
                      /\ client'[c].gen = client[c].gen
                      /\ client'[c].frames >= client[c].frames
Steady == \A c \in Client : Carries(c)
NoBirth == \A c \in Client : client[c] = NoValue => client'[c] = NoValue

LEMMA StaysCarries ==
  ASSUME Sockets, NEW c \in Client, client'[c] = client[c]
  PROVE  Carries(c)
<1>1. client[c] # NoValue => client[c].frames \in Int
  BY ConstantsAssumption DEF Sockets, Session
<1> QED  BY <1>1 DEF Carries, Ongoing

LEMMA EndsSteady ==
  ASSUME Sockets, EndsOnly
  PROVE  Steady /\ NoBirth
<1>1. ASSUME NEW c \in Client PROVE Carries(c) /\ (client[c] = NoValue => client'[c] = NoValue)
  <2>1. CASE Stays(c)  BY <2>1, StaysCarries DEF Stays
  <2>2. CASE Ends(c)  BY <2>2, NoValueAssumption DEF Ends, Carries, Ongoing
  <2> QED  BY <2>1, <2>2 DEF EndsOnly
<1> QED  BY <1>1 DEF Steady, NoBirth

(* The grant of a session that was over stays over. *)
Ageing == /\ revoked \subseteq revoked'
          /\ \/ published' \in {0, published}
             \/ NobodyNext /\ server' = NoValue
LEMMA OverStays ==
  ASSUME Ageing, NEW t, NEW g \in Generation, Over(t, g), published' \in {0, published}
  PROVE  Over(t, g)'
<1>1. g # 0  BY ConstantsAssumption DEF Generation
<1> QED  BY <1>1 DEF Ageing, Over

LEMMA MessageStays ==
  ASSUME Sockets, NEW c \in Client, MessageOK(c), Carries(c), Ageing, handler'[c] = handler[c]
  PROVE  MessageOK(c)'
<1> SUFFICES ASSUME handler[c] # NoValue PROVE MessageOK(c)'  BY DEF MessageOK
<1>1. handler[c] \in MessageState /\ client[c] # NoValue /\ client'[c] # NoValue
  BY DEF MessageOK, Carries
<1>2. ASSUME handler[c].late, Ongoing(c)'
      PROVE  /\ Over(client[c].ticket, client[c].gen)'
             /\ handler[c].at = "dispatch" => handler[c].answer # "live"
  <2>1. /\ Ongoing(c) /\ client'[c].ticket = client[c].ticket /\ client'[c].gen = client[c].gen
        /\ published' \in {0, published}
    BY <1>1, <1>2 DEF Carries, Ageing, NobodyNext
  <2>2. client[c].gen \in Generation  BY <2>1 DEF Sockets, Session, Ongoing
  <2>3. /\ Over(client[c].ticket, client[c].gen)
        /\ handler[c].at = "dispatch" => handler[c].answer # "live"
    BY <1>2, <2>1 DEF MessageOK
  <2>4. PICK t, g : t = client[c].ticket /\ g = client[c].gen  OBVIOUS
  <2>5. Over(t, g)'  BY <2>1, <2>2, <2>3, <2>4, OverStays
  <2> QED  BY <2>1, <2>3, <2>4, <2>5 DEF Over
<1> QED  BY <1>1, <1>2 DEF MessageOK

LEMMA MessagesStay ==
  ASSUME Sockets, MessagesOK, Steady, Ageing, handler' = handler
  PROVE  MessagesOK'
<1>1. \A c \in Client : MessageOK(c)'
  BY MessageStays DEF MessagesOK, Steady
<1> QED  BY <1>1 DEF MessagesOK

(* A control is replaced by a younger one only. *)
Succeeds ==
  server' # NoValue => \/ server # NoValue /\ server'.id = server.id /\ server'.gen = server.gen
                       \/ server'.id > controls
LEMMA FrameStays ==
  ASSUME Numbers, Sockets, ServerOK, FrameOK, Steady, Ageing, Succeeds, control' = control,
         controls' \in Int, controls <= controls'
  PROVE  FrameOK'
<1> SUFFICES ASSUME control # NoValue PROVE FrameOK'  BY DEF FrameOK
<1>1. control \in FrameState /\ control.id <= controls /\ control.id \in Int
  BY ConstantsAssumption DEF FrameOK, FrameState
<1>2. controls \in Int  BY ConstantsAssumption DEF Numbers
<1>3. control.id <= controls'  BY <1>1, <1>2
<1>4. ASSUME control.late, server' # NoValue, server'.id = control.id
      PROVE  /\ Over(control.ticket, server.gen)'
             /\ server # NoValue /\ server.id = control.id
  <2>1. server # NoValue /\ server.id = control.id /\ server'.gen = server.gen
    BY <1>1, <1>2, <1>4 DEF Succeeds
  <2>2. server.gen \in Generation  BY <2>1 DEF ServerOK, ControlState
  <2>3. published' \in {0, published}  BY <1>4 DEF Ageing
  <2>4. Over(control.ticket, server.gen)  BY <1>4, <2>1 DEF FrameOK
  <2>5. PICK t, g : t = control.ticket /\ g = server.gen  OBVIOUS
  <2>6. Over(t, g)'  BY <2>2, <2>3, <2>4, <2>5, OverStays
  <2> QED  BY <2>1, <2>5, <2>6 DEF Over
<1>5. ASSUME control.at # "route"
      PROVE  /\ control.client \in Client /\ client'[control.client] # NoValue
             /\ Ongoing(control.client)' =>
                  /\ Ongoing(control.client)
                  /\ client'[control.client].ticket = control.ticket
  <2>1. /\ control.client \in Client /\ client[control.client] # NoValue
        /\ Ongoing(control.client) => client[control.client].ticket = control.ticket
    BY <1>5 DEF FrameOK
  <2>2. Carries(control.client)  BY <2>1 DEF Steady
  <2> QED  BY <2>1, <2>2 DEF Carries
<1>6. ASSUME control.at = "forward", control.late, Ongoing(control.client)', server' # NoValue,
             server'.id = control.id
      PROVE  control.answer # "live"
  BY <1>4, <1>5, <1>6 DEF FrameOK
<1> QED  BY <1>1, <1>3, <1>4, <1>5, <1>6 DEF FrameOK, Ongoing

LEMMA OpStays ==
  ASSUME Sockets, OpOK, Steady, NoBirth, op' = op, notice' = notice, generation' = generation,
         published' \in {0, published}, notified' = notified, controls' = controls,
         server = NoValue => server' = NoValue,
         \A c \in Client : handler[c] = NoValue =>
           /\ OpOf("client") /\ op.client = c => handler'[c] = NoValue
           /\ Ongoing(c)' => client'[c].stage = client[c].stage
  PROVE  OpOK'
<1> SUFFICES ASSUME op # NoValue PROVE OpOK'  BY DEF OpOK
<1>1. op \in OpState /\ notice' = NoValue /\ (op.kind = "client" <=> op.at \in Admitting)
  BY DEF OpOK
<1>2. ASSUME op.at \in Admitting
      PROVE  /\ op.client \in Client /\ op.ticket \in Ticket /\ handler'[op.client] = NoValue
             /\ op.gen = generation' /\ op.gen # 0 /\ published' \in {0, generation'}
             /\ op.at \in {"claimed", "deliver"} <=> client'[op.client] # NoValue
             /\ Ongoing(op.client)' =>
                  client'[op.client].ticket = op.ticket /\ client'[op.client].stage = "awaiting"
             /\ op.at = "redeem" => op.ticket \in Protected
             /\ op.at # "redeem" => op.ticket \notin notified'
  <2>1. /\ op.client \in Client /\ op.ticket \in Ticket /\ handler[op.client] = NoValue
        /\ op.gen = generation /\ op.gen # 0 /\ published \in {0, generation}
        /\ op.at \in {"claimed", "deliver"} <=> client[op.client] # NoValue
        /\ Ongoing(op.client) =>
             client[op.client].ticket = op.ticket /\ client[op.client].stage = "awaiting"
        /\ op.at = "redeem" => op.ticket \in Protected
        /\ op.at # "redeem" => op.ticket \notin notified
    BY <1>2 DEF OpOK
  <2>2. Carries(op.client) /\ (client[op.client] = NoValue => client'[op.client] = NoValue)
    BY <2>1 DEF Steady, NoBirth
  <2>3. /\ handler'[op.client] = NoValue
        /\ Ongoing(op.client)' => client'[op.client].stage = client[op.client].stage
    BY <1>1, <1>2, <2>1 DEF OpOf
  <2> QED  BY <2>1, <2>2, <2>3 DEF Carries, Ongoing
<1>3. ASSUME op.at \in {"confirm", "confirmed"}
      PROVE  op.client \in Client /\ client'[op.client] # NoValue
  BY <1>3 DEF OpOK, Steady, Carries
<1> QED  BY <1>1, <1>2, <1>3 DEF OpOK, Ongoing

LEMMA NoticeStays ==
  ASSUME Sockets, Sockets', NoticeOK, Steady, NoBirth, notice' = notice, op' = op,
         revoked \subseteq revoked'
  PROVE  NoticeOK'
<1> SUFFICES ASSUME notice # NoValue PROVE NoticeOK'  BY DEF NoticeOK
<1>1. notice \in NoticeState /\ notice.since \subseteq revoked /\ notice.todo \subseteq Client
  BY DEF NoticeOK, NoticeState
<1>2. (notice \in NoticeState)'  BY <1>1 DEF NoticeState
<1>3. \A c \in notice.todo : client'[c] # NoValue
  BY <1>1 DEF NoticeOK, Steady, Carries
<1>4. ASSUME NEW c \in Client, Ongoing(c)', client'[c].ticket \in notice.since
      PROVE  c \in notice.todo /\ (notice.client = c /\ c # NoValue => notice.answer = "dead")
  <2>1. client[c] # NoValue  BY <1>4 DEF NoBirth, Ongoing
  <2>2. Ongoing(c) /\ client'[c].ticket = client[c].ticket  BY <1>4, <2>1 DEF Steady, Carries
  <2> QED  BY <1>4, <2>2 DEF NoticeOK
<1>5. ASSUME notice.client # NoValue
      PROVE  /\ notice.client \in Client /\ notice.att \in Session
             /\ client'[notice.client] # NoValue
             /\ Ongoing(notice.client)' => notice.att.frames <= client'[notice.client].frames
  <2>1. /\ notice.client \in Client /\ notice.att \in Session /\ client[notice.client] # NoValue
        /\ Ongoing(notice.client) => notice.att.frames <= client[notice.client].frames
    BY <1>5 DEF NoticeOK
  <2>2. Carries(notice.client)  BY <2>1 DEF Steady
  <2>3. /\ notice.att.frames \in Int /\ client[notice.client].frames \in Int
        /\ client'[notice.client] # NoValue => client'[notice.client].frames \in Int
    BY <2>1, ConstantsAssumption DEF Sockets, Session
  <2> QED  BY <2>1, <2>2, <2>3 DEF Carries
<1> QED  BY <1>2, <1>3, <1>4, <1>5 DEF NoticeOK, Ongoing

-----------------------------------------------------------------------------
(* The ways a session ends *)

OverNext == {c \in Client : c \in expired' \/ ~Ongoing(c)'}
Ending ==
  /\ EndsOnly
  /\ server = NoValue => server' = NoValue
  /\ server # NoValue => \/ server' = NoValue /\ NobodyNext
                         \/ KeepsBut(server, server', OverNext)
Winds ==
  /\ Ending
  /\ \A c \in Client : Ongoing(c) => client'[c].frames <= client[c].frames

LEMMA WindsSessions ==
  ASSUME Numbers, Sockets, ServerOK, SessionsOK, Ending, NobodyNext \/ generation' = generation,
         NobodyNext \/ published' \in {0, published}, notified' = notified,
         expired \subseteq expired', controls' = controls, issued' \in Int, issued <= issued'
  PROVE  Sockets' /\ ServerOK' /\ SessionsOK' /\ Steady /\ NoBirth /\ Succeeds
<1>1. EndsOnly /\ issued \in Int  BY ConstantsAssumption DEF Winds, Ending, Numbers
<1>2. /\ Sockets' /\ Steady /\ NoBirth
      /\ \A c \in Client : Ongoing(c)' => Stays(c) /\ Ongoing(c)
  BY <1>1, EndsSockets, EndsSteady
<1>3. CASE server' = NoValue /\ NobodyNext
  BY <1>2, <1>3, NobodySessions DEF ServerOK, Succeeds
<1>4. CASE server = NoValue
  <2>1. server' = NoValue  BY <1>4 DEF Winds, Ending
  <2>2. NobodyNext
    BY <1>2, <1>4 DEF NobodyNext, SessionsOK, SessionOK, Owned
  <2> QED  BY <1>3, <2>1, <2>2
<1>5. CASE server # NoValue /\ KeepsBut(server, server', OverNext)
  <2>1. ServerOK'  BY <1>1, <1>5, KeptServer
  <2>2. Succeeds  BY <1>5 DEF Succeeds, KeepsBut
  <2>3. SessionsOK'
    <3>1. CASE NobodyNext  BY <3>1, NobodySessions
    <3>2. CASE ~NobodyNext
      <4> SUFFICES ASSUME NEW c \in Client, Ongoing(c)' PROVE SessionOK(c)'
        BY DEF SessionsOK, SessionOK
      <4>1. SessionOK(c) /\ Stays(c)  BY <1>2 DEF SessionsOK
      <4>2. c \in OverNext => c \in expired' \/ ~Ongoing(c)'  BY DEF OverNext
      <4>3. generation' = generation /\ published' \in {0, published}  BY <3>2
      <4> QED  BY <1>5, <4>1, <4>2, <4>3, SessionStays
    <3> QED  BY <3>1, <3>2
  <2> QED  BY <1>2, <2>1, <2>2, <2>3
<1> QED  BY <1>3, <1>4, <1>5 DEF Winds, Ending

LEMMA IdleWinds ==
  ASSUME Sockets, ServerOK, UNCHANGED <<server, client, socket>>
  PROVE  Winds
<1>1. EndsOnly  BY DEF EndsOnly, Stays, Functions, Sockets
<1>2. \A c \in Client : Ongoing(c) => client'[c].frames <= client[c].frames
  BY ConstantsAssumption DEF Ongoing, Sockets, Session
<1>3. server # NoValue => KeepsBut(server, server', OverNext)
  <2>1. ASSUME server # NoValue, NEW x \in server.tickets PROVE x.sent \in Int
    BY <2>1, ConstantsAssumption DEF ServerOK, ControlState, TicketState
  <2> QED  BY <2>1 DEF ServerOK, KeepsBut
<1> QED  BY <1>1, <1>2, <1>3 DEF Winds, Ending

LEMMA FailWinds ==
  ASSUME Sockets, ServerOK, NEW atts, NEW s, Fail(atts, s), expired \subseteq expired',
         \A c \in DOMAIN atts :
           /\ c \in Client /\ client[c] # NoValue /\ atts[c] \in Session
           /\ Ongoing(c) => atts[c].frames <= client[c].frames,
         s \in {server, Pruned(server)}
  PROVE  Winds /\ \A c \in DOMAIN atts : ~Ongoing(c)'
<1>1. /\ Functions
      /\ \A c \in Client : c \in DOMAIN atts =>
           Ends(c) /\ client'[c].frames = atts[c].frames
      /\ \A c \in Client : c \notin DOMAIN atts => Stays(c)
      /\ server' = Marked(s, atts)
  BY FailEnds
<1>2. EndsOnly  BY <1>1 DEF EndsOnly
<1>3. \A c \in DOMAIN atts : ~Ongoing(c)'  BY <1>1, NoValueAssumption DEF Ends, Ongoing
<1>4. \A c \in Client : Ongoing(c) => client'[c].frames <= client[c].frames
  <2> SUFFICES ASSUME NEW c \in Client, Ongoing(c) PROVE client'[c].frames <= client[c].frames
    OBVIOUS
  <2>1. client[c].frames \in Int
    BY ConstantsAssumption DEF Ongoing, Sockets, Session
  <2> QED  BY <1>1, <2>1 DEF Stays
<1>5. server = NoValue => server' = NoValue  BY <1>1 DEF Marked, Pruned
<1>6. ASSUME server # NoValue PROVE KeepsBut(server, server', OverNext)
  <2>1. Named(server)  BY <1>6 DEF ServerOK, Named
  <2>2. DOMAIN atts \subseteq OverNext  BY <1>3 DEF OverNext
  <2>3. CASE s = server  BY <1>1, <2>1, <2>2, <2>3, MarkedKeeps
  <2>4. CASE s = Pruned(server)
    <3>1. KeepsBut(server, s, expired)  BY <2>1, <2>4, PrunedKeeps
    <3>2. Named(s)  BY <2>1, <3>1, KeepsNamed
    <3>3. KeepsBut(s, server', DOMAIN atts)  BY <1>1, <3>2, MarkedKeeps
    <3>4. KeepsBut(server, server', expired \cup DOMAIN atts)
      BY <2>1, <3>1, <3>3, KeepsTwice
    <3>5. \A x \in server.tickets \cup server'.tickets : x.client \in Client
      BY <2>1, <3>4 DEF KeepsBut, Named, ControlState, TicketState
    <3> QED  BY <2>2, <3>4, <3>5 DEF KeepsBut, OverNext
  <2> QED  BY <2>3, <2>4
<1> QED  BY <1>2, <1>3, <1>4, <1>5, <1>6 DEF Winds, Ending

LEMMA AttachmentsOK ==
  ASSUME Sockets, NEW S \in SUBSET Client, \A c \in S : client[c] # NoValue
  PROVE  /\ DOMAIN Attachments(S) = S
         /\ \A c \in S : /\ c \in Client /\ client[c] # NoValue /\ Attachments(S)[c] \in Session
                         /\ Ongoing(c) => Attachments(S)[c].frames <= client[c].frames
<1>1. \A c \in S : client[c] \in Session /\ client[c].frames \in Int
  BY ConstantsAssumption DEF Sockets, Session
<1> QED  BY <1>1 DEF Attachments

LEMMA FailClientWinds ==
  ASSUME Sockets, ServerOK, NEW c \in Client, client[c] # NoValue, FailClient(c),
         expired \subseteq expired'
  PROVE  Winds /\ ~Ongoing(c)'
<1>1. /\ DOMAIN Attachments({c}) = {c}
      /\ \A d \in {c} : /\ d \in Client /\ client[d] # NoValue /\ Attachments({c})[d] \in Session
                        /\ Ongoing(d) => Attachments({c})[d].frames <= client[d].frames
  BY AttachmentsOK
<1> QED  BY <1>1, FailWinds DEF FailClient

LEMMA ConnectedOK ==
  ASSUME Sockets
  PROVE  /\ \A c \in Connected : c \in Client /\ client[c] # NoValue
         /\ SessionsOK => \A c \in Client : Ongoing(c) => c \in Connected
BY DEF Sockets, Connected, SessionsOK, SessionOK, Owned

LEMMA FailAllEnds ==
  ASSUME Sockets, SessionsOK, NEW s, Fail(Attachments(Connected), s)
  PROVE  /\ EndsOnly /\ NobodyNext /\ server' = Marked(s, Attachments(Connected))
         /\ \A c \in Client : Ongoing(c) => client'[c].frames <= client[c].frames
<1>1. /\ Connected \in SUBSET Client /\ \A c \in Connected : client[c] # NoValue
      /\ \A c \in Client : Ongoing(c) => c \in Connected
  BY ConnectedOK DEF Connected
<1>2. /\ DOMAIN Attachments(Connected) = Connected
      /\ \A c \in Connected :
           /\ c \in Client /\ client[c] # NoValue /\ Attachments(Connected)[c] \in Session
           /\ Ongoing(c) => Attachments(Connected)[c].frames <= client[c].frames
  BY <1>1, AttachmentsOK
<1>3. /\ Functions
      /\ \A c \in Client : c \in Connected =>
           Ends(c) /\ client'[c].frames = Attachments(Connected)[c].frames
      /\ \A c \in Client : c \notin Connected => Stays(c)
      /\ server' = Marked(s, Attachments(Connected))
  BY <1>2, FailEnds
<1>4. EndsOnly  BY <1>3 DEF EndsOnly
<1>5. NobodyNext  BY <1>1, <1>3, NoValueAssumption DEF NobodyNext, Ends, Stays, Ongoing
<1> QED  BY <1>1, <1>2, <1>3, <1>4, <1>5

LEMMA FailServerWinds ==
  ASSUME Sockets, SessionsOK, FailServer
  PROVE  Winds /\ NobodyNext /\ server' = NoValue
<1>1. server' = NoValue  BY FailAllEnds DEF FailServer, Marked
<1> QED  BY <1>1, FailAllEnds DEF FailServer, Winds, Ending

LEMMA ExpireWinds ==
  ASSUME Sockets, ServerOK, ExpireClients, expired \subseteq expired'
  PROVE  Winds
<1> DEFINE S == {c \in Connected : c \in expired /\ Ongoing(c)}
<1>1. S \in SUBSET Client /\ \A c \in S : client[c] # NoValue
  BY ConnectedOK DEF Connected
<1>2. Fail(Attachments(S), Pruned(server))  BY DEF ExpireClients
<1> HIDE DEF S
<1>3. /\ DOMAIN Attachments(S) = S
      /\ \A c \in S : /\ c \in Client /\ client[c] # NoValue /\ Attachments(S)[c] \in Session
                      /\ Ongoing(c) => Attachments(S)[c].frames <= client[c].frames
  BY <1>1, AttachmentsOK
<1> QED  BY <1>2, <1>3, FailWinds

(* No session survives a change of the room's generation; the control does   *)
(* when it is the one of the new generation.                                *)
LEMMA RotateWinds ==
  ASSUME Sockets, ServerOK, SessionsOK, NEW g, RotateTokenGeneration(g),
         expired \subseteq expired'
  PROVE  /\ Winds /\ generation' = g
         /\ generation # g => NobodyNext
         /\ generation # g /\ server' # NoValue => server # NoValue /\ server.gen = g
<1>1. generation' = g  BY DEF RotateTokenGeneration
<1>2. CASE generation = g
  <2>1. UNCHANGED <<server, client, socket>>
    BY <1>2 DEF RotateTokenGeneration, sessionVars
  <2> QED  BY <1>1, <1>2, <2>1, IdleWinds
<1>3. CASE generation # g /\ server # NoValue /\ server.gen # g
  BY <1>1, <1>3, FailServerWinds DEF RotateTokenGeneration
<1>4. CASE generation # g /\ ~(server # NoValue /\ server.gen # g)
  <2> DEFINE S == {c \in Connected : client[c].gen # g}
  <2>1. Fail(Attachments(S), server)  BY <1>4 DEF RotateTokenGeneration
  <2>2. S \in SUBSET Client /\ \A c \in S : client[c] # NoValue
    BY ConnectedOK DEF Connected
  <2>3. \A c \in Client : Ongoing(c) => c \in S
    BY <1>4, ConnectedOK DEF SessionsOK, SessionOK, Owned
  <2> HIDE DEF S
  <2>4. /\ DOMAIN Attachments(S) = S
        /\ \A c \in S : /\ c \in Client /\ client[c] # NoValue /\ Attachments(S)[c] \in Session
                        /\ Ongoing(c) => Attachments(S)[c].frames <= client[c].frames
    BY <2>2, AttachmentsOK
  <2>5. Winds /\ \A c \in S : ~Ongoing(c)'  BY <2>1, <2>4, FailWinds
  <2>6. \A c \in Client : Ongoing(c)' => Ongoing(c)
    BY <2>5, EndsSockets DEF Winds, Ending
  <2>7. NobodyNext  BY <2>3, <2>5, <2>6 DEF NobodyNext
  <2>8. server = NoValue => server' = NoValue  BY <2>5 DEF Winds, Ending
  <2> QED  BY <1>1, <1>4, <2>5, <2>7, <2>8
<1> QED  BY <1>2, <1>3, <1>4

-----------------------------------------------------------------------------
(* What every step does to the sessions *)

(* An ended session stays ended, without its secrets; *)
EndedStep ==
  \A c \in Client : client[c] # NoValue /\ ~Ongoing(c) => ~Ongoing(c)' /\ ~client[c]'.raw
(* what is forwarded did not come when the grant was over. *)
FrameStep ==
  \A c \in Client : Forwarded(c) =>
    LET frame == IF handler[c]' = handler[c] THEN control ELSE handler[c] IN ~frame.late

(* An orderly step only ends sessions; the room changes its generation, or D1 *)
(* the publication, when none is left.  A calm one sends nothing either.     *)
Orderly ==
  /\ Ending /\ Ageing /\ (NobodyNext \/ generation' = generation)
  /\ notified' = notified /\ controls' = controls /\ expired \subseteq expired'
  /\ issued' \in Int /\ issued <= issued'
Calm == Orderly /\ Winds

LEMMA OrderlyRoom ==
  ASSUME RoomInv, Orderly
  PROVE  /\ Sockets' /\ ServerOK' /\ SessionsOK' /\ NoBirth /\ Steady /\ EndedStep
         /\ handler' = handler => MessagesOK'
         /\ control' = control => FrameOK'
         /\ notice' = notice /\ (op' = op \/ notice = NoValue) => NoticeOK'
<1>1. Ending /\ Ageing  BY DEF Orderly
<1>2. NobodyNext \/ published' \in {0, published}  BY <1>1 DEF Ageing
<1>3. Sockets' /\ ServerOK' /\ SessionsOK' /\ Steady /\ NoBirth /\ Succeeds
  BY <1>1, <1>2, WindsSessions DEF Orderly, RoomInv
<1>4. EndedStep
  <2> SUFFICES ASSUME NEW c \in Client, client[c] # NoValue, ~Ongoing(c)
      PROVE  ~Ongoing(c)' /\ ~client[c]'.raw
      BY DEF EndedStep
  <2>1. Carries(c)  BY <1>3 DEF Steady
  <2>2. ~client[c].raw  BY DEF RoomInv, Sockets
  <2>3. Stays(c) \/ Ends(c)  BY <1>1 DEF Ending, EndsOnly
  <2> QED  BY <2>1, <2>2, <2>3 DEF Carries, Stays, Ends
<1>6. handler' = handler => MessagesOK'
  BY <1>1, <1>3, MessagesStay DEF RoomInv
<1>7. control' = control => FrameOK'
  <2>1. controls' \in Int /\ controls <= controls'
    BY ConstantsAssumption DEF Orderly, RoomInv, Numbers
  <2> QED  BY <1>1, <1>3, <2>1, FrameStays DEF RoomInv
<1>8. notice' = notice /\ (op' = op \/ notice = NoValue) => NoticeOK'
  <2>1. CASE notice' = notice /\ op' = op
    BY <1>1, <1>3, <2>1, NoticeStays DEF RoomInv, Ageing
  <2>2. CASE notice' = notice /\ notice = NoValue
    BY <2>2 DEF NoticeOK
  <2> QED  BY <2>1, <2>2
<1> QED  BY <1>3, <1>4, <1>6, <1>7, <1>8

LEMMA CalmRoom ==
  ASSUME RoomInv, Calm
  PROVE  /\ Sockets' /\ ServerOK' /\ SessionsOK' /\ NoBirth /\ Steady /\ EndedStep /\ FrameStep
         /\ handler' = handler => MessagesOK'
         /\ control' = control => FrameOK'
         /\ notice' = notice /\ (op' = op \/ notice = NoValue) => NoticeOK'
<1>1. Winds  BY DEF Calm
<1>3. Sockets' /\ Steady  BY OrderlyRoom DEF Calm
<1>5. FrameStep
  <2> SUFFICES ASSUME NEW c \in Client, Ongoing(c) PROVE ~(client[c]'.frames > client[c].frames)
    BY DEF FrameStep, Forwarded
  <2>1. client'[c].frames <= client[c].frames  BY <1>1 DEF Winds, Ending
  <2>2. client[c] \in Session /\ client'[c] \in Session
    <3>1. Carries(c)  BY <1>3 DEF Steady
    <3> QED  BY <1>3, <3>1 DEF RoomInv, Sockets, Ongoing, Carries
  <2>3. client[c].frames \in Int /\ client'[c].frames \in Int
    BY <2>2, ConstantsAssumption DEF Session
  <2> QED  BY <2>1, <2>3
<1> QED  BY <1>5, OrderlyRoom DEF Calm

(* An operation that waits on is not disturbed. *)
LEMMA CalmOp ==
  ASSUME RoomInv, Calm, op' = op, notice' = notice, generation' = generation,
         published' \in {0, published}, handler' = handler
  PROVE  OpOK'
<1>1. Steady /\ NoBirth  BY CalmRoom
<1>2. Winds  BY DEF Calm, Orderly
<1>3. \A c \in Client : Ongoing(c)' => client'[c].stage = client[c].stage
  BY <1>2, EndsSockets DEF Winds, Ending, Stays, RoomInv
<1>4. server = NoValue => server' = NoValue  BY <1>2 DEF Winds, Ending
<1> QED  BY <1>1, <1>3, <1>4, OpStays DEF RoomInv, Calm, Orderly

(* Steps that touch no session *)
LEMMA IdleCalm ==
  ASSUME RoomInv, UNCHANGED <<server, client, socket, generation, notified, controls, issued>>,
         expired \subseteq expired', revoked \subseteq revoked', published' \in {0, published}
  PROVE  Calm
<1>1. Winds  BY IdleWinds DEF RoomInv
<1>2. issued \in Int  BY ConstantsAssumption DEF RoomInv, Numbers
<1> QED  BY <1>1, <1>2 DEF Calm, Orderly, Winds, Ageing

-----------------------------------------------------------------------------
(* D1 *)

LEMMA EnvironmentStep ==
  ASSUME RoomInv, Environment
  PROVE  RoomInv' /\ EndedStep /\ FrameStep
<1>1. /\ Calm /\ UNCHANGED <<generation, op, notice, handler, control, claims, controls, issued,
                             notified>>
      /\ published' \in {0, published} /\ revoked' \subseteq Protected
      /\ revoked \subseteq revoked'
  <2>1. CASE PresenceExpires
    BY <2>1, IdleCalm
    DEF PresenceExpires, sessionVars, roomVars, queueVars, RoomInv, Numbers
  <2>2. CASE \E t \in Protected : Revoke(t)
    BY <2>2, IdleCalm DEF Revoke, sessionVars, roomVars, queueVars, RoomInv, Numbers
  <2>3. CASE \E c \in Client : Expire(c)
    BY <2>3, IdleCalm DEF Expire, d1Vars, sessionVars, queueVars, RoomInv, Numbers
  <2> QED  BY <2>1, <2>2, <2>3 DEF Environment
<1>2. Numbers'
  BY <1>1, ConstantsAssumption DEF RoomInv, Numbers
<1> QED  BY <1>1, <1>2, CalmRoom, CalmOp DEF RoomInv

LEMMA Stutter ==
  ASSUME RoomInv, UNCHANGED vars
  PROVE  RoomInv' /\ EndedStep /\ FrameStep
<1>1. /\ UNCHANGED <<published, issued, revoked, generation, claims, controls, expired, server,
                     client, socket, op, notice, handler, control, notified>>
  BY DEF vars, d1Vars, sessionVars, roomVars, queueVars
<1>2. Calm  BY <1>1, IdleCalm
<1>3. Numbers'  BY <1>1 DEF RoomInv, Numbers
<1> QED  BY <1>1, <1>2, <1>3, CalmRoom, CalmOp DEF RoomInv

-----------------------------------------------------------------------------
(* Operations *)

LEMMA OperationState ==
  ASSUME RoomInv, NEW k \in {"server", "client", "publication", "init"}, NEW p \in Places
  PROVE  /\ Operation(k, p) \in OpState /\ Operation(k, p).kind = k /\ Operation(k, p).at = p
         /\ Operation(k, p).gen = published
<1>1. published \in Int  BY ConstantsAssumption DEF RoomInv, Numbers
<1> QED  BY <1>1 DEF Operation, OpState, Answered

LEMMA RotateCalm ==
  ASSUME RoomInv, NEW g, RotateTokenGeneration(g),
         UNCHANGED <<published, revoked, notified, controls, expired>>,
         issued' \in Int, issued <= issued'
  PROVE  /\ Calm /\ generation' = g
         /\ generation # g /\ server' # NoValue => server # NoValue /\ server.gen = g
<1>1. /\ Winds /\ generation' = g
      /\ generation # g => NobodyNext
      /\ generation # g /\ server' # NoValue => server # NoValue /\ server.gen = g
  BY RotateWinds DEF RoomInv
<1> QED  BY <1>1 DEF Calm, Orderly, Winds, Ageing

LEMMA StaleRequestStep ==
  ASSUME RoomInv, StaleRequest
  PROVE  RoomInv' /\ EndedStep /\ FrameStep
<1>1. /\ RotateTokenGeneration(published) /\ op = NoValue /\ notice = NoValue
      /\ UNCHANGED <<published, issued, revoked, claims, controls, expired, op, notice, handler,
                     control, notified>>
  BY DEF StaleRequest, Reconcile, RoomFree, d1Vars, queueVars
<1>2. issued \in Int /\ issued <= issued  BY ConstantsAssumption DEF RoomInv, Numbers
<1>3. Calm /\ generation' = published  BY <1>1, <1>2, RotateCalm
<1>4. Numbers'  BY <1>1, <1>3, ConstantsAssumption DEF RoomInv, Numbers
<1>5. OpOK'  BY <1>1 DEF OpOK
<1> QED  BY <1>1, <1>3, <1>4, <1>5, CalmRoom DEF RoomInv

(* An upgrade begins: the room takes the generation D1 shows. *)
LEMMA UpgradeCalm ==
  ASSUME RoomInv,
         IF generation = published THEN ExpireClients ELSE RotateTokenGeneration(published),
         UNCHANGED <<published, issued, revoked, controls, expired, notified>>,
         generation' = published
  PROVE  Calm
<1>1. issued \in Int /\ issued <= issued  BY ConstantsAssumption DEF RoomInv, Numbers
<1>2. CASE generation = published
  <2>1. Winds  BY <1>2, ExpireWinds DEF RoomInv
  <2> QED  BY <1>1, <1>2, <2>1 DEF Calm, Orderly, Winds, Ageing
<1>3. CASE generation # published
  BY <1>1, <1>3, RotateCalm
<1> QED  BY <1>2, <1>3

LEMMA ServerUpgradeStep ==
  ASSUME RoomInv, ServerUpgrade
  PROVE  RoomInv' /\ EndedStep /\ FrameStep
<1>1. /\ published # 0 /\ generation' = published /\ op = NoValue /\ notice = NoValue
      /\ controls < MaxControls
      /\ IF generation = published THEN ExpireClients ELSE RotateTokenGeneration(published)
      /\ \E access \in BOOLEAN : op' = [Operation("server", "serve") EXCEPT !.access = access]
      /\ UNCHANGED <<published, issued, revoked, claims, controls, expired, notice, handler,
                     control, notified>>
  BY DEF ServerUpgrade, RoomFree, d1Vars
<1>2. Calm  BY <1>1, UpgradeCalm
<1>3. Numbers'  BY <1>1, ConstantsAssumption DEF RoomInv, Numbers
<1>4. /\ op' \in OpState /\ op'.kind = "server" /\ op'.at = "serve" /\ op'.gen = published
  <2>1. /\ Operation("server", "serve") \in OpState
        /\ Operation("server", "serve").kind = "server"
        /\ Operation("server", "serve").at = "serve"
        /\ Operation("server", "serve").gen = published
    BY OperationState DEF Places
  <2>2. PICK o : o = Operation("server", "serve")  OBVIOUS
  <2> QED  BY <1>1, <2>1, <2>2 DEF OpState
<1>5. OpOK'  BY <1>1, <1>4 DEF OpOK, Admitting, OpState
<1> QED  BY <1>1, <1>2, <1>3, <1>5, CalmRoom DEF RoomInv

LEMMA ClientUpgradeStep ==
  ASSUME RoomInv, ClientUpgrade
  PROVE  RoomInv' /\ EndedStep /\ FrameStep
<1>1. /\ published # 0 /\ generation' = published /\ op = NoValue /\ notice = NoValue
      /\ IF generation = published THEN ExpireClients ELSE RotateTokenGeneration(published)
      /\ UNCHANGED <<published, issued, revoked, claims, controls, expired, notice, handler,
                     control, notified>>
  BY DEF ClientUpgrade, RoomFree, d1Vars
<1>2. Calm  BY <1>1, UpgradeCalm
<1>3. Numbers'  BY <1>1, ConstantsAssumption DEF RoomInv, Numbers
<1>4. NoBirth /\ Sockets'  BY <1>2, CalmRoom
<1>5. PICK t \in Ticket, c \in Unused :
        op' = IF /\ generation = published /\ Active /\ RoomForClient
                 /\ t \in Protected => server.access
              THEN [Operation("client", IF t \in Protected THEN "redeem" ELSE "claim")
                      EXCEPT !.client = c, !.ticket = t, !.control = server.id]
              ELSE NoValue
  BY DEF ClientUpgrade
<1>6. c \in Client /\ client'[c] = NoValue /\ handler'[c] = NoValue
  BY <1>1, <1>4 DEF Unused, NoBirth, RoomInv, Sockets, MessagesOK, MessageOK
<1>7. OpOK'
  <2> SUFFICES ASSUME op' # NoValue PROVE OpOK'  BY DEF OpOK
  <2> DEFINE p == IF t \in Protected THEN "redeem" ELSE "claim"
  <2>1. PICK o : o = Operation("client", p)  OBVIOUS
  <2>2. /\ o \in OpState /\ o.kind = "client" /\ o.at = p /\ o.gen = published
    BY <2>1, OperationState DEF Places
  <2>3. op' = [o EXCEPT !.client = c, !.ticket = t, !.control = server.id] /\ Active
    BY <1>5, <2>1
  <2>4. server.id \in Int
    BY <2>3, ConstantsAssumption DEF Active, RoomInv, ServerOK, ControlState
  <2>5. /\ op' \in OpState /\ op'.kind = "client" /\ op'.at = p /\ op'.gen = published
        /\ op'.client = c /\ op'.ticket = t
    BY <1>6, <2>2, <2>3, <2>4 DEF OpState
  <2>6. p = "claim" => t \notin notified
    BY DEF RoomInv, Numbers
  <2>7. p = "redeem" => t \in Protected  OBVIOUS
  <2>8. p \in {"redeem", "claim"}  OBVIOUS
  <2> HIDE DEF p
  <2> QED  BY <1>1, <1>6, <2>5, <2>6, <2>7, <2>8 DEF OpOK, Admitting, Ongoing
<1> QED  BY <1>1, <1>2, <1>3, <1>7, CalmRoom DEF RoomInv

(* The current control is the new one, without a session. *)
LEMMA AcceptServerStep ==
  ASSUME RoomInv, AcceptServer
  PROVE  RoomInv' /\ EndedStep /\ FrameStep
<1> DEFINE new == [id |-> controls + 1, gen |-> op.gen, access |-> op.access, open |-> TRUE,
                   tickets |-> {}]
<1>1. /\ op # NoValue /\ op.at = "serve" /\ controls' = controls + 1 /\ op' = NoValue
      /\ Fail(Attachments(Connected), new)
      /\ UNCHANGED <<published, issued, revoked, generation, claims, expired, notice, handler,
                     control, notified>>
  BY DEF AcceptServer, At, d1Vars
<1>2. /\ op \in OpState /\ notice = NoValue /\ op.gen = generation /\ op.gen # 0
      /\ controls < MaxControls /\ controls \in Nat /\ MaxControls \in Nat
      /\ generation \in 0..issued /\ issued \in 0..MaxGeneration
  BY <1>1, ConstantsAssumption DEF RoomInv, OpOK, Numbers
<1>3. /\ new \in ControlState /\ new.id = controls + 1 /\ new.gen = op.gen /\ new.tickets = {}
  BY <1>2, ConstantsAssumption DEF ControlState, Generation, OpState
<1> HIDE DEF new
<1>4. /\ EndsOnly /\ NobodyNext /\ server' = Marked(new, Attachments(Connected))
      /\ \A c \in Client : Ongoing(c) => client'[c].frames <= client[c].frames
  BY <1>1, FailAllEnds DEF RoomInv
<1>5. Named(new)  BY <1>3 DEF Named
<1>6. KeepsBut(new, server', DOMAIN Attachments(Connected))  BY <1>4, <1>5, MarkedKeeps
<1>7. /\ server' \in ControlState /\ server'.id = controls + 1 /\ server'.gen = op.gen
      /\ server'.tickets = {}
  <2>1. new # NoValue  BY <1>5, NoValueAssumption DEF Named
  <2>2. server'.tickets = {}  BY <1>3, <1>4, <2>1 DEF Marked, ControlState
  <2> QED  BY <1>3, <1>6, <2>2 DEF KeepsBut
<1>8. ServerOK'  BY <1>1, <1>2, <1>7, ConstantsAssumption DEF ServerOK
<1>9. Sockets' /\ SessionsOK' /\ Steady /\ NoBirth
  BY <1>4, EndsSockets, EndsSteady, NobodySessions DEF RoomInv
<1>10. Ageing  BY <1>1 DEF Ageing
<1>11. Succeeds  BY <1>2, <1>7 DEF Succeeds
<1>12. MessagesOK'  BY <1>1, <1>9, <1>10, MessagesStay DEF RoomInv
<1>13. FrameOK'  BY <1>1, <1>2, <1>9, <1>10, <1>11, FrameStays DEF RoomInv
<1>14. Numbers'  BY <1>1, <1>2 DEF RoomInv, Numbers
<1>15. OpOK' /\ NoticeOK'  BY <1>1, <1>2 DEF OpOK, NoticeOK
<1>16. EndedStep
  BY <1>4 DEF EndedStep, EndsOnly, Stays, Ends, NobodyNext, RoomInv, Sockets
<1>17. FrameStep
  <2> SUFFICES ASSUME NEW c \in Client, Ongoing(c) PROVE ~(client[c]'.frames > client[c].frames)
    BY DEF FrameStep, Forwarded
  <2>1. client'[c].frames <= client[c].frames  BY <1>4
  <2>2. client[c].frames \in Int /\ client'[c].frames \in Int
    BY <1>4, <1>9, ConstantsAssumption
    DEF RoomInv, Sockets, Session, Ongoing, Steady, Carries
  <2> QED  BY <2>1, <2>2
<1> QED  BY <1>8, <1>9, <1>12, <1>13, <1>14, <1>15, <1>16, <1>17 DEF RoomInv

LEMMA AnswersAnswered ==
  ASSUME NEW t, NEW g, NEW a \in Answers(t, g)
  PROVE  a \in Answered /\ (a = "live" => Live(t, g))
BY DEF Answers, Failing, Answered

(* The operation moves on, and no session is touched. *)
LEMMA OperationIdle ==
  ASSUME RoomInv, op # NoValue, OpOK',
         UNCHANGED <<issued, revoked, server, client, socket, generation, controls, expired,
                     notice, handler, control, notified, published>>,
         claims' \subseteq Ticket
  PROVE  RoomInv' /\ EndedStep /\ FrameStep
<1>1. Calm  BY IdleCalm
<1>2. Numbers'  BY DEF RoomInv, Numbers
<1>3. notice = NoValue  BY DEF RoomInv, OpOK
<1> QED  BY <1>1, <1>2, <1>3, CalmRoom DEF RoomInv

LEMMA RedeemStep ==
  ASSUME RoomInv, Redeem
  PROVE  RoomInv' /\ EndedStep /\ FrameStep
<1>1. /\ op # NoValue /\ op.at = "redeem"
      /\ UNCHANGED <<issued, revoked, server, client, socket, generation, claims, controls,
                     expired, notice, handler, control, notified, published>>
  BY DEF Redeem, At, sessionVars, roomVars
<1>2. \/ op' = NoValue
      \/ op' = [op EXCEPT !.at = "redeemed"] /\ Live(op.ticket, op.gen)
  BY DEF Redeem
<1>3. op \in OpState  BY <1>1 DEF RoomInv, OpOK
<1>4. ASSUME op' = [op EXCEPT !.at = "redeemed"], Live(op.ticket, op.gen) PROVE OpOK'
  <2>1. op' \in OpState /\ op'.at = "redeemed" /\ op'.kind = op.kind /\ op'.gen = op.gen
        /\ op'.client = op.client /\ op'.ticket = op.ticket
    BY <1>3, <1>4 DEF OpState, Places
  <2>2. op.ticket \notin notified  BY <1>4 DEF Live, RoomInv, Numbers
  <2> QED  BY <1>1, <2>1, <2>2 DEF RoomInv, OpOK, Admitting, Ongoing
<1>5. OpOK'  BY <1>2, <1>4 DEF OpOK
<1> QED  BY <1>1, <1>5, OperationIdle DEF RoomInv, Numbers

LEMMA ReadReceiptStep ==
  ASSUME RoomInv, ReadReceipt
  PROVE  RoomInv' /\ EndedStep /\ FrameStep
<1>1. /\ op # NoValue /\ op.at \in {"redeemed", "claimed"}
      /\ UNCHANGED <<issued, revoked, server, client, socket, generation, claims, controls,
                     expired, notice, handler, control, notified, published>>
  BY DEF ReadReceipt, At, d1Vars, sessionVars, roomVars
<1>2. PICK answer \in Answers(op.ticket, op.gen) :
        op' = IF op.at = "claimed" THEN [op EXCEPT !.at = "deliver", !.answer = answer]
              ELSE IF answer = "live" THEN [op EXCEPT !.at = "claim"] ELSE NoValue
  BY DEF ReadReceipt
<1>3. op \in OpState /\ answer \in Answered  BY <1>1, AnswersAnswered DEF RoomInv, OpOK
<1>4. CASE op.at = "claimed"
  <2>1. op' \in OpState /\ op'.at = "deliver" /\ op'.kind = op.kind /\ op'.gen = op.gen
        /\ op'.client = op.client /\ op'.ticket = op.ticket
    BY <1>2, <1>3, <1>4 DEF OpState, Places
  <2>2. OpOK'  BY <1>1, <1>4, <2>1 DEF RoomInv, OpOK, Admitting, Ongoing
  <2> QED  BY <1>1, <2>2, OperationIdle DEF RoomInv, Numbers
<1>5. CASE op.at # "claimed" /\ answer = "live"
  <2>1. op' \in OpState /\ op'.at = "claim" /\ op'.kind = op.kind /\ op'.gen = op.gen
        /\ op'.client = op.client /\ op'.ticket = op.ticket
    BY <1>2, <1>3, <1>5 DEF OpState, Places
  <2>2. OpOK'  BY <1>1, <1>5, <2>1 DEF RoomInv, OpOK, Admitting, Ongoing
  <2> QED  BY <1>1, <2>2, OperationIdle DEF RoomInv, Numbers
<1>6. CASE op.at # "claimed" /\ answer # "live"
  <2>1. OpOK'  BY <1>2, <1>6 DEF OpOK
  <2> QED  BY <1>1, <2>1, OperationIdle DEF RoomInv, Numbers
<1> QED  BY <1>4, <1>5, <1>6

LEMMA RefuseClaimStep ==
  ASSUME RoomInv, RefuseClaim
  PROVE  RoomInv' /\ EndedStep /\ FrameStep
<1>1. /\ op # NoValue /\ op' = NoValue
      /\ UNCHANGED <<issued, revoked, server, client, socket, generation, claims, controls,
                     expired, notice, handler, control, notified, published>>
  BY DEF RefuseClaim, At, d1Vars, sessionVars
<1>2. OpOK'  BY <1>1 DEF OpOK
<1> QED  BY <1>1, <1>2, OperationIdle DEF RoomInv, Numbers

(* The catch branch of acceptClient *)
LEMMA FailAdmissionStep ==
  ASSUME RoomInv, FailAdmission
  PROVE  RoomInv' /\ EndedStep /\ FrameStep
<1>1. /\ op # NoValue /\ op.at = "deliver" /\ op' = NoValue /\ FailClient(op.client)
      /\ UNCHANGED <<issued, revoked, generation, claims, controls, expired, notice, handler,
                     control, notified, published>>
  BY DEF FailAdmission, At, d1Vars
<1>2. op.client \in Client /\ client[op.client] # NoValue /\ notice = NoValue
  BY <1>1 DEF RoomInv, OpOK, Admitting
<1>3. Winds  BY <1>1, <1>2, FailClientWinds DEF RoomInv
<1>4. issued \in Int  BY ConstantsAssumption DEF RoomInv, Numbers
<1>5. Calm  BY <1>1, <1>3, <1>4 DEF Calm, Orderly, Winds, Ageing
<1>6. OpOK' /\ Numbers'  BY <1>1 DEF OpOK, RoomInv, Numbers
<1> QED  BY <1>1, <1>2, <1>5, <1>6, CalmRoom DEF RoomInv

-----------------------------------------------------------------------------
(* Publications *)

LEMMA PublishStep ==
  ASSUME RoomInv, Publish
  PROVE  RoomInv' /\ EndedStep /\ FrameStep
<1>1. /\ op = NoValue /\ notice = NoValue /\ issued < MaxGeneration /\ issued' = issued + 1
      /\ RotateTokenGeneration(issued + 1)
      /\ op' = [Operation("publication", "persist") EXCEPT !.gen = issued + 1]
      /\ UNCHANGED <<published, revoked, claims, controls, expired, notice, handler, control,
                     notified>>
  BY DEF Publish, RoomFree
<1>2. issued \in Nat /\ MaxGeneration \in Nat /\ generation <= issued /\ generation \in Int
  BY ConstantsAssumption DEF RoomInv, Numbers
<1>3. issued' \in Int /\ issued <= issued'  BY <1>1, <1>2
<1>4. /\ Calm /\ generation' = issued + 1
      /\ generation # issued + 1 /\ server' # NoValue => server # NoValue /\ server.gen = issued + 1
  BY <1>1, <1>3, RotateCalm
<1>5. server' = NoValue
  <2>1. server # NoValue => server.gen <= issued /\ server.gen \in Int
    BY ConstantsAssumption DEF RoomInv, ServerOK, ControlState, Generation
  <2> QED  BY <1>2, <1>4, <2>1
<1>6. Numbers'  BY <1>1, <1>2, <1>4 DEF RoomInv, Numbers
<1>7. PICK o : o = Operation("publication", "persist")  OBVIOUS
<1>8. /\ o \in OpState /\ o.kind = "publication" /\ o.at = "persist"
  BY <1>7, OperationState DEF Places
<1>9. /\ op' \in OpState /\ op'.kind = "publication" /\ op'.at = "persist"
      /\ op'.gen = issued + 1
  BY <1>1, <1>2, <1>7, <1>8 DEF OpState
<1>10. OpOK'  BY <1>1, <1>4, <1>5, <1>9 DEF OpOK, Admitting
<1> QED  BY <1>1, <1>4, <1>6, <1>10, CalmRoom DEF RoomInv

(* Nobody has a session while a publication is being written. *)
LEMMA PersistStep ==
  ASSUME RoomInv, Persist
  PROVE  RoomInv' /\ EndedStep /\ FrameStep
<1>1. /\ op # NoValue /\ op.at = "persist" /\ published' \in {published, op.gen}
      /\ op' \in {NoValue, [op EXCEPT !.at = "rejected"], [op EXCEPT !.at = "match"]}
      /\ UNCHANGED <<issued, revoked, server, client, socket, generation, claims, controls,
                     expired, notice, handler, control, notified>>
  BY DEF Persist, At, sessionVars, roomVars
<1>2. /\ op \in OpState /\ notice = NoValue /\ op.gen = generation /\ server = NoValue
      /\ op.kind # "client"
  BY <1>1 DEF RoomInv, OpOK, Admitting
<1>3. NobodyNext
  BY <1>1, <1>2 DEF NobodyNext, RoomInv, SessionsOK, SessionOK, Owned, Ongoing
<1>4. Winds  BY <1>1, IdleWinds DEF RoomInv
<1>5. issued \in Int /\ issued <= issued  BY ConstantsAssumption DEF RoomInv, Numbers
<1>6. Calm  BY <1>1, <1>2, <1>3, <1>4, <1>5 DEF Calm, Orderly, Winds, Ageing
<1>7. Numbers'  BY <1>1, <1>2 DEF RoomInv, Numbers
<1>8. OpOK'
  <2> SUFFICES ASSUME NEW p \in {"rejected", "match"}, op' = [op EXCEPT !.at = p] PROVE OpOK'
    BY <1>1 DEF OpOK
  <2>1. op' \in OpState /\ op'.at = p /\ op'.kind = op.kind
    BY <1>2 DEF OpState, Places
  <2> QED  BY <1>1, <1>2, <2>1 DEF OpOK, Admitting
<1> QED  BY <1>1, <1>2, <1>6, <1>7, <1>8, CalmRoom DEF RoomInv

LEMMA MatchStep ==
  ASSUME RoomInv, Match
  PROVE  RoomInv' /\ EndedStep /\ FrameStep
<1>1. /\ op # NoValue /\ op.at = "match" /\ op' \in {NoValue, [op EXCEPT !.at = "unmatched"]}
      /\ UNCHANGED <<issued, revoked, server, client, socket, generation, claims, controls,
                     expired, notice, handler, control, notified, published>>
  BY DEF Match, At, d1Vars, sessionVars, roomVars
<1>2. op \in OpState /\ notice = NoValue /\ op.kind # "client"
  BY <1>1 DEF RoomInv, OpOK, Admitting
<1>3. OpOK'
  <2> SUFFICES ASSUME op' = [op EXCEPT !.at = "unmatched"] PROVE OpOK'
    BY <1>1 DEF OpOK
  <2>1. op' \in OpState /\ op'.at = "unmatched" /\ op'.kind = op.kind
    BY <1>2 DEF OpState, Places
  <2> QED  BY <1>1, <1>2, <2>1 DEF OpOK, Admitting
<1> QED  BY <1>1, <1>3, OperationIdle DEF RoomInv, Numbers

LEMMA ReturnStep ==
  ASSUME RoomInv, Return
  PROVE  RoomInv' /\ EndedStep /\ FrameStep
<1>1. /\ op # NoValue /\ op.at \in {"rejected", "unmatched"}
      /\ UNCHANGED <<issued, revoked, claims, controls, expired, notice, handler, control,
                     notified, published>>
      /\ \/ RotateTokenGeneration(published) /\ op' = NoValue
         \/ /\ UNCHANGED <<server, client, socket, generation>>
            /\ op' \in {NoValue, [op EXCEPT !.at = "match"]}
  BY DEF Return, Reconcile, At, d1Vars, sessionVars
<1>2. op \in OpState /\ notice = NoValue /\ op.kind # "client"
  BY <1>1 DEF RoomInv, OpOK, Admitting
<1>3. CASE RotateTokenGeneration(published) /\ op' = NoValue
  <2>1. issued \in Int /\ issued <= issued  BY ConstantsAssumption DEF RoomInv, Numbers
  <2>2. Calm /\ generation' = published  BY <1>1, <1>3, <2>1, RotateCalm
  <2>3. Numbers' /\ OpOK'  BY <1>1, <1>3, <2>2 DEF RoomInv, Numbers, OpOK
  <2> QED  BY <1>1, <1>2, <2>2, <2>3, CalmRoom DEF RoomInv
<1>4. CASE /\ UNCHANGED <<server, client, socket, generation>>
           /\ op' \in {NoValue, [op EXCEPT !.at = "match"]}
  <2>1. OpOK'
    <3> SUFFICES ASSUME op' = [op EXCEPT !.at = "match"] PROVE OpOK'
      BY <1>4 DEF OpOK
    <3>1. op' \in OpState /\ op'.at = "match" /\ op'.kind = op.kind
      BY <1>2 DEF OpState, Places
    <3> QED  BY <1>1, <1>2, <3>1 DEF OpOK, Admitting
  <2> QED  BY <1>1, <1>4, <2>1, OperationIdle DEF RoomInv, Numbers
<1> QED  BY <1>1, <1>3, <1>4

-----------------------------------------------------------------------------
(* Steps after which one session goes on otherwise than before *)

OneGoesOn(c) ==
  /\ \A d \in Client : d # c => Stays(d)
  /\ Functions /\ client'[c] \in Session /\ client'[c].stage # "terminal"
  /\ Owned(c)' /\ Exchange(c)' /\ Carries(c) /\ (client[c] # NoValue => Ongoing(c))
  /\ server # NoValue /\ KeepsBut(server, server', {c} \cup expired)
  /\ UNCHANGED <<published, issued, revoked, generation, controls, expired, notified>>

(* The others are as they were. *)
LEMMA OneRoom ==
  ASSUME RoomInv, NEW c \in Client, OneGoesOn(c)
  PROVE  /\ Sockets' /\ ServerOK' /\ SessionsOK' /\ Steady /\ EndedStep
         /\ client[c] # NoValue => NoBirth
         /\ \A d \in Client : Forwarded(d) => d = c
         /\ \A d \in Client : handler'[d] = handler[d] => MessageOK(d)'
         /\ control' = control => FrameOK'
         /\ notice' = notice /\ (notice # NoValue => op' = op /\ client[c] # NoValue) => NoticeOK'
<1>1. /\ \A d \in Client : d # c => Stays(d)
      /\ Functions /\ client'[c] \in Session /\ client'[c].stage # "terminal"
      /\ Owned(c)' /\ Exchange(c)' /\ Carries(c) /\ (client[c] # NoValue => Ongoing(c))
      /\ server # NoValue /\ KeepsBut(server, server', {c} \cup expired)
      /\ UNCHANGED <<published, issued, revoked, generation, controls, expired, notified>>
  BY DEF OneGoesOn
<1>2. client'[c] # NoValue /\ Ongoing(c)'  BY <1>1, NoValueAssumption DEF Ongoing
<1>3. \A d \in Client : d # c => Ongoing(d)' = Ongoing(d) /\ client'[d] = client[d]
  BY <1>1 DEF Stays, Ongoing
<1>4. issued \in Int /\ issued <= issued' /\ controls \in Int
  BY <1>1, ConstantsAssumption DEF RoomInv, Numbers
<1>5. ServerOK'  BY <1>1, <1>4, KeptServer DEF RoomInv
<1>6. Sockets'
  <2>1. ASSUME NEW d \in Client
        PROVE  /\ client'[d] = NoValue <=> socket'[d] = "none"
               /\ client'[d] # NoValue /\ ~Ongoing(d)' => ~client'[d].raw
    <3>1. CASE d = c  BY <1>1, <1>2, <3>1 DEF Owned
    <3>2. CASE d # c  BY <1>1, <1>3, <3>2 DEF Stays, RoomInv, Sockets
    <3> QED  BY <3>1, <3>2
  <2> QED  BY <1>1, <2>1 DEF Sockets, Functions
<1>7. SessionsOK'
  <2>1. ASSUME NEW d \in Client, d # c PROVE SessionOK(d)'
    <3>1. Sockets /\ ServerOK /\ SessionOK(d) /\ Stays(d)
      BY <1>1, <2>1 DEF RoomInv, SessionsOK
    <3>2. d \in {c} \cup expired => d \in expired' \/ ~Ongoing(d)'  BY <1>1, <2>1
    <3> QED  BY <1>1, <3>1, <3>2, SessionStays
  <2>2. SessionOK(c)'  BY <1>1 DEF SessionOK
  <2> QED  BY <2>1, <2>2 DEF SessionsOK
<1>8. Steady
  <2>1. ASSUME NEW d \in Client, d # c PROVE Carries(d)
    BY <1>3, <2>1, StaysCarries DEF RoomInv
  <2> QED  BY <1>1, <2>1 DEF Steady
<1>9. client[c] # NoValue => NoBirth  BY <1>3 DEF NoBirth
<1>10. EndedStep
  <2> SUFFICES ASSUME NEW d \in Client, client[d] # NoValue, ~Ongoing(d)
      PROVE  ~Ongoing(d)' /\ ~client[d]'.raw
      BY DEF EndedStep
  <2> QED  BY <1>1, <1>3 DEF RoomInv, Sockets
<1>11. \A d \in Client : Forwarded(d) => d = c
  <2> SUFFICES ASSUME NEW d \in Client, d # c, Ongoing(d), client[d]'.frames > client[d].frames
      PROVE  FALSE
      BY DEF Forwarded
  <2>1. client[d].frames \in Int  BY ConstantsAssumption DEF RoomInv, Sockets, Session, Ongoing
  <2> QED  BY <1>3, <2>1
<1>12. Ageing  BY <1>1 DEF Ageing
<1>13. \A d \in Client : handler'[d] = handler[d] => MessageOK(d)'
  BY <1>8, <1>12, MessageStays DEF RoomInv, MessagesOK, Steady
<1>14. control' = control => FrameOK'
  <2>1. Succeeds  BY <1>1 DEF Succeeds, KeepsBut
  <2> QED  BY <1>1, <1>4, <1>8, <1>12, <2>1, FrameStays DEF RoomInv
<1>15. notice' = notice /\ (notice # NoValue => op' = op /\ client[c] # NoValue) => NoticeOK'
  <2>1. CASE notice = NoValue  BY <2>1 DEF NoticeOK
  <2>2. CASE notice # NoValue
    BY <1>1, <1>6, <1>8, <1>9, <2>2, NoticeStays DEF RoomInv
  <2> QED  BY <2>1, <2>2
<1> QED  BY <1>5, <1>6, <1>7, <1>8, <1>9, <1>10, <1>11, <1>13, <1>14, <1>15

LEMMA SameServer ==
  ASSUME RoomInv, server # NoValue, server' = server, NEW E
  PROVE  KeepsBut(server, server', E)
<1>1. \A x \in server.tickets : x.sent \in Int
  BY ConstantsAssumption DEF RoomInv, ServerOK, ControlState, TicketState
<1> QED  BY <1>1 DEF RoomInv, ServerOK, KeepsBut

(* What an admission holds, and the attachment it writes *)
LEMMA AdmissionState ==
  ASSUME RoomInv, op # NoValue, op.at \in Admitting, ActiveControl(op.control, op.gen)
  PROVE  /\ op \in OpState /\ notice = NoValue /\ op.client \in Client /\ op.kind = "client"
         /\ handler[op.client] = NoValue /\ server # NoValue /\ server.id = op.control
         /\ server.gen = op.gen /\ op.gen = generation /\ op.ticket \in Ticket
         /\ op.ticket \notin notified \/ op.at = "redeem"
         /\ published \in {0, generation}
         /\ NewSession(op) \in Session /\ NewSession(op).stage = "awaiting"
         /\ NewSession(op).control = op.control /\ NewSession(op).gen = op.gen
         /\ NewSession(op).ticket = op.ticket /\ NewSession(op).raw
         /\ NewSession(op).frames = 0
<1>1. /\ op \in OpState /\ notice = NoValue /\ op.client \in Client /\ op.kind = "client"
      /\ handler[op.client] = NoValue /\ op.gen = generation /\ op.ticket \in Ticket
      /\ op.ticket \notin notified \/ op.at = "redeem"
      /\ published \in {0, generation}
  BY DEF RoomInv, OpOK
<1>2. server # NoValue /\ server.id = op.control /\ server.gen = op.gen
  BY DEF ActiveControl, Active
<1>3. op.control \in 1..MaxControls /\ op.gen \in Generation
  BY <1>2 DEF RoomInv, ServerOK, ControlState
<1> QED  BY <1>1, <1>2, <1>3, ConstantsAssumption DEF NewSession, Session

LEMMA ClaimStep ==
  ASSUME RoomInv, Claim
  PROVE  RoomInv' /\ EndedStep /\ FrameStep
<1>1. /\ op # NoValue /\ op.at = "claim" /\ ActiveControl(op.control, op.gen)
      /\ claims' = claims \cup {op.ticket}
      /\ client' = [client EXCEPT ![op.client] = NewSession(op)]
      /\ socket' = [socket EXCEPT ![op.client] = "open"]
      /\ op' = [op EXCEPT !.at = IF op.ticket \in Protected THEN "claimed" ELSE "deliver"]
      /\ UNCHANGED <<published, issued, revoked, server, generation, controls, expired, notice,
                     handler, control, notified>>
  BY DEF Claim, At, ClaimFence, d1Vars
<1>2. PICK c \in Client : c = op.client
  BY <1>1, AdmissionState DEF Admitting
<1>3. /\ op \in OpState /\ notice = NoValue /\ op.kind = "client" /\ handler[c] = NoValue
      /\ server # NoValue /\ server.id = op.control /\ server.gen = op.gen
      /\ op.gen = generation /\ op.ticket \in Ticket \ notified /\ published \in {0, generation}
      /\ NewSession(op) \in Session /\ NewSession(op).stage = "awaiting"
      /\ NewSession(op).control = op.control /\ NewSession(op).gen = op.gen
      /\ NewSession(op).ticket = op.ticket /\ NewSession(op).raw
      /\ NewSession(op).frames = 0
  BY <1>1, <1>2, AdmissionState DEF Admitting
<1>4. client[c] = NoValue /\ op.gen # 0  BY <1>1, <1>2 DEF RoomInv, OpOK, Admitting
<1>5. /\ client'[c] = NewSession(op) /\ socket'[c] = "open" /\ Functions
      /\ \A d \in Client : d # c => Stays(d)
  BY <1>1, <1>2, <1>3 DEF RoomInv, Sockets, Functions, Stays
<1>6. Owned(c)' /\ Exchange(c)' /\ Carries(c)
  BY <1>1, <1>3, <1>4, <1>5 DEF Owned, Exchange, Carries
<1>7. OneGoesOn(c)
  BY <1>1, <1>3, <1>4, <1>5, <1>6, SameServer DEF OneGoesOn
<1>8. Numbers'  BY <1>1, <1>3 DEF RoomInv, Numbers
<1>9. MessagesOK'  BY <1>1, <1>7, OneRoom DEF RoomInv, MessagesOK
<1>10. OpOK'
  <2>1. /\ op' \in OpState /\ op'.at \in {"claimed", "deliver"} /\ op'.kind = "client"
        /\ op'.gen = op.gen /\ op'.client = op.client /\ op'.ticket = op.ticket
    BY <1>1, <1>3 DEF OpState, Places
  <2>2. client'[c] # NoValue  BY <1>3, <1>5, NoValueAssumption
  <2> QED  BY <1>1, <1>2, <1>3, <1>4, <1>5, <2>1, <2>2 DEF OpOK, Admitting
<1>11. FrameStep  BY <1>4, <1>7, OneRoom DEF FrameStep, Forwarded, Ongoing
<1> QED  BY <1>1, <1>3, <1>7, <1>8, <1>9, <1>10, <1>11, OneRoom DEF RoomInv

LEMMA DeliverStep ==
  ASSUME RoomInv, Deliver
  PROVE  RoomInv' /\ EndedStep /\ FrameStep
<1>1. /\ op # NoValue /\ op.at = "deliver" /\ ActiveControl(op.control, op.gen)
      /\ Ongoing(op.client)
      /\ client' = [client EXCEPT ![op.client] = [NewSession(op) EXCEPT !.summary = FALSE]]
      /\ op' = NoValue
      /\ UNCHANGED <<published, issued, revoked, server, socket, generation, claims, controls,
                     expired, notice, handler, control, notified>>
  BY DEF Deliver, DeliverFence, At, d1Vars, roomVars
<1>2. PICK c \in Client : c = op.client
  BY <1>1, AdmissionState DEF Admitting
<1>3. /\ notice = NoValue /\ handler[c] = NoValue
      /\ server # NoValue /\ server.id = op.control /\ server.gen = op.gen
      /\ op.gen = generation /\ op.ticket \in Ticket \ notified /\ published \in {0, generation}
      /\ NewSession(op) \in Session /\ NewSession(op).stage = "awaiting"
      /\ NewSession(op).control = op.control /\ NewSession(op).gen = op.gen
      /\ NewSession(op).ticket = op.ticket /\ NewSession(op).raw
      /\ NewSession(op).frames = 0
  BY <1>1, <1>2, AdmissionState DEF Admitting
<1>4. /\ client[c].ticket = op.ticket /\ client[c].stage = "awaiting" /\ Ongoing(c)
      /\ client[c].frames = 0 /\ client[c].gen = generation /\ socket[c] = "open"
  <2>1. client[c].ticket = op.ticket /\ client[c].stage = "awaiting" /\ SessionOK(c)
    BY <1>1, <1>2 DEF RoomInv, OpOK, Admitting, SessionsOK
  <2> QED  BY <1>1, <1>2, <2>1 DEF SessionOK, Owned, Exchange
<1>5. /\ client'[c] \in Session /\ client'[c].stage = "awaiting"
      /\ client'[c].control = op.control /\ client'[c].gen = op.gen
      /\ client'[c].ticket = op.ticket /\ client'[c].raw /\ client'[c].frames = 0
  <2>1. client'[c] = [NewSession(op) EXCEPT !.summary = FALSE]
    BY <1>1, <1>2 DEF RoomInv, Sockets
  <2> QED  BY <1>3, <2>1 DEF Session
<1>6. Functions /\ \A d \in Client : d # c => Stays(d)
  BY <1>1, <1>2, <1>5 DEF RoomInv, Sockets, Functions, Stays
<1>7. Owned(c)' /\ Exchange(c)' /\ Carries(c)
  <2>1. Owned(c)'  BY <1>1, <1>3, <1>4, <1>5 DEF Owned
  <2>2. Exchange(c)'  BY <1>5 DEF Exchange
  <2>3. client'[c] # NoValue  BY <1>5, NoValueAssumption
  <2>4. Carries(c)  BY <1>3, <1>4, <1>5, <2>3 DEF Carries
  <2> QED  BY <2>1, <2>2, <2>4
<1>8. OneGoesOn(c)
  BY <1>1, <1>3, <1>4, <1>5, <1>6, <1>7, SameServer DEF OneGoesOn
<1>9. Numbers' /\ OpOK'  BY <1>1 DEF RoomInv, Numbers, OpOK
<1>10. MessagesOK'  BY <1>1, <1>8, OneRoom DEF RoomInv, MessagesOK
<1>11. FrameStep  BY <1>4, <1>5, <1>8, OneRoom DEF FrameStep, Forwarded
<1> QED  BY <1>1, <1>3, <1>8, <1>9, <1>10, <1>11, OneRoom DEF RoomInv

-----------------------------------------------------------------------------
(* access_init *)

LEMMA EnterInitStep ==
  ASSUME RoomInv, NEW c \in Client, EnterInit(c)
  PROVE  RoomInv' /\ EndedStep /\ FrameStep
<1>1. /\ op = NoValue /\ notice = NoValue /\ handler[c] # NoValue
      /\ UNCHANGED <<published, issued, revoked, generation, claims, controls, expired, notice,
                     control, notified>>
  BY DEF EnterInit, RoomFree, d1Vars, roomVars
<1>2. /\ client[c] # NoValue /\ client[c] \in Session /\ issued \in Int
      /\ client[c].gen \in Int /\ client[c].ticket \in Ticket
  BY <1>1, ConstantsAssumption
  DEF RoomInv, MessagesOK, MessageOK, Sockets, Numbers, Session, Generation
<1>3. Numbers'  BY <1>1 DEF RoomInv, Numbers
<1>4. CASE InitFence(c)
  <2>1. /\ UNCHANGED <<server, client, socket, handler>>
        /\ op' = [Operation("init", "confirm") EXCEPT !.gen = client[c].gen, !.client = c,
                                                      !.ticket = client[c].ticket]
    BY <1>4 DEF EnterInit, sessionVars
  <2>2. Calm  BY <1>1, <2>1, IdleCalm
  <2>3. PICK o : o = Operation("init", "confirm")  OBVIOUS
  <2>4. o \in OpState /\ o.kind = "init" /\ o.at = "confirm"
    BY <2>3, OperationState DEF Places
  <2>5. op' \in OpState /\ op'.kind = "init" /\ op'.at = "confirm" /\ op'.client = c
    BY <1>2, <2>1, <2>3, <2>4 DEF OpState
  <2>6. OpOK'  BY <1>1, <1>2, <2>1, <2>5 DEF OpOK, Admitting
  <2> QED  BY <1>1, <1>3, <2>1, <2>2, <2>6, CalmRoom DEF RoomInv
<1>5. CASE ~InitFence(c)
  <2>1. FailClient(c) /\ handler' = [handler EXCEPT ![c] = NoValue] /\ op' = op
    BY <1>5 DEF EnterInit
  <2>2. Winds  BY <1>1, <1>2, <2>1, FailClientWinds DEF RoomInv
  <2>3. Calm  BY <1>1, <1>2, <2>2 DEF Calm, Orderly, Winds, Ageing
  <2>4. Steady /\ Sockets'  BY <2>3, CalmRoom
  <2>5. MessagesOK'
    <3>1. ASSUME NEW d \in Client PROVE MessageOK(d)'
      <4>1. CASE d = c
        <5>1. handler'[c] = NoValue  BY <2>1 DEF RoomInv, MessagesOK
        <5> QED  BY <4>1, <5>1 DEF MessageOK
      <4>2. CASE d # c
        <5>1. handler'[d] = handler[d]  BY <2>1, <4>2 DEF RoomInv, MessagesOK
        <5>2. MessageOK(d) /\ Carries(d) /\ Ageing
          BY <2>3, <2>4 DEF RoomInv, MessagesOK, Steady, Calm, Orderly
        <5> QED  BY <5>1, <5>2, MessageStays DEF RoomInv
      <4> QED  BY <4>1, <4>2
    <3> QED  BY <2>1, <3>1 DEF RoomInv, MessagesOK
  <2>6. OpOK'  BY <1>1, <2>1 DEF OpOK
  <2> QED  BY <1>1, <1>3, <2>1, <2>3, <2>5, <2>6, CalmRoom DEF RoomInv
<1> QED  BY <1>4, <1>5

LEMMA ReadInitStep ==
  ASSUME RoomInv, ReadInit
  PROVE  RoomInv' /\ EndedStep /\ FrameStep
<1>1. /\ op # NoValue /\ op.at = "confirm"
      /\ UNCHANGED <<issued, revoked, server, client, socket, generation, claims, controls,
                     expired, notice, handler, control, notified, published>>
  BY DEF ReadInit, At, d1Vars, sessionVars, roomVars
<1>2. PICK answer \in Answers(op.ticket, op.gen) :
        op' = [op EXCEPT !.at = "confirmed", !.answer = answer]
  BY DEF ReadInit
<1>3. op \in OpState /\ answer \in Answered  BY <1>1, AnswersAnswered DEF RoomInv, OpOK
<1>4. /\ op' \in OpState /\ op'.at = "confirmed" /\ op'.kind = op.kind
      /\ op'.client = op.client
  BY <1>2, <1>3 DEF OpState, Places
<1>5. OpOK'  BY <1>1, <1>4 DEF RoomInv, OpOK, Admitting
<1> QED  BY <1>1, <1>5, OperationIdle DEF RoomInv, Numbers

(* One message waits for something else, or no more. *)
LEMMA OtherMessages ==
  ASSUME RoomInv, NEW c \in Client, NEW m, handler' = [handler EXCEPT ![c] = m],
         \A d \in Client : handler'[d] = handler[d] => MessageOK(d)',
         (handler'[c] = m) => MessageOK(c)'
  PROVE  MessagesOK'
<1>1. handler'[c] = m /\ \A d \in Client : d # c => handler'[d] = handler[d]
  BY DEF RoomInv, MessagesOK
<1>2. \A d \in Client : MessageOK(d)'  BY <1>1
<1> QED  BY <1>2 DEF RoomInv, MessagesOK

LEMMA CalmMessages ==
  ASSUME RoomInv, Calm
  PROVE  \A d \in Client : handler'[d] = handler[d] => MessageOK(d)'
<1>1. Steady /\ Ageing  BY CalmRoom DEF Calm, Orderly
<1> QED  BY <1>1, MessageStays DEF RoomInv, MessagesOK, Steady

(* The operation that waits does not see the messages of other connections. *)
LEMMA MessageOp ==
  ASSUME RoomInv, Calm, op' = op, notice' = notice, generation' = generation,
         published' \in {0, published}, NEW c \in Client, NEW m,
         handler' = [handler EXCEPT ![c] = m], OpOf("client") => op.client # c
  PROVE  OpOK'
<1>1. Steady /\ NoBirth  BY CalmRoom
<1>2. Winds  BY DEF Calm, Orderly
<1>3. \A d \in Client : Ongoing(d)' => client'[d].stage = client[d].stage
  BY <1>2, EndsSockets DEF Winds, Ending, Stays, RoomInv
<1>4. server = NoValue => server' = NoValue  BY <1>2 DEF Winds, Ending
<1>5. \A d \in Client : d # c => handler'[d] = handler[d]  BY DEF RoomInv, MessagesOK
<1> QED  BY <1>1, <1>3, <1>4, <1>5, OpStays DEF RoomInv, Calm, Orderly

LEMMA AdmissionMessage ==
  ASSUME RoomInv, NEW c \in Client, handler[c] # NoValue, OpOf("client")
  PROVE  op.client # c
BY DEF RoomInv, OpOf, OpOK

LEMMA AcceptAccessInitStep ==
  ASSUME RoomInv, AcceptAccessInit
  PROVE  RoomInv' /\ EndedStep /\ FrameStep
<1>1. /\ op # NoValue /\ op.at = "confirmed" /\ op' = NoValue
      /\ handler' = [handler EXCEPT ![op.client] = NoValue]
      /\ UNCHANGED <<published, issued, revoked, generation, claims, controls, expired, notice,
                     control, notified>>
  BY DEF AcceptAccessInit, At, d1Vars, roomVars
<1>2. PICK c \in Client : c = op.client /\ client[c] # NoValue /\ notice = NoValue
  BY <1>1 DEF RoomInv, OpOK
<1>3. Numbers' /\ OpOK' /\ issued \in Int
  BY <1>1, ConstantsAssumption DEF RoomInv, Numbers, OpOK
<1> DEFINE Fence == /\ op.answer = "live" /\ InitFence(c) /\ socket[c] = "open"
                    /\ ActiveControl(client[c].control, client[c].gen)
<1>4. CASE Fence
  <2>1. /\ client' = [client EXCEPT ![c].auth = "ready"]
        /\ UNCHANGED <<server, socket>>
        /\ client[c].stage = "awaiting" /\ socket[c] = "open"
    BY <1>2, <1>4 DEF AcceptAccessInit, InitFence
  <2>2. Ongoing(c) /\ client[c] \in Session  BY <1>2, <2>1 DEF Ongoing, RoomInv, Sockets
  <2>3. client'[c] = [client[c] EXCEPT !.auth = "ready"]
    BY <2>1 DEF RoomInv, Sockets
  <2>4. /\ client'[c] \in Session /\ client'[c].stage = "awaiting"
        /\ client'[c].ticket = client[c].ticket /\ client'[c].gen = client[c].gen
        /\ client'[c].control = client[c].control /\ client'[c].raw = client[c].raw
        /\ client'[c].frames = client[c].frames /\ client[c].frames \in Int
    BY <2>1, <2>2, <2>3, ConstantsAssumption DEF Session
  <2>5. Functions /\ \A d \in Client : d # c => Stays(d)
    BY <2>1, <2>4 DEF RoomInv, Sockets, Functions, Stays
  <2>6. Owned(c) /\ Exchange(c)  BY <2>2 DEF RoomInv, SessionsOK, SessionOK
  <2>7. Owned(c)'  BY <1>1, <2>1, <2>4, <2>6 DEF Owned
  <2>8. Exchange(c)'  BY <2>1, <2>4, <2>6 DEF Exchange
  <2>9. Carries(c)  BY <2>2, <2>4, NoValueAssumption DEF Carries
  <2>10. server # NoValue  BY <2>6 DEF Owned
  <2>11. OneGoesOn(c)
    BY <1>1, <2>1, <2>2, <2>4, <2>5, <2>7, <2>8, <2>9, <2>10, SameServer DEF OneGoesOn
  <2>12. MessagesOK'
    BY <1>1, <1>2, <2>11, OneRoom, OtherMessages DEF MessageOK
  <2>13. FrameStep  BY <2>4, <2>11, OneRoom DEF FrameStep, Forwarded
  <2> QED  BY <1>1, <1>2, <1>3, <2>11, <2>12, <2>13, OneRoom DEF RoomInv
<1>5. CASE ~Fence
  <2>1. FailClient(c)  BY <1>2, <1>5 DEF AcceptAccessInit
  <2>2. Winds  BY <1>1, <1>2, <2>1, FailClientWinds DEF RoomInv
  <2>3. Calm  BY <1>1, <1>3, <2>2 DEF Calm, Orderly, Winds, Ageing
  <2>4. MessagesOK'  BY <1>1, <1>2, <2>3, CalmMessages, OtherMessages DEF MessageOK
  <2> QED  BY <1>1, <1>2, <1>3, <2>3, <2>4, CalmRoom DEF RoomInv
<1> QED  BY <1>4, <1>5

-----------------------------------------------------------------------------
(* The revocation notice *)

LEMMA NoticeRequestStep ==
  ASSUME RoomInv, NoticeRequest
  PROVE  RoomInv' /\ EndedStep /\ FrameStep
<1>1. /\ op = NoValue
      /\ notice' = [todo |-> Connected, client |-> NoValue, att |-> NoValue,
                    answer |-> NoValue, since |-> revoked]
      /\ UNCHANGED <<published, issued, revoked, server, client, socket, generation, claims,
                     controls, expired, op, handler, control, notified>>
  BY DEF NoticeRequest, RoomFree, d1Vars, sessionVars, roomVars
<1>2. Calm  BY <1>1, IdleCalm
<1>3. Numbers' /\ OpOK'  BY <1>1 DEF RoomInv, Numbers, OpOK
<1>4. NoticeOK'
  <2>1. /\ Connected \subseteq Client /\ \A c \in Connected : client[c] # NoValue
        /\ \A c \in Client : Ongoing(c) => c \in Connected
    BY ConnectedOK DEF RoomInv, Connected
  <2>2. notice' \in NoticeState'  BY <1>1, <2>1 DEF NoticeState
  <2> QED  BY <1>1, <2>1, <2>2 DEF NoticeOK, Ongoing
<1> QED  BY <1>1, <1>2, <1>3, <1>4, CalmRoom DEF RoomInv

LEMMA NoticeReadStep ==
  ASSUME RoomInv, NEW c \in Client, NoticeRead(c)
  PROVE  RoomInv' /\ EndedStep /\ FrameStep
<1>1. /\ notice # NoValue /\ notice.client = NoValue /\ c \in notice.todo
      /\ UNCHANGED <<published, issued, revoked, server, client, socket, generation, claims,
                     controls, expired, op, handler, control, notified>>
  BY DEF NoticeRead, d1Vars, sessionVars, roomVars
<1>2. Calm  BY <1>1, IdleCalm
<1>3. /\ op = NoValue /\ notice \in NoticeState /\ client[c] # NoValue
      /\ \A d \in notice.todo : client[d] # NoValue
      /\ \A d \in Client : Ongoing(d) /\ client[d].ticket \in notice.since => d \in notice.todo
  BY <1>1 DEF RoomInv, NoticeOK
<1>4. Numbers' /\ OpOK'  BY <1>1, <1>3 DEF RoomInv, Numbers, OpOK
<1>5. client[c] \in Session /\ client[c].frames \in Int
  BY <1>3, ConstantsAssumption DEF RoomInv, Sockets, Session
<1>6. NoticeOK'
  <2>1. CASE client[c].raw /\ client[c].ticket \in Protected
    <3>1. PICK answer \in Answers(client[c].ticket, client[c].gen) :
            notice' = IF answer = "error" THEN NoValue
                      ELSE [notice EXCEPT !.client = c, !.att = client[c], !.answer = answer]
      BY <2>1 DEF NoticeRead
    <3>2. CASE answer = "error"  BY <3>1, <3>2 DEF NoticeOK
    <3>3. CASE answer # "error"
      <4>1. answer \in Answered /\ (answer = "live" => Live(client[c].ticket, client[c].gen))
        BY <3>1, AnswersAnswered
      <4>2. /\ notice' \in NoticeState' /\ notice'.client = c /\ notice'.att = client[c]
            /\ notice'.answer = answer /\ notice'.todo = notice.todo
            /\ notice'.since = notice.since
        BY <1>1, <1>3, <1>5, <3>1, <3>3, <4>1 DEF NoticeState
      <4>3. client[c].ticket \in notice.since => answer = "dead"
        BY <1>3, <3>3, <4>1 DEF Live, NoticeState, Answered
      <4> QED  BY <1>1, <1>3, <1>5, <4>2, <4>3 DEF NoticeOK, Ongoing
    <3> QED  BY <3>2, <3>3
  <2>2. CASE ~(client[c].raw /\ client[c].ticket \in Protected)
    <3>1. notice' = [notice EXCEPT !.todo = @ \ {c}]  BY <2>2 DEF NoticeRead
    <3>2. /\ notice' \in NoticeState' /\ notice'.client = NoValue
          /\ notice'.todo = notice.todo \ {c} /\ notice'.since = notice.since
      BY <1>1, <1>3, <3>1 DEF NoticeState
    <3>3. Ongoing(c) => client[c].ticket \notin notice.since
      BY <1>3, <2>2
      DEF RoomInv, SessionsOK, SessionOK, Owned, NoticeState, Numbers
    <3> QED  BY <1>1, <1>3, <3>2, <3>3 DEF NoticeOK, Ongoing
  <2> QED  BY <2>1, <2>2
<1> QED  BY <1>1, <1>2, <1>4, <1>6, CalmRoom DEF RoomInv

(* The attachment that is written was read before D1 was asked. *)
LEMMA NoticeFailStep ==
  ASSUME RoomInv, NoticeFail
  PROVE  RoomInv' /\ EndedStep /\ FrameStep
<1>1. /\ notice # NoValue /\ notice.client # NoValue
      /\ notice' = [notice EXCEPT !.todo = @ \ {notice.client}, !.client = NoValue,
                                  !.att = NoValue, !.answer = NoValue]
      /\ UNCHANGED <<published, issued, revoked, generation, claims, controls, expired, op,
                     handler, control, notified>>
  BY DEF NoticeFail, d1Vars, roomVars
<1>2. /\ op = NoValue /\ notice \in NoticeState
      /\ \A d \in notice.todo : client[d] # NoValue
      /\ \A d \in Client : Ongoing(d) /\ client[d].ticket \in notice.since =>
           d \in notice.todo /\ (notice.client = d => notice.answer = "dead")
  BY <1>1 DEF RoomInv, NoticeOK
<1>3. PICK c \in Client : /\ c = notice.client /\ notice.att \in Session /\ client[c] # NoValue
                          /\ Ongoing(c) => notice.att.frames <= client[c].frames
  BY <1>1 DEF RoomInv, NoticeOK
<1>4. Winds /\ (notice.answer = "dead" => ~Ongoing(c)')
  <2>1. CASE notice.answer = "dead"
    <3> DEFINE atts == [d \in {c} |-> notice.att]
    <3>1. Fail(atts, server)  BY <1>3, <2>1 DEF NoticeFail
    <3>2. /\ DOMAIN atts = {c}
          /\ \A d \in {c} : /\ d \in Client /\ client[d] # NoValue /\ atts[d] \in Session
                            /\ Ongoing(d) => atts[d].frames <= client[d].frames
      BY <1>3
    <3> HIDE DEF atts
    <3> QED  BY <1>1, <3>1, <3>2, FailWinds DEF RoomInv
  <2>2. CASE notice.answer # "dead"
    <3>1. UNCHANGED <<server, client, socket>>  BY <2>2 DEF NoticeFail, sessionVars
    <3> QED  BY <2>2, <3>1, IdleWinds DEF RoomInv
  <2> QED  BY <2>1, <2>2
<1>5. issued \in Int  BY ConstantsAssumption DEF RoomInv, Numbers
<1>6. Calm  BY <1>1, <1>4, <1>5 DEF Calm, Orderly, Winds, Ageing
<1>7. Steady /\ NoBirth  BY <1>6, CalmRoom
<1>8. /\ notice' \in NoticeState' /\ notice'.client = NoValue
      /\ notice'.todo = notice.todo \ {c} /\ notice'.since = notice.since
  BY <1>1, <1>2, <1>3 DEF NoticeState
<1>9. \A d \in notice'.todo : client'[d] # NoValue
  BY <1>2, <1>7, <1>8 DEF Steady, Carries, NoticeState
<1>10. ASSUME NEW d \in Client, Ongoing(d)', client'[d].ticket \in notice.since
       PROVE  d \in notice'.todo
  <2>1. client[d] # NoValue  BY <1>7, <1>10 DEF NoBirth, Ongoing
  <2>2. Ongoing(d) /\ client'[d].ticket = client[d].ticket
    BY <1>7, <1>10, <2>1 DEF Steady, Carries
  <2> QED  BY <1>2, <1>3, <1>4, <1>8, <1>10, <2>2
<1>11. NoticeOK'  BY <1>1, <1>2, <1>8, <1>9, <1>10 DEF NoticeOK
<1>12. Numbers' /\ OpOK'  BY <1>1, <1>2 DEF RoomInv, Numbers, OpOK
<1> QED  BY <1>1, <1>6, <1>11, <1>12, CalmRoom DEF RoomInv

(* The notice is answered when no session it is about goes on. *)
LEMMA NoticeDoneStep ==
  ASSUME RoomInv, NoticeDone
  PROVE  RoomInv' /\ EndedStep /\ FrameStep
<1>1. /\ notice # NoValue /\ notice.todo = {} /\ notified' = notified \cup notice.since
      /\ notice' = NoValue
      /\ UNCHANGED <<published, issued, revoked, server, client, socket, generation, claims,
                     controls, expired, op, handler, control>>
  BY DEF NoticeDone, d1Vars, sessionVars, roomVars
<1>2. /\ op = NoValue /\ notice.since \subseteq revoked
      /\ \A d \in Client : Ongoing(d) => client[d].ticket \notin notice.since
  BY <1>1 DEF RoomInv, NoticeOK, NoticeState
<1>3. Numbers' /\ OpOK' /\ NoticeOK'  BY <1>1, <1>2 DEF RoomInv, Numbers, OpOK, NoticeOK
<1>4. Sockets' /\ ServerOK'  BY <1>1 DEF RoomInv, Sockets, ServerOK, Ongoing
<1>5. SessionsOK'
  <2> SUFFICES ASSUME NEW c \in Client, Ongoing(c)' PROVE Owned(c)' /\ Exchange(c)'
    BY DEF SessionsOK, SessionOK
  <2>1. Ongoing(c) /\ Owned(c) /\ Exchange(c)
    BY <1>1 DEF RoomInv, SessionsOK, SessionOK, Ongoing
  <2> QED  BY <1>1, <1>2, <2>1 DEF Owned, Exchange
<1>6. MessagesOK'  BY <1>1 DEF RoomInv, MessagesOK, MessageOK, Ongoing, Over
<1>7. FrameOK'  BY <1>1 DEF RoomInv, FrameOK, Ongoing, Over
<1>8. EndedStep  BY <1>1 DEF EndedStep, RoomInv, Sockets, Ongoing
<1>9. FrameStep
  BY <1>1, ConstantsAssumption DEF FrameStep, Forwarded, RoomInv, Sockets, Session, Ongoing
<1> QED  BY <1>3, <1>4, <1>5, <1>6, <1>7, <1>8, <1>9 DEF RoomInv

-----------------------------------------------------------------------------
(* Frames of clients *)

LEMMA DropsStep ==
  ASSUME RoomInv, NEW c \in Client, client[c] # NoValue, Drops(c), OpOf("client") => op.client # c,
         UNCHANGED <<published, issued, revoked, generation, claims, controls, expired, op, notice,
                     control, notified>>
  PROVE  RoomInv' /\ EndedStep /\ FrameStep
<1>1. FailClient(c) /\ handler' = [handler EXCEPT ![c] = NoValue]  BY DEF Drops
<1>2. issued \in Int /\ Numbers'  BY ConstantsAssumption DEF RoomInv, Numbers
<1>3. Winds  BY <1>1, FailClientWinds DEF RoomInv
<1>4. Calm  BY <1>2, <1>3 DEF Calm, Orderly, Winds, Ageing
<1>5. MessagesOK'  BY <1>1, <1>4, CalmMessages, OtherMessages DEF MessageOK
<1>6. OpOK'  BY <1>1, <1>4, MessageOp
<1> QED  BY <1>2, <1>4, <1>5, <1>6, CalmRoom DEF RoomInv

(* A message waits for D1, or for its turn. *)
LEMMA WaitStep ==
  ASSUME RoomInv, NEW c \in Client, client[c] # NoValue, OpOf("client") => op.client # c,
         NEW m \in MessageState, handler' = [handler EXCEPT ![c] = m],
         m.late /\ Ongoing(c) => /\ Over(client[c].ticket, client[c].gen)
                                 /\ m.at = "dispatch" => m.answer # "live",
         UNCHANGED <<published, issued, revoked, server, client, socket, generation, claims,
                     controls, expired, op, notice, control, notified>>
  PROVE  RoomInv' /\ EndedStep /\ FrameStep
<1>1. Numbers'  BY DEF RoomInv, Numbers
<1>2. Calm  BY IdleCalm
<1>3. handler'[c] = m => MessageOK(c)'
  BY DEF MessageOK, Ongoing, Over
<1>4. MessagesOK'  BY <1>2, <1>3, CalmMessages, OtherMessages
<1>5. OpOK'  BY <1>2, MessageOp
<1> QED  BY <1>1, <1>2, <1>4, <1>5, CalmRoom DEF RoomInv

LEMMA WaitsStep ==
  ASSUME RoomInv, NEW c \in Client, client[c] # NoValue, OpOf("client") => op.client # c,
         NEW at \in {"init", "check", "dispatch"}, Waits(c, at),
         at = "dispatch" => client[c].ticket \notin Protected,
         UNCHANGED <<published, issued, revoked, server, client, socket, generation, claims,
                     controls, expired, op, notice, control, notified>>
  PROVE  RoomInv' /\ EndedStep /\ FrameStep
<1>1. PICK m : m = [at |-> at, late |-> Stale(client[c].ticket, client[c].gen),
                    answer |-> "live"]
  OBVIOUS
<1>2. Stale(client[c].ticket, client[c].gen) = Over(client[c].ticket, client[c].gen)
  BY DEF Stale, Over, Live
<1>3. Stale(client[c].ticket, client[c].gen) \in BOOLEAN  BY DEF Stale
<1>4. m \in MessageState  BY <1>1, <1>3 DEF MessageState, Answered
<1>5. m.late /\ Ongoing(c) => /\ Over(client[c].ticket, client[c].gen)
                              /\ m.at = "dispatch" => m.answer # "live"
  BY <1>1, <1>2 DEF Over
<1>6. handler' = [handler EXCEPT ![c] = m]  BY <1>1 DEF Waits
<1> QED  BY <1>4, <1>5, <1>6, WaitStep

LEMMA ClientFrameStep ==
  ASSUME RoomInv, NEW c \in Client, ClientFrame(c)
  PROVE  RoomInv' /\ EndedStep /\ FrameStep
<1>1. /\ socket[c] = "open" /\ handler[c] = NoValue
      /\ OpOf("client") => op.client # c
      /\ UNCHANGED <<published, issued, revoked, generation, claims, controls, expired, op,
                     notice, control, notified>>
  BY DEF ClientFrame, Delivered, d1Vars, roomVars
<1>2. client[c] # NoValue  BY <1>1 DEF RoomInv, Sockets
<1>3. CASE Drops(c)  BY <1>1, <1>2, <1>3, DropsStep
<1>4. CASE client[c].ticket \notin Protected /\ HandleCandidate(c, "dispatch")
  <2>1. \/ Waits(c, "dispatch") /\ UNCHANGED <<server, client, socket>>
        \/ Drops(c)
    BY <1>1, <1>4 DEF HandleCandidate, sessionVars
  <2> QED  BY <1>1, <1>2, <1>3, <1>4, <2>1, WaitsStep
<1>5. CASE /\ Waits(c, IF client[c].auth = "awaiting_init" THEN "init" ELSE "check")
           /\ UNCHANGED sessionVars
  <2>1. UNCHANGED <<server, client, socket>>  BY <1>5 DEF sessionVars
  <2>2. PICK at \in {"init", "check"} : Waits(c, at)  BY <1>5
  <2> QED  BY <1>1, <1>2, <2>1, <2>2, WaitsStep
<1> QED  BY <1>3, <1>4, <1>5 DEF ClientFrame

LEMMA ReadFrameStep ==
  ASSUME RoomInv, NEW c \in Client, ReadFrame(c)
  PROVE  RoomInv' /\ EndedStep /\ FrameStep
<1>1. /\ handler[c] # NoValue /\ handler[c].at \in {"check", "recheck"}
      /\ UNCHANGED <<published, issued, revoked, server, client, socket, generation, claims,
                     controls, expired, op, notice, control, notified>>
  BY DEF ReadFrame, d1Vars, sessionVars, roomVars
<1>2. /\ handler[c] \in MessageState /\ client[c] # NoValue
      /\ handler[c].late /\ Ongoing(c) => Over(client[c].ticket, client[c].gen)
      /\ OpOf("client") => op.client # c
  BY <1>1, AdmissionMessage DEF RoomInv, MessagesOK, MessageOK
<1>3. PICK answer \in Answers(client[c].ticket, client[c].gen) :
        handler' = [handler EXCEPT ![c].at = IF @ = "check" THEN "checked" ELSE "dispatch",
                                   ![c].answer = answer]
  BY DEF ReadFrame
<1>4. PICK m : m = [handler[c] EXCEPT !.at = IF @ = "check" THEN "checked" ELSE "dispatch",
                                      !.answer = answer]
  OBVIOUS
<1>5. answer \in Answered /\ (answer = "live" => Live(client[c].ticket, client[c].gen))
  BY <1>3, AnswersAnswered
<1>6. m \in MessageState /\ m.late = handler[c].late /\ m.answer = answer
  BY <1>2, <1>4, <1>5 DEF MessageState
<1>7. handler' = [handler EXCEPT ![c] = m]  BY <1>3, <1>4 DEF RoomInv, MessagesOK
<1>8. m.late /\ Ongoing(c) => /\ Over(client[c].ticket, client[c].gen)
                              /\ m.at = "dispatch" => m.answer # "live"
  BY <1>2, <1>5, <1>6 DEF Over, Live
<1> QED  BY <1>1, <1>2, <1>6, <1>7, <1>8, WaitStep

LEMMA CheckFrameStep ==
  ASSUME RoomInv, NEW c \in Client, CheckFrame(c)
  PROVE  RoomInv' /\ EndedStep /\ FrameStep
<1>1. /\ handler[c] # NoValue
      /\ UNCHANGED <<published, issued, revoked, generation, claims, controls, expired, op,
                     notice, control, notified>>
  BY DEF CheckFrame, d1Vars, roomVars
<1>2. /\ handler[c] \in MessageState /\ client[c] # NoValue
      /\ handler[c].late /\ Ongoing(c) => Over(client[c].ticket, client[c].gen)
      /\ OpOf("client") => op.client # c
  BY <1>1, AdmissionMessage DEF RoomInv, MessagesOK, MessageOK
<1>3. CASE Drops(c)  BY <1>1, <1>2, <1>3, DropsStep
<1>4. CASE ~Drops(c)
  <2>1. handler' = [handler EXCEPT ![c].at = "recheck"] /\ UNCHANGED <<server, client, socket>>
    BY <1>1, <1>4 DEF CheckFrame, HandleCandidate, sessionVars
  <2>2. PICK m : m = [handler[c] EXCEPT !.at = "recheck"]  OBVIOUS
  <2>3. m \in MessageState /\ m.late = handler[c].late /\ m.at = "recheck"
    BY <1>2, <2>2 DEF MessageState
  <2>4. handler' = [handler EXCEPT ![c] = m]  BY <2>1, <2>2 DEF RoomInv, MessagesOK
  <2>5. m.late /\ Ongoing(c) => /\ Over(client[c].ticket, client[c].gen)
                                /\ m.at = "dispatch" => m.answer # "live"
    BY <1>2, <2>3
  <2> QED  BY <1>1, <1>2, <2>1, <2>3, <2>4, <2>5, WaitStep
<1> QED  BY <1>3, <1>4

(* A ticket is added that the control does not know. *)
LEMMA TicketAdded ==
  ASSUME RoomInv, server # NoValue, NEW x \in TicketState,
         NEW t, t = [Pruned(server) EXCEPT !.tickets = @ \cup {x}],
         \A y \in Pruned(server).tickets : y.ticket # x.ticket
  PROVE  /\ KeepsBut(server, t, {x.client} \cup expired) /\ x \in t.tickets
         /\ \A y \in t.tickets : y.ticket = x.ticket => y = x
<1>1. Named(server)  BY DEF RoomInv, ServerOK, Named
<1>2. PICK p : p = Pruned(server)  OBVIOUS
<1>3. KeepsBut(server, p, expired)  BY <1>1, <1>2, PrunedKeeps
<1>4. /\ t \in ControlState /\ t.id = p.id /\ t.gen = p.gen /\ t.tickets = p.tickets \cup {x}
  BY <1>1, <1>2, <1>3 DEF KeepsBut, ControlState
<1>5. \A y \in p.tickets : y.ticket # x.ticket  BY <1>2
<1>6. \A y, z \in t.tickets : y.ticket = z.ticket => y = z  BY <1>3, <1>4, <1>5 DEF KeepsBut
<1>7. \A y \in t.tickets : y.client \notin {x.client} \cup expired =>
        \E z \in server.tickets : z.client = y.client /\ z.ticket = y.ticket /\ z.sent <= y.sent
  BY <1>3, <1>4 DEF KeepsBut
<1>8. \A y \in server.tickets : y.client \notin {x.client} \cup expired => y \in t.tickets
  BY <1>3, <1>4 DEF KeepsBut
<1>9. t.id = server.id /\ t.gen = server.gen  BY <1>3, <1>4 DEF KeepsBut
<1> QED  BY <1>4, <1>5, <1>6, <1>7, <1>8, <1>9 DEF KeepsBut

LEMMA DispatchFrameStep ==
  ASSUME RoomInv, NEW c \in Client, DispatchFrame(c)
  PROVE  RoomInv' /\ EndedStep /\ FrameStep
<1>1. /\ handler[c] # NoValue /\ handler[c].at = "dispatch"
      /\ handler' = [handler EXCEPT ![c] = NoValue]
      /\ UNCHANGED <<published, issued, revoked, generation, claims, controls, expired, op,
                     notice, control, notified>>
  BY DEF DispatchFrame, d1Vars, roomVars
<1>2. /\ handler[c] \in MessageState /\ client[c] # NoValue /\ client[c] \in Session
      /\ handler[c].late /\ Ongoing(c) => handler[c].answer # "live"
      /\ OpOf("client") => op.client # c
  BY <1>1, AdmissionMessage DEF RoomInv, MessagesOK, MessageOK, Sockets
<1>3. Numbers' /\ issued \in Int  BY <1>1, ConstantsAssumption DEF RoomInv, Numbers
<1>4. ASSUME DispatchFence(c),
             client' = [client EXCEPT ![c].stage = "exchange", ![c].digest = TRUE,
                                      ![c].frames = 1],
             server' = [Pruned(server) EXCEPT !.tickets = @ \cup
                         {[ticket |-> client[c].ticket, client |-> c, active |-> TRUE,
                           sent |-> 0, done |-> FALSE]}],
             socket' = socket
      PROVE  RoomInv' /\ EndedStep /\ FrameStep
    <2>1. /\ handler[c].answer = "live" /\ client[c].stage = "awaiting" /\ socket[c] = "open"
          /\ \A x \in Pruned(server).tickets : x.ticket # client[c].ticket
      BY <1>4 DEF DispatchFence
    <2>2. Ongoing(c) /\ Owned(c) /\ Exchange(c) /\ server # NoValue
      BY <1>2, <2>1 DEF Ongoing, RoomInv, SessionsOK, SessionOK, Owned
    <2>3. client'[c] = [client[c] EXCEPT !.stage = "exchange", !.digest = TRUE, !.frames = 1]
      BY <1>4 DEF RoomInv, Sockets
    <2>4. /\ client'[c] \in Session /\ client'[c].stage = "exchange" /\ client'[c].digest
          /\ client'[c].frames = 1 /\ client[c].frames = 0 /\ client'[c].raw = client[c].raw
          /\ client'[c].ticket = client[c].ticket /\ client'[c].gen = client[c].gen
          /\ client'[c].control = client[c].control
      <3>1. client[c].frames = 0  BY <2>1, <2>2 DEF Exchange
      <3>2. PICK a \in Session : a = client[c]  BY <1>2
      <3>3. 1 \in 0..MaxServerFrames + 2  BY ConstantsAssumption
      <3>4. /\ [a EXCEPT !.stage = "exchange", !.digest = TRUE, !.frames = 1] \in Session
            /\ client'[c] = [a EXCEPT !.stage = "exchange", !.digest = TRUE, !.frames = 1]
        BY <2>3, <3>2, <3>3 DEF Session
      <3> QED  BY <3>1, <3>2, <3>4 DEF Session
    <2>5. Functions /\ \A d \in Client : d # c => Stays(d)
      BY <1>4, <2>4 DEF RoomInv, Sockets, Functions, Stays
    <2>6. PICK x : x = [ticket |-> client[c].ticket, client |-> c, active |-> TRUE,
                        sent |-> 0, done |-> FALSE]
      OBVIOUS
    <2>7. PICK t : t = server'  OBVIOUS
    <2>8. t = [Pruned(server) EXCEPT !.tickets = @ \cup {x}]  BY <1>4, <2>6, <2>7
    <2>9. /\ KeepsBut(server, t, {c} \cup expired) /\ x \in t.tickets
          /\ \A y \in t.tickets : y.ticket = client[c].ticket => y = x
      <3>1. x \in TicketState /\ x.client = c /\ x.ticket = client[c].ticket
        BY <1>2, <2>6, ConstantsAssumption DEF TicketState, Session
      <3>2. \A y \in Pruned(server).tickets : y.ticket # x.ticket  BY <2>1, <3>1
      <3>3. /\ KeepsBut(server, t, {x.client} \cup expired) /\ x \in t.tickets
            /\ \A y \in t.tickets : y.ticket = x.ticket => y = x
        BY <2>2, <2>8, <3>1, <3>2, TicketAdded, ZenonT(60)
      <3> QED  BY <3>1, <3>3
    <2>10. Owned(c)'
      <3>1. server' # NoValue /\ server'.id = server.id /\ server'.gen = server.gen
        BY <2>7, <2>9, NoValueAssumption DEF KeepsBut
      <3>2. socket'[c] = socket[c]  BY <1>4
      <3> QED  BY <1>1, <2>2, <2>4, <3>1, <3>2 DEF Owned
    <2>11. Exchange(c)'  BY <1>1, <2>4, <2>6, <2>7, <2>9 DEF Exchange
    <2>12. Carries(c)  BY <2>2, <2>4, NoValueAssumption DEF Carries
    <2>13. OneGoesOn(c)
      BY <1>1, <2>2, <2>4, <2>5, <2>7, <2>9, <2>10, <2>11, <2>12 DEF OneGoesOn
    <2>14. MessagesOK'  BY <1>1, <2>13, OneRoom, OtherMessages DEF MessageOK
    <2>15. FrameStep
      <3>1. handler'[c] = NoValue /\ ~handler[c].late
        BY <1>1, <1>2, <2>1, <2>2 DEF RoomInv, MessagesOK
      <3> QED  BY <1>1, <2>13, <3>1, OneRoom DEF FrameStep
    <2>16. OpOK'
      <3>1. server # NoValue /\ Steady /\ NoBirth  BY <1>2, <2>2, <2>13, OneRoom
      <3>2. \A d \in Client : handler[d] = NoValue =>
              /\ OpOf("client") /\ op.client = d => handler'[d] = NoValue
              /\ Ongoing(d)' => client'[d].stage = client[d].stage
        BY <1>1, <2>5 DEF Stays, RoomInv, MessagesOK
      <3> QED  BY <1>1, <3>1, <3>2, OpStays DEF RoomInv
    <2> QED  BY <1>1, <1>2, <1>3, <2>13, <2>14, <2>15, <2>16, OneRoom DEF RoomInv
<1>5. CASE FailServer
  <2>1. Winds  BY <1>5, FailServerWinds DEF RoomInv
  <2>2. Calm  BY <1>1, <1>3, <2>1 DEF Calm, Orderly, Winds, Ageing
  <2>3. MessagesOK'  BY <1>1, <2>2, CalmMessages, OtherMessages DEF MessageOK
  <2>4. OpOK'  BY <1>1, <1>2, <2>2, MessageOp
  <2> QED  BY <1>1, <1>3, <2>2, <2>3, <2>4, CalmRoom DEF RoomInv
<1>6. CASE FailClient(c)
  <2>1. Drops(c)  BY <1>1, <1>6 DEF Drops
  <2> QED  BY <1>1, <1>2, <2>1, DropsStep
<1> QED  BY <1>4, <1>5, <1>6 DEF DispatchFrame

-----------------------------------------------------------------------------
(* Frames of the control *)

(* The sessions of atts end, and the control forgets at most theirs. *)
LEMMA FailKept ==
  ASSUME Sockets, ServerOK, server # NoValue, NEW atts, NEW s, Fail(atts, s),
         \A c \in DOMAIN atts : c \in Client /\ client[c] # NoValue /\ atts[c] \in Session,
         NEW E, KeepsBut(server, s, E), E \subseteq expired' \cup DOMAIN atts
  PROVE  Ending /\ \A c \in Client : c \in DOMAIN atts => client'[c].frames = atts[c].frames
<1>1. /\ Functions
      /\ \A c \in Client : c \in DOMAIN atts => Ends(c) /\ client'[c].frames = atts[c].frames
      /\ \A c \in Client : c \notin DOMAIN atts => Stays(c)
      /\ server' = Marked(s, atts)
  BY FailEnds
<1>2. EndsOnly  BY <1>1 DEF EndsOnly
<1>3. \A c \in DOMAIN atts : ~Ongoing(c)'  BY <1>1, NoValueAssumption DEF Ends, Ongoing
<1>4. Named(server)  BY DEF ServerOK, Named
<1>5. Named(s)  BY <1>4, KeepsNamed
<1>6. KeepsBut(s, server', DOMAIN atts)  BY <1>1, <1>5, MarkedKeeps
<1>7. KeepsBut(server, server', expired' \cup DOMAIN atts)  BY <1>4, <1>6, KeepsTwice
<1>8. \A x \in server.tickets \cup server'.tickets : x.client \in Client
  BY <1>4, <1>7 DEF KeepsBut, Named, ControlState, TicketState
<1>9. KeepsBut(server, server', OverNext)  BY <1>3, <1>7, <1>8 DEF KeepsBut, OverNext
<1> QED  BY <1>1, <1>2, <1>9 DEF Ending

LEMMA PrunedOrNot ==
  ASSUME ServerOK, server # NoValue, NEW s \in {server, Pruned(server)}
  PROVE  Named(s) /\ KeepsBut(server, s, expired) /\ s.tickets \subseteq server.tickets
<1>1. Named(server)  BY DEF ServerOK, Named
<1>2. CASE s = server
  <2>1. \A x \in server.tickets : x.sent \in Int
    BY <1>1, ConstantsAssumption DEF Named, ControlState, TicketState
  <2> QED  BY <1>1, <1>2, <2>1 DEF KeepsBut, Named
<1>3. CASE s = Pruned(server)
  <2>1. KeepsBut(server, s, expired)  BY <1>1, <1>3, PrunedKeeps
  <2>2. s.tickets \subseteq server.tickets  BY <1>1, <1>3 DEF Pruned, Named, ControlState
  <2> QED  BY <1>1, <2>1, <2>2, KeepsNamed
<1> QED  BY <1>2, <1>3

(* The budget of the frame is what keeps the ticket in its bounds. *)
LEMMA SpentState ==
  ASSUME control # NoValue, control \in FrameState, NEW x \in TicketState, Budgeted(x)
  PROVE  /\ Spent(x) \in TicketState /\ Spent(x).ticket = x.ticket /\ Spent(x).client = x.client
         /\ x.sent \in Int /\ x.sent <= Spent(x).sent
         /\ control.kind = "candidate" => Spent(x).active = x.active /\ Spent(x).sent = x.sent + 1
         /\ [Spent(x) EXCEPT !.active = FALSE] \in TicketState
         /\ [Spent(x) EXCEPT !.active = FALSE].ticket = x.ticket
         /\ [Spent(x) EXCEPT !.active = FALSE].client = x.client
         /\ x.sent <= [Spent(x) EXCEPT !.active = FALSE].sent
<1>1. x.sent \in 0..MaxServerFrames /\ MaxServerFrames \in Nat
  BY ConstantsAssumption DEF TicketState
<1>2. PICK y : y = Spent(x)  OBVIOUS
<1>3. /\ y \in TicketState /\ y.ticket = x.ticket /\ y.client = x.client /\ x.sent <= y.sent
      /\ control.kind = "candidate" => y.active = x.active /\ y.sent = x.sent + 1
  <2>1. CASE control.kind = "candidate"
    <3>1. y = [x EXCEPT !.sent = x.sent + 1] /\ x.sent < MaxServerFrames
      BY <1>2, <2>1 DEF Spent, Budgeted
    <3>2. x.sent + 1 \in 0..MaxServerFrames /\ x.sent <= x.sent + 1  BY <1>1, <3>1
    <3>3. y.active = x.active /\ y.sent = x.sent + 1  BY <3>1 DEF TicketState
    <3> QED  BY <3>1, <3>2, <3>3 DEF TicketState
  <2>2. CASE control.kind # "candidate"
    <3>1. y = [x EXCEPT !.done = TRUE, !.active = FALSE]  BY <1>2, <2>2 DEF Spent
    <3>2. y \in TicketState /\ y.ticket = x.ticket /\ y.client = x.client /\ y.sent = x.sent
      BY <3>1 DEF TicketState
    <3> QED  BY <1>1, <2>2, <3>2
  <2> QED  BY <2>1, <2>2
<1>4. PICK z : z = [y EXCEPT !.active = FALSE]  OBVIOUS
<1>5. z \in TicketState /\ z.ticket = x.ticket /\ z.client = x.client /\ z.sent = y.sent
  BY <1>3, <1>4 DEF TicketState
<1> QED  BY <1>1, <1>2, <1>3, <1>4, <1>5

(* What no frame disturbs *)
FrameAlone ==
  UNCHANGED <<published, issued, revoked, generation, claims, controls, expired, op, notice,
              handler, notified>>

LEMMA FrameCalm ==
  ASSUME RoomInv, Winds, FrameAlone, FrameOK'
  PROVE  RoomInv' /\ EndedStep /\ FrameStep
<1> USE DEF FrameAlone
<1>1. Numbers' /\ issued \in Int  BY ConstantsAssumption DEF RoomInv, Numbers
<1>2. Calm  BY <1>1 DEF Calm, Orderly, Winds, Ageing
<1>3. OpOK'  BY <1>2, CalmOp
<1> QED  BY <1>1, <1>2, <1>3, CalmRoom DEF RoomInv

LEMMA FrameOne ==
  ASSUME RoomInv, NEW c \in Client, OneGoesOn(c), FrameAlone, Ongoing(c), FrameOK',
         handler[c] = NoValue => client'[c].stage = client[c].stage,
         Forwarded(c) => ~control.late
  PROVE  RoomInv' /\ EndedStep /\ FrameStep
<1> USE DEF FrameAlone
<1>1. Numbers'  BY DEF RoomInv, Numbers
<1>2. client[c] # NoValue  BY DEF Ongoing
<1>3. /\ Sockets' /\ ServerOK' /\ SessionsOK' /\ Steady /\ EndedStep /\ NoBirth /\ NoticeOK'
      /\ \A d \in Client : Forwarded(d) => d = c
      /\ \A d \in Client : MessageOK(d)'
  BY <1>2, OneRoom
<1>4. MessagesOK'  BY <1>3 DEF RoomInv, MessagesOK
<1>5. OpOK'
  <2>1. server # NoValue /\ \A d \in Client : d # c => Stays(d)  BY DEF OneGoesOn
  <2>2. \A d \in Client : handler[d] = NoValue =>
          /\ OpOf("client") /\ op.client = d => handler'[d] = NoValue
          /\ Ongoing(d)' => client'[d].stage = client[d].stage
    BY <2>1 DEF Stays
  <2> QED  BY <1>3, <2>1, <2>2, OpStays DEF RoomInv
<1>6. FrameStep  BY <1>3 DEF FrameStep
<1> QED  BY <1>1, <1>3, <1>4, <1>5, <1>6 DEF RoomInv

LEMMA ServerFrameStep ==
  ASSUME RoomInv, ServerFrame
  PROVE  RoomInv' /\ EndedStep /\ FrameStep
<1>1. server # NoValue /\ FrameAlone
  BY DEF ServerFrame, FrameAlone, d1Vars, roomVars
<1>2. CASE FailServer /\ control' = control
  <2>1. Winds /\ server' = NoValue  BY <1>2, FailServerWinds DEF RoomInv
  <2>2. issued \in Int  BY ConstantsAssumption DEF RoomInv, Numbers
  <2>3. Calm  BY <1>1, <2>1, <2>2 DEF Calm, Orderly, Winds, Ageing, FrameAlone
  <2>4. FrameOK'  BY <1>2, <2>3, CalmRoom
  <2> QED  BY <1>1, <2>1, <2>4, FrameCalm
<1>3. CASE \E kind \in {"candidate", "complete"}, x \in server.tickets :
             /\ control' = [id |-> server.id, kind |-> kind, ticket |-> x.ticket, at |-> "route",
                            client |-> NoValue, late |-> Stale(x.ticket, server.gen),
                            answer |-> "live"]
             /\ UNCHANGED sessionVars
  <2>1. PICK kind \in {"candidate", "complete"}, x \in server.tickets :
             /\ control' = [id |-> server.id, kind |-> kind, ticket |-> x.ticket, at |-> "route",
                            client |-> NoValue, late |-> Stale(x.ticket, server.gen),
                            answer |-> "live"]
             /\ UNCHANGED <<server, client, socket>>
    BY <1>3 DEF sessionVars
  <2>2. Winds  BY <2>1, IdleWinds DEF RoomInv
  <2>3. /\ server.id \in 1..MaxControls /\ server.id <= controls /\ x.ticket \in Ticket
        /\ Stale(x.ticket, server.gen) \in BOOLEAN
    BY <1>1, <2>1 DEF RoomInv, ServerOK, ControlState, TicketState, Stale
  <2>4. /\ control' \in FrameState /\ control'.id = server.id /\ control'.at = "route"
        /\ control'.ticket = x.ticket /\ control'.late = Stale(x.ticket, server.gen)
    BY <2>1, <2>3 DEF FrameState, Answered
  <2>5. Stale(x.ticket, server.gen) => Over(x.ticket, server.gen)
    BY DEF Stale, Over, Live
  <2>6. FrameOK'  BY <1>1, <2>1, <2>3, <2>4, <2>5 DEF FrameOK, FrameAlone, Over
  <2> QED  BY <1>1, <2>2, <2>6, FrameCalm
<1> QED  BY <1>1, <1>2, <1>3 DEF ServerFrame

(* The frame of a ticket with a session that goes on *)
LEMMA ForwardStep ==
  ASSUME RoomInv, control # NoValue, control' = NoValue, FrameAlone, server # NoValue,
         NEW s \in {server, Pruned(server)}, NEW x \in s.tickets, Forward(s, x), x.active,
         NEW c \in Client, c = x.client, c \notin expired, Ongoing(c),
         client[c].ticket = x.ticket, ~control.late
  PROVE  RoomInv' /\ EndedStep /\ FrameStep
<1>1. /\ Named(s) /\ KeepsBut(server, s, expired) /\ x \in server.tickets
      /\ control \in FrameState /\ FrameOK'
  BY PrunedOrNot DEF RoomInv, FrameOK
<1>2. x \in TicketState  BY <1>1 DEF Named, ControlState
<1>3. PICK f : f = [client[c] EXCEPT !.frames = @ + 1]  OBVIOUS
<1>4. /\ Owned(c) /\ Exchange(c) /\ client[c] \in Session /\ client[c] # NoValue
  BY DEF RoomInv, SessionsOK, SessionOK, Sockets, Ongoing
<1>5. PICK y : y = Spent(x)  OBVIOUS
<1>6. ASSUME Budgeted(x)
      PROVE  /\ y \in TicketState /\ y.ticket = x.ticket /\ y.client = c
             /\ control.kind = "candidate" => y.active /\ y.sent = x.sent + 1
             /\ KeepsBut(server, With(s, x, y), {c} \cup expired)
             /\ y \in With(s, x, y).tickets
  <2>1. /\ y \in TicketState /\ y.ticket = x.ticket /\ y.client = c /\ x.sent <= y.sent
        /\ control.kind = "candidate" => y.active /\ y.sent = x.sent + 1
    BY <1>1, <1>2, <1>5, <1>6, SpentState
  <2>2. KeepsBut(s, With(s, x, y), {c}) /\ y \in With(s, x, y).tickets
    BY <1>1, <2>1, WithKeeps
  <2>3. Named(server)  BY DEF RoomInv, ServerOK, Named
  <2>4. KeepsBut(server, With(s, x, y), {c} \cup expired)
    BY <1>1, <2>2, <2>3, KeepsTwice
  <2> QED  BY <2>1, <2>2, <2>4
<1>7. ASSUME Budgeted(x), client[c].stage = "exchange"
      PROVE  /\ f \in Session /\ f.frames = client[c].frames + 1 /\ f.stage = "exchange"
             /\ f.ticket = client[c].ticket /\ f.gen = client[c].gen /\ f.raw = client[c].raw
             /\ f.control = client[c].control /\ f.digest = client[c].digest
             /\ client[c].frames \in Int /\ client[c].frames <= 1 + x.sent
  <2>1. client[c].frames <= 1 + x.sent  BY <1>1, <1>4, <1>7 DEF Exchange
  <2>2. PICK a \in Session : a = client[c]  BY <1>4
  <2>3. x.sent \in 0..MaxServerFrames /\ a.frames \in 0..MaxServerFrames + 2
    BY <1>2, <2>2 DEF TicketState, Session
  <2>4. a.frames + 1 \in 0..MaxServerFrames + 2  BY <2>1, <2>2, <2>3, ConstantsAssumption
  <2>5. f = [a EXCEPT !.frames = a.frames + 1]  BY <1>3, <2>2
  <2>6. a.frames \in Int  BY <2>3, ConstantsAssumption
  <2> QED  BY <1>7, <2>1, <2>2, <2>4, <2>5, <2>6 DEF Session
<1>8. CASE FailServer
  <2>1. Winds  BY <1>8, FailServerWinds DEF RoomInv
  <2> QED  BY <1>1, <2>1, FrameCalm
<1>9. ASSUME Budgeted(x), client[c].stage = "exchange", control.kind = "complete",
             Fail([d \in {c} |-> f], With(s, x, y))
      PROVE  RoomInv' /\ EndedStep /\ FrameStep
  <2> DEFINE atts == [d \in {c} |-> f]
  <2>1. /\ DOMAIN atts = {c}
        /\ \A d \in DOMAIN atts : d \in Client /\ client[d] # NoValue /\ atts[d] \in Session
    BY <1>4, <1>7, <1>9
  <2>2. Fail(atts, With(s, x, y)) /\ {c} \cup expired \subseteq expired' \cup DOMAIN atts
    BY <1>9, <2>1 DEF FrameAlone
  <2> HIDE DEF atts
  <2>3. KeepsBut(server, With(s, x, y), {c} \cup expired)  BY <1>6, <1>9
  <2>4. Ending  BY <2>1, <2>2, <2>3, FailKept DEF RoomInv
  <2>5. issued \in Int /\ Numbers'
    BY ConstantsAssumption DEF RoomInv, Numbers, FrameAlone
  <2>6. Orderly  BY <2>4, <2>5 DEF Orderly, Ageing, FrameAlone
  <2>7. FrameStep
    <3>1. \A d \in Client : handler'[d] = handler[d]  BY DEF FrameAlone
    <3> QED  BY <3>1 DEF FrameStep
  <2>8. OpOK'
    <3>1. Steady /\ NoBirth  BY <2>6, OrderlyRoom
    <3>2. \A d \in Client : Ongoing(d)' => client'[d].stage = client[d].stage
      BY <2>4, EndsSockets DEF Ending, Stays, RoomInv
    <3> QED  BY <3>1, <3>2, OpStays DEF RoomInv, FrameAlone
  <2> QED  BY <1>1, <2>5, <2>6, <2>7, <2>8, OrderlyRoom DEF RoomInv, FrameAlone
<1>10. ASSUME Budgeted(x), client[c].stage = "exchange", control.kind = "candidate",
              client' = [client EXCEPT ![c] = f], server' = With(s, x, y), socket' = socket
       PROVE  RoomInv' /\ EndedStep /\ FrameStep
  <2>1. client'[c] = f  BY <1>10 DEF RoomInv, Sockets
  <2>2. Functions /\ \A d \in Client : d # c => Stays(d)
    BY <1>7, <1>10 DEF RoomInv, Sockets, Functions, Stays
  <2>3. KeepsBut(server, server', {c} \cup expired) /\ y \in server'.tickets
        /\ y.ticket = x.ticket /\ y.client = c /\ y.active /\ y.sent = x.sent + 1
    BY <1>6, <1>10
  <2>4. Owned(c)'
    <3>1. server' # NoValue /\ server'.id = server.id /\ server'.gen = server.gen
      BY <2>3, NoValueAssumption DEF KeepsBut
    <3>2. socket'[c] = socket[c]  BY <1>10
    <3>3. /\ f.control = client[c].control /\ f.gen = client[c].gen
          /\ f.ticket = client[c].ticket /\ f.raw = client[c].raw
      BY <1>7, <1>10
    <3>4. UNCHANGED <<generation, published, notified>>  BY DEF FrameAlone
    <3> QED  BY <1>4, <2>1, <3>1, <3>2, <3>3, <3>4 DEF Owned
  <2>5. Exchange(c)'
    <3>1. f.digest  BY <1>4, <1>7, <1>10 DEF Exchange
    <3>2. \A z \in server'.tickets : z.ticket = f.ticket => z = y
      BY <1>7, <1>10, <2>3 DEF KeepsBut
    <3>3. f.frames <= 1 + y.sent /\ f.ticket = y.ticket /\ f.stage = "exchange"
      <4>1. x.sent \in Int  BY <1>2, ConstantsAssumption DEF TicketState
      <4> QED  BY <1>7, <1>10, <2>3, <4>1
    <3> QED  BY <2>1, <2>3, <3>1, <3>2, <3>3 DEF Exchange
  <2>6. f # NoValue /\ f.frames >= client[c].frames  BY <1>7, <1>10, NoValueAssumption
  <2>7. Carries(c)  BY <1>4, <1>7, <1>10, <2>1, <2>6 DEF Carries, Ongoing
  <2>8. OneGoesOn(c)
    BY <1>7, <1>10, <2>1, <2>2, <2>3, <2>4, <2>5, <2>7 DEF OneGoesOn, FrameAlone
  <2> QED  BY <1>1, <1>7, <1>10, <2>1, <2>8, FrameOne
<1>11. ASSUME Budgeted(x), Fail(Attachments({c}), With(s, x, y))
       PROVE  RoomInv' /\ EndedStep /\ FrameStep
  <2>1. /\ DOMAIN Attachments({c}) = {c}
        /\ \A d \in {c} : /\ d \in Client /\ client[d] # NoValue /\ Attachments({c})[d] \in Session
                          /\ Ongoing(d) => Attachments({c})[d].frames <= client[d].frames
    BY <1>4, AttachmentsOK DEF RoomInv
  <2>2. KeepsBut(server, With(s, x, y), {c} \cup expired)
        /\ {c} \cup expired \subseteq expired' \cup {c}
    BY <1>6, <1>11 DEF FrameAlone
  <2> DEFINE atts == Attachments({c})
  <2>7. Fail(atts, With(s, x, y)) /\ DOMAIN atts = {c} /\ atts[c] = client[c]
    BY <1>11, <2>1 DEF Attachments
  <2> HIDE DEF atts
  <2>3. Ending /\ client'[c].frames <= client[c].frames
    <3>1. Ending /\ client'[c].frames = atts[c].frames
      BY <1>4, <2>2, <2>7, FailKept DEF RoomInv
    <3>2. client[c].frames \in Int  BY <1>4, ConstantsAssumption DEF Session
    <3> QED  BY <2>7, <3>1, <3>2
  <2>4. \A d \in Client : d # c => Stays(d)
    BY <1>11, <2>1, FailEnds DEF RoomInv
  <2>5. \A d \in Client : Ongoing(d) => client[d].frames \in Int
    BY ConstantsAssumption DEF RoomInv, Sockets, Session, Ongoing
  <2>6. Winds  BY <2>3, <2>4, <2>5 DEF Winds, Stays
  <2> QED  BY <1>1, <2>6, FrameCalm
<1>12. control.kind # "complete" => control.kind = "candidate"  BY <1>1 DEF FrameState
<1> QED
  BY <1>3, <1>5, <1>8, <1>9, <1>10, <1>11, <1>12 DEF Forward

(* A frame whose session is not there is spent all the same. *)
LEMMA SpendStep ==
  ASSUME RoomInv, control # NoValue, control' = NoValue, FrameAlone, server # NoValue,
         NEW x \in Pruned(server).tickets, ~IsTarget(x), Budgeted(x),
         server' = With(Pruned(server), x, [Spent(x) EXCEPT !.active = FALSE]),
         UNCHANGED <<client, socket>>
  PROVE  RoomInv' /\ EndedStep /\ FrameStep
<1>1. PICK s : s = Pruned(server) /\ s \in {server, Pruned(server)}  OBVIOUS
<1>2. /\ Named(s) /\ KeepsBut(server, s, expired) /\ s.tickets \subseteq server.tickets
      /\ x \in s.tickets /\ x \in server.tickets
  BY <1>1, PrunedOrNot DEF RoomInv
<1>3. x \in TicketState /\ control \in FrameState /\ FrameOK'
  BY <1>2 DEF Named, ControlState, RoomInv, FrameOK
<1>4. PICK c \in Client : c = x.client  BY <1>3 DEF TicketState
<1>5. PICK y : y = [Spent(x) EXCEPT !.active = FALSE]  OBVIOUS
<1>6. y \in TicketState /\ y.ticket = x.ticket /\ y.client = c /\ x.sent <= y.sent
  BY <1>3, <1>4, <1>5, SpentState
<1>7. server' = With(s, x, y)  BY <1>1, <1>5
<1>8. KeepsBut(s, server', {c}) /\ server'.tickets = (s.tickets \ {x}) \cup {y}
  <2>1. KeepsBut(s, With(s, x, y), {c})  BY <1>2, <1>4, <1>6, WithKeeps
  <2>2. With(s, x, y).tickets = (s.tickets \ {x}) \cup {y}
    BY <1>2 DEF With, Named, ControlState
  <2> QED  BY <1>7, <2>1, <2>2
<1>9. KeepsBut(server, server', {c} \cup expired)
  <2>1. Named(server)  BY DEF RoomInv, ServerOK, Named
  <2> QED  BY <1>2, <1>8, <2>1, KeepsTwice
<1>10. c \notin expired  BY <1>4 DEF Pruned, RoomInv, ServerOK, ControlState
<1>11. EndsOnly  BY DEF EndsOnly, Stays, Functions, RoomInv, Sockets
<1>12. CASE ~Ongoing(c)
  <2>1. \A d \in Client : d \in {c} \cup expired => d \in OverNext
    BY <1>12 DEF OverNext, Ongoing, FrameAlone
  <2>2. \A z \in server.tickets \cup server'.tickets : z.client \in Client
    BY <1>9 DEF KeepsBut, RoomInv, ServerOK, ControlState, TicketState
  <2>3. KeepsBut(server, server', OverNext)  BY <1>9, <2>1, <2>2 DEF KeepsBut
  <2>4. \A d \in Client : Ongoing(d) => client'[d].frames <= client[d].frames
    BY ConstantsAssumption DEF Ongoing, RoomInv, Sockets, Session
  <2>5. Winds  BY <1>11, <2>3, <2>4 DEF Winds, Ending
  <2> QED  BY <1>3, <2>5, FrameCalm
<1>13. CASE Ongoing(c)
  <2>1. /\ Owned(c) /\ Exchange(c) /\ client[c] \in Session /\ client[c] # NoValue
        /\ client[c].stage # "terminal"
    BY <1>13 DEF RoomInv, SessionsOK, SessionOK, Sockets, Ongoing
  <2>2. server' # NoValue /\ server'.id = server.id /\ server'.gen = server.gen
    BY <1>9, NoValueAssumption DEF KeepsBut
  <2>3. Owned(c)'  BY <2>1, <2>2 DEF Owned, FrameAlone
  <2>4. Exchange(c)'
    <3>1. CASE client[c].stage # "exchange"
      <4>1. client'[c] = client[c]  OBVIOUS
      <4> QED  BY <2>1, <3>1, <4>1 DEF Exchange
    <3>2. CASE client[c].stage = "exchange"
      <4>1. /\ client[c].digest
            /\ \A z \in server.tickets : z.client = c /\ z.ticket = client[c].ticket =>
                                           client[c].frames <= 1 + z.sent
        BY <1>10, <2>1, <3>2 DEF Exchange
      <4>2. PICK z \in server.tickets : z.client = c /\ z.ticket = client[c].ticket /\ z.active
        BY <1>10, <2>1, <3>2 DEF Exchange
      <4>3. x.ticket # client[c].ticket
        <5> SUFFICES ASSUME x.ticket = client[c].ticket PROVE FALSE  OBVIOUS
        <5>1. x = z  BY <1>2, <4>2 DEF RoomInv, ServerOK
        <5> QED  BY <1>4, <1>10, <1>13, <2>1, <4>1, <4>2, <5>1 DEF IsTarget, Owned
      <4>4. z \in server'.tickets
        <5>1. z \in s.tickets  BY <1>2, <1>10, <4>2 DEF KeepsBut
        <5> QED  BY <1>8, <4>2, <4>3, <5>1
      <4>5. \A w \in server'.tickets : w.client = c /\ w.ticket = client[c].ticket =>
                                         w \in server.tickets
        BY <1>2, <1>6, <1>8, <4>3
      <4> QED  BY <2>1, <3>2, <4>1, <4>2, <4>4, <4>5 DEF Exchange
    <3> QED  BY <3>1, <3>2
  <2>5. Carries(c)  BY StaysCarries DEF RoomInv
  <2>6. OneGoesOn(c)
    BY <1>9, <1>11, <1>13, <2>1, <2>3, <2>4, <2>5 DEF OneGoesOn, EndsOnly, Stays, FrameAlone
  <2>7. ~Forwarded(c)
    <3>1. client[c].frames \in Int  BY <2>1, ConstantsAssumption DEF Session
    <3> QED  BY <3>1 DEF Forwarded
  <2> QED  BY <1>3, <1>13, <2>6, <2>7, FrameOne
<1> QED  BY <1>12, <1>13

LEMMA RouteFrameStep ==
  ASSUME RoomInv, RouteFrame
  PROVE  RoomInv' /\ EndedStep /\ FrameStep
<1>1. control # NoValue /\ control.at = "route" /\ FrameAlone
  BY DEF RouteFrame, Routing, FrameAlone, d1Vars, roomVars
<1>2. control \in FrameState /\ control.id <= controls
      /\ (control.late /\ Current => Over(control.ticket, server.gen))
  BY <1>1 DEF RoomInv, FrameOK, Current, Active
<1>3. CASE control' = NoValue /\ UNCHANGED <<server, client, socket>>
  <2>1. Winds /\ FrameOK'  BY <1>3, IdleWinds DEF RoomInv, FrameOK
  <2> QED  BY <1>1, <2>1, FrameCalm
<1>4. CASE control' = NoValue /\ FailServer
  <2>1. Winds /\ FrameOK'  BY <1>4, FailServerWinds DEF RoomInv, FrameOK
  <2> QED  BY <1>1, <2>1, FrameCalm
<1>5. ASSUME Current, NEW x \in Pruned(server).tickets, x.ticket = control.ticket
      PROVE  /\ server # NoValue /\ x \in server.tickets /\ x \in TicketState
             /\ server.gen \in Generation /\ x.client \notin expired
  <2>1. server # NoValue /\ server \in ControlState
    BY <1>5 DEF Current, Active, RoomInv, ServerOK
  <2>2. x \in server.tickets /\ x.client \notin expired
    BY <1>5, <2>1 DEF Pruned, ControlState
  <2> QED  BY <2>1, <2>2 DEF ControlState
<1>6. ASSUME Current, NEW x \in Pruned(server).tickets, x.ticket = control.ticket, ~IsTarget(x),
             Budgeted(x), control' = NoValue,
             server' = With(Pruned(server), x, [Spent(x) EXCEPT !.active = FALSE]),
             UNCHANGED <<client, socket>>
      PROVE  RoomInv' /\ EndedStep /\ FrameStep
  BY <1>1, <1>5, <1>6, SpendStep
<1>7. ASSUME Current, NEW x \in Pruned(server).tickets, x.ticket = control.ticket, IsTarget(x),
             control' = [control EXCEPT !.at = "check", !.client = x.client],
             UNCHANGED <<server, client, socket>>
      PROVE  RoomInv' /\ EndedStep /\ FrameStep
  <2>1. Winds  BY <1>7, IdleWinds DEF RoomInv
  <2>2. /\ x.client \in Client /\ client[x.client] # NoValue
        /\ client[x.client].ticket = control.ticket
    BY <1>5, <1>7 DEF IsTarget, TicketState, Ongoing
  <2>3. /\ control' \in FrameState /\ control'.id = control.id /\ control'.late = control.late
        /\ control'.ticket = control.ticket /\ control'.at = "check"
        /\ control'.client = x.client
    BY <1>2, <1>7, <2>2 DEF FrameState
  <2>4. server' = server /\ client' = client  BY <1>7
  <2>5. FrameOK'
    BY <1>1, <1>2, <2>2, <2>3, <2>4 DEF FrameOK, FrameAlone, Current, Over, RoomInv
  <2> QED  BY <1>1, <2>1, <2>5, FrameCalm
<1>8. ASSUME Current, NEW x \in Pruned(server).tickets, x.ticket = control.ticket, IsTarget(x),
             x.ticket \notin Protected, Forward(Pruned(server), x), control' = NoValue
      PROVE  RoomInv' /\ EndedStep /\ FrameStep
  <2>1. ~control.late  BY <1>2, <1>8 DEF Over
  <2>2. PICK c \in Client : /\ c = x.client /\ c \notin expired /\ Ongoing(c)
                            /\ client[c].ticket = x.ticket /\ x.active
    BY <1>5, <1>8 DEF IsTarget, TicketState
  <2>3. PICK s \in {server, Pruned(server)} : s = Pruned(server)  OBVIOUS
  <2>4. x \in s.tickets /\ Forward(s, x)  BY <1>8, <2>3
  <2> QED  BY <1>1, <1>5, <1>8, <2>1, <2>2, <2>4, ForwardStep
<1>9. CASE Current /\ \E x \in Pruned(server).tickets :
             /\ x.ticket = control.ticket
             /\ \/ /\ ~IsTarget(x) /\ Budgeted(x) /\ control' = NoValue
                   /\ server' = With(Pruned(server), x, [Spent(x) EXCEPT !.active = FALSE])
                   /\ UNCHANGED <<client, socket>>
                \/ /\ IsTarget(x) /\ UNCHANGED <<server, client, socket>>
                   /\ control' = [control EXCEPT !.at = "check", !.client = x.client]
                \/ /\ IsTarget(x) /\ x.ticket \notin Protected
                   /\ Forward(Pruned(server), x) /\ control' = NoValue
  BY <1>6, <1>7, <1>8, <1>9
<1> QED
  BY <1>3, <1>4, <1>9 DEF RouteFrame, sessionVars

LEMMA ReadRouteStep ==
  ASSUME RoomInv, ReadRoute
  PROVE  RoomInv' /\ EndedStep /\ FrameStep
<1>1. /\ control # NoValue /\ control.at = "check" /\ FrameAlone
      /\ UNCHANGED <<server, client, socket>>
  BY DEF ReadRoute, Routing, FrameAlone, d1Vars, roomVars, sessionVars
<1>2. PICK answer \in Answers(control.ticket, client[control.client].gen) :
        control' = [control EXCEPT !.at = "forward", !.answer = answer]
  BY DEF ReadRoute
<1>3. /\ control \in FrameState /\ control.id <= controls
      /\ control.client \in Client /\ client[control.client] # NoValue
      /\ Ongoing(control.client) => client[control.client].ticket = control.ticket
      /\ control.late /\ server # NoValue /\ server.id = control.id =>
           Over(control.ticket, server.gen)
  BY <1>1 DEF RoomInv, FrameOK
<1>4. answer \in Answered
      /\ (answer = "live" => Live(control.ticket, client[control.client].gen))
  BY <1>2, AnswersAnswered
<1>5. /\ control' \in FrameState /\ control'.id = control.id /\ control'.late = control.late
      /\ control'.ticket = control.ticket /\ control'.at = "forward"
      /\ control'.client = control.client /\ control'.answer = answer
  BY <1>2, <1>3, <1>4 DEF FrameState
<1>6. ASSUME control.late, Ongoing(control.client), server # NoValue, server.id = control.id
      PROVE  answer # "live"
  <2>1. client[control.client].gen = server.gen
    BY <1>3, <1>6 DEF RoomInv, SessionsOK, SessionOK, Owned
  <2> QED  BY <1>3, <1>4, <1>6, <2>1 DEF Over, Live
<1>7. FrameOK'
  BY <1>1, <1>3, <1>5, <1>6 DEF FrameOK, FrameAlone, Over, Ongoing
<1>8. Winds  BY <1>1, IdleWinds DEF RoomInv
<1> QED  BY <1>1, <1>7, <1>8, FrameCalm

LEMMA ForwardFrameStep ==
  ASSUME RoomInv, ForwardFrame
  PROVE  RoomInv' /\ EndedStep /\ FrameStep
<1>1. /\ control # NoValue /\ control.at = "forward" /\ FrameAlone /\ control' = NoValue
      /\ FrameOK'
  BY DEF ForwardFrame, Routing, FrameAlone, d1Vars, roomVars, FrameOK
<1>2. PICK c \in Client :
        /\ c = control.client /\ client[c] # NoValue
        /\ Ongoing(c) => client[c].ticket = control.ticket
        /\ control.late /\ Ongoing(c) /\ server # NoValue /\ server.id = control.id =>
             control.answer # "live"
  BY <1>1 DEF RoomInv, FrameOK
<1>3. CASE FailServer
  <2>1. Winds  BY <1>3, FailServerWinds DEF RoomInv
  <2> QED  BY <1>1, <2>1, FrameCalm
<1>4. CASE UNCHANGED <<server, client, socket>>
  <2>1. Winds  BY <1>4, IdleWinds DEF RoomInv
  <2> QED  BY <1>1, <2>1, FrameCalm
<1>5. CASE FailClient(c)
  <2>1. Winds  BY <1>1, <1>2, <1>5, FailClientWinds DEF RoomInv, FrameAlone
  <2> QED  BY <1>1, <2>1, FrameCalm
<1>6. ASSUME ForwardFence(c), NEW x \in Routes(c), Forward(server, x)
      PROVE  RoomInv' /\ EndedStep /\ FrameStep
  <2>1. /\ Ongoing(c) /\ c \notin expired /\ server # NoValue /\ server.id = control.id
        /\ control.answer = "live"
    BY <1>6 DEF ForwardFence, Current, Active
  <2>2. /\ x \in server.tickets /\ x.ticket = control.ticket /\ x.client = c /\ x.active
    BY <1>6 DEF Routes
  <2>3. client[c].ticket = x.ticket /\ ~control.late  BY <1>2, <2>1, <2>2
  <2>4. server \in {server, Pruned(server)}  OBVIOUS
  <2> QED  BY <1>1, <1>6, <2>1, <2>2, <2>3, <2>4, ForwardStep
<1> QED
  BY <1>2, <1>3, <1>4, <1>5, <1>6 DEF ForwardFrame, sessionVars

-----------------------------------------------------------------------------
(* Violations, alarms, closed sockets, hibernation *)

LEMMA EventCalm ==
  ASSUME RoomInv, Winds, FrameAlone, control' = control
  PROVE  RoomInv' /\ EndedStep /\ FrameStep
<1>1. issued \in Int  BY ConstantsAssumption DEF RoomInv, Numbers
<1>2. Calm  BY <1>1 DEF Calm, Orderly, Winds, Ageing, FrameAlone
<1>3. FrameOK'  BY <1>2, CalmRoom
<1> QED  BY <1>3, FrameCalm

LEMMA ClientGoneStep ==
  ASSUME RoomInv, NEW c \in Client, ClientGone(c)
  PROVE  RoomInv' /\ EndedStep /\ FrameStep
<1>1. FrameAlone /\ control' = control
  BY DEF ClientGone, FrameAlone, d1Vars, queueVars
<1>2. PICK a \in Session : a = client[c]  BY DEF ClientGone, RoomInv, Sockets
<1>3. /\ client[c] # NoValue /\ a.frames \in Int /\ a.frames >= 0
  BY <1>2, NoValueAssumption, ConstantsAssumption DEF Session
<1>4. socket' = [socket EXCEPT ![c] = "gone"] /\ server' = Marked(server, Attachments({c}))
  BY DEF ClientGone
<1>5. PICK b \in Session : /\ client' = [client EXCEPT ![c] = b]
                           /\ b.stage = "terminal" /\ ~b.raw /\ b.frames = 0
  <2>1. Emits(c, a) \in BOOLEAN  BY DEF Emits
  <2>2. PICK d \in BOOLEAN : d = (a.summary \/ Emits(c, a))  OBVIOUS
  <2>3. PICK t : t = Terminated(c, a)  OBVIOUS
  <2>4. t = [a EXCEPT !.stage = "terminal", !.auth = "terminal", !.raw = FALSE,
                      !.digest = FALSE, !.summary = d]
    BY <2>2, <2>3 DEF Terminated
  <2>5. t \in Session /\ t.stage = "terminal" /\ ~t.raw  BY <2>4 DEF Session
  <2>6. 0 \in 0..MaxServerFrames + 2  BY ConstantsAssumption
  <2>7. [t EXCEPT !.frames = 0] \in Session /\ [t EXCEPT !.frames = 0].stage = "terminal"
        /\ ~[t EXCEPT !.frames = 0].raw /\ [t EXCEPT !.frames = 0].frames = 0
    BY <2>5, <2>6 DEF Session
  <2>8. /\ [t EXCEPT !.summary = TRUE, !.frames = 0] \in Session
        /\ [t EXCEPT !.summary = TRUE, !.frames = 0].stage = "terminal"
        /\ ~[t EXCEPT !.summary = TRUE, !.frames = 0].raw
        /\ [t EXCEPT !.summary = TRUE, !.frames = 0].frames = 0
    BY <2>5, <2>6 DEF Session
  <2>9. \/ client' = [client EXCEPT ![c] = [t EXCEPT !.frames = 0]]
        \/ client' = [client EXCEPT ![c] = [t EXCEPT !.summary = TRUE, !.frames = 0]]
    BY <1>2, <2>3 DEF ClientGone
  <2> QED  BY <2>7, <2>8, <2>9
<1>6. client'[c] = b /\ socket'[c] = "gone" /\ \A d \in Client : d # c => Stays(d)
  BY <1>4, <1>5 DEF RoomInv, Sockets, Stays
<1>7. EndsOnly
  <2>1. Functions  BY <1>4, <1>5 DEF Functions, RoomInv, Sockets
  <2> QED  BY <1>3, <1>5, <1>6, <2>1 DEF EndsOnly, Ends
<1>8. ~Ongoing(c)'  BY <1>5, <1>6 DEF Ongoing
<1>9. \A d \in Client : Ongoing(d) => client'[d].frames <= client[d].frames
  <2>1. \A d \in Client : Ongoing(d) => client[d].frames \in Int
    BY ConstantsAssumption DEF RoomInv, Sockets, Session, Ongoing
  <2> QED  BY <1>2, <1>3, <1>5, <1>6, <2>1 DEF Stays
<1>10. server # NoValue => KeepsBut(server, server', OverNext)
  <2> SUFFICES ASSUME server # NoValue PROVE KeepsBut(server, server', OverNext)  OBVIOUS
  <2>1. Named(server)  BY DEF RoomInv, ServerOK, Named
  <2>2. DOMAIN Attachments({c}) = {c} /\ {c} \subseteq OverNext
    BY <1>8 DEF Attachments, OverNext
  <2> QED  BY <1>4, <2>1, <2>2, MarkedKeeps
<1>11. server = NoValue => server' = NoValue  BY <1>4 DEF Marked
<1>12. Winds  BY <1>7, <1>9, <1>10, <1>11 DEF Winds, Ending
<1> QED  BY <1>1, <1>12, EventCalm

LEMMA EventsStep ==
  ASSUME RoomInv, Events \/ BadFrame
  PROVE  RoomInv' /\ EndedStep /\ FrameStep
<1>1. CASE Alarm
  <2>1. FrameAlone /\ control' = control /\ ExpireClients
    BY <1>1 DEF Alarm, FrameAlone, d1Vars, queueVars
  <2>2. Winds  BY <2>1, ExpireWinds DEF RoomInv, FrameAlone
  <2> QED  BY <2>1, <2>2, EventCalm
<1>2. CASE \E c \in Client : ClientGone(c)
  BY <1>2, ClientGoneStep
<1>3. CASE ControlLost
  <2>1. /\ FrameAlone /\ control' = control /\ server # NoValue
        /\ client' = client /\ socket' = socket /\ server' = [server EXCEPT !.open = FALSE]
    BY <1>3 DEF ControlLost, FrameAlone, d1Vars, roomVars, queueVars
  <2>2. EndsOnly  BY <2>1 DEF EndsOnly, Stays, Functions, RoomInv, Sockets
  <2>3. \A d \in Client : Ongoing(d) => client'[d].frames <= client[d].frames
    BY <2>1, ConstantsAssumption DEF Ongoing, RoomInv, Sockets, Session
  <2>4. KeepsBut(server, server', OverNext)
    <3>1. /\ server' \in ControlState /\ server'.id = server.id /\ server'.gen = server.gen
          /\ server'.tickets = server.tickets
      BY <2>1 DEF RoomInv, ServerOK, ControlState
    <3>2. \A x \in server.tickets : x.sent \in Int
      BY <2>1, ConstantsAssumption DEF RoomInv, ServerOK, ControlState, TicketState
    <3> QED  BY <2>1, <3>1, <3>2 DEF KeepsBut, RoomInv, ServerOK
  <2>5. Winds  BY <2>1, <2>2, <2>3, <2>4 DEF Winds, Ending
  <2> QED  BY <2>1, <2>5, EventCalm
<1>4. CASE ControlGone
  <2>1. FrameAlone /\ control' = control /\ (FailServer \/ UNCHANGED <<server, client, socket>>)
    BY <1>4 DEF ControlGone, FrameAlone, d1Vars, queueVars, sessionVars
  <2>2. Winds  BY <2>1, FailServerWinds, IdleWinds DEF RoomInv
  <2> QED  BY <2>1, <2>2, EventCalm
<1>5. CASE Hibernate
  <2>1. FrameAlone /\ control' = control /\ UNCHANGED <<server, client, socket>>
    BY <1>5 DEF Hibernate, FrameAlone, d1Vars, roomVars, queueVars
  <2>2. Winds  BY <2>1, IdleWinds DEF RoomInv
  <2> QED  BY <2>1, <2>2, EventCalm
<1>6. CASE BadFrame
  <2>1. /\ FrameAlone /\ control' = control
        /\ (\E c \in Client : socket[c] = "open" /\ FailClient(c)) \/ FailServer
    BY <1>6 DEF BadFrame, FrameAlone, d1Vars, queueVars
  <2>2. Winds
    BY <2>1, FailServerWinds, FailClientWinds DEF RoomInv, FrameAlone, Sockets
  <2> QED  BY <2>1, <2>2, EventCalm
<1> QED  BY <1>1, <1>2, <1>3, <1>4, <1>5, <1>6 DEF Events

-----------------------------------------------------------------------------
(* The invariant *)

LEMMA RoomInit ==
  ASSUME Init
  PROVE  RoomInv
<1>1. Numbers  BY ConstantsAssumption DEF Init, Numbers
<1>2. Sockets /\ \A c \in Client : client[c] = NoValue  BY DEF Init, Sockets
<1>3. MessagesOK  BY DEF Init, MessagesOK, MessageOK
<1>4. SessionsOK  BY <1>2 DEF SessionsOK, SessionOK, Ongoing
<1> QED  BY <1>1, <1>2, <1>3, <1>4 DEF Init, RoomInv, ServerOK, FrameOK, OpOK, NoticeOK

LEMMA RoomStep ==
  ASSUME RoomInv, [Next]_vars
  PROVE  RoomInv' /\ EndedStep /\ FrameStep
<1>1. CASE Environment  BY <1>1, EnvironmentStep
<1>2. CASE RoomQueue
  <2>1. CASE StaleRequest \/ ServerUpgrade \/ AcceptServer \/ ClientUpgrade
    BY <2>1, StaleRequestStep, ServerUpgradeStep, AcceptServerStep, ClientUpgradeStep
  <2>2. CASE Redeem \/ ReadReceipt \/ RefuseClaim \/ Claim \/ Deliver \/ FailAdmission
    BY <2>2, RedeemStep, ReadReceiptStep, RefuseClaimStep, ClaimStep, DeliverStep,
       FailAdmissionStep
  <2>3. CASE Publish \/ Persist \/ Match \/ Return
    BY <2>3, PublishStep, PersistStep, MatchStep, ReturnStep
  <2>4. CASE (\E c \in Client : EnterInit(c)) \/ ReadInit \/ AcceptAccessInit
    BY <2>4, EnterInitStep, ReadInitStep, AcceptAccessInitStep
  <2>5. CASE NoticeRequest \/ (\E c \in Client : NoticeRead(c)) \/ NoticeFail \/ NoticeDone
    BY <2>5, NoticeRequestStep, NoticeReadStep, NoticeFailStep, NoticeDoneStep
  <2> QED  BY <1>2, <2>1, <2>2, <2>3, <2>4, <2>5 DEF RoomQueue
<1>3. CASE Messages
  <2>1. CASE \E c \in Client :
               ClientFrame(c) \/ ReadFrame(c) \/ CheckFrame(c) \/ DispatchFrame(c)
    BY <2>1, ClientFrameStep, ReadFrameStep, CheckFrameStep, DispatchFrameStep
  <2>2. CASE ServerFrame \/ RouteFrame \/ ReadRoute \/ ForwardFrame
    BY <2>2, ServerFrameStep, RouteFrameStep, ReadRouteStep, ForwardFrameStep
  <2>3. CASE BadFrame  BY <2>3, EventsStep
  <2> QED  BY <1>3, <2>1, <2>2, <2>3 DEF Messages
<1>4. CASE Events  BY <1>4, EventsStep
<1>5. CASE UNCHANGED vars  BY <1>5, Stutter
<1> QED  BY <1>1, <1>2, <1>3, <1>4, <1>5 DEF Next

(* What the environment, the operations, the messages and the events of a    *)
(* room leave of `RoomInv' is all of it.                                     *)
THEOREM RoomStaysSound == Spec => []RoomInv
<1>1. RoomInv /\ [Next]_vars => RoomInv'  BY RoomStep
<1> QED  BY RoomInit, <1>1, PTL DEF Spec

(* No session outlives its publication (commitPublication, rotateToken-      *)
(* Generation): it goes on under the room's generation only, and D1 shows    *)
(* that one or none.                                                         *)
THEOREM SessionsStayCurrent == Spec => []SessionsAreCurrent
<1>1. RoomInv => SessionsAreCurrent
  BY DEF RoomInv, SessionsOK, SessionOK, Owned, SessionsAreCurrent
<1> QED  BY RoomStaysSound, <1>1, PTL

(* A session goes on under the current control only (acceptServer,           *)
(* failServer, handleSocketGone).                                            *)
THEOREM SessionsAreOwned == Spec => []LiveSessionIsOwned
<1>1. RoomInv => LiveSessionIsOwned
  BY DEF RoomInv, SessionsOK, SessionOK, Owned, LiveSessionIsOwned
<1> QED  BY RoomStaysSound, <1>1, PTL

(* An answered revocation notice leaves no session of the grants it covers,  *)
(* whatever was under way when it came (closeRevokedRoutes).                 *)
THEOREM NoticesEndSessions == Spec => []NotifiedSessionsEnded
<1>1. RoomInv => NotifiedSessionsEnded
  BY DEF RoomInv, SessionsOK, SessionOK, Owned, NotifiedSessionsEnded
<1> QED  BY RoomStaysSound, <1>1, PTL

(* A session in its exchange keeps its active ticket with the control        *)
(* (beginClientTicket, pruneServerTickets, markTicketTerminal).              *)
THEOREM ExchangesAreRouted == Spec => []RoutedSessionHasTicket
<1>1. RoomInv => RoutedSessionHasTicket
  BY DEF RoomInv, SessionsOK, SessionOK, Exchange, RoutedSessionHasTicket
<1> QED  BY RoomStaysSound, <1>1, PTL

(* transitionClientTerminal is final: no attachment that was read before an  *)
(* await brings a session or its secrets back.                               *)
THEOREM EndedSessionsStay == Spec => EndedStaysEnded
<1>1. RoomInv /\ [Next]_vars =>
        [\A c \in Client : client[c] # NoValue /\ ~Ongoing(c) =>
           ~Ongoing(c)' /\ ~client[c]'.raw]_vars
  BY RoomStep DEF EndedStep
<1> QED  BY RoomStaysSound, <1>1, PTL DEF Spec, EndedStaysEnded

(* No frame is forwarded that arrived when its grant was over                *)
(* (beginClientTicket, handleServerMessage).                                 *)
THEOREM NoLateFrame == Spec => NoFrameOfRevokedRoute
<1>1. RoomInv /\ [Next]_vars =>
        [\A c \in Client : Forwarded(c) =>
           LET frame == IF handler[c]' = handler[c] THEN control ELSE handler[c]
           IN ~frame.late]_vars
  BY RoomStep DEF FrameStep
<1> QED  BY RoomStaysSound, <1>1, PTL DEF Spec, NoFrameOfRevokedRoute

=============================================================================
