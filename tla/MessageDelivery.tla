--------------------------- MODULE MessageDelivery ---------------------------
(***************************************************************************)
(* Directed messages and mailboxes: POST /messages (routes/messages.js,    *)
(* routing/router.js), the messages the Spine emits itself (index.js), the *)
(* mailbox routes (routes/mailbox.js), the backlog a registering organ is  *)
(* pushed and its acks (ws/handler.js), and the worker thread's part: the  *)
(* TTL sweep and the audit events of emitted messages.                     *)
(*                                                                         *)
(* A handler runs on the main thread without interruption, but each of its *)
(* statements commits by itself: between two of them the process may crash *)
(* and the worker may sweep.  So a handler that writes more than once is a *)
(* task of several steps, and the main thread starts nothing else before   *)
(* the task is done.                                                       *)
(*                                                                         *)
(* A message is known by its place in the order of acceptance, which is    *)
(* the order of insertion: a message is stored before the next one is      *)
(* accepted.  The statements that read a mailbox order by created_at, so   *)
(* the table is a set and its rows come in the order of their ids.         *)
(***************************************************************************)
EXTENDS Naturals, Sequences, FiniteSets, SequencesExt

CONSTANTS
  Organs,        \* organs of the manifest, each with a mailbox
  Sockets,       \* WebSocket objects, each for one connection
  NoOrgan,
  Principals,    \* organs the Spine's own HOMs go to: human-principal
  Types,         \* types of the messages posted
  DrainLimit,    \* limit of a drain request (1..100 in the code)
  Threshold,     \* mailboxPressureThreshold
  MaxMessages,   \* bound: messages posted or emitted
  MaxFaults      \* bound: deaths of the worker thread, failing statements and
                 \* full queues, and crashes of the process, each followed by
                 \* a restart

GovernanceTypes == {"APM", "PEM", "ATM", "HOM"}

ASSUME OrgansAssumption == NoOrgan \notin Organs /\ Principals \subseteq Organs
ASSUME TypesAssumption == Types \subseteq GovernanceTypes \cup {"OTM"}
ASSUME BoundsAssumption ==
  {DrainLimit, Threshold, MaxMessages, MaxFaults} \subseteq Nat

VARIABLES
  \* database
  rows,       \* table mailbox_messages
  audit,      \* table events: the messages that have an audit event
  signals,    \* table events: the messages that gave a pressure signal
  \* main thread
  rs,         \* readyState; "new" before the connection
  clients,    \* keys of the client map
  organ,      \* organName of the socket's client entry
  task,       \* what the main thread still has to do in this event
  nextId,     \* next message
  \* worker thread
  events,     \* audit events of emitted messages, on their way to the worker
  \* network and organs
  wire,       \* messages written to a socket and not received
  cut,        \* sockets that are open although their peer is gone
  received,   \* messages an organ has got, by push or by drain
  deaths, failures, restarts,
  \* what has happened, for the properties only
  sent,       \* every message: its target, its type, and who made it
  accepted,   \* messages answered with 202
  pushes,     \* how often each message was written to a socket
  acked       \* messages that an ack marked as delivered

db == <<rows, audit, signals>>
sockets == <<rs, clients, organ>>
main == <<sockets, task, nextId>>
network == <<wire, cut, received>>
faults == <<deaths, failures, restarts>>
history == <<sent, accepted, pushes, acked>>
vars == <<db, main, events, network, faults, history>>

Messages == 1..MaxMessages
Idle == [kind |-> "idle"]
Origins == {"client", "spine"}
Posting == [kind : {"route", "audit", "depth", "signal", "respond"},
            id : Messages, by : Origins,
            target : Organs, ttl : BOOLEAN, connected : BOOLEAN]
Backlog == [kind : {"send", "mark"}, socket : Sockets, left : SUBSET Messages]
Rows == [id : Messages, target : Organs, ttl : BOOLEAN, delivered : BOOLEAN]

TypeOK ==
  /\ rows \subseteq Rows
  /\ audit \subseteq Messages /\ signals \subseteq audit
  /\ rs \in [Sockets -> {"new", "open", "closing", "closed"}]
  /\ clients \subseteq Sockets
  /\ organ \in [Sockets -> Organs \cup {NoOrgan}]
  /\ task \in {Idle} \cup Posting \cup Backlog
  /\ nextId \in 1..MaxMessages + 1
  /\ events \in Seq(Messages)
  /\ wire \in [Sockets -> Seq(Messages)]
  /\ cut \subseteq Sockets
  /\ received \in [Organs -> SUBSET Messages]
  /\ {deaths, failures, restarts} \subseteq 0..MaxFaults
  /\ sent \in Seq([target : Organs, type : Types \cup {"HOM"}, by : Origins])
  /\ accepted \subseteq Messages
  /\ pushes \in [Messages -> Nat]
  /\ acked \subseteq Messages

Init ==
  /\ rows = {} /\ audit = {} /\ signals = {}
  /\ rs = [s \in Sockets |-> "new"]
  /\ clients = {} /\ organ = [s \in Sockets |-> NoOrgan]
  /\ task = Idle /\ nextId = 1 /\ events = <<>>
  /\ wire = [s \in Sockets |-> <<>>] /\ cut = {}
  /\ received = [o \in Organs |-> {}]
  /\ deaths = 0 /\ failures = 0 /\ restarts = 0
  /\ sent = <<>> /\ accepted = {} /\ acked = {}
  /\ pushes = [m \in Messages |-> 0]

-----------------------------------------------------------------------------
(* Helpers of the handlers.                                                *)

Pending(o) == {r \in rows : r.target = o /\ ~r.delivered}
Ids(some) == {r.id : r \in some}
MarkDelivered(ids) ==
  rows' = {IF r.id \in ids THEN [r EXCEPT !.delivered = TRUE] ELSE r :
             r \in rows}

\* Mutant: the newest row comes first.
IsNewest(m, ids) == m \in ids /\ \A n \in ids : n <= m

\* ORDER BY created_at: the row that comes first.
IsOldest(m, ids) == m \in ids /\ \A n \in ids : m <= n

\* pushToOrgan looks for an open socket among the clients of that name.
OpenClients(o) == {s \in clients : organ[s] = o /\ rs[s] = "open"}

\* ws.send to an open socket; what is written to a cut connection is lost, and
\* nothing tells the server.
Push(s, m) ==
  /\ wire' = IF s \in cut THEN wire ELSE [wire EXCEPT ![s] = Append(@, m)]
  /\ pushes' = [pushes EXCEPT ![m] = @ + 1]
NoPush == UNCHANGED <<wire, pushes>>

MayFail == deaths + failures + restarts < MaxFaults

-----------------------------------------------------------------------------
(* A directed message: push, store, audit, and for a client pressure and   *)
(* answer.                                                                 *)

\* Mutant: a sender's ttl_seconds counts for every type.
HasTtlAsAsked(type, asked) == asked \/ type \notin GovernanceTypes

\* Governance messages have none; any other gets the sender's or the default.
HasTtl(type, asked) == type \notin GovernanceTypes

\* routeDirected pushes to a client of the target, if one is open.
RoutePush(o, m) ==
  IF OpenClients(o) = {} THEN NoPush
  ELSE \E s \in OpenClients(o) : Push(s, m)

\* Mutant: a target outside the manifest is routed.
MayRouteAll(target) == task = Idle /\ nextId <= MaxMessages

\* A target the manifest does not know is answered with 400.
MayRoute(target) == task = Idle /\ nextId <= MaxMessages /\ target \in Organs

StartRoute(target, type, ttl, by) ==
  /\ nextId' = nextId + 1
  /\ sent' = Append(sent, [target |-> target, type |-> type, by |-> by])
  /\ RoutePush(target, nextId)
  /\ task' = [kind |-> "route", id |-> nextId, by |-> by, target |-> target,
              ttl |-> ttl, connected |-> OpenClients(target) # {}]
  /\ UNCHANGED <<db, sockets, events, cut, received, faults, accepted,
                 acked>>

\* POST /messages, of a client that asks for a TTL or not.
PostPush(target, type, asked) ==
  MayRoute(target) /\ StartRoute(target, type, HasTtl(type, asked), "client")

\* emitMessageAsync, for the HOM of the health check: no TTL is passed on.
EmitPush(human) ==
  /\ MayRoute(human)
  /\ StartRoute(human, "HOM", FALSE, "spine")

\* The row, with or without the mark.
Store(delivered) ==
  rows' = rows \cup {[id |-> task.id, target |-> task.target,
                      ttl |-> task.ttl, delivered |-> delivered]}

\* The audit event of an emitted message is left to the worker.  If too many
\* calls wait for it the event is refused, and the handler ends with an error.
LeaveAudit ==
  \/ /\ task.by = "client"
     /\ task' = [task EXCEPT !.kind = "audit"]
     /\ UNCHANGED <<events, failures>>
  \/ /\ task.by = "spine" /\ task' = Idle
     /\ \/ events' = Append(events, task.id) /\ UNCHANGED failures
        \/ MayFail /\ failures' = failures + 1 /\ UNCHANGED events

\* Mutant: the row is pending although the message was pushed.
PersistPending ==
  /\ task.kind = "route"
  /\ Store(FALSE) /\ LeaveAudit
  /\ UNCHANGED <<audit, signals, sockets, nextId, network, deaths, restarts,
                 history>>

\* Mutant: only messages that wait in the mailbox are audited.
PersistAuditsWaiting ==
  /\ task.kind = "route"
  /\ Store(task.connected)
  /\ task' = [task EXCEPT !.kind =
                IF task.connected THEN "respond" ELSE "audit"]
  /\ UNCHANGED <<audit, signals, sockets, nextId, events, network, faults,
                 history>>

Persist ==
  /\ task.kind = "route"
  /\ Store(task.connected) /\ LeaveAudit
  /\ UNCHANGED <<audit, signals, sockets, nextId, network, deaths, restarts,
                 history>>

PostAudit ==
  /\ task.kind = "audit"
  /\ audit' = audit \cup {task.id}
  /\ task' = [task EXCEPT !.kind = "depth"]
  /\ UNCHANGED <<rows, signals, sockets, nextId, events, network, faults,
                 history>>

\* Mutant: the threshold itself is not enough, and neither is the next depth.
OverThresholdLate(depth) == depth > Threshold + 1

OverThreshold(depth) == depth > Threshold

\* The depth is read: a sweep may change it before the signal is stored.
PostDepth ==
  /\ task.kind = "depth"
  /\ task' = [task EXCEPT !.kind =
                IF OverThreshold(Cardinality(Pending(task.target)))
                THEN "signal" ELSE "respond"]
  /\ UNCHANGED <<db, sockets, nextId, events, network, faults, history>>

\* The signal is broadcast to whoever subscribes and stored as an event.
PostSignal ==
  /\ task.kind = "signal"
  /\ signals' = signals \cup {task.id}
  /\ task' = [task EXCEPT !.kind = "respond"]
  /\ UNCHANGED <<rows, audit, sockets, nextId, events, network, faults, history>>

PostRespond ==
  /\ task.kind = "respond"
  /\ accepted' = accepted \cup {task.id}
  /\ task' = Idle
  /\ UNCHANGED <<db, sockets, nextId, events, network, faults, sent, pushes,
                 acked>>

-----------------------------------------------------------------------------
(* Connections.                                                            *)

Connect(s) ==
  /\ task = Idle /\ rs[s] = "new"
  /\ rs' = [rs EXCEPT ![s] = "open"]
  /\ clients' = clients \cup {s}
  /\ UNCHANGED <<db, organ, task, nextId, events, network, faults, history>>

\* The socket that held the name is replaced: it leaves the map and is closed.
Replaced(s, o) == {t \in clients \ {s} : organ[t] = o}

\* Mutant: a socket that had a name already is not pushed the backlog.
RegisterFirstNameOnly(s, o) ==
  /\ task = Idle /\ rs[s] \in {"open", "closing"}
  /\ rs' = [t \in Sockets |-> IF t \in Replaced(s, o) THEN "closing" ELSE rs[t]]
  /\ clients' = clients \ Replaced(s, o)
  /\ organ' = [t \in Sockets |-> IF t = s /\ s \in clients THEN o
                                 ELSE IF t \in Replaced(s, o) THEN NoOrgan
                                 ELSE organ[t]]
  /\ task' = IF Pending(o) = {} \/ organ[s] # NoOrgan THEN Idle
             ELSE [kind |-> "send", socket |-> s, left |-> Ids(Pending(o))]
  /\ UNCHANGED <<db, nextId, events, network, faults, history>>

\* A socket outside the map, or one that is closing, is still read from.
Register(s, o) ==
  /\ task = Idle /\ rs[s] \in {"open", "closing"}
  /\ rs' = [t \in Sockets |-> IF t \in Replaced(s, o) THEN "closing" ELSE rs[t]]
  /\ clients' = clients \ Replaced(s, o)
  /\ organ' = [t \in Sockets |-> IF t = s /\ s \in clients THEN o
                                 ELSE IF t \in Replaced(s, o) THEN NoOrgan
                                 ELSE organ[t]]
  /\ task' = IF Pending(o) = {} THEN Idle
             ELSE [kind |-> "send", socket |-> s, left |-> Ids(Pending(o))]
  /\ UNCHANGED <<db, nextId, events, network, faults, history>>

BacklogSend ==
  /\ task.kind = "send"
  /\ \E m \in Messages :
       /\ IsOldest(m, task.left)
       /\ IF rs[task.socket] = "open"
          THEN /\ Push(task.socket, m)
               /\ task' = [task EXCEPT !.kind = "mark"]
          ELSE /\ NoPush
               /\ task' = [task EXCEPT !.left = @ \ {m}]
  /\ UNCHANGED <<db, sockets, nextId, events, cut, received, faults, sent,
                 accepted, acked>>

BacklogMark ==
  /\ task.kind = "mark"
  /\ \E m \in Messages :
       /\ IsOldest(m, task.left)
       /\ MarkDelivered({m})
       /\ task' = [task EXCEPT !.kind = "send", !.left = @ \ {m}]
  /\ UNCHANGED <<audit, signals, sockets, nextId, events, network, faults,
                 history>>

BacklogDone ==
  /\ task.kind = "send" /\ task.left = {}
  /\ task' = Idle
  /\ UNCHANGED <<db, sockets, nextId, events, network, faults, history>>

\* A close frame of the peer: the socket stays in the map until it is closed.
PeerCloses(s) ==
  /\ task = Idle /\ rs[s] = "open"
  /\ rs' = [rs EXCEPT ![s] = "closing"]
  /\ UNCHANGED <<db, clients, organ, task, nextId, events, network, faults,
                 history>>

\* The close event, and the heartbeat's giving up of a silent peer.
Disconnect(s) ==
  /\ task = Idle /\ rs[s] \in {"open", "closing"}
  /\ rs' = [rs EXCEPT ![s] = "closed"]
  /\ clients' = clients \ {s}
  /\ organ' = [organ EXCEPT ![s] = NoOrgan]
  /\ cut' = cut \ {s}
  /\ UNCHANGED <<db, task, nextId, events, wire, received, faults, history>>

-----------------------------------------------------------------------------
(* Mailbox requests of an organ, over HTTP or its socket.                  *)

\* The first DrainLimit rows.
FirstIds(ids) == {m \in ids : Cardinality({n \in ids : n <= m}) <= DrainLimit}

Drain(o) ==
  /\ task = Idle
  /\ received' = [received EXCEPT ![o] = @ \cup FirstIds(Ids(Pending(o)))]
  /\ UNCHANGED <<db, main, events, wire, cut, faults, history>>

\* Rows that are pending are marked, whoever asks and whatever organ they are
\* for: an ack is tied to no mailbox, and to no receipt.
Ack(ids) ==
  /\ task = Idle /\ ids # {}
  /\ MarkDelivered(ids)
  /\ acked' = acked \cup Ids({r \in rows : r.id \in ids /\ ~r.delivered})
  /\ UNCHANGED <<audit, signals, main, events, network, faults, sent, accepted,
                 pushes>>

-----------------------------------------------------------------------------
(* The worker thread, the network and the process.                         *)

\* Mutant: a delivered row is swept like any other.
ExpirableDelivered(r) == r.ttl

\* The TTL sweep, while the main thread does whatever it does.
Expirable(r) == r.ttl /\ ~r.delivered
ExpireMessages ==
  \E expired \in SUBSET {r \in rows : Expirable(r)} \ {{}} :
    /\ rows' = rows \ expired
    /\ UNCHANGED <<audit, signals, main, events, network, faults, history>>

\* handlers.persistEvent of the worker, first in, first out.
WorkerPersistEvent ==
  /\ events # <<>>
  /\ audit' = audit \cup {Head(events)}
  /\ events' = Tail(events)
  /\ UNCHANGED <<rows, signals, main, network, faults, history>>

\* The worker dies with what it has been sent.
WorkerDies ==
  /\ MayFail /\ events # <<>>
  /\ deaths' = deaths + 1
  /\ events' = <<>>
  /\ UNCHANGED <<db, main, network, failures, restarts, history>>

\* An insert of a route throws: Express answers 500, or the health check logs
\* it, and the rest is not run.  (In a WebSocket handler nothing catches it, and
\* the process dies: that is a Restart.)
InsertFails ==
  /\ MayFail /\ task.kind \in {"route", "audit", "signal"}
  /\ failures' = failures + 1
  /\ task' = Idle
  /\ UNCHANGED <<db, sockets, nextId, events, network, deaths, restarts,
                 history>>

\* An insert of the worker throws: it answers with an error, which is logged.
EventFails ==
  /\ MayFail /\ events # <<>>
  /\ failures' = failures + 1
  /\ events' = Tail(events)
  /\ UNCHANGED <<db, main, network, deaths, restarts, history>>

StatementFails == InsertFails \/ EventFails

Receive(s) ==
  /\ wire[s] # <<>>
  /\ wire' = [wire EXCEPT ![s] = Tail(@)]
  /\ received' = [received EXCEPT ![sent[Head(wire[s])].target] =
                    @ \cup {Head(wire[s])}]
  /\ UNCHANGED <<db, main, events, cut, faults, history>>

\* The peer is gone; what it has not read, or is written from now on, is lost.
Cut(s) ==
  /\ rs[s] = "open" /\ s \notin cut
  /\ cut' = cut \cup {s}
  /\ wire' = [wire EXCEPT ![s] = <<>>]
  /\ UNCHANGED <<db, main, events, received, faults, history>>

\* The tables survive, the main thread's memory does not.
Restart ==
  /\ MayFail
  /\ restarts' = restarts + 1
  /\ rs' = [s \in Sockets |-> IF rs[s] = "new" THEN "new" ELSE "closed"]
  /\ clients' = {} /\ organ' = [s \in Sockets |-> NoOrgan]
  /\ task' = Idle /\ events' = <<>>
  /\ cut' = {}
  /\ UNCHANGED <<db, nextId, wire, received, deaths, failures, history>>

Next ==
  \/ \E o \in Organs \cup {NoOrgan}, type \in Types, asked \in BOOLEAN :
       PostPush(o, type, asked)
  \/ \E human \in Principals : EmitPush(human)
  \/ Persist \/ PostAudit \/ PostDepth \/ PostSignal \/ PostRespond
  \/ \E s \in Sockets : Connect(s)
  \/ \E s \in Sockets, o \in Organs : Register(s, o)
  \/ BacklogSend \/ BacklogMark \/ BacklogDone
  \/ \E s \in Sockets : PeerCloses(s)
  \/ \E s \in Sockets : Disconnect(s)
  \/ \E o \in Organs : Drain(o)
  \/ \E ids \in SUBSET Messages : Ack(ids)
  \/ ExpireMessages \/ WorkerPersistEvent \/ WorkerDies \/ StatementFails
  \/ \E s \in Sockets : Receive(s)
  \/ \E s \in Sockets : Cut(s)
  \/ Restart

Spec == Init /\ [][Next]_vars

-----------------------------------------------------------------------------
(* Properties.                                                             *)

Row(m) == {r \in rows : r.id = m}
OnWire(m) == \E s \in Sockets : m \in ToSet(wire[s])

Lasting(m) == sent[m].type \in GovernanceTypes

\* messages.js:76, "Governance messages never expire": one the sender was told
\* is accepted is stored for good, whatever TTL was asked for and whatever
\* sweeps, acks and crashes follow, and no message is marked as delivered that
\* was neither written to a socket of its target nor named in an ack.  (An ack
\* may name a message its target never got: see Ack.)
AcceptedIsKept ==
  /\ \A m \in accepted : Lasting(m) => Row(m) # {}
  /\ \A r \in rows : r.delivered => pushes[r.id] > 0 \/ r.id \in acked

\* The mailbox keeps the promise of MailboxPromise, message by message: what is
\* delivered or gone stays so, what waits is delivered or, if it may, expires,
\* and nobody is told of the acceptance of a message that is not stored.
Status(m) ==
  IF \E r \in Row(m) : r.delivered THEN "delivered"
  ELSE IF Row(m) # {} THEN "pending"
  ELSE IF m >= nextId \/ (task.kind = "route" /\ task.id = m) THEN "unsent"
  ELSE "gone"
Promise == INSTANCE MailboxPromise WITH
  status <- [m \in Messages |-> Status(m)],
  lasting <- {m \in DOMAIN sent : Lasting(m)},
  answered <- accepted
MailboxKeepsPromise == Promise!Spec

\* No message waits in the mailbox of an organ that is connected: what was
\* stored while it was away is pushed when it registers, what comes later is
\* pushed at once, and no order of closing, replacing and renaming sockets
\* leaves a message behind that nothing would push any more.
NothingWaitsWhileConnected ==
  task = Idle =>
    \A o \in Organs : OpenClients(o) # {} => Pending(o) = {}

\* What is pushed to an organ, over all its connections and restarts of the
\* spine, is pushed in the order the messages were posted (handler.js:501,
\* "Messages are delivered in FIFO order").
PushedInOrder ==
  [][\A m, later \in DOMAIN sent :
       /\ later > m /\ sent[later].target = sent[m].target
       /\ pushes'[m] > pushes[m]
       => pushes[later] = 0]_vars

\* A message is pushed twice only where a crash separated the push from the
\* mark in the table.
RepeatedByCrashOnly == \A m \in Messages : pushes[m] <= 1 + restarts

\* A message that was stored or pushed and has no event in the audit trail is
\* the one being routed, its event is on its way to the worker, or a fault cut
\* its handler short.  A crash and a statement that fails do that to one message
\* of a client each; events on their way to a worker that dies are lost, though
\* index.js:93 says "Always persist in audit trail".
InProgress == IF task.kind \in {"route", "audit"} THEN {task.id} ELSE {}
Unaudited ==
  {m \in Messages : pushes[m] > 0 \/ Row(m) # {}}
    \ (audit \cup InProgress \cup ToSet(events))
OfClients == {m \in DOMAIN sent : sent[m].by = "client"}
AuditGapsByFaultOnly ==
  /\ Cardinality(Unaudited \cap OfClients) <= restarts + failures
  /\ Unaudited # {} => restarts + failures + deaths > 0
  /\ accepted \subseteq audit

\* A sender whose message lengthens a mailbox that was over the threshold when
\* the message was stored has been given the pressure signal, though sweeps,
\* acks and drains shorten the mailbox all the while: no accepted message waits
\* behind more than the threshold without its signal (messages.js:108-111).
Before(m) ==
  {r \in rows : r.target = sent[m].target /\ ~r.delivered /\ r.id <= m}
PressureIsSignalled ==
  \A m \in accepted :
    (\E r \in Row(m) : ~r.delivered) /\ Cardinality(Before(m)) > Threshold
      => m \in signals

\* Pressure is a sign of an absent organ, in the signal and in the list of the
\* health route: no organ that can be pushed to has a mailbox that is over the
\* threshold (messages.js:130 reports it as connected or disconnected).
UnderPressure == {o \in Organs : OverThreshold(Cardinality(Pending(o)))}
PressureMeansAbsent ==
  /\ task.kind = "signal" => OpenClients(task.target) = {}
  /\ task = Idle => \A o \in UnderPressure : OpenClients(o) = {}

\* messages.js:76 "Governance messages never expire - too important to lose":
\* an accepted message without a TTL is pending, on its way, received, or was
\* given up by an ack.
GovernanceIsNotLost ==
  \A m \in accepted : Lasting(m) =>
    \/ \E r \in Row(m) : ~r.delivered
    \/ OnWire(m)
    \/ m \in received[sent[m].target]
    \/ m \in acked
=============================================================================
