--------------------------- MODULE OrganLifecycle ---------------------------
(***************************************************************************)
(* The life of an organ's connection: server/ws/handler.js with the        *)
(* heartbeat of server/ws/heartbeat.js and the worker thread the adapter   *)
(* (server/adapter/sqlite.js, sqlite-async-worker.js) sends the lifecycle  *)
(* writes to.                                                              *)
(*                                                                         *)
(* Two actors share the database.  The main thread handles one event at a  *)
(* time: a socket message, close, error or pong, a timer, or a reply of    *)
(* the worker.  The worker executes requests first in, first out.  The     *)
(* handlers for a degraded organ, a recovered organ, a disconnect and the  *)
(* health check are sequences of requests: each awaits the reply before it *)
(* issues the next, and anything may happen on the main thread meanwhile.  *)
(* A request may be refused by a full queue, fail in the worker or go down *)
(* with the worker; the sequence it belongs to ends there, with a line in  *)
(* the log.  The register handler writes synchronously, ahead of the       *)
(* queue.                                                                  *)
(***************************************************************************)
EXTENDS Naturals, Sequences, FiniteSets, Functions

CONSTANTS
  Organs,       \* organs of the manifest that have a mailbox
  Required,     \* organs the manifest marks as required
  Sockets,      \* WebSocket objects, each for one connection
  NoOrgan, NoSocket,
  MaxMissed,    \* maxMissedPongs
  Repeat,       \* may a client register again on a socket, or on one that is
                \* closing or forgotten?
  MaxPending,   \* bound: lifecycle requests outstanding when a timer fires
  MaxChecks,    \* bound: overlapping health checks
  MaxFailures,  \* bound: crashes of the worker and calls that fail
  MaxRestarts   \* bound: restarts of the process

ASSUME OrgansAssumption ==
  Required \subseteq Organs /\ NoOrgan \notin Organs
ASSUME SocketsAssumption ==
  IsFiniteSet(Sockets) /\ NoSocket \notin Sockets
ASSUME MissedAssumption == MaxMissed \in Nat \ {0}
ASSUME BoundsAssumption ==
  /\ Repeat \in BOOLEAN
  /\ {MaxPending, MaxChecks, MaxFailures, MaxRestarts} \subseteq Nat

VARIABLES
  \* main thread: the sockets and the client map
  rs,         \* readyState; "new" before the connection
  clients,    \* keys of the client map
  organ,      \* organName of the socket's client entry
  missed,     \* missedPongs: pings sent since the last pong
  notified,   \* degradedNotified
  silent,     \* sockets whose peer answers nothing any more
  \* database
  entity,     \* state of the entity "organ:<name>"
  mailbox,    \* status of the organ's mailbox
  \* worker
  queue,      \* requests posted and not executed
  replies,    \* replies posted and not handled by the main thread
  \* main thread: watch on required organs
  timers,     \* armed grace timers, named by the socket that was lost
  handle,     \* reconnectionTimers
  tracked,    \* organDisconnectTimes: how long the organ has been missing
  alerted,    \* criticalAlertsSent
  \* what has happened, for the properties only
  homs,       \* HOMs stored since the organ last registered
  unreported, \* organs whose HOM could not be stored since then
  latest,     \* socket of the organ's last register
  cutShort,   \* sockets whose disconnect sequence a failure has ended
  failures, restarts

sockVars  == <<rs, clients, organ, missed, notified, silent>>
dbVars    == <<entity, mailbox>>
pipeVars  == <<queue, replies>>
watchVars == <<timers, handle, tracked, alerted>>
pastVars  == <<homs, unreported, latest>>
faultVars == <<cutShort, failures, restarts>>
vars == <<sockVars, dbVars, pipeVars, watchVars, pastVars, faultVars>>

States == {"absent", "REGISTERED", "ALIVE", "DEGRADED", "DISCONNECTED"}

RawRequests ==
  [seq    : {"degraded", "recovered", "disconnect", "health"},
   op     : {"status", "read", "transition", "sweep", "hom"},
   organ  : Organs \cup {NoOrgan},
   socket : Sockets \cup {NoSocket},
   from   : States,
   to     : States,
   due    : SUBSET Organs]
Requests ==
  {r \in RawRequests : /\ r.op \notin {"sweep", "hom"} => r.organ \in Organs
                       /\ r.seq = "disconnect" => r.socket \in Sockets}
\* The answer to a read carries the entity's state; an operation that throws is
\* answered with an error.
Replies == [req : Requests, state : States \cup {"error"}]

-----------------------------------------------------------------------------
(* Requests of the four sequences *)

ReadRequest(seq, o, ws) ==
  [seq |-> seq, op |-> "read", organ |-> o, socket |-> ws,
   from |-> "absent", to |-> "absent", due |-> {}]
StatusRequest(o, ws) ==
  [seq |-> "disconnect", op |-> "status", organ |-> o, socket |-> ws,
   from |-> "absent", to |-> "absent", due |-> {}]
TransitionRequest(seq, o, ws, from, to) ==
  [seq |-> seq, op |-> "transition", organ |-> o, socket |-> ws,
   from |-> from, to |-> to, due |-> {}]
HealthRequest(op, due) ==
  [seq |-> "health", op |-> op, organ |-> NoOrgan, socket |-> NoSocket,
   from |-> "absent", to |-> "absent", due |-> due]

Connected(o) == \E ws \in clients : organ[ws] = o

InPipe(P(_)) ==
  \/ \E i \in DOMAIN queue : P(queue[i])
  \/ \E i \in DOMAIN replies : P(replies[i].req)

\* No sequence of organ o is waiting for the worker.
Settled(o) == LET OfOrgan(r) == r.organ = o IN ~InPipe(OfOrgan)

\* The requests a health check has outstanding, and all others.
HealthPending ==
  Cardinality({i \in DOMAIN queue : queue[i].seq = "health"}) +
  Cardinality({i \in DOMAIN replies : replies[i].req.seq = "health"})
LifecyclePending == Len(queue) + Len(replies) - HealthPending

Init ==
  /\ rs = [ws \in Sockets |-> "new"]
  /\ clients = {}
  /\ organ = [ws \in Sockets |-> NoOrgan]
  /\ missed = [ws \in Sockets |-> 0]
  /\ notified = [ws \in Sockets |-> FALSE]
  /\ silent = {}
  /\ entity = [o \in Organs |-> "absent"]
  /\ mailbox = [o \in Organs |-> "registered"]
  /\ queue = <<>>
  /\ replies = <<>>
  /\ timers = {}
  /\ handle = [o \in Organs |-> NoSocket]
  /\ tracked = [o \in Organs |-> "no"]
  /\ alerted = {}
  /\ homs = [o \in Organs |-> 0]
  /\ unreported = {}
  /\ latest = [o \in Organs |-> NoSocket]
  /\ cutShort = {}
  /\ failures = 0
  /\ restarts = 0

-----------------------------------------------------------------------------
(* Calls of the worker *)

Fail ==
  /\ failures < MaxFailures
  /\ failures' = failures + 1

\* The sockets whose disconnect sequence ends when these calls fail.
Losers(calls) ==
  {calls[i].socket : i \in {j \in DOMAIN calls : calls[j].seq = "disconnect"}}

\* One event's calls of _callWorker.  They see the same depth of the queue, so
\* they are posted together or refused together.
Post(calls) ==
  \/ /\ queue' = queue \o calls
     /\ UNCHANGED faultVars
  \/ /\ calls # <<>>
     /\ Fail
     /\ cutShort' = cutShort \cup Losers(calls)
     /\ UNCHANGED <<queue, restarts>>

-----------------------------------------------------------------------------
(* Socket events *)

\* clients.delete for the sockets of S, with the ping state of their entries.
\* The organ stays readable: the sequences and timers started for the entry
\* have captured it.
DropEntries(S) ==
  /\ clients' = clients \ S
  /\ missed' = [ws \in Sockets |-> IF ws \in S THEN 0 ELSE missed[ws]]
  /\ notified' = [ws \in Sockets |-> ws \notin S /\ notified[ws]]

\* wss.on('connection')
Connect(ws) ==
  /\ rs[ws] = "new"
  /\ rs' = [rs EXCEPT ![ws] = "open"]
  /\ clients' = clients \cup {ws}
  /\ UNCHANGED <<organ, missed, notified, silent>>
  /\ UNCHANGED <<dbVars, pipeVars, watchVars, pastVars, faultVars>>

\* A register message arrives.  The library delivers messages while the socket
\* is closing too, and to a socket the client map has forgotten.
MayRegister(ws) ==
  /\ ws \notin silent
  /\ \/ rs[ws] = "open" /\ organ[ws] = NoOrgan
     \/ Repeat /\ rs[ws] \in {"open", "closing"}

\* handleRegister for a name without manifest entry or mailbox.
RegisterUnknown(ws) ==
  /\ MayRegister(ws)
  /\ rs' = [rs EXCEPT ![ws] = "closing"]
  /\ UNCHANGED <<clients, organ, missed, notified, silent>>
  /\ UNCHANGED <<dbVars, pipeVars, watchVars, pastVars, faultVars>>

\* Mutant: an organ's earlier connection is not replaced.
ReplacedNone(ws, o) == {}

\* Other connections of organ o, which a register on ws replaces.
Replaced(ws, o) == {old \in clients \ {ws} : organ[old] = o}

\* The entity part of executeConnectSequence.  An ALIVE or DEGRADED entity is
\* left as it is.
ConnectEntity(o) ==
  entity' = [entity EXCEPT ![o] =
               IF @ \in {"ALIVE", "DEGRADED"} THEN @ ELSE "ALIVE"]

\* Mutant: organDisconnectTimes is not cleared by a register.
ClearWatchKeepsClock(o) ==
  /\ timers' = timers \ {handle[o]}
  /\ handle' = [handle EXCEPT ![o] = NoSocket]
  /\ alerted' = alerted \ {o}
  /\ UNCHANGED tracked

\* The rest of executeConnectSequence: the watch on the organ ends.
ClearWatch(o) ==
  /\ timers' = timers \ {handle[o]}
  /\ handle' = [handle EXCEPT ![o] = NoSocket]
  /\ alerted' = alerted \ {o}
  /\ tracked' = [tracked EXCEPT ![o] = "no"]

\* handleRegister of a known organ, in one synchronous step.
Register(ws, o) ==
  /\ MayRegister(ws)
  /\ DropEntries(Replaced(ws, o))
  /\ rs' = [s \in Sockets |->
              IF s \in Replaced(ws, o) THEN "closing" ELSE rs[s]]
  /\ organ' = IF ws \in clients THEN [organ EXCEPT ![ws] = o] ELSE organ
  /\ mailbox' = [mailbox EXCEPT ![o] = "active"]
  /\ ConnectEntity(o)
  /\ ClearWatch(o)
  /\ homs' = [homs EXCEPT ![o] = 0]
  /\ unreported' = unreported \ {o}
  /\ latest' = [latest EXCEPT ![o] = ws]
  /\ UNCHANGED <<silent, pipeVars, faultVars>>

\* executeDisconnectSequence up to its first await, on a socket that goes to
\* readyState s.  Without a client entry there is nothing to do; without an
\* organ only the entry is removed.
StartDisconnect(ws, s) ==
  /\ rs' = [rs EXCEPT ![ws] = s]
  /\ DropEntries({ws})
  /\ Post(IF ws \in clients /\ organ[ws] # NoOrgan
            THEN <<StatusRequest(organ[ws], ws)>> ELSE <<>>)
  /\ UNCHANGED <<organ, replies, dbVars, watchVars, pastVars>>

\* ws.on('close')
CloseEvent(ws) ==
  /\ \/ rs[ws] = "open" /\ ws \notin silent
     \/ rs[ws] = "closing"
  /\ StartDisconnect(ws, "closed")
  /\ silent' = silent \ {ws}

\* ws.on('error'); the close event follows.
ErrorEvent(ws) ==
  /\ rs[ws] = "open"
  /\ StartDisconnect(ws, "closing")
  /\ UNCHANGED silent

\* The peer stops answering and the connection is left half open.
GoSilent(ws) ==
  /\ rs[ws] = "open"
  /\ ws \notin silent
  /\ silent' = silent \cup {ws}
  /\ UNCHANGED <<rs, clients, organ, missed, notified>>
  /\ UNCHANGED <<dbVars, pipeVars, watchVars, pastVars, faultVars>>

\* ws.on('pong') with handlePong: a peer answers a ping.
Pong(ws) ==
  /\ ws \in clients \ silent
  /\ missed[ws] > 0
  /\ LifecyclePending < MaxPending
  /\ missed' = [missed EXCEPT ![ws] = 0]
  /\ notified' = [notified EXCEPT ![ws] = FALSE]
  /\ Post(IF notified[ws] /\ organ[ws] # NoOrgan
            THEN <<ReadRequest("recovered", organ[ws], NoSocket)>> ELSE <<>>)
  /\ UNCHANGED <<rs, clients, organ, silent, replies>>
  /\ UNCHANGED <<dbVars, watchVars, pastVars>>

-----------------------------------------------------------------------------
(* The ping cycle *)

\* Mutant: the limit is compared with > and a socket gets one tick too many.
TimedOutLate == {ws \in clients : missed[ws] > MaxMissed}

TimedOut == {ws \in clients : missed[ws] >= MaxMissed}

\* The miss that makes missedPongs 2 on a registered socket.
Degrading ==
  {ws \in clients \ TimedOut : missed[ws] + 1 = 2 /\ organ[ws] # NoOrgan}

\* Orders in which the cycle may visit the sockets of a set.
Orders(S) == {f \in [1 .. Cardinality(S) -> S] : IsInjective(f)}

TickRequest(ws) ==
  IF ws \in TimedOut THEN StatusRequest(organ[ws], ws)
                     ELSE ReadRequest("degraded", organ[ws], NoSocket)

\* One tick of startPingCycle over all clients: the sockets at the limit are
\* disconnected, the others get one more ping.
HeartbeatTick ==
  /\ clients # {}
  /\ LifecyclePending < MaxPending
  /\ clients' = clients \ TimedOut
  /\ rs' = [ws \in Sockets |-> IF ws \in TimedOut THEN "closing" ELSE rs[ws]]
  /\ missed' = [ws \in Sockets |->
                  IF ws \in clients \ TimedOut THEN missed[ws] + 1 ELSE 0]
  /\ notified' = [ws \in Sockets |->
                    ws \notin TimedOut /\ (notified[ws] \/ ws \in Degrading)]
  /\ \E order \in Orders({ws \in TimedOut : organ[ws] # NoOrgan}
                           \cup Degrading) :
       Post([i \in DOMAIN order |-> TickRequest(order[i])])
  /\ UNCHANGED <<organ, silent, replies>>
  /\ UNCHANGED <<dbVars, watchVars, pastVars>>

-----------------------------------------------------------------------------
(* The worker *)

\* The effect of one request on the database.  A transition writes its to
\* state whatever the row holds.
Execute(r) ==
  /\ entity' = IF r.op = "transition"
                 THEN [entity EXCEPT ![r.organ] = r.to] ELSE entity
  /\ mailbox' = IF r.op = "status"
                  THEN [mailbox EXCEPT ![r.organ] = "disconnected"]
                  ELSE mailbox

\* The worker executes the next request and answers.
WorkerExec ==
  /\ queue # <<>>
  /\ Execute(Head(queue))
  /\ replies' = Append(replies,
       [req |-> Head(queue),
        state |-> IF Head(queue).op = "read"
                    THEN entity[Head(queue).organ] ELSE "absent"])
  /\ queue' = Tail(queue)
  /\ UNCHANGED <<sockVars, watchVars, pastVars, faultVars>>

\* The operation throws and is answered with ok: false, perhaps after its
\* write: a transition is committed before it is read back.
WorkerFails ==
  /\ queue # <<>>
  /\ Fail
  /\ Execute(Head(queue)) \/ UNCHANGED dbVars
  /\ replies' = Append(replies, [req |-> Head(queue), state |-> "error"])
  /\ queue' = Tail(queue)
  /\ UNCHANGED <<sockVars, watchVars, pastVars, cutShort, restarts>>

\* The worker thread dies: its last replies have been handled, every pending
\* request is rejected, so its sequence ends there, and a new worker starts.
\* The request it was executing may have been committed.
WorkerCrash ==
  /\ queue # <<>> /\ replies = <<>>
  /\ Fail
  /\ cutShort' = cutShort \cup Losers(queue)
  /\ Execute(Head(queue)) \/ UNCHANGED dbVars
  /\ queue' = <<>>
  /\ UNCHANGED <<sockVars, replies, watchVars, pastVars, restarts>>

-----------------------------------------------------------------------------
(* Replies: each continuation runs to its next await *)

Request == Head(replies).req

HasReply(seq, op) ==
  /\ replies # <<>>
  /\ Request.seq = seq /\ Request.op = op
  /\ Head(replies).state # "error"

\* The sequence goes on with the calls of rest, or ends with <<>>.
Continue(rest) ==
  /\ replies' = Tail(replies)
  /\ Post(rest)

\* The awaited call is rejected and its sequence ends in the .catch of whoever
\* started it.
Rejected ==
  /\ replies # <<>>
  /\ Head(replies).state = "error"
  /\ replies' = Tail(replies)
  /\ cutShort' = cutShort \cup Losers(<<Request>>)
  /\ UNCHANGED <<sockVars, dbVars, queue, watchVars, pastVars>>
  /\ UNCHANGED <<failures, restarts>>

\* handleOrganDegraded after getEntityAsync
DegradedRead ==
  /\ HasReply("degraded", "read")
  /\ Continue(IF Head(replies).state = "ALIVE"
                THEN <<TransitionRequest("degraded", Request.organ, NoSocket,
                                         "ALIVE", "DEGRADED")>>
                ELSE <<>>)
  /\ UNCHANGED <<sockVars, dbVars, watchVars, pastVars>>

\* handleOrganRecovered after getEntityAsync
RecoveredRead ==
  /\ HasReply("recovered", "read")
  /\ Continue(IF Head(replies).state = "DEGRADED"
                THEN <<TransitionRequest("recovered", Request.organ, NoSocket,
                                         "DEGRADED", "ALIVE")>>
                ELSE <<>>)
  /\ UNCHANGED <<sockVars, dbVars, watchVars, pastVars>>

\* Either of the two after transitionAsync: nothing more to do.
TransitionDone ==
  /\ HasReply("degraded", "transition") \/ HasReply("recovered", "transition")
  /\ Continue(<<>>)
  /\ UNCHANGED <<sockVars, dbVars, watchVars, pastVars>>

\* executeDisconnectSequence after updateMailboxStatusAsync
DisconnectStatusSet ==
  /\ HasReply("disconnect", "status")
  /\ Continue(<<ReadRequest("disconnect", Request.organ, Request.socket)>>)
  /\ UNCHANGED <<sockVars, dbVars, watchVars, pastVars>>

\* The end of executeDisconnectSequence: a required organ's grace timer.
ArmTimer(ws, o) ==
  /\ timers' = IF o \in Required THEN timers \cup {ws} ELSE timers
  /\ handle' = IF o \in Required THEN [handle EXCEPT ![o] = ws] ELSE handle
  /\ UNCHANGED <<tracked, alerted>>

\* Mutant: only an ALIVE entity is transitioned to DISCONNECTED.
DisconnectReadAliveOnly ==
  /\ HasReply("disconnect", "read")
  /\ IF Head(replies).state = "ALIVE"
       THEN /\ Continue(<<TransitionRequest("disconnect", Request.organ,
                            Request.socket, "ALIVE", "DISCONNECTED")>>)
            /\ UNCHANGED watchVars
       ELSE /\ Continue(<<>>)
            /\ ArmTimer(Request.socket, Request.organ)
  /\ UNCHANGED <<sockVars, dbVars, pastVars>>

\* Mutant: the sequence returns when there is no transition to make.
DisconnectReadReturnsEarly ==
  /\ HasReply("disconnect", "read")
  /\ Continue(IF Head(replies).state \in {"ALIVE", "DEGRADED"}
                THEN <<TransitionRequest("disconnect", Request.organ,
                         Request.socket, Head(replies).state, "DISCONNECTED")>>
                ELSE <<>>)
  /\ UNCHANGED <<sockVars, dbVars, watchVars, pastVars>>

\* executeDisconnectSequence after getEntityAsync
DisconnectRead ==
  /\ HasReply("disconnect", "read")
  /\ IF Head(replies).state \in {"ALIVE", "DEGRADED"}
       THEN /\ Continue(<<TransitionRequest("disconnect", Request.organ,
                            Request.socket, Head(replies).state,
                            "DISCONNECTED")>>)
            /\ UNCHANGED watchVars
       ELSE /\ Continue(<<>>)
            /\ ArmTimer(Request.socket, Request.organ)
  /\ UNCHANGED <<sockVars, dbVars, pastVars>>

\* executeDisconnectSequence after transitionAsync
DisconnectDone ==
  /\ HasReply("disconnect", "transition")
  /\ Continue(<<>>)
  /\ ArmTimer(Request.socket, Request.organ)
  /\ UNCHANGED <<sockVars, dbVars, pastVars>>

-----------------------------------------------------------------------------
(* The watch on required organs *)

\* The callback of the grace timer armed for ws: it forgets the organ's
\* handle, whichever timer that names, and starts the clock if need be.
TimerFires(ws) ==
  /\ ws \in timers
  /\ timers' = timers \ {ws}
  /\ handle' = [handle EXCEPT ![organ[ws]] = NoSocket]
  /\ tracked' = IF Connected(organ[ws]) THEN tracked
                ELSE [tracked EXCEPT ![organ[ws]] = "recent"]
  /\ UNCHANGED <<sockVars, dbVars, pipeVars, alerted, pastVars, faultVars>>

\* criticalMissingThresholdMs passes.
TimePasses(o) ==
  /\ tracked[o] = "recent"
  /\ tracked' = [tracked EXCEPT ![o] = "overdue"]
  /\ UNCHANGED <<sockVars, dbVars, pipeVars, timers, handle, alerted>>
  /\ UNCHANGED <<pastVars, faultVars>>

\* performHealthCheck up to its first await.  Its two worker calls before the
\* loop over organDisconnectTimes are one request here.
HealthTick ==
  /\ HealthPending < MaxChecks
  /\ Post(<<HealthRequest("sweep", {})>>)
  /\ UNCHANGED <<sockVars, dbVars, replies, watchVars, pastVars>>

\* The organs whose absence the loop over organDisconnectTimes finds at an end,
\* and those of `due' it has to report.
Back == {o \in Organs : tracked[o] # "no" /\ Connected(o)}
ToReport(due) == {o \in due : tracked[o] = "overdue"} \ (Back \cup alerted)

\* Mutant: criticalAlertsSent is never filled.
CheckMissingForgets(due) ==
  /\ tracked' = [o \in Organs |-> IF o \in Back THEN "no" ELSE tracked[o]]
  /\ alerted' = alerted \ Back
  /\ \/ /\ ToReport(due) = {}
        /\ Continue(<<>>)
        /\ UNCHANGED <<homs, unreported>>
     \/ \E o \in ToReport(due) :
          /\ homs' = [homs EXCEPT ![o] = @ + 1]
          /\ Continue(<<HealthRequest("hom", ToReport(due) \ {o})>>)
          /\ UNCHANGED unreported
  /\ UNCHANGED <<timers, handle>>

\* The loop over organDisconnectTimes from the start, or after the HOM of one
\* organ, until the next HOM or until none is left in `due'.  A HOM is marked
\* as sent, stored, and its event given to the worker; when it cannot be
\* stored the health check ends.
CheckMissing(due) ==
  /\ tracked' = [o \in Organs |-> IF o \in Back THEN "no" ELSE tracked[o]]
  /\ \/ /\ ToReport(due) = {}
        /\ alerted' = alerted \ Back
        /\ Continue(<<>>)
        /\ UNCHANGED <<homs, unreported>>
     \/ \E o \in ToReport(due) :
          /\ alerted' = (alerted \ Back) \cup {o}
          /\ \/ /\ homs' = [homs EXCEPT ![o] = @ + 1]
                /\ Continue(<<HealthRequest("hom", ToReport(due) \ {o})>>)
                /\ UNCHANGED unreported
             \/ /\ Fail
                /\ unreported' = unreported \cup {o}
                /\ replies' = Tail(replies)
                /\ UNCHANGED <<homs, queue, cutShort, restarts>>
  /\ UNCHANGED <<timers, handle>>

\* performHealthCheck after its first queries, and after each HOM
HealthCheck ==
  /\ HasReply("health", "sweep") \/ HasReply("health", "hom")
  /\ CheckMissing(IF Request.op = "sweep" THEN Organs ELSE Request.due)
  /\ UNCHANGED <<sockVars, dbVars, latest>>

-----------------------------------------------------------------------------
(* Restart of the process: what was in memory is gone, the database stays. *)

ForgetAll ==
  /\ restarts < MaxRestarts
  /\ restarts' = restarts + 1
  /\ rs' = [ws \in Sockets |-> IF rs[ws] = "new" THEN "new" ELSE "closed"]
  /\ clients' = {}
  /\ queue' = <<>>
  /\ replies' = <<>>
  /\ timers' = {}
  /\ handle' = [o \in Organs |-> NoSocket]
  /\ tracked' = [o \in Organs |-> "no"]
  /\ alerted' = {}
  /\ homs' = [o \in Organs |-> 0]
  /\ unreported' = {}
  /\ latest' = [o \in Organs |-> NoSocket]
  /\ cutShort' = {}
  /\ missed' = [ws \in Sockets |-> 0]
  /\ notified' = [ws \in Sockets |-> FALSE]
  /\ silent' = {}
  /\ UNCHANGED <<organ, failures>>

Restart == ForgetAll /\ UNCHANGED dbVars

\* The process dies in a register of o, after the mailbox is set active and
\* perhaps between createEntity and the transition to ALIVE.
RestartInRegister(ws, o) ==
  /\ MayRegister(ws)
  /\ mailbox' = [mailbox EXCEPT ![o] = "active"]
  /\ \/ UNCHANGED entity
     \/ /\ entity[o] = "absent"
        /\ entity' = [entity EXCEPT ![o] = "REGISTERED"]
  /\ ForgetAll

-----------------------------------------------------------------------------

Environment ==
  \/ \E ws \in Sockets :
       \/ Connect(ws) \/ RegisterUnknown(ws) \/ CloseEvent(ws)
       \/ ErrorEvent(ws) \/ GoSilent(ws) \/ Pong(ws)
       \/ \E o \in Organs : Register(ws, o) \/ RestartInRegister(ws, o)
  \/ WorkerFails
  \/ WorkerCrash
  \/ Restart

Answered ==
  \/ DegradedRead \/ RecoveredRead \/ TransitionDone
  \/ DisconnectStatusSet \/ DisconnectRead \/ DisconnectDone
  \/ HealthCheck

MainReply == Answered \/ Rejected

Next ==
  \/ Environment
  \/ HeartbeatTick
  \/ WorkerExec
  \/ MainReply
  \/ HealthTick
  \/ \E ws \in Sockets : TimerFires(ws)
  \/ \E o \in Organs : TimePasses(o)

Spec == Init /\ [][Next]_vars

\* Timers keep firing, the worker keeps executing, the event loop keeps
\* handling replies, and time passes.  Nothing is assumed of the peers.
Fairness ==
  /\ WF_vars(HeartbeatTick)
  /\ WF_vars(WorkerExec)
  /\ WF_vars(MainReply)
  /\ WF_vars(HealthTick)
  /\ \A ws \in Sockets : WF_vars(TimerFires(ws))
  /\ \A o \in Organs : WF_vars(TimePasses(o))

FairSpec == Spec /\ Fairness

-----------------------------------------------------------------------------
(* Properties *)

\* Type invariant.
TypeOK ==
  /\ rs \in [Sockets -> {"new", "open", "closing", "closed"}]
  /\ clients \subseteq Sockets
  /\ organ \in [Sockets -> Organs \cup {NoOrgan}]
  /\ missed \in [Sockets -> 0 .. MaxMissed]
  /\ notified \in [Sockets -> BOOLEAN]
  /\ silent \subseteq Sockets
  /\ entity \in [Organs -> States]
  /\ mailbox \in [Organs -> {"registered", "active", "disconnected"}]
  /\ queue \in Seq(Requests)
  /\ replies \in Seq(Replies)
  /\ timers \subseteq Sockets
  /\ handle \in [Organs -> Sockets \cup {NoSocket}]
  /\ tracked \in [Organs -> {"no", "recent", "overdue"}]
  /\ alerted \subseteq Organs
  /\ homs \in [Organs -> Nat]
  /\ unreported \subseteq Organs
  /\ latest \in [Organs -> Sockets \cup {NoSocket}]
  /\ cutShort \subseteq Sockets
  /\ failures \in 0 .. MaxFailures
  /\ restarts \in 0 .. MaxRestarts

\* An organ has at most one entry in the client map, so pushToOrgan has one
\* socket to choose and isOrganConnected counts one connection
\* (handler.js:454-461, "replacement, not disconnect").
AtMostOneClient ==
  \A a, b \in clients : organ[a] = organ[b] /\ organ[a] # NoOrgan => a = b

\* An organ whose absence is being timed has no connection, whichever grace
\* timers have been left armed (handler.js:222-229): no HOM reports a
\* connected organ as missing, and the clean-up in handler.js:342-347 finds
\* nothing.
TrackedIsDisconnected ==
  \A o \in Organs : tracked[o] # "no" => ~Connected(o)

\* The human is told at most once per absence, also by health checks that
\* overlap (handler.js:352-354).
AtMostOneHom == \A o \in Organs : homs[o] <= 1

\* The organ has registered with this process, has no connection, and the
\* disconnect sequence of its last one was not ended half way by a call that
\* was refused, failed or went down with the worker (handler.js:202-217): such
\* a failure leaves the entity ALIVE and the organ unwatched.
Lost(o) ==
  /\ latest[o] \notin cutShort \cup {NoSocket}
  /\ ~Connected(o)

\* When a lost organ has no sequence under way, the database says so: its
\* entity is neither ALIVE nor DEGRADED and its mailbox is not active, however
\* the reads and writes of earlier degradations, recoveries, replacements and
\* disconnects, failing ones included, were interleaved.
QuietMeansDisconnected ==
  \A o \in Organs :
    Lost(o) /\ Settled(o) =>
      /\ entity[o] \notin {"ALIVE", "DEGRADED"}
      /\ mailbox[o] # "active"

\* A required organ that is lost is watched: its disconnect is under way, a
\* grace timer is armed for it, or its absence is being timed
\* (handler.js:219-230).
RequiredIsWatched ==
  \A o \in Required :
    Lost(o) /\ Settled(o) =>
      tracked[o] # "no" \/ \E ws \in timers : organ[ws] = o

\* A peer that has gone silent is given up: its organ is marked DISCONNECTED
\* unless it comes back on another socket, a failure ends the disconnect
\* sequence, or the process restarts and forgets every connection
\* (heartbeat.js:39-41).
SilentOrganIsGivenUp ==
  \A ws \in Sockets, o \in Organs :
    ws \in clients \cap silent /\ organ[ws] = o
      ~> \/ entity[o] = "DISCONNECTED" \/ latest[o] = NoSocket
         \/ \E c \in clients \ {ws} : organ[c] = o
         \/ ws \in cutShort

\* config.js:19, "HOM after required organ missing 5 minutes": a required
\* organ that is lost comes back or a HOM about it is stored, unless storing it
\* fails or the process restarts; health checks may fail.  The alert is marked
\* as sent before it is stored and is not tried again (handler.js:352-354).
\* The clock is in memory (handler.js:45): an organ that stays away over a
\* restart is not reported, one that registers after it is watched as before.
MissingRequiredIsReported ==
  \A o \in Required :
    Lost(o)
      ~> \/ Connected(o) \/ homs[o] > 0
         \/ latest[o] \in cutShort \cup {NoSocket} \/ o \in unreported

\* handler.js:290, "recovering from DEGRADED state (pong received after miss)":
\* a connected organ that is DEGRADED, with none of its sequences under way,
\* has a connection whose next pong reports the recovery.
DegradedAwaitsAPong ==
  \A o \in Organs :
    Settled(o) /\ Connected(o) /\ entity[o] = "DEGRADED" =>
      \E ws \in clients : organ[ws] = o /\ notified[ws]

\* monitoring.test.js:111, "Organ reconnects -> ALIVE", and handler.js:98,
\* "Create or transition organ state entity to ALIVE": a connected organ whose
\* sequences have all ended is not DISCONNECTED.
ConnectedIsNotDisconnected ==
  \A o \in Organs :
    Settled(o) /\ Connected(o) => entity[o] # "DISCONNECTED"

\* handler.js:224, "If still disconnected after grace period, start tracking":
\* the timer that starts the clock was armed for the organ's last connection.
ClockStartsAfterGrace ==
  [][\A ws \in Sockets :
       TimerFires(ws) /\ tracked' # tracked => latest[organ[ws]] = ws]_vars
=============================================================================
