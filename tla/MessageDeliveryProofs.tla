------------------------ MODULE MessageDeliveryProofs ------------------------
(***************************************************************************)
(* Proofs about MessageDelivery, for every set of organs, sockets and      *)
(* types, and for every limit, threshold and bound.                        *)
(*                                                                         *)
(* None of the properties is inductive: each looks at a moment where no    *)
(* handler runs, or at what is left when one is done, so what holds while  *)
(* a handler is between two of its statements has to be said first.        *)
(*                                                                         *)
(*   NumberInv    messages are numbered in the order of acceptance, and    *)
(*                the table, the wires and the organs hold only what was   *)
(*                sent; on it rests all that follows                       *)
(*   GivenInv     what is answered and to last has its row, and a row is   *)
(*                marked only after a push, or by an ack that names it     *)
(*   WaitingInv   the only messages that wait for an organ that can be     *)
(*                pushed to are the one being routed and the rest of the   *)
(*                backlog that is being pushed to it                       *)
(*   OrderInv     nothing is pushed past a message that still waits, and   *)
(*                what waits was pushed before only if a crash came since  *)
(*   AuditInv     for each message that no event is kept of, or is about   *)
(*                to be, there was a fault                                 *)
(*   PressureInv  from the moment the depth was read, a message behind     *)
(*                more than the threshold has its signal, or is given it   *)
(*                next; and a signal is given only for an absent organ     *)
(*                                                                         *)
(* The lemmas ...Steps say once what a step of any action does to one part *)
(* of the state; the proofs of the invariants cite them, not the actions.  *)
(***************************************************************************)
EXTENDS MessageDelivery, FiniteSetTheorems, SequenceFacts, TLAPS

BusyPosting == task.kind \in {"route", "audit", "depth", "signal", "respond"}
BusyBacklog == task.kind \in {"send", "mark"}

-----------------------------------------------------------------------------
(* Type correctness.                                                       *)

\* The pressure signal is stored after the event of the message it is about.
AuditedFirst == task.kind \in {"depth", "signal", "respond"} => task.id \in audit

TypeInv == TypeOK /\ AuditedFirst

Sent == [target : Organs, type : Types \cup {"HOM"}, by : Origins]

\* What the main thread does is one of three kinds of task.
LEMMA TaskKinds ==
  ASSUME TypeOK
  PROVE  /\ BusyPosting => task \in Posting
         /\ BusyBacklog => task \in Backlog
         /\ BusyPosting \/ BusyBacklog \/ task = Idle
         /\ ~(BusyPosting /\ BusyBacklog)
         /\ task = Idle => ~BusyPosting /\ ~BusyBacklog
BY DEF TypeOK, BusyPosting, BusyBacklog, Posting, Backlog, Idle

LEMMA InitTypes == Init => TypeInv
<1> SUFFICES ASSUME Init PROVE TypeInv
  OBVIOUS
<1>1. 0 \in 0..MaxFaults /\ 1 \in 1..MaxMessages + 1
  BY BoundsAssumption DEF BoundsAssumption
<1>2. events \in Seq(Messages) /\ sent \in Seq(Sent)
  BY DEF Init
<1> QED
  BY <1>1, <1>2 DEF Init, TypeInv, AuditedFirst, Idle, TypeOK, Sent

\* A message is written to a socket.
LEMMA PushTypes ==
  ASSUME TypeOK, NEW s \in Sockets, NEW m \in Messages, Push(s, m)
  PROVE  wire' \in [Sockets -> Seq(Messages)] /\ pushes' \in [Messages -> Nat]
BY DEF TypeOK, Push

\* A message is routed.
LEMMA RouteTypes ==
  ASSUME TypeOK, NEW target \in Organs, NEW type \in Types \cup {"HOM"},
         NEW ttl \in BOOLEAN, NEW by \in Origins, nextId <= MaxMessages,
         StartRoute(target, type, ttl, by)
  PROVE  TypeInv'
<1>1. nextId \in Messages /\ nextId + 1 \in 1..MaxMessages + 1
  BY BoundsAssumption DEF TypeOK, Messages, BoundsAssumption
<1>2. wire' \in [Sockets -> Seq(Messages)] /\ pushes' \in [Messages -> Nat]
  <2>1. CASE OpenClients(target) = {}
    BY <2>1 DEF StartRoute, RoutePush, NoPush, TypeOK
  <2>2. CASE OpenClients(target) # {}
    <3>1. PICK s \in OpenClients(target) : Push(s, nextId)
      BY <2>2 DEF StartRoute, RoutePush
    <3>2. s \in Sockets
      BY DEF OpenClients, TypeOK
    <3> QED
      BY <1>1, <3>1, <3>2, PushTypes
  <2> QED
    BY <2>1, <2>2
<1>3. task' \in Posting
  BY <1>1 DEF StartRoute, Posting
<1>4. sent' \in Seq(Sent)
  BY DEF StartRoute, TypeOK, Sent
<1> QED
  BY <1>1, <1>2, <1>3, <1>4
     DEF StartRoute, TypeInv, AuditedFirst, TypeOK, db, sockets, faults, Sent

\* The further steps of a post.
LEMMA PostTypes ==
  ASSUME TypeInv, Persist \/ PostAudit \/ PostDepth \/ PostSignal \/ PostRespond
  PROVE  TypeInv'
<1> USE DEF TypeInv
<1>1. task \in Posting /\ task.id \in Messages
  BY TaskKinds
     DEF BusyPosting, Persist, Store, LeaveAudit, PostAudit, PostDepth,
         PostSignal, PostRespond, Posting
<1>2. CASE Persist
  <2>1. [id |-> task.id, target |-> task.target, ttl |-> task.ttl,
         delivered |-> task.connected] \in Rows
    BY <1>1 DEF Posting, Rows
  <2>2. [task EXCEPT !.kind = "audit"] \in Posting
    BY <1>1 DEF Posting
  <2>3. Append(events, task.id) \in Seq(Messages)
    BY <1>1 DEF TypeOK
  <2>4. task'.kind \in {"idle", "audit"}
    BY <1>1, <1>2 DEF Persist, Store, LeaveAudit, Posting, Idle
  <2>5. failures' \in 0..MaxFaults
    <3>1. /\ MaxFaults \in Nat /\ deaths \in 0..MaxFaults
          /\ failures \in 0..MaxFaults /\ restarts \in 0..MaxFaults
      BY BoundsAssumption DEF BoundsAssumption, TypeOK
    <3>2. failures' = failures \/ (MayFail /\ failures' = failures + 1)
      BY <1>2 DEF Persist, LeaveAudit
    <3> QED
      BY <3>1, <3>2 DEF MayFail
  <2>6. /\ events' \in Seq(Messages)
        /\ task' \in {Idle} \cup Posting
    BY <1>2, <2>2, <2>3 DEF Persist, LeaveAudit, TypeOK
  <2>7. rows' \subseteq Rows
    BY <1>2, <2>1 DEF Persist, Store, TypeOK
  <2> QED
    BY <1>2, <2>4, <2>5, <2>6, <2>7
       DEF Persist, AuditedFirst, TypeOK, sockets, network, history
<1>3. CASE PostAudit \/ PostDepth \/ PostSignal \/ PostRespond
  <2>1. task' \in {Idle} \cup Posting
    BY <1>1, <1>3 DEF PostAudit, PostDepth, PostSignal, PostRespond, Posting
  <2>2. AuditedFirst'
    BY <1>1, <1>3
       DEF PostAudit, PostDepth, PostSignal, PostRespond, Posting, Idle, db,
           AuditedFirst
  <2>3. CASE PostAudit
    BY <1>1, <2>1, <2>2, <2>3
       DEF PostAudit, TypeOK, sockets, network, faults, history
  <2>4. CASE PostDepth
    BY <2>1, <2>2, <2>4
       DEF PostDepth, TypeOK, db, sockets, network, faults, history
  <2>5. CASE PostSignal
    BY <1>1, <2>1, <2>2, <2>5
       DEF PostSignal, AuditedFirst, TypeOK, sockets, network, faults, history
  <2>6. CASE PostRespond
    BY <1>1, <2>1, <2>2, <2>6
       DEF PostRespond, TypeOK, db, sockets, network, faults
  <2> QED
    BY <1>3, <2>3, <2>4, <2>5, <2>6
<1> QED
  BY <1>2, <1>3

\* Connections, and the backlog of a registering organ.
LEMMA ConnectionTypes ==
  ASSUME TypeInv, NEW s \in Sockets,
         \/ Connect(s) \/ \E o \in Organs : Register(s, o)
         \/ PeerCloses(s) \/ Disconnect(s)
  PROVE  TypeInv'
<1> USE DEF TypeInv
<1>1. CASE Connect(s)
  BY <1>1 DEF Connect, AuditedFirst, TypeOK, db, network, faults, history
<1>2. CASE \E o \in Organs : Register(s, o)
  <2>1. PICK o \in Organs : Register(s, o)
    BY <1>2
  <2>2. Ids(Pending(o)) \subseteq Messages
    BY DEF Ids, Pending, TypeOK, Rows
  <2>3. [kind |-> "send", socket |-> s, left |-> Ids(Pending(o))] \in Backlog
    BY <2>2 DEF Backlog
  <2>4. task' \in {Idle} \cup Backlog
    BY <2>1, <2>3 DEF Register
  <2>5. AuditedFirst'
    BY <2>4 DEF AuditedFirst, Idle, Backlog
  <2>6. /\ rs' \in [Sockets -> {"new", "open", "closing", "closed"}]
        /\ clients' \subseteq Sockets
        /\ organ' \in [Sockets -> Organs \cup {NoOrgan}]
    BY <2>1 DEF Register, TypeOK
  <2> QED
    BY <2>1, <2>4, <2>5, <2>6
       DEF Register, TypeOK, db, network, faults, history
<1>3. CASE PeerCloses(s)
  BY <1>3 DEF PeerCloses, AuditedFirst, TypeOK, db, network, faults, history
<1>4. CASE Disconnect(s)
  BY <1>4 DEF Disconnect, AuditedFirst, TypeOK, db, faults, history
<1> QED
  BY <1>1, <1>2, <1>3, <1>4

\* Rows that are marked stay rows.
LEMMA MarkTypes ==
  ASSUME TypeOK, NEW ids, MarkDelivered(ids)
  PROVE  rows' \subseteq Rows
BY DEF MarkDelivered, TypeOK, Rows

LEMMA BacklogTypes ==
  ASSUME TypeInv, BacklogSend \/ BacklogMark \/ BacklogDone
  PROVE  TypeInv'
<1> USE DEF TypeInv
<1>1. task \in Backlog /\ task.socket \in Sockets /\ task.left \subseteq Messages
  BY TaskKinds DEF BusyBacklog, BacklogSend, BacklogMark, BacklogDone, Backlog
<1>2. CASE BacklogSend
  <2>1. task' \in Backlog
    BY <1>1, <1>2 DEF BacklogSend, Backlog
  <2>2. wire' \in [Sockets -> Seq(Messages)] /\ pushes' \in [Messages -> Nat]
    <3>1. PICK m \in Messages :
            IF rs[task.socket] = "open" THEN Push(task.socket, m) ELSE NoPush
      BY <1>2 DEF BacklogSend
    <3>2. CASE rs[task.socket] = "open"
      BY <1>1, <3>1, <3>2, PushTypes
    <3>3. CASE rs[task.socket] # "open"
      BY <3>1, <3>3 DEF NoPush, TypeOK
    <3> QED
      BY <3>2, <3>3
  <2> QED
    BY <1>2, <2>1, <2>2
       DEF BacklogSend, AuditedFirst, Backlog, TypeOK, db, sockets, faults
<1>3. CASE BacklogMark
  <2>1. task' \in Backlog
    BY <1>1, <1>3 DEF BacklogMark, Backlog
  <2>2. rows' \subseteq Rows
    BY <1>3, MarkTypes DEF BacklogMark
  <2> QED
    BY <1>3, <2>1, <2>2
       DEF BacklogMark, AuditedFirst, Backlog, TypeOK, sockets, network, faults,
           history
<1>4. CASE BacklogDone
  BY <1>4 DEF BacklogDone, AuditedFirst, Idle, TypeOK, db, sockets, network,
              faults, history
<1> QED
  BY <1>2, <1>3, <1>4

\* The requests of an organ, the worker thread, the network and the process.
LEMMA OtherTypes ==
  ASSUME TypeInv,
         \/ \E o \in Organs : Drain(o)
         \/ \E ids \in SUBSET Messages : Ack(ids)
         \/ ExpireMessages \/ WorkerPersistEvent \/ WorkerDies \/ StatementFails
         \/ \E s \in Sockets : Receive(s) \/ Cut(s)
         \/ Restart
  PROVE  TypeInv'
<1> USE DEF TypeInv
<1>1. CASE \E o \in Organs : Drain(o)
  <2>1. PICK o \in Organs : Drain(o)
    BY <1>1
  <2>2. FirstIds(Ids(Pending(o))) \subseteq Messages
    BY DEF FirstIds, Ids, Pending, TypeOK, Rows
  <2> QED
    BY <2>1, <2>2 DEF Drain, AuditedFirst, TypeOK, db, main, sockets, faults,
                      history
<1>2. CASE \E ids \in SUBSET Messages : Ack(ids)
  <2>1. PICK ids \in SUBSET Messages : Ack(ids)
    BY <1>2
  <2>2. acked' \subseteq Messages
    BY <2>1 DEF Ack, Ids, TypeOK, Rows
  <2>3. rows' \subseteq Rows
    BY <2>1, MarkTypes DEF Ack
  <2> QED
    BY <2>1, <2>2, <2>3
       DEF Ack, AuditedFirst, TypeOK, main, sockets, network, faults
<1>3. CASE ExpireMessages
  BY <1>3 DEF ExpireMessages, AuditedFirst, TypeOK, main, sockets, network,
              faults, history
<1>4. CASE WorkerPersistEvent
  BY <1>4 DEF WorkerPersistEvent, AuditedFirst, TypeOK, main, sockets, network,
              faults, history
<1>5. /\ MayFail /\ deaths' = deaths + 1 => deaths' \in 0..MaxFaults
      /\ MayFail /\ failures' = failures + 1 => failures' \in 0..MaxFaults
      /\ MayFail /\ restarts' = restarts + 1 => restarts' \in 0..MaxFaults
  <2>1. /\ MaxFaults \in Nat /\ deaths \in 0..MaxFaults
        /\ failures \in 0..MaxFaults /\ restarts \in 0..MaxFaults
    BY BoundsAssumption DEF BoundsAssumption, TypeOK
  <2> QED
    BY <2>1 DEF MayFail
<1>6. CASE WorkerDies
  <2>1. events' \in Seq(Messages) /\ deaths' \in 0..MaxFaults
    BY <1>5, <1>6 DEF WorkerDies
  <2> QED
    BY <1>6, <2>1
       DEF WorkerDies, AuditedFirst, TypeOK, db, main, sockets, network, history
<1>7. CASE StatementFails
  <2>1. failures' \in 0..MaxFaults
    BY <1>5, <1>7 DEF StatementFails, InsertFails, EventFails, main
  <2>2. events \in Seq(Messages)
    BY DEF TypeOK
  <2>3. events' \in Seq(Messages)
    BY <1>7, <2>2 DEF StatementFails, InsertFails, EventFails, main
  <2>4. task' \in {task, Idle}
    BY <1>7 DEF StatementFails, InsertFails, EventFails, main
  <2> QED
    BY <1>7, <2>1, <2>3, <2>4
       DEF StatementFails, InsertFails, EventFails, AuditedFirst, Idle, TypeOK,
           main, db, sockets, network, history
<1>8. ASSUME NEW s \in Sockets, Receive(s)
      PROVE  TypeInv'
  <2>1. wire[s] \in Seq(Messages)
    BY DEF TypeOK
  <2>2. Head(wire[s]) \in Messages /\ Tail(wire[s]) \in Seq(Messages)
    BY <1>8, <2>1 DEF Receive
  <2>3. /\ wire' \in [Sockets -> Seq(Messages)]
        /\ received' \in [Organs -> SUBSET Messages]
    BY <1>8, <2>2 DEF Receive, TypeOK
  <2> QED
    BY <1>8, <2>3
       DEF Receive, AuditedFirst, TypeOK, db, main, sockets, faults, history
<1>9. ASSUME NEW s \in Sockets, Cut(s)
      PROVE  TypeInv'
  <2>1. wire' \in [Sockets -> Seq(Messages)] /\ cut' \subseteq Sockets
    BY <1>9 DEF Cut, TypeOK
  <2> QED
    BY <1>9, <2>1
       DEF Cut, AuditedFirst, TypeOK, db, main, sockets, faults, history
<1>10. CASE Restart
  <2>1. events' \in Seq(Messages) /\ restarts' \in 0..MaxFaults
    BY <1>5, <1>10 DEF Restart
  <2> QED
    BY <1>10, <2>1 DEF Restart, AuditedFirst, Idle, TypeOK, db, history
<1> QED
  BY <1>1, <1>2, <1>3, <1>4, <1>6, <1>7, <1>8, <1>9, <1>10

LEMMA NextTypes == TypeInv /\ [Next]_vars => TypeInv'
<1> SUFFICES ASSUME TypeInv, [Next]_vars PROVE TypeInv'
  OBVIOUS
<1>1. ASSUME NEW o \in Organs \cup {NoOrgan}, NEW type \in Types,
             NEW asked \in BOOLEAN, PostPush(o, type, asked)
      PROVE  TypeInv'
  BY <1>1, RouteTypes DEF PostPush, MayRoute, HasTtl, Origins, TypeInv
<1>2. ASSUME NEW human \in Principals, EmitPush(human)
      PROVE  TypeInv'
  BY <1>2, RouteTypes, OrgansAssumption
     DEF EmitPush, MayRoute, Origins, TypeInv, OrgansAssumption
<1>3. CASE Persist \/ PostAudit \/ PostDepth \/ PostSignal \/ PostRespond
  BY <1>3, PostTypes
<1>4. CASE \E s \in Sockets :
             \/ Connect(s) \/ \E o \in Organs : Register(s, o)
             \/ PeerCloses(s) \/ Disconnect(s)
  BY <1>4, ConnectionTypes
<1>5. CASE BacklogSend \/ BacklogMark \/ BacklogDone
  BY <1>5, BacklogTypes
<1>6. CASE \/ \E o \in Organs : Drain(o)
           \/ \E ids \in SUBSET Messages : Ack(ids)
           \/ ExpireMessages \/ WorkerPersistEvent \/ WorkerDies
           \/ StatementFails
           \/ \E s \in Sockets : Receive(s) \/ Cut(s)
           \/ Restart
  BY <1>6, OtherTypes
<1>7. CASE UNCHANGED vars
  BY <1>7 DEF vars, TypeInv, AuditedFirst, TypeOK, db, main, sockets, network,
              faults, history
<1> QED
  BY <1>1, <1>2, <1>3, <1>4, <1>5, <1>6, <1>7 DEF Next

\* The state is well typed; in particular a pressure signal is stored only for
\* a message that has its audit event (messages.js 100-125).
THEOREM TypeCorrect == Spec => []TypeOK
<1>1. Init => TypeInv
  BY InitTypes
<1>2. TypeInv /\ [Next]_vars => TypeInv'
  BY NextTypes
<1> QED
  BY <1>1, <1>2, PTL DEF Spec, TypeInv

LEMMA TypeInvariant == Spec => []TypeInv
BY InitTypes, NextTypes, PTL DEF Spec

-----------------------------------------------------------------------------
(* Messages are numbered in the order of acceptance, and what the Spine and *)
(* the organs hold of a message agrees with what was sent.                  *)

\* What the main thread still has to push of a backlog.
Left == IF BusyBacklog THEN task.left ELSE {}

RowsAgree ==
  /\ \A r \in rows : /\ r.id < nextId /\ r.target = sent[r.id].target
                     /\ r.ttl => ~Lasting(r.id)
                     /\ task.kind = "route" => r.id # task.id
  /\ \A r1, r2 \in rows : r1.id = r2.id => r1 = r2

HeldIsSent ==
  /\ \A m \in audit \cup accepted \cup Left : m < nextId
  /\ \A m \in ToSet(events) : m < nextId /\ sent[m].by = "spine"
  /\ \A s \in Sockets : \A m \in ToSet(wire[s]) : m < nextId
  /\ \A o \in Organs : \A m \in received[o] : m < nextId /\ sent[m].target = o
  /\ \A m \in Messages : m >= nextId => pushes[m] = 0

\* The message in progress is the newest one.
NewestInProgress ==
  BusyPosting =>
    /\ task.id = nextId - 1 /\ task.id \notin accepted
    /\ sent[task.id].by = task.by /\ sent[task.id].target = task.target
    /\ task.ttl => ~Lasting(task.id)
    /\ task.kind # "route" => task.by = "client"

NumberInv ==
  /\ TypeInv /\ nextId = Len(sent) + 1
  /\ RowsAgree /\ HeldIsSent /\ NewestInProgress

\* A message has been sent when its number has been given out.
LEMMA SentIsNumbered ==
  ASSUME TypeOK, nextId = Len(sent) + 1
  PROVE  DOMAIN sent = {m \in Messages : m < nextId}
<1>1. sent \in Seq(Sent) /\ Len(sent) \in Nat /\ DOMAIN sent = 1..Len(sent)
  BY DEF TypeOK, Sent
<1>2. MaxMessages \in Nat /\ nextId \in 1..MaxMessages + 1
  BY BoundsAssumption DEF BoundsAssumption, TypeOK
<1>3. DOMAIN sent \subseteq {m \in Messages : m < nextId}
  BY <1>1, <1>2 DEF Messages
<1>4. {m \in Messages : m < nextId} \subseteq DOMAIN sent
  BY <1>1, <1>2 DEF Messages
<1> QED
  BY <1>3, <1>4

\* What was sent stays what it was.
LEMMA SentStays ==
  ASSUME TypeOK, nextId = Len(sent) + 1, [Next]_vars
  PROVE  /\ nextId' = Len(sent') + 1 /\ nextId <= nextId'
         /\ \A m \in Messages : m < nextId => sent'[m] = sent[m]
         /\ \A m \in Messages : m < nextId => Lasting(m)' = Lasting(m)
<1>1. sent \in Seq(Sent) /\ Len(sent) \in Nat
  BY DEF TypeOK, Sent
<1>2. \/ \E e \in Sent : sent' = Append(sent, e) /\ nextId' = nextId + 1
      \/ UNCHANGED <<sent, nextId>>
  <2>1. ASSUME NEW o \in Organs \cup {NoOrgan}, NEW type \in Types,
               NEW asked \in BOOLEAN, PostPush(o, type, asked)
        PROVE  \E e \in Sent : sent' = Append(sent, e) /\ nextId' = nextId + 1
    BY <2>1 DEF PostPush, MayRoute, StartRoute, Sent, Origins
  <2>2. ASSUME NEW human \in Principals, EmitPush(human)
        PROVE  \E e \in Sent : sent' = Append(sent, e) /\ nextId' = nextId + 1
    BY <2>2 DEF EmitPush, MayRoute, StartRoute, Sent, Origins
  <2>3. CASE \/ Persist \/ PostAudit \/ PostDepth \/ PostSignal \/ PostRespond
             \/ BacklogSend \/ BacklogMark \/ BacklogDone
    BY <2>3 DEF Persist, Store, LeaveAudit, PostAudit, PostDepth, PostSignal,
                PostRespond, BacklogSend, BacklogMark, BacklogDone, history
  <2>4. CASE \E s \in Sockets :
               \/ Connect(s) \/ \E o \in Organs : Register(s, o)
               \/ PeerCloses(s) \/ Disconnect(s) \/ Receive(s) \/ Cut(s)
    BY <2>4 DEF Connect, Register, PeerCloses, Disconnect, Receive, Cut,
                main, history
  <2>5. CASE \/ \E o \in Organs : Drain(o)
             \/ \E ids \in SUBSET Messages : Ack(ids)
             \/ ExpireMessages \/ WorkerPersistEvent \/ WorkerDies
             \/ StatementFails \/ Restart \/ UNCHANGED vars
    BY <2>5 DEF Drain, Ack, ExpireMessages, WorkerPersistEvent, WorkerDies,
                StatementFails, InsertFails, EventFails, Restart, vars, main,
                history
  <2> QED
    BY <2>1, <2>2, <2>3, <2>4, <2>5 DEF Next
<1>3. /\ nextId' = Len(sent') + 1 /\ nextId <= nextId'
      /\ \A m \in 1..Len(sent) : sent'[m] = sent[m]
  BY <1>1, <1>2
<1>4. \A m \in Messages : m < nextId => sent'[m] = sent[m]
  BY <1>1, <1>3 DEF Messages
<1> QED
  BY <1>3, <1>4 DEF Lasting

LEMMA InitNumber == Init => NumberInv
<1> SUFFICES ASSUME Init PROVE NumberInv
  OBVIOUS
<1>1. nextId = Len(sent) + 1
  BY DEF Init
<1>2. \A s \in Sockets : ToSet(wire[s]) = {}
  BY DEF Init, ToSet
<1>3. ToSet(events) = {}
  BY DEF Init, ToSet
<1> QED
  BY <1>1, <1>2, <1>3, InitTypes
     DEF Init, NumberInv, RowsAgree, HeldIsSent, NewestInProgress, Left,
         BusyPosting, BusyBacklog, Idle

\* Why a row is marked as delivered: it was the first of the backlog, or an ack
\* names it.
Reason(m) ==
  \/ BacklogMark /\ IsOldest(m, Left)
  \/ \E ids \in SUBSET Messages : Ack(ids) /\ m \in ids

\* A row is that of the message in progress, or what is left of an older one.
LEMMA RowSteps ==
  ASSUME NumberInv, [Next]_vars
  PROVE  \/ /\ Persist
            /\ \A r \in rows : r.id < task.id
            /\ rows' = rows \cup {[id |-> task.id, target |-> task.target,
                                   ttl |-> task.ttl,
                                   delivered |-> task.connected]}
         \/ /\ ~Persist
            /\ \A r \in rows' : \E old \in rows :
                 /\ r.id = old.id /\ r.target = old.target /\ r.ttl = old.ttl
                 /\ old.delivered => r.delivered
                 /\ r.delivered => old.delivered \/ Reason(r.id)
            /\ \A old \in rows : Expirable(old) \/ \E r \in rows' : r.id = old.id
            /\ \A r1, r2 \in rows' : r1.id = r2.id => r1 = r2
            /\ BacklogMark => \A r \in rows' : IsOldest(r.id, Left) => r.delivered
<1> USE DEF NumberInv
<1>1. CASE Persist
  <2>1. task \in Posting /\ BusyPosting /\ nextId \in Nat
    BY <1>1, TaskKinds DEF Persist, Store, LeaveAudit, BusyPosting, TypeInv,
                           TypeOK
  <2>2. \A r \in rows : r.id < task.id
    BY <1>1, <2>1
       DEF Persist, Store, LeaveAudit, RowsAgree, NewestInProgress, TypeInv,
           TypeOK, Rows, Messages
  <2> QED
    BY <1>1, <2>2 DEF Persist, Store, LeaveAudit
<1>2. ASSUME NEW ids, MarkDelivered(ids), \A m \in ids : Reason(m),
             BacklogMark => \A m \in Left : IsOldest(m, Left) => m \in ids
      PROVE  /\ \A r \in rows' : \E old \in rows :
                  /\ r.id = old.id /\ r.target = old.target /\ r.ttl = old.ttl
                  /\ old.delivered => r.delivered
                  /\ r.delivered => old.delivered \/ Reason(r.id)
             /\ \A old \in rows : Expirable(old) \/ \E r \in rows' : r.id = old.id
             /\ \A r1, r2 \in rows' : r1.id = r2.id => r1 = r2
             /\ BacklogMark => \A r \in rows' : IsOldest(r.id, Left) => r.delivered
  <2> DEFINE marked(r) ==
               IF r.id \in ids THEN [r EXCEPT !.delivered = TRUE] ELSE r
  <2>1. rows' = {marked(r) : r \in rows}
    BY <1>2 DEF MarkDelivered
  <2>2. \A r \in rows :
          /\ marked(r).id = r.id /\ marked(r).target = r.target
          /\ marked(r).ttl = r.ttl /\ (r.delivered => marked(r).delivered)
          /\ r.id \in ids => marked(r).delivered
          /\ r.id \notin ids => marked(r) = r
    BY DEF TypeInv, TypeOK, Rows
  <2> HIDE DEF marked
  <2>3. \A r1, r2 \in rows' : r1.id = r2.id => r1 = r2
    BY <2>1, <2>2 DEF RowsAgree
  <2>4. \A r \in rows : marked(r).delivered => r.delivered \/ Reason(marked(r).id)
    BY <1>2, <2>2
  <2>5. BacklogMark => \A r \in rows' : IsOldest(r.id, Left) => r.delivered
    BY <1>2, <2>1, <2>2 DEF IsOldest
  <2> QED
    BY <2>1, <2>2, <2>3, <2>4, <2>5
<1>3. CASE BacklogMark
  <2>1. PICK m \in Messages : IsOldest(m, task.left) /\ MarkDelivered({m})
    BY <1>3 DEF BacklogMark
  <2>2. task.left = Left /\ task.left \subseteq Messages
    BY <1>3, TaskKinds DEF BacklogMark, Left, BusyBacklog, TypeInv, Backlog
  <2>3. /\ Reason(m)
        /\ \A n \in Left : IsOldest(n, Left) => n \in {m}
    BY <1>3, <2>1, <2>2 DEF Reason, IsOldest, Messages
  <2>4. ~Persist
    BY <1>3 DEF BacklogMark, Persist, Store, LeaveAudit
  <2> QED
    BY <1>2, <2>1, <2>3, <2>4
<1>4. CASE \E ids \in SUBSET Messages : Ack(ids)
  <2>1. PICK ids \in SUBSET Messages : Ack(ids)
    BY <1>4
  <2>2. \A m \in ids : Reason(m)
    BY <2>1 DEF Ack, Reason
  <2>3. ~Persist /\ ~BacklogMark
    BY <2>1 DEF Ack, Persist, Store, LeaveAudit, BacklogMark, Idle
  <2> QED
    BY <1>2, <2>1, <2>2, <2>3 DEF Ack
<1>5. CASE ExpireMessages
  <2>1. ~Persist /\ ~BacklogMark
    BY <1>5, TaskKinds
       DEF ExpireMessages, Persist, Store, LeaveAudit, BacklogMark, main,
           BusyBacklog, Idle, TypeInv, Backlog, BusyPosting, Posting
  <2>2. rows' \subseteq rows /\ \A r \in rows \ rows' : Expirable(r)
    BY <1>5 DEF ExpireMessages
  <2> QED
    BY <2>1, <2>2 DEF RowsAgree
<1>6. CASE /\ ~Persist /\ ~BacklogMark /\ ~ExpireMessages
           /\ ~\E ids \in SUBSET Messages : Ack(ids)
  <2>1. UNCHANGED rows
    BY <1>6 DEF Next, vars, db, PostPush, EmitPush, StartRoute, PostAudit,
                PostDepth, PostSignal, PostRespond, Connect, Register,
                BacklogSend, BacklogDone, PeerCloses, Disconnect, Drain,
                WorkerPersistEvent, WorkerDies, StatementFails, InsertFails,
                EventFails, Receive, Cut, Restart
  <2> QED
    BY <1>6, <2>1 DEF RowsAgree
<1> QED
  BY <1>1, <1>3, <1>4, <1>5, <1>6

\* A message gets in progress by StartRoute, and stays the same message.
LEMMA PostingSteps ==
  ASSUME TypeInv, nextId = Len(sent) + 1, [Next]_vars, BusyPosting'
  PROVE  \/ /\ task = Idle /\ nextId \in Messages /\ nextId' = nextId + 1
            /\ task'.kind = "route" /\ task'.id = nextId
            /\ task'.target = sent'[nextId].target
            /\ task'.by = sent'[nextId].by
            /\ task'.ttl => sent'[nextId].type \notin GovernanceTypes
            /\ task'.connected <=> OpenClients(task'.target) # {}
            /\ UNCHANGED <<db, sockets, events, cut, received, faults, accepted>>
         \/ /\ BusyPosting /\ task \in Posting /\ UNCHANGED <<nextId, sent>>
            /\ task'.id = task.id /\ task'.by = task.by
            /\ task'.target = task.target /\ task'.ttl = task.ttl
            /\ task'.connected = task.connected /\ UNCHANGED accepted
            /\ \/ UNCHANGED task
               \/ Persist /\ task.by = "client" /\ task'.kind = "audit"
               \/ PostAudit /\ task'.kind = "depth"
               \/ PostDepth /\ task'.kind \in {"signal", "respond"}
               \/ PostSignal /\ task'.kind = "respond"
<1> USE DEF TypeInv
<1>1. sent \in Seq(Sent) /\ Len(sent) \in Nat
  BY DEF TypeOK, Sent
<1>2. ASSUME NEW target \in Organs, NEW type \in Types \cup {"HOM"},
             NEW ttl \in BOOLEAN, NEW by \in Origins, MayRoute(target),
             StartRoute(target, type, ttl, by),
             ttl => type \notin GovernanceTypes
      PROVE  /\ task = Idle /\ nextId \in Messages /\ nextId' = nextId + 1
             /\ task'.kind = "route" /\ task'.id = nextId
             /\ task'.target = sent'[nextId].target
             /\ task'.by = sent'[nextId].by
             /\ task'.ttl => sent'[nextId].type \notin GovernanceTypes
             /\ task'.connected <=> OpenClients(task'.target) # {}
             /\ UNCHANGED <<db, sockets, events, cut, received, faults, accepted>>
  <2>1. nextId \in Messages
    BY <1>2, BoundsAssumption DEF MayRoute, TypeOK, Messages, BoundsAssumption
  <2>2. sent'[nextId] = [target |-> target, type |-> type, by |-> by]
    BY <1>1, <1>2 DEF StartRoute, Sent
  <2>3. task' = [kind |-> "route", id |-> nextId, by |-> by, target |-> target,
                 ttl |-> ttl, connected |-> OpenClients(target) # {}]
    BY <1>2 DEF StartRoute
  <2>4. task'.connected <=> OpenClients(task'.target) # {}
    BY <2>3
  <2>5. task'.ttl => sent'[nextId].type \notin GovernanceTypes
    BY <1>2, <2>2, <2>3
  <2> QED
    BY <1>2, <2>1, <2>2, <2>3, <2>4, <2>5 DEF MayRoute, StartRoute
<1>3. ASSUME NEW o \in Organs \cup {NoOrgan}, NEW type \in Types,
             NEW asked \in BOOLEAN, PostPush(o, type, asked)
      PROVE  \E target \in Organs, t \in Types \cup {"HOM"}, ttl \in BOOLEAN,
                by \in Origins :
               /\ MayRoute(target) /\ StartRoute(target, t, ttl, by)
               /\ ttl => t \notin GovernanceTypes
  BY <1>3 DEF PostPush, MayRoute, HasTtl, Origins
<1>4. ASSUME NEW human \in Principals, EmitPush(human)
      PROVE  \E target \in Organs, t \in Types \cup {"HOM"}, ttl \in BOOLEAN,
                by \in Origins :
               /\ MayRoute(target) /\ StartRoute(target, t, ttl, by)
               /\ ttl => t \notin GovernanceTypes
  BY <1>4, OrgansAssumption DEF EmitPush, MayRoute, Origins, OrgansAssumption
<1>5. CASE Persist \/ PostAudit \/ PostDepth \/ PostSignal \/ PostRespond
  <2>1. task \in Posting /\ BusyPosting
    BY <1>5, TaskKinds
       DEF BusyPosting, Persist, Store, LeaveAudit, PostAudit, PostDepth,
           PostSignal, PostRespond
  <2>2. UNCHANGED <<nextId, sent>>
    BY <1>5 DEF Persist, Store, LeaveAudit, PostAudit, PostDepth, PostSignal,
                PostRespond, history
  <2>3. task' # Idle
    BY DEF BusyPosting, Idle
  <2>4. UNCHANGED accepted
    BY <1>5, <2>3
       DEF Persist, Store, LeaveAudit, PostAudit, PostDepth, PostSignal,
           PostRespond, history
  <2>5. task.by \in Origins
    BY <2>1 DEF Posting
  <2>6. \/ /\ Persist /\ task.by = "client"
           /\ task' = [task EXCEPT !.kind = "audit"]
        \/ PostAudit /\ task' = [task EXCEPT !.kind = "depth"]
        \/ PostDepth /\ \E kind \in {"signal", "respond"} :
                          task' = [task EXCEPT !.kind = kind]
        \/ PostSignal /\ task' = [task EXCEPT !.kind = "respond"]
    BY <1>5, <2>3, <2>5 DEF Persist, Store, LeaveAudit, PostAudit, PostDepth,
                            PostSignal, PostRespond, Origins
  <2> QED
    BY <2>1, <2>2, <2>4, <2>6 DEF Posting
<1>6. CASE \/ \E s \in Sockets, o \in Organs : Register(s, o)
           \/ BacklogSend \/ BacklogMark \/ BacklogDone \/ Restart
  <2>1. CASE \E s \in Sockets, o \in Organs : Register(s, o)
    <3>1. task'.kind \in {"idle", "send"}
      BY <2>1 DEF Register, Idle
    <3> QED
      BY <3>1 DEF BusyPosting
  <2>2. CASE BacklogSend \/ BacklogMark
    <3>1. task \in Backlog
      BY <2>2, TaskKinds DEF BacklogSend, BacklogMark, BusyBacklog
    <3>2. task'.kind \in {"mark", "send"}
      BY <2>2, <3>1 DEF BacklogSend, BacklogMark, Backlog
    <3> QED
      BY <3>2 DEF BusyPosting
  <2>3. CASE BacklogDone \/ Restart
    BY <2>3 DEF BacklogDone, Restart, BusyPosting, Idle
  <2> QED
    BY <1>6, <2>1, <2>2, <2>3
<1>7. CASE \/ \E s \in Sockets : \/ Connect(s) \/ PeerCloses(s)
                                 \/ Disconnect(s) \/ Receive(s) \/ Cut(s)
           \/ \E o \in Organs : Drain(o)
           \/ \E ids \in SUBSET Messages : Ack(ids)
           \/ ExpireMessages \/ WorkerPersistEvent \/ WorkerDies
           \/ StatementFails \/ UNCHANGED vars
  <2>1. UNCHANGED <<task, nextId, sent, accepted>>
    <3>1. ~StatementFails \/ UNCHANGED task
      BY DEF StatementFails, InsertFails, EventFails, main, BusyPosting, Idle
    <3> QED
      BY <1>7, <3>1
         DEF Connect, PeerCloses, Disconnect, Receive, Cut, Drain, Ack,
             ExpireMessages, WorkerPersistEvent, WorkerDies, StatementFails,
             InsertFails, EventFails, vars, main, history
  <2> QED
    BY <2>1, TaskKinds DEF BusyPosting
<1> QED
  BY <1>2, <1>3, <1>4, <1>5, <1>6, <1>7 DEF Next

LEMMA InProgressIsSent ==
  ASSUME NumberInv, BusyPosting
  PROVE  task \in Posting /\ task.id \in Messages /\ task.id < nextId
<1>1. task \in Posting /\ nextId \in Nat
  BY TaskKinds DEF NumberInv, TypeInv, TypeOK
<1>2. task.id \in Messages /\ task.id \in Nat
  BY <1>1 DEF Posting, Messages
<1> QED
  BY <1>1, <1>2 DEF NumberInv, NewestInProgress

LEMMA NextRowsAgree ==
  ASSUME NumberInv, [Next]_vars
  PROVE  RowsAgree'
<1> USE DEF NumberInv
<1>1. \A m \in Messages : m < nextId => /\ sent'[m] = sent[m] /\ m < nextId'
                                        /\ Lasting(m)' = Lasting(m)
  BY SentStays DEF TypeInv, TypeOK, Messages
<1>2. \A r \in rows : r \in Rows /\ r.id \in Messages /\ nextId \in Nat
  BY DEF TypeInv, TypeOK, Rows
<1>3. CASE Persist
  <2>1. /\ task \in Posting /\ BusyPosting /\ task.id \in Messages
        /\ ~task'.kind = "route"
    BY <1>3, TaskKinds
       DEF Persist, Store, LeaveAudit, BusyPosting, TypeInv, Posting, Idle
  <2>2. task.id < nextId
    BY <1>2, <2>1 DEF NewestInProgress, Messages, TypeInv, TypeOK
  <2>3. /\ \A r \in rows : r.id < task.id
        /\ rows' = rows \cup {[id |-> task.id, target |-> task.target,
                               ttl |-> task.ttl, delivered |-> task.connected]}
    BY <1>3, RowSteps
  <2>4. /\ sent'[task.id].target = task.target
        /\ task.ttl => sent'[task.id].type \notin GovernanceTypes
        /\ task.id < nextId'
    BY <1>3, <2>1, <2>2 DEF NewestInProgress, Persist, Store, LeaveAudit,
                            history, Lasting
  <2>5. \A r \in rows : ~(r.id = task.id)
    BY <1>2, <2>3 DEF Messages
  <2>6. /\ \A r \in rows' : r.id < nextId' /\ r.target = sent'[r.id].target
        /\ \A r1, r2 \in rows' : r1.id = r2.id => r1 = r2
    BY <1>1, <1>2, <2>1, <2>3, <2>4, <2>5 DEF RowsAgree
  <2>7. \A r \in rows' : r.ttl => sent'[r.id].type \notin GovernanceTypes
    BY <1>1, <1>2, <1>3, <2>1, <2>3, <2>4 DEF RowsAgree, Lasting
  <2> QED
    BY <2>1, <2>6, <2>7 DEF RowsAgree, Lasting
<1>4. CASE ~Persist
  <2>1. /\ \A r \in rows' : \E old \in rows :
             r.id = old.id /\ r.target = old.target /\ r.ttl = old.ttl
        /\ \A r1, r2 \in rows' : r1.id = r2.id => r1 = r2
    BY <1>4, RowSteps
  <2>2. \A old \in rows :
          /\ old.id < nextId' /\ old.target = sent'[old.id].target
          /\ old.ttl => sent'[old.id].type \notin GovernanceTypes
    BY <1>1, <1>2 DEF RowsAgree, Lasting
  <2>3. task'.kind = "route" => \A old \in rows : old.id # task'.id
    <3> SUFFICES ASSUME task'.kind = "route", NEW old \in rows
                 PROVE  old.id # task'.id
      OBVIOUS
    <3>1. BusyPosting'
      BY DEF BusyPosting
    <3>2. CASE task'.id = nextId
      BY <1>2, <3>2 DEF RowsAgree, Messages
    <3>3. CASE UNCHANGED task
      BY <3>3 DEF RowsAgree
    <3> QED
      BY <1>4, <3>1, <3>2, <3>3, PostingSteps
  <2> QED
    BY <2>1, <2>2, <2>3 DEF RowsAgree, Lasting
<1> QED
  BY <1>3, <1>4

LEMMA NextNewest ==
  ASSUME NumberInv, [Next]_vars
  PROVE  NewestInProgress'
<1> USE DEF NumberInv
<1> SUFFICES ASSUME BusyPosting'
             PROVE  /\ task'.id = nextId' - 1 /\ task'.id \notin accepted'
                    /\ sent'[task'.id].by = task'.by
                    /\ sent'[task'.id].target = task'.target
                    /\ task'.ttl => sent'[task'.id].type \notin GovernanceTypes
                    /\ task'.kind # "route" => task'.by = "client"
  BY DEF NewestInProgress, Lasting
<1>1. CASE /\ nextId \in Messages /\ nextId' = nextId + 1
           /\ task'.kind = "route" /\ task'.id = nextId
           /\ task'.target = sent'[nextId].target
           /\ task'.by = sent'[nextId].by
           /\ task'.ttl => sent'[nextId].type \notin GovernanceTypes
           /\ UNCHANGED accepted
  <2>1. \A m \in accepted : m < nextId /\ nextId \in Nat
    BY <1>1 DEF HeldIsSent, Messages
  <2> QED
    BY <1>1, <2>1 DEF Messages
<1>2. CASE /\ BusyPosting /\ UNCHANGED <<nextId, sent>>
           /\ task'.id = task.id /\ task'.by = task.by
           /\ task'.target = task.target /\ task'.ttl = task.ttl
           /\ UNCHANGED accepted
           /\ task'.kind # "route" => task.kind # "route" \/ task.by = "client"
  BY <1>2 DEF NewestInProgress, Lasting
<1> QED
  BY <1>1, <1>2, PostingSteps DEF PostAudit, PostDepth, PostSignal

\* A message written to a socket, and one that is read from it.
LEMMA WireSteps ==
  ASSUME TypeOK, NEW s \in Sockets
  PROVE  /\ \A m \in Messages : Push(s, m) =>
              \A t \in Sockets : ToSet(wire'[t]) \subseteq ToSet(wire[t]) \cup {m}
         /\ Receive(s) => /\ Head(wire[s]) \in ToSet(wire[s])
                          /\ \A t \in Sockets : ToSet(wire'[t]) \subseteq ToSet(wire[t])
         /\ Cut(s) => \A t \in Sockets : ToSet(wire'[t]) \subseteq ToSet(wire[t])
<1>1. \A t \in Sockets : wire[t] \in Seq(Messages)
  BY DEF TypeOK
<1>2. ASSUME NEW m \in Messages, Push(s, m), NEW t \in Sockets
      PROVE  ToSet(wire'[t]) \subseteq ToSet(wire[t]) \cup {m}
  <2>1. wire'[t] = wire[t] \/ wire'[t] = Append(wire[t], m)
    BY <1>2 DEF Push, TypeOK
  <2>2. ToSet(Append(wire[t], m)) = ToSet(wire[t]) \cup {m}
    BY <1>1, SetOfSeq
  <2> QED
    BY <2>1, <2>2
<1>3. ASSUME Receive(s)
      PROVE  /\ Head(wire[s]) \in ToSet(wire[s])
             /\ \A t \in Sockets : ToSet(wire'[t]) \subseteq ToSet(wire[t])
  <2>1. \A t \in Sockets : wire'[t] = IF t = s THEN Tail(wire[s]) ELSE wire[t]
    BY <1>3 DEF Receive, TypeOK
  <2>2. ToSet(wire[s]) = {Head(wire[s])} \cup ToSet(Tail(wire[s]))
    BY <1>1, <1>3, SetOfSeq DEF Receive
  <2> QED
    BY <2>1, <2>2
<1>4. ASSUME Cut(s), NEW t \in Sockets
      PROVE  ToSet(wire'[t]) \subseteq ToSet(wire[t])
  <2>1. wire'[t] = <<>> \/ wire'[t] = wire[t]
    BY <1>4 DEF Cut, TypeOK
  <2>2. ToSet(<<>>) = {}
    BY DEF ToSet
  <2> QED
    BY <2>1, <2>2
<1> QED
  BY <1>2, <1>3, <1>4

\* Who writes to a socket: StartRoute the new message, BacklogSend the oldest
\* of the backlog.
WritesOnly(m) ==
  /\ pushes' = [pushes EXCEPT ![m] = @ + 1]
  /\ \A t \in Sockets : ToSet(wire'[t]) \subseteq ToSet(wire[t]) \cup {m}

RoutesTo(m) ==
  /\ task = Idle /\ m = nextId /\ m \in Messages /\ nextId' = nextId + 1
  /\ task'.kind = "route" /\ task'.id = m

LEMMA PushSteps ==
  ASSUME TypeInv, nextId = Len(sent) + 1, [Next]_vars
  PROVE  \/ /\ UNCHANGED pushes
            /\ \A t \in Sockets : ToSet(wire'[t]) \subseteq ToSet(wire[t])
            /\ BusyPosting' /\ RoutesTo(task'.id) => ~task'.connected
         \/ \E m \in Messages :
              /\ WritesOnly(m) /\ RoutesTo(m) /\ task'.connected
         \/ \E m \in Messages :
              /\ WritesOnly(m) /\ BacklogSend /\ IsOldest(m, Left)
              /\ rs[task.socket] = "open"
              /\ task \in Backlog /\ task' = [task EXCEPT !.kind = "mark"]
<1> USE DEF TypeInv
<1>1. ASSUME NEW target \in Organs, NEW type \in Types \cup {"HOM"},
             NEW ttl \in BOOLEAN, NEW by \in Origins, MayRoute(target),
             StartRoute(target, type, ttl, by)
      PROVE  \/ /\ UNCHANGED <<pushes, wire>> /\ ~task'.connected
             \/ \E m \in Messages :
                  /\ WritesOnly(m) /\ RoutesTo(m) /\ task'.connected
  <2>1. nextId \in Messages
    BY <1>1, BoundsAssumption DEF MayRoute, TypeOK, Messages, BoundsAssumption
  <2>2. task' = [kind |-> "route", id |-> nextId, by |-> by, target |-> target,
                 ttl |-> ttl, connected |-> OpenClients(target) # {}]
    BY <1>1 DEF StartRoute
  <2> task'.connected <=> OpenClients(target) # {}
    BY <2>2
  <2>3. CASE OpenClients(target) = {}
    <3>1. ~task'.connected
      BY <2>3
    <3> QED
      BY <1>1, <2>3, <3>1 DEF StartRoute, RoutePush, NoPush
  <2>4. CASE OpenClients(target) # {}
    <3>1. PICK s \in OpenClients(target) : Push(s, nextId)
      BY <1>1, <2>4 DEF StartRoute, RoutePush
    <3>2. s \in Sockets
      BY DEF OpenClients, TypeOK
    <3>3. WritesOnly(nextId)
      BY <2>1, <3>1, <3>2, WireSteps DEF WritesOnly, Push
    <3>4. RoutesTo(nextId)
      BY <1>1, <2>1, <2>2 DEF RoutesTo, StartRoute, MayRoute
    <3>5. task'.connected
      BY <2>4
    <3> QED
      BY <2>1, <3>3, <3>4, <3>5
  <2> QED
    BY <2>3, <2>4
<1>2. ASSUME NEW o \in Organs \cup {NoOrgan}, NEW type \in Types,
             NEW asked \in BOOLEAN, PostPush(o, type, asked)
      PROVE  \/ /\ UNCHANGED <<pushes, wire>> /\ ~task'.connected
             \/ \E m \in Messages :
                  /\ WritesOnly(m) /\ RoutesTo(m) /\ task'.connected
  BY <1>1, <1>2 DEF PostPush, MayRoute, HasTtl, Origins
<1>3. ASSUME NEW human \in Principals, EmitPush(human)
      PROVE  \/ /\ UNCHANGED <<pushes, wire>> /\ ~task'.connected
             \/ \E m \in Messages :
                  /\ WritesOnly(m) /\ RoutesTo(m) /\ task'.connected
  BY <1>1, <1>3, OrgansAssumption
     DEF EmitPush, MayRoute, Origins, OrgansAssumption
<1>4. CASE BacklogSend
  <2>1. /\ task \in Backlog /\ task.socket \in Sockets /\ Left = task.left
        /\ BusyBacklog
    BY <1>4, TaskKinds DEF BacklogSend, BusyBacklog, Backlog, Left
  <2>2. ~BusyPosting'
    BY <1>4, <2>1 DEF BacklogSend, Backlog, BusyPosting
  <2>3. PICK m \in Messages :
          /\ IsOldest(m, task.left)
          /\ IF rs[task.socket] = "open"
             THEN /\ Push(task.socket, m)
                  /\ task' = [task EXCEPT !.kind = "mark"]
             ELSE NoPush
    BY <1>4 DEF BacklogSend
  <2>4. CASE rs[task.socket] = "open"
    BY <1>4, <2>1, <2>3, <2>4, WireSteps DEF WritesOnly, Push
  <2>5. CASE rs[task.socket] # "open"
    BY <2>2, <2>3, <2>5 DEF NoPush
  <2> QED
    BY <2>4, <2>5
<1>5. ASSUME ~BacklogSend, [Next]_vars,
             ~\E o \in Organs \cup {NoOrgan}, type \in Types,
             asked \in BOOLEAN :
                 PostPush(o, type, asked),
             ~\E human \in Principals : EmitPush(human)
      PROVE  /\ UNCHANGED pushes
             /\ \A t \in Sockets : ToSet(wire'[t]) \subseteq ToSet(wire[t])
             /\ BusyPosting' => ~RoutesTo(task'.id)
  <2>1. nextId \in Nat
    BY DEF TypeOK
  <2>2. CASE \E s \in Sockets : Receive(s) \/ Cut(s)
    <3>1. PICK s \in Sockets : Receive(s) \/ Cut(s)
      BY <2>2
    <3>2. UNCHANGED <<pushes, nextId>>
      BY <3>1 DEF Receive, Cut, main, history
    <3>3. nextId' # nextId + 1
      BY <2>1, <3>2
    <3>4. \A t \in Sockets : ToSet(wire'[t]) \subseteq ToSet(wire[t])
      BY <3>1, WireSteps
    <3> QED
      BY <3>2, <3>3, <3>4 DEF RoutesTo
  <2>3. CASE \/ Persist \/ PostAudit \/ PostDepth \/ PostSignal \/ PostRespond
             \/ \E s \in Sockets :
                  \/ Connect(s) \/ \E o \in Organs : Register(s, o)
                  \/ PeerCloses(s) \/ Disconnect(s)
             \/ BacklogMark \/ BacklogDone
             \/ \E o \in Organs : Drain(o)
             \/ \E ids \in SUBSET Messages : Ack(ids)
             \/ ExpireMessages \/ WorkerPersistEvent \/ WorkerDies
             \/ StatementFails \/ Restart \/ UNCHANGED vars
    <3>1. UNCHANGED <<pushes, wire, nextId>>
      BY <2>3 DEF Persist, Store, LeaveAudit, PostAudit, PostDepth, PostSignal,
                  PostRespond, Connect, Register, PeerCloses, Disconnect,
                  BacklogMark, BacklogDone, Drain, Ack, ExpireMessages,
                  WorkerPersistEvent, WorkerDies, StatementFails, InsertFails,
                  EventFails, Restart, vars, main, network, history
    <3>2. nextId' # nextId + 1
      BY <2>1, <3>1
    <3> QED
      BY <3>1, <3>2 DEF RoutesTo
  <2> QED
    BY <1>5, <2>2, <2>3 DEF Next
<1> QED
  BY <1>2, <1>3, <1>4, <1>5

\* Which actions write what.
LEMMA Writers ==
  ASSUME [Next]_vars
  PROVE  /\ PostAudit \/ WorkerPersistEvent \/ UNCHANGED audit
         /\ PostSignal \/ UNCHANGED signals
         /\ PostRespond \/ UNCHANGED accepted
         /\ \/ Persist \/ WorkerPersistEvent \/ WorkerDies \/ StatementFails
            \/ Restart \/ UNCHANGED events
         /\ \/ \E s \in Sockets : \/ Connect(s) \/ \E o \in Organs : Register(s, o)
                                  \/ PeerCloses(s) \/ Disconnect(s)
            \/ Restart \/ UNCHANGED sockets
         /\ \/ \E o \in Organs : Drain(o)
            \/ \E s \in Sockets : Receive(s)
            \/ UNCHANGED received
         /\ (\E ids \in SUBSET Messages : Ack(ids)) \/ UNCHANGED acked
         /\ WorkerDies \/ UNCHANGED deaths
         /\ StatementFails \/ Persist \/ UNCHANGED failures
         /\ Restart \/ UNCHANGED restarts
<1>1. CASE \/ \E o \in Organs \cup {NoOrgan}, type \in Types, asked \in BOOLEAN :
                PostPush(o, type, asked)
           \/ \E human \in Principals : EmitPush(human)
  BY <1>1 DEF PostPush, EmitPush, StartRoute, db, sockets, faults
<1>2. CASE Persist \/ PostAudit \/ PostDepth \/ PostSignal \/ PostRespond
  BY <1>2 DEF Persist, Store, LeaveAudit, PostAudit, PostDepth, PostSignal,
              PostRespond, db, sockets, network, faults, history
<1>3. CASE \E s \in Sockets :
             \/ Connect(s) \/ \E o \in Organs : Register(s, o)
             \/ PeerCloses(s) \/ Disconnect(s)
  BY <1>3 DEF Connect, Register, PeerCloses, Disconnect, db, network, faults,
              history
<1>4. CASE BacklogSend \/ BacklogMark \/ BacklogDone
  BY <1>4 DEF BacklogSend, BacklogMark, BacklogDone, db, sockets, network,
              faults, history
<1>5. CASE \/ \E o \in Organs : Drain(o)
           \/ \E ids \in SUBSET Messages : Ack(ids)
           \/ ExpireMessages \/ WorkerPersistEvent
           \/ \E s \in Sockets : Receive(s)
           \/ \E s \in Sockets : Cut(s)
  BY <1>5 DEF Drain, Ack, ExpireMessages, WorkerPersistEvent, Receive, Cut, db,
              main, sockets, network, faults, history
<1>6. CASE WorkerDies \/ StatementFails \/ Restart \/ UNCHANGED vars
  BY <1>6 DEF WorkerDies, StatementFails, InsertFails, EventFails, Restart,
              vars, db, main, sockets, network, faults, history
<1> QED
  BY <1>1, <1>2, <1>3, <1>4, <1>5, <1>6 DEF Next

\* A backlog is that of a registering organ, from its first row to its last.
LEMMA BacklogSteps ==
  ASSUME TypeInv, [Next]_vars, BusyBacklog'
  PROVE  \/ \E s \in Sockets, o \in Organs :
              /\ Register(s, o) /\ task = Idle /\ Pending(o) # {}
              /\ task'.kind = "send" /\ task'.socket = s
              /\ task'.left = Ids(Pending(o))
         \/ /\ BusyBacklog /\ UNCHANGED <<task, sockets>>
            /\ ~BacklogSend /\ ~BacklogMark /\ ~BacklogDone
         \/ /\ BacklogSend /\ BusyBacklog /\ UNCHANGED sockets
            /\ rs[task.socket] = "open"
            /\ task'.kind = "mark" /\ task'.socket = task.socket
            /\ task'.left = task.left
            /\ \E m \in Messages : IsOldest(m, task.left) /\ WritesOnly(m)
         \/ /\ BacklogSend /\ BusyBacklog /\ UNCHANGED <<sockets, pushes>>
            /\ rs[task.socket] # "open"
            /\ task'.kind = "send" /\ task'.socket = task.socket
            /\ task'.left \subseteq task.left
         \/ /\ BacklogMark /\ BusyBacklog /\ UNCHANGED <<sockets, pushes>>
            /\ task'.kind = "send" /\ task'.socket = task.socket
            /\ \E m \in Messages :
                 IsOldest(m, task.left) /\ task'.left = task.left \ {m}
<1> USE DEF TypeInv
<1>1. CASE \E s \in Sockets, o \in Organs : Register(s, o)
  <2>1. PICK s \in Sockets, o \in Organs : Register(s, o)
    BY <1>1
  <2>2. /\ task' = [kind |-> "send", socket |-> s, left |-> Ids(Pending(o))]
        /\ Pending(o) # {} /\ task = Idle
    BY <2>1 DEF Register, BusyBacklog, Idle
  <2> QED
    BY <2>1, <2>2
<1>2. CASE BacklogSend \/ BacklogMark \/ BacklogDone
  <2>1. BusyBacklog
    BY <1>2 DEF BacklogSend, BacklogMark, BacklogDone, BusyBacklog
  <2>2. task \in Backlog /\ task.socket \in Sockets
    BY <2>1, TaskKinds DEF Backlog
  <2>3. ~BacklogDone
    BY DEF BacklogDone, BusyBacklog, Idle
  <2>4. CASE BacklogSend
    <3>1. PICK m \in Messages :
            /\ IsOldest(m, task.left)
            /\ IF rs[task.socket] = "open"
               THEN /\ Push(task.socket, m)
                    /\ task' = [task EXCEPT !.kind = "mark"]
               ELSE /\ NoPush
                    /\ task' = [task EXCEPT !.left = @ \ {m}]
      BY <2>4 DEF BacklogSend
    <3>2. task.kind = "send" /\ UNCHANGED sockets
      BY <2>4 DEF BacklogSend
    <3>3. CASE rs[task.socket] = "open"
      <4>1. WritesOnly(m)
        BY <2>2, <3>1, <3>3, WireSteps DEF WritesOnly, Push
      <4> QED
        BY <2>1, <2>2, <2>4, <3>1, <3>2, <3>3, <4>1 DEF Backlog
    <3>4. CASE rs[task.socket] # "open"
      BY <2>1, <2>2, <2>4, <3>1, <3>2, <3>4 DEF Backlog, NoPush
    <3> QED
      BY <3>3, <3>4
  <2>5. CASE BacklogMark
    BY <2>1, <2>2, <2>5 DEF BacklogMark, Backlog, history
  <2> QED
    BY <1>2, <2>3, <2>4, <2>5
<1>3. CASE \/ \E o \in Organs \cup {NoOrgan}, type \in Types, asked \in BOOLEAN :
                PostPush(o, type, asked)
           \/ \E human \in Principals : EmitPush(human)
           \/ Persist \/ PostAudit \/ PostDepth \/ PostSignal \/ PostRespond
           \/ Restart
  <2>1. CASE \/ \E o \in Organs \cup {NoOrgan}, type \in Types, asked \in BOOLEAN :
                  PostPush(o, type, asked)
             \/ \E human \in Principals : EmitPush(human)
    <3>1. ASSUME NEW target, NEW type, NEW ttl, NEW by,
                 StartRoute(target, type, ttl, by)
          PROVE  task'.kind = "route"
      BY <3>1 DEF StartRoute
    <3>2. task'.kind = "route"
      BY <2>1, <3>1 DEF PostPush, EmitPush
    <3> QED
      BY <3>2 DEF BusyBacklog
  <2>2. CASE \/ Persist \/ PostAudit \/ PostDepth \/ PostSignal \/ PostRespond
             \/ Restart
    <3>1. Restart \/ task \in Posting
      BY <2>2, TaskKinds DEF BusyPosting, Persist, Store, LeaveAudit,
                             PostAudit, PostDepth, PostSignal, PostRespond
    <3> QED
      BY <2>2, <3>1 DEF Persist, Store, LeaveAudit, PostAudit, PostDepth,
                        PostSignal, PostRespond, Restart, BusyBacklog, Posting,
                        Idle
  <2> QED
    BY <1>3, <2>1, <2>2
<1>4. CASE /\ ~BacklogSend /\ ~BacklogMark /\ ~BacklogDone
           /\ \/ \E s \in Sockets : \/ Connect(s) \/ PeerCloses(s)
                                    \/ Disconnect(s) \/ Receive(s) \/ Cut(s)
              \/ \E o \in Organs : Drain(o)
              \/ \E ids \in SUBSET Messages : Ack(ids)
              \/ ExpireMessages \/ WorkerPersistEvent \/ WorkerDies
              \/ StatementFails \/ UNCHANGED vars
  <2>1. ~StatementFails \/ UNCHANGED task
    BY DEF StatementFails, InsertFails, EventFails, main, BusyBacklog, Idle
  <2>2. UNCHANGED task
    BY <1>4, <2>1
       DEF Connect, PeerCloses, Disconnect, Receive, Cut, Drain, Ack,
           ExpireMessages, WorkerPersistEvent, WorkerDies, vars, main
  <2>3. BusyBacklog /\ task # Idle /\ task' # Idle
    BY <2>2 DEF BusyBacklog, Idle
  <2>4. UNCHANGED sockets
    BY <1>4, <2>3
       DEF Connect, PeerCloses, Disconnect, Receive, Cut, Drain, Ack,
           ExpireMessages, WorkerPersistEvent, WorkerDies, StatementFails,
           InsertFails, EventFails, vars, main
  <2> QED
    BY <1>4, <2>2, <2>3, <2>4
<1> QED
  BY <1>1, <1>2, <1>3, <1>4 DEF Next

LEMMA BacklogEnds ==
  ASSUME TypeInv, [Next]_vars, BusyBacklog, ~BusyBacklog'
  PROVE  BacklogDone \/ Restart
<1> USE DEF TypeInv
<1>1. task \in Backlog /\ ~BusyPosting /\ task # Idle /\ task' # task
  BY TaskKinds DEF BusyBacklog
<1>2. CASE BacklogSend \/ BacklogMark
  <2>1. task'.kind \in {"send", "mark"}
    BY <1>1, <1>2 DEF BacklogSend, BacklogMark, Backlog
  <2> QED
    BY <2>1 DEF BusyBacklog
<1>3. ASSUME ~BacklogSend, ~BacklogMark, ~BacklogDone, ~Restart
      PROVE  UNCHANGED task
  <2>1. task.kind \in {"send", "mark"}
    BY DEF BusyBacklog
  <2>2. ~\/ Persist \/ PostAudit \/ PostDepth \/ PostSignal \/ PostRespond
    BY <2>1 DEF Persist, Store, LeaveAudit, PostAudit, PostDepth, PostSignal,
                PostRespond
  <2>3. /\ ~\E o \in Organs \cup {NoOrgan}, type \in Types, asked \in BOOLEAN :
               PostPush(o, type, asked)
        /\ ~\E human \in Principals : EmitPush(human)
    BY <1>1 DEF PostPush, EmitPush, MayRoute
  <2>4. ~\E s \in Sockets :
            \/ Connect(s) \/ \E o \in Organs : Register(s, o)
            \/ PeerCloses(s) \/ Disconnect(s)
    BY <1>1 DEF Connect, Register, PeerCloses, Disconnect
  <2>5. CASE StatementFails
    BY <2>1, <2>5 DEF StatementFails, InsertFails, EventFails, main
  <2>6. CASE \/ \E o \in Organs : Drain(o)
             \/ \E ids \in SUBSET Messages : Ack(ids)
             \/ ExpireMessages \/ WorkerPersistEvent \/ WorkerDies
             \/ \E s \in Sockets : Receive(s) \/ Cut(s)
             \/ UNCHANGED vars
    BY <2>6 DEF Drain, Ack, ExpireMessages, WorkerPersistEvent, WorkerDies,
                Receive, Cut, vars, main
  <2> QED
    BY <1>3, <2>2, <2>3, <2>4, <2>5, <2>6 DEF Next
<1> QED
  BY <1>1, <1>2, <1>3

LEMMA LeftSteps ==
  ASSUME TypeInv, [Next]_vars
  PROVE  \A m \in Left' :
           m \in Left \/ \E r \in rows : m = r.id /\ ~r.delivered
<1> SUFFICES ASSUME BusyBacklog'
             PROVE  \A m \in task'.left :
                      m \in Left \/ \E r \in rows : m = r.id /\ ~r.delivered
  BY DEF Left
<1>1. \A o \in Organs : \A m \in Ids(Pending(o)) :
        \E r \in rows : m = r.id /\ ~r.delivered
  BY DEF Ids, Pending
<1>2. \/ \E o \in Organs : task'.left = Ids(Pending(o))
      \/ BusyBacklog /\ task'.left \subseteq task.left
  BY BacklogSteps
<1> QED
  BY <1>1, <1>2 DEF Left

LEMMA NextHeldIsSent ==
  ASSUME NumberInv, [Next]_vars
  PROVE  HeldIsSent'
<1> Messages \subseteq Nat
  BY DEF Messages
<1> TypeOK /\ TypeOK'
  BY NextTypes DEF NumberInv, TypeInv
<1> USE DEF NumberInv
<1>1. nextId \in Nat /\ nextId' \in Nat /\ nextId <= nextId'
  <2>1. nextId \in 1..MaxMessages + 1 /\ nextId' \in 1..MaxMessages + 1
    BY DEF TypeOK
  <2>2. nextId <= nextId'
    BY SentStays
  <2>3. MaxMessages \in Nat
    BY BoundsAssumption DEF BoundsAssumption
  <2> QED
    BY <2>1, <2>2, <2>3
<1>2. \A m \in Messages : m < nextId => sent'[m] = sent[m] /\ m < nextId'
  <2>1. \A m \in Messages : m < nextId => sent'[m] = sent[m]
    BY SentStays
  <2> QED
    BY <1>1, <2>1
<1>3. BusyPosting => task.id \in Messages /\ task.id < nextId
  <2>1. BusyPosting => task.id \in Messages
    BY TaskKinds DEF Posting
  <2> QED
    BY <1>1, <2>1 DEF NewestInProgress
<1>4. events \in Seq(Messages)
  BY DEF TypeInv, TypeOK
<1>5. events # <<>> => /\ Head(events) \in Messages
                       /\ ToSet(events) = {Head(events)} \cup ToSet(Tail(events))
  BY <1>4, SetOfSeq
<1>6. \A m \in audit' : m < nextId'
  <2>1. \A m \in audit' : \/ m \in audit
                          \/ BusyPosting /\ m = task.id
                          \/ events # <<>> /\ m = Head(events)
    BY Writers DEF PostAudit, WorkerPersistEvent, BusyPosting
  <2> QED
    BY <1>1, <1>2, <1>3, <1>5, <2>1 DEF HeldIsSent, TypeInv, TypeOK
<1>7. \A m \in accepted' : m < nextId'
  <2>1. \A m \in accepted' : m \in accepted \/ (BusyPosting /\ m = task.id)
    BY Writers DEF PostRespond, BusyPosting
  <2> QED
    BY <1>1, <1>2, <1>3, <2>1 DEF HeldIsSent, TypeInv, TypeOK
<1>8. \A m \in ToSet(events') : m < nextId' /\ sent'[m].by = "spine"
  <2>1. ASSUME NEW m \in ToSet(events')
        PROVE  \/ m \in ToSet(events)
               \/ BusyPosting /\ m = task.id /\ task.by = "spine"
    <3>1. CASE Persist
      <4>1. task.id \in Messages /\ BusyPosting
        BY <1>3, <3>1 DEF Persist, Store, LeaveAudit, BusyPosting
      <4>2. ToSet(Append(events, task.id)) = ToSet(events) \cup {task.id}
        BY <1>4, <4>1, SetOfSeq
      <4> QED
        BY <2>1, <3>1, <4>1, <4>2 DEF Persist, Store, LeaveAudit
    <3>2. CASE WorkerPersistEvent \/ WorkerDies \/ StatementFails \/ Restart
      <4>1. \/ events' = events
            \/ events' = <<>>
            \/ events # <<>> /\ events' = Tail(events)
        BY <3>2 DEF WorkerPersistEvent, WorkerDies, StatementFails,
                    InsertFails, EventFails, Restart
      <4>2. ToSet(<<>>) = {}
        BY DEF ToSet
      <4> QED
        BY <1>5, <2>1, <4>1, <4>2
    <3> QED
      BY <2>1, <3>1, <3>2, Writers
  <2>2. ToSet(events) \subseteq Messages
    BY <1>4, SetOfSeq
  <2>3. \A m \in ToSet(events') :
          m \in Messages /\ m < nextId /\ sent[m].by = "spine"
    <3>1. BusyPosting => sent[task.id].by = task.by
      BY DEF NewestInProgress
    <3>2. \A m \in ToSet(events) : m < nextId /\ sent[m].by = "spine"
      BY DEF HeldIsSent
    <3> QED
      BY <1>3, <2>1, <2>2, <3>1, <3>2
  <2> QED
    BY <1>2, <2>3
<1>9. \A s \in Sockets : \A m \in ToSet(wire'[s]) : m < nextId'
  <2>1. \A s \in Sockets : ToSet(wire[s]) \subseteq Messages
    <3>1. \A s \in Sockets : wire[s] \in Seq(Messages)
      BY DEF TypeInv, TypeOK
    <3> QED
      BY <3>1, SetOfSeq
  <2>2. \A s \in Sockets : \A n \in ToSet(wire[s]) : n < nextId'
    <3>1. \A s \in Sockets : \A n \in ToSet(wire[s]) : n < nextId
      BY DEF HeldIsSent
    <3> QED
      BY <1>2, <2>1, <3>1
  <2>3. ASSUME NEW m \in Messages, WritesOnly(m), RoutesTo(m)
        PROVE  m < nextId'
    BY <1>1, <2>3 DEF RoutesTo
  <2>4. ASSUME NEW m \in Messages, WritesOnly(m), IsOldest(m, Left)
        PROVE  m < nextId'
    BY <1>2, <2>4 DEF IsOldest, HeldIsSent
  <2> QED
    BY <2>2, <2>3, <2>4, PushSteps DEF WritesOnly
<1>10. \A o \in Organs : \A m \in received'[o] : m < nextId' /\ sent'[m].target = o
  <2>1. ASSUME NEW o \in Organs, NEW m \in received'[o]
        PROVE  m \in Messages /\ m < nextId /\ sent[m].target = o
    <3>1. received[o] \subseteq Messages
      BY DEF TypeInv, TypeOK
    <3>2. \A n \in received[o] : n < nextId /\ sent[n].target = o
      BY DEF HeldIsSent
    <3>3. CASE \E p \in Organs : Drain(p)
      <4>1. PICK p \in Organs : Drain(p)
        BY <3>3
      <4>2. m \in received[o] \/ (o = p /\ m \in Ids(Pending(p)))
        BY <2>1, <4>1 DEF Drain, FirstIds, TypeInv, TypeOK
      <4>3. \A n \in Ids(Pending(p)) :
              n \in Messages /\ n < nextId /\ sent[n].target = p
        BY DEF Ids, Pending, RowsAgree, TypeInv, TypeOK, Rows
      <4> QED
        BY <3>1, <3>2, <4>2, <4>3
    <3>4. CASE \E s \in Sockets : Receive(s)
      <4>1. PICK s \in Sockets : Receive(s)
        BY <3>4
      <4>2. Head(wire[s]) \in ToSet(wire[s])
        BY <4>1, WireSteps DEF TypeInv
      <4>3. Head(wire[s]) < nextId
        BY <4>2 DEF HeldIsSent
      <4>4. wire[s] \in Seq(Messages)
        BY DEF TypeInv, TypeOK
      <4>5. Head(wire[s]) \in Messages
        BY <4>1, <4>4 DEF Receive
      <4>6. \/ m \in received[o]
            \/ o = sent[Head(wire[s])].target /\ m = Head(wire[s])
        BY <2>1, <4>1 DEF Receive, TypeInv, TypeOK
      <4> QED
        BY <3>1, <3>2, <4>3, <4>5, <4>6
    <3>5. CASE UNCHANGED received
      BY <2>1, <3>1, <3>2, <3>5
    <3> QED
      BY <3>3, <3>4, <3>5, Writers
  <2> QED
    BY <1>2, <2>1
<1>11. \A m \in Left' : m < nextId'
  <2>1. \A m \in Left' : m \in Left \/ \E r \in rows : m = r.id
    BY LeftSteps
  <2>2. \A r \in rows : r.id \in Messages /\ r.id < nextId
    BY DEF RowsAgree, TypeInv, TypeOK, Rows
  <2>3. \A m \in Left : m \in Messages /\ m < nextId
    BY TaskKinds DEF Left, HeldIsSent, Backlog, TypeInv
  <2> QED
    BY <1>2, <2>1, <2>2, <2>3
<1>12. \A m \in Messages : m >= nextId' => pushes'[m] = 0
  <2>1. pushes \in [Messages -> Nat]
    BY DEF TypeInv, TypeOK
  <2>2. \A m \in Messages : m >= nextId => pushes[m] = 0
    BY DEF HeldIsSent
  <2>3. ASSUME NEW m \in Messages, WritesOnly(m), RoutesTo(m)
        PROVE  \A n \in Messages : n >= nextId' => pushes'[n] = 0
    BY <1>1, <2>1, <2>2, <2>3 DEF WritesOnly, RoutesTo
  <2>4. ASSUME NEW m \in Messages, WritesOnly(m), IsOldest(m, Left)
        PROVE  \A n \in Messages : n >= nextId' => pushes'[n] = 0
    <3>1. m < nextId
      BY <2>4 DEF IsOldest, HeldIsSent
    <3> QED
      BY <1>1, <2>1, <2>2, <2>4, <3>1 DEF WritesOnly
  <2>5. CASE UNCHANGED pushes
    BY <1>1, <2>2, <2>5
  <2> QED
    BY <2>3, <2>4, <2>5, PushSteps
<1> QED
  BY <1>6, <1>7, <1>8, <1>9, <1>10, <1>11, <1>12 DEF HeldIsSent

LEMMA NumberStep == NumberInv /\ [Next]_vars => NumberInv'
<1> SUFFICES ASSUME NumberInv, [Next]_vars PROVE NumberInv'
  OBVIOUS
<1> QED
  BY NextTypes, SentStays, NextRowsAgree, NextHeldIsSent, NextNewest
     DEF NumberInv, TypeInv

LEMMA NumberInvariant == Spec => []NumberInv
BY InitNumber, NumberStep, PTL DEF Spec

-----------------------------------------------------------------------------
(* No accepted message without a TTL leaves the table, and no row is marked *)
(* that was not given to its organ.                                         *)

\* The message that is stored while its sender waits for the answer.
Stored == IF task.kind \in {"audit", "depth", "signal", "respond"}
          THEN {task.id} ELSE {}

LastingIsStored ==
  \A m \in accepted \cup Stored : Lasting(m) => \E r \in rows : r.id = m

\* A route that found a client has written to it; one that found none has not.
RoutePushed ==
  task.kind = "route" => /\ task.connected <=> OpenClients(task.target) # {}
                         /\ task.connected <=> pushes[task.id] # 0

\* Between a push of the backlog and its mark, the message was written.
MarkPushed ==
  task.kind = "mark" => \A m \in Left : IsOldest(m, Left) => pushes[m] # 0

DeliveredWasGiven ==
  \A r \in rows : r.delivered => pushes[r.id] # 0 \/ r.id \in acked

GivenInv ==
  NumberInv /\ LastingIsStored /\ RoutePushed /\ MarkPushed /\ DeliveredWasGiven

LEMMA InitGiven == Init => GivenInv
BY InitNumber
   DEF Init, GivenInv, LastingIsStored, Stored, RoutePushed, MarkPushed,
       DeliveredWasGiven, Idle

LEMMA NextLastingIsStored ==
  ASSUME NumberInv, NumberInv', LastingIsStored, [Next]_vars
  PROVE  LastingIsStored'
<1> USE DEF NumberInv
<1> SUFFICES ASSUME NEW m \in accepted' \cup Stored',
                    sent'[m].type \in GovernanceTypes
             PROVE  \E r \in rows' : r.id = m
  BY DEF LastingIsStored, Lasting
<1>1. m \in accepted \cup Stored \/ (Persist /\ m = task.id)
  <2>1. CASE m \in accepted'
    <3>1. m \in accepted \/ (PostRespond /\ m = task.id)
      BY <2>1, Writers DEF PostRespond
    <3> QED
      BY <3>1 DEF PostRespond, Stored
  <2>2. CASE m \in Stored'
    <3>1. BusyPosting' /\ m = task'.id /\ task'.kind # "route"
      BY <2>2 DEF Stored, BusyPosting
    <3>2. BusyPosting /\ m = task.id
      BY <3>1, PostingSteps
    <3>3. CASE task.kind = "route"
      BY <3>1, <3>2, <3>3, PostingSteps DEF PostAudit, PostDepth, PostSignal
    <3>4. CASE task.kind # "route"
      BY <3>2, <3>4 DEF Stored, BusyPosting
    <3> QED
      BY <3>3, <3>4
  <2> QED
    BY <2>1, <2>2
<1>2. m \in Messages /\ m < nextId
  <2>1. \A n \in accepted \cup Stored : n \in Messages
    BY TaskKinds DEF Stored, BusyPosting, Posting, TypeInv, TypeOK
  <2>2. BusyPosting => task.id \in Messages /\ task.id < nextId
    BY InProgressIsSent
  <2>3. Persist => BusyPosting
    BY DEF Persist, Store, LeaveAudit, BusyPosting
  <2>4. \A n \in Stored : BusyPosting /\ n = task.id
    BY DEF Stored, BusyPosting
  <2> QED
    BY <1>1, <2>1, <2>2, <2>3, <2>4 DEF HeldIsSent
<1>3. sent[m].type \in GovernanceTypes
  BY <1>2, SentStays DEF TypeInv
<1>4. CASE Persist /\ m = task.id
  <2>1. [id |-> task.id, target |-> task.target, ttl |-> task.ttl,
         delivered |-> task.connected] \in rows'
    BY <1>4 DEF Persist, Store, LeaveAudit
  <2> QED
    BY <1>4, <2>1
<1>5. CASE m \in accepted \cup Stored
  <2>1. PICK old \in rows : old.id = m
    BY <1>3, <1>5 DEF LastingIsStored, Lasting
  <2>2. ~old.ttl
    BY <1>3, <2>1 DEF RowsAgree, Lasting
  <2>3. old \in rows' \/ \E r \in rows' : r.id = old.id
    BY <2>2, RowSteps DEF Expirable
  <2> QED
    BY <2>1, <2>3
<1> QED
  BY <1>1, <1>4, <1>5

\* What was written or acknowledged stays so.
LEMMA GivenStays ==
  ASSUME NumberInv, [Next]_vars
  PROVE  /\ \A m \in Messages : pushes[m] # 0 => pushes'[m] # 0
         /\ acked \subseteq acked'
<1> USE DEF NumberInv
<1>1. pushes \in [Messages -> Nat]
  BY DEF TypeInv, TypeOK
<1>2. \A m \in Messages : pushes[m] # 0 => pushes'[m] # 0
  <2>1. UNCHANGED pushes \/ \E m \in Messages : WritesOnly(m)
    BY PushSteps
  <2> QED
    BY <1>1, <2>1 DEF WritesOnly
<1>3. acked \subseteq acked'
  BY Writers DEF Ack
<1> QED
  BY <1>2, <1>3

LEMMA NextRoutePushed ==
  ASSUME NumberInv, RoutePushed, [Next]_vars
  PROVE  RoutePushed'
<1> USE DEF NumberInv
<1> SUFFICES ASSUME task'.kind = "route"
             PROVE  /\ task'.connected <=> OpenClients(task.target)' # {}
                    /\ task'.connected <=> pushes'[task'.id] # 0
  BY DEF RoutePushed
<1>1. BusyPosting' /\ pushes \in [Messages -> Nat]
  BY DEF BusyPosting, TypeInv, TypeOK
<1>2. \/ /\ RoutesTo(task'.id) /\ nextId \in Messages
         /\ task'.connected <=> OpenClients(task'.target) # {}
         /\ UNCHANGED sockets
      \/ UNCHANGED task
  BY <1>1, PostingSteps DEF RoutesTo
<1>3. CASE /\ RoutesTo(task'.id) /\ nextId \in Messages
           /\ task'.connected <=> OpenClients(task'.target) # {}
           /\ UNCHANGED sockets
  <2>1. task'.connected <=> OpenClients(task.target)' # {}
    BY <1>3 DEF OpenClients, sockets
  <2>2. pushes[nextId] = 0 /\ task'.id = nextId
    BY <1>3 DEF HeldIsSent, RoutesTo, Messages
  <2>3. ~BacklogSend
    BY <1>3 DEF RoutesTo, BacklogSend, Idle
  <2>4. \/ UNCHANGED pushes /\ ~task'.connected
        \/ \E m \in Messages : WritesOnly(m) /\ RoutesTo(m) /\ task'.connected
    BY <1>1, <1>3, <2>3, PushSteps
  <2>5. task'.connected <=> pushes'[task'.id] # 0
    BY <1>1, <1>3, <2>2, <2>4 DEF WritesOnly, RoutesTo
  <2> QED
    BY <2>1, <2>5
<1>4. CASE UNCHANGED task
  <2>1. task.kind = "route" /\ task # Idle /\ task' # Idle /\ ~BacklogSend
    BY <1>4 DEF Idle, BacklogSend
  <2>2. UNCHANGED pushes
    BY <2>1, PushSteps DEF RoutesTo
  <2>3. UNCHANGED sockets
    BY <2>1, Writers DEF Connect, Register, PeerCloses, Disconnect, Restart
  <2> QED
    BY <1>4, <2>1, <2>2, <2>3 DEF RoutePushed, OpenClients, sockets
<1> QED
  BY <1>2, <1>3, <1>4

LEMMA NextMarkPushed ==
  ASSUME NumberInv, MarkPushed, [Next]_vars
  PROVE  MarkPushed'
<1> USE DEF NumberInv
<1> SUFFICES ASSUME task'.kind = "mark", NEW m \in task'.left,
                    IsOldest(m, task'.left)
             PROVE  pushes'[m] # 0
  BY DEF MarkPushed, Left, BusyBacklog, IsOldest
<1>1. BusyBacklog' /\ pushes \in [Messages -> Nat]
  BY DEF BusyBacklog, TypeInv, TypeOK
<1>2. CASE BusyBacklog /\ UNCHANGED task
  <2>1. m \in Left /\ IsOldest(m, Left) /\ task.kind = "mark"
    BY <1>2 DEF Left
  <2>2. m \in Messages
    BY <2>1, TaskKinds DEF Left, Backlog, TypeInv
  <2> QED
    BY <2>1, <2>2, GivenStays DEF MarkPushed
<1>3. CASE /\ BusyBacklog /\ task'.left = task.left
           /\ \E n \in Messages : IsOldest(n, task.left) /\ WritesOnly(n)
  <2>1. PICK n \in Messages : IsOldest(n, task.left) /\ WritesOnly(n)
    BY <1>3
  <2>2. m = n
    <3>1. task.left \subseteq Messages
      BY <1>3, TaskKinds DEF Backlog, TypeInv
    <3> QED
      BY <1>3, <2>1, <3>1 DEF IsOldest, Messages
  <2> QED
    BY <1>1, <2>1, <2>2 DEF WritesOnly
<1> QED
  BY <1>1, <1>2, <1>3, BacklogSteps

LEMMA NextDeliveredWasGiven ==
  ASSUME GivenInv, [Next]_vars
  PROVE  DeliveredWasGiven'
<1> USE DEF GivenInv, NumberInv
<1>1. \A r \in rows : r.id \in Messages /\ r.target \in Organs
  BY DEF TypeInv, TypeOK, Rows
<1>2. \A r \in rows : r.delivered =>
        pushes'[r.id] # 0 \/ r.id \in acked'
  BY <1>1, GivenStays DEF DeliveredWasGiven
<1>3. CASE Persist
  <2>1. task.id \in Messages /\ task.kind = "route"
    BY <1>3, TaskKinds DEF Persist, Store, LeaveAudit, BusyPosting, Posting,
                           TypeInv
  <2>2. task.connected => pushes'[task.id] # 0
    BY <2>1, GivenStays DEF RoutePushed
  <2>3. rows' = rows \cup {[id |-> task.id, target |-> task.target,
                            ttl |-> task.ttl, delivered |-> task.connected]}
    BY <1>3 DEF Persist, Store, LeaveAudit
  <2> QED
    BY <1>2, <2>2, <2>3 DEF DeliveredWasGiven
<1>4. CASE ~Persist
  <2> SUFFICES ASSUME NEW r \in rows', r.delivered
               PROVE  pushes'[r.id] # 0 \/ r.id \in acked'
    BY DEF DeliveredWasGiven
  <2>1. PICK old \in rows : /\ r.id = old.id /\ r.target = old.target
                            /\ old.delivered \/ Reason(r.id)
    BY <1>4, RowSteps
  <2>2. CASE old.delivered
    BY <1>2, <2>1, <2>2
  <2>3. CASE BacklogMark /\ IsOldest(r.id, Left)
    <3>1. task.kind = "mark" /\ r.id \in Left
      BY <2>3 DEF BacklogMark, IsOldest
    <3> QED
      BY <1>1, <2>1, <2>3, <3>1, GivenStays DEF MarkPushed
  <2>4. CASE ~old.delivered /\ \E ids \in SUBSET Messages : Ack(ids) /\ r.id \in ids
    BY <2>1, <2>4 DEF Ack, Ids
  <2> QED
    BY <2>1, <2>2, <2>3, <2>4 DEF Reason
<1> QED
  BY <1>3, <1>4

LEMMA GivenInvariant == Spec => []GivenInv
<1>1. Init => GivenInv
  BY InitGiven
<1>2. GivenInv /\ [Next]_vars => GivenInv'
  BY NumberStep, NextLastingIsStored, NextRoutePushed, NextMarkPushed,
     NextDeliveredWasGiven DEF GivenInv
<1> QED
  BY <1>1, <1>2, PTL DEF Spec

\* A governance message that its sender was told is accepted stays in the
\* table for good, and what the table calls delivered was written to a socket
\* or named in an ack, of whomever (messages.js 76-99, handler.js 497-527 and
\* 602-617, mailbox.js 78-94, sqlite.js 190-201 and 245-255).
THEOREM GovernanceIsStored == Spec => []AcceptedIsKept
<1>1. GivenInv => AcceptedIsKept
  <2> SUFFICES ASSUME GivenInv PROVE AcceptedIsKept
    OBVIOUS
  <2>1. \A m \in accepted : Lasting(m) => Row(m) # {}
    BY DEF GivenInv, LastingIsStored, Row
  <2>2. \A r \in rows : pushes[r.id] # 0 => pushes[r.id] > 0
    BY DEF GivenInv, NumberInv, TypeInv, TypeOK, Rows
  <2> QED
    BY <2>1, <2>2 DEF GivenInv, DeliveredWasGiven, AcceptedIsKept
<1> QED
  BY <1>1, GivenInvariant, PTL

-----------------------------------------------------------------------------
(* Who is connected has nothing waiting but the backlog being pushed, so    *)
(* that pushes keep the order.                                              *)

\* An open socket is in the client map, only a client has a name, and who has
\* not connected is no client.
ClientsNamed ==
  \A s \in Sockets : /\ rs[s] = "open" \/ organ[s] # NoOrgan => s \in clients
                     /\ s \in clients => rs[s] # "new"

\* A backlog is pushed to the organ it is the mailbox of.
BacklogOfOrgan ==
  BusyBacklog /\ rs[task.socket] = "open"
    => \A m \in Left : sent[m].target = organ[task.socket]

WaitingIsBacklog ==
  \A o \in Organs : OpenClients(o) # {} =>
    \A r \in Pending(o) :
      BusyBacklog /\ r.id \in Left /\ rs[task.socket] = "open"

WaitingInv ==
  NumberInv /\ RoutePushed /\ ClientsNamed /\ BacklogOfOrgan /\ WaitingIsBacklog

LEMMA InitWaiting == Init => WaitingInv
BY InitNumber
   DEF Init, WaitingInv, RoutePushed, ClientsNamed, BacklogOfOrgan,
       WaitingIsBacklog, Idle, BusyBacklog, Pending

LEMMA NextClientsNamed ==
  ASSUME NumberInv, ClientsNamed, [Next]_vars
  PROVE  ClientsNamed'
<1> USE DEF NumberInv, TypeInv
<1>1. CASE \E s \in Sockets : Connect(s)
  BY <1>1 DEF Connect, ClientsNamed, TypeOK
<1>2. CASE \E s \in Sockets, o \in Organs : Register(s, o)
  <2>1. PICK s \in Sockets, o \in Organs : Register(s, o)
    BY <1>2
  <2>2. \A t \in Sockets :
          /\ rs'[t] = IF t \in Replaced(s, o) THEN "closing" ELSE rs[t]
          /\ organ'[t] = IF t = s /\ s \in clients THEN o
                         ELSE IF t \in Replaced(s, o) THEN NoOrgan
                         ELSE organ[t]
    BY <2>1 DEF Register
  <2>3. clients' = clients \ Replaced(s, o) /\ s \notin Replaced(s, o)
    BY <2>1 DEF Register, Replaced
  <2> QED
    BY <2>2, <2>3 DEF ClientsNamed
<1>3. CASE \E s \in Sockets : PeerCloses(s) \/ Disconnect(s)
  BY <1>3 DEF PeerCloses, Disconnect, ClientsNamed, TypeOK
<1>4. CASE Restart
  BY <1>4 DEF Restart, ClientsNamed, TypeOK
<1>5. CASE UNCHANGED sockets
  BY <1>5 DEF sockets, ClientsNamed
<1> QED
  BY <1>1, <1>2, <1>3, <1>4, <1>5, Writers

\* What a register does to the client entries of an organ.
LEMMA RegisterClients ==
  ASSUME NumberInv, ClientsNamed, NEW s \in Sockets, NEW p \in Organs,
         Register(s, p), NEW o \in Organs
  PROVE  /\ rs'[s] = rs[s]
         /\ o # p => OpenClients(o)' \subseteq OpenClients(o)
         /\ OpenClients(p)' # {} =>
              rs[s] = "open" /\ s \in clients /\ organ'[s] = p
<1>1. \A t \in Sockets :
        /\ rs'[t] = IF t \in Replaced(s, p) THEN "closing" ELSE rs[t]
        /\ organ'[t] = IF t = s /\ s \in clients THEN p
                       ELSE IF t \in Replaced(s, p) THEN NoOrgan
                       ELSE organ[t]
  BY DEF Register
<1>2. /\ clients' = clients \ Replaced(s, p) /\ s \notin Replaced(s, p)
      /\ clients \subseteq Sockets
  BY DEF Register, Replaced, NumberInv, TypeInv, TypeOK
<1>3. ASSUME NEW t \in OpenClients(p)'
      PROVE  t = s /\ rs[s] = "open" /\ s \in clients /\ organ'[s] = p
  <2>1. t \in clients /\ t \notin Replaced(s, p) /\ organ'[t] = p
        /\ rs'[t] = "open" /\ t \in Sockets
    BY <1>2, <1>3 DEF OpenClients
  <2>2. t = s
    BY <1>1, <2>1, OrgansAssumption DEF Replaced, OrgansAssumption
  <2> QED
    BY <1>1, <1>2, <2>1, <2>2
<1>4. ASSUME o # p, NEW t \in OpenClients(o)'
      PROVE  t \in OpenClients(o)
  <2>1. t \in clients /\ t \notin Replaced(s, p) /\ organ'[t] = o
        /\ rs'[t] = "open" /\ t \in Sockets
    BY <1>2, <1>4 DEF OpenClients
  <2> QED
    BY <1>1, <1>4, <2>1 DEF OpenClients
<1> QED
  BY <1>1, <1>2, <1>3, <1>4

LEMMA NextBacklogOfOrgan ==
  ASSUME WaitingInv, [Next]_vars
  PROVE  BacklogOfOrgan'
<1> USE DEF WaitingInv, NumberInv
<1> SUFFICES ASSUME BusyBacklog', rs'[task'.socket] = "open", NEW m \in task'.left
             PROVE  sent'[m].target = organ'[task'.socket]
  BY DEF BacklogOfOrgan, Left
<1>1. CASE \E s \in Sockets, o \in Organs :
             /\ Register(s, o) /\ task'.socket = s
             /\ task'.left = Ids(Pending(o))
  <2>1. PICK s \in Sockets, o \in Organs : /\ Register(s, o) /\ task'.socket = s
                                           /\ task'.left = Ids(Pending(o))
    BY <1>1
  <2>2. rs[s] = "open" /\ s \in clients
    BY <2>1, RegisterClients DEF ClientsNamed
  <2>3. organ'[s] = o
    BY <2>1, <2>2 DEF Register
  <2>4. PICK r \in rows : r.id = m /\ r.target = o
    BY <2>1 DEF Ids, Pending
  <2>5. sent[m].target = o
    BY <2>4 DEF RowsAgree
  <2> QED
    BY <2>1, <2>3, <2>5 DEF Register, history
<1>2. CASE /\ BusyBacklog /\ UNCHANGED sockets /\ task'.socket = task.socket
           /\ task'.left \subseteq task.left
  <2>1. m \in Left /\ m \in Messages
    BY <1>2, TaskKinds DEF Left, Backlog, TypeInv
  <2>2. sent'[m] = sent[m]
    BY <2>1, SentStays DEF HeldIsSent, TypeInv
  <2> QED
    BY <1>2, <2>1, <2>2 DEF BacklogOfOrgan, sockets
<1> QED
  BY <1>1, <1>2, BacklogSteps

LEMMA NextWaitingIsBacklog ==
  ASSUME WaitingInv, [Next]_vars
  PROVE  WaitingIsBacklog'
<1> USE DEF WaitingInv, NumberInv
<1> SUFFICES ASSUME NEW o \in Organs, OpenClients(o)' # {}, NEW r \in rows',
                    r.target = o, ~r.delivered
             PROVE  /\ BusyBacklog' /\ r.id \in task'.left
                    /\ rs'[task'.socket] = "open"
  BY DEF WaitingIsBacklog, Pending, Left
<1>1. CASE Persist
  <2>1. task.kind = "route" /\ ~BusyBacklog /\ UNCHANGED sockets
    BY <1>1 DEF Persist, Store, LeaveAudit, BusyBacklog
  <2>2. OpenClients(o) # {}
    BY <2>1 DEF OpenClients, sockets
  <2>3. r \in rows \/ (o = task.target /\ ~task.connected)
    BY <1>1 DEF Persist, Store, LeaveAudit
  <2>4. r \notin rows
    BY <2>1, <2>2 DEF WaitingIsBacklog, Pending
  <2> QED
    BY <2>1, <2>2, <2>3, <2>4 DEF RoutePushed
<1>2. CASE ~Persist
  <2>1. PICK old \in rows : old.id = r.id /\ old.target = o /\ ~old.delivered
    BY <1>2, RowSteps
  <2>2. old \in Pending(o)
    BY <2>1 DEF Pending
  <2>3. CASE OpenClients(o) # {} /\ UNCHANGED sockets
    <3>1. BusyBacklog /\ r.id \in Left /\ rs[task.socket] = "open"
      BY <2>1, <2>2, <2>3 DEF WaitingIsBacklog
    <3>2. BusyBacklog'
      <4>1. ~BacklogDone /\ ~Restart
        BY <3>1 DEF BacklogDone, Restart, Left, OpenClients
      <4> QED
        BY <3>1, <4>1, BacklogEnds
    <3>3. ~\E s \in Sockets, p \in Organs : Register(s, p)
      BY <3>1 DEF Register, BusyBacklog, Idle
    <3>4. ~(BacklogMark /\ IsOldest(r.id, Left))
      BY <1>2, RowSteps
    <3> QED
      BY <2>3, <3>1, <3>2, <3>3, <3>4, BacklogSteps DEF Left, sockets
  <2>4. CASE OpenClients(o) = {} \/ ~UNCHANGED sockets
    <3>1. PICK s \in Sockets : \/ Connect(s) \/ \E p \in Organs : Register(s, p)
                               \/ PeerCloses(s) \/ Disconnect(s)
      BY <2>4, Writers DEF Restart, OpenClients, sockets
    <3>2. task = Idle /\ ~BusyBacklog
      BY <3>1 DEF Connect, Register, PeerCloses, Disconnect, Idle, BusyBacklog
    <3>3. OpenClients(o) = {}
      BY <2>2, <3>2 DEF WaitingIsBacklog
    <3>4. \E p \in Organs : Register(s, p)
      <4>1. CASE Connect(s)
        <5>1. s \notin clients /\ organ[s] = NoOrgan
          BY <4>1 DEF Connect, ClientsNamed
        <5> QED
          BY <3>3, <4>1, <5>1, OrgansAssumption
             DEF Connect, OpenClients, OrgansAssumption, TypeInv, TypeOK
      <4>2. CASE PeerCloses(s) \/ Disconnect(s)
        BY <3>3, <4>2
           DEF PeerCloses, Disconnect, OpenClients, TypeInv, TypeOK
      <4> QED
        BY <3>1, <4>1, <4>2
    <3>5. PICK p \in Organs : Register(s, p)
      BY <3>4
    <3>6. p = o /\ rs'[s] = "open"
      BY <3>3, <3>5, RegisterClients
    <3>7. r.id \in Ids(Pending(o))
      BY <2>1, <2>2 DEF Ids
    <3>8. task' = [kind |-> "send", socket |-> s, left |-> Ids(Pending(o))]
      BY <2>2, <3>5, <3>6 DEF Register
    <3> QED
      BY <3>6, <3>7, <3>8 DEF BusyBacklog
  <2> QED
    BY <2>3, <2>4
<1> QED
  BY <1>1, <1>2

LEMMA WaitingInvariant == Spec => []WaitingInv
<1>1. Init => WaitingInv
  BY InitWaiting
<1>2. WaitingInv /\ [Next]_vars => WaitingInv'
  BY NumberStep, NextRoutePushed, NextClientsNamed, NextBacklogOfOrgan,
     NextWaitingIsBacklog DEF WaitingInv
<1> QED
  BY <1>1, <1>2, PTL DEF Spec

\* Whatever is posted, closed, replaced, renamed or restarted: when the main
\* thread has nothing left to do, the mailbox of a connected organ is empty
\* (router.js 103-127, handler.js 484-538).
THEOREM ConnectedHasNoneWaiting == Spec => []NothingWaitsWhileConnected
<1>1. WaitingInv => NothingWaitsWhileConnected
  BY DEF WaitingInv, WaitingIsBacklog, NothingWaitsWhileConnected, BusyBacklog,
         Idle
<1> QED
  BY <1>1, WaitingInvariant, PTL

\* Messages that may still be pushed.
Waits(m) == m \in Left \/ \E r \in rows : r.id = m /\ ~r.delivered

LEMMA WaitsSteps ==
  ASSUME NumberInv, [Next]_vars, NEW m \in Messages, Waits(m)'
  PROVE  /\ Waits(m) \/ (Persist /\ m = task.id /\ ~task.connected)
         /\ ~(BacklogMark /\ IsOldest(m, Left))
<1>1. TypeInv
  BY DEF NumberInv
<1>2. CASE m \in Left'
  <2>1. Waits(m)
    BY <1>1, <1>2, LeftSteps DEF Waits
  <2>2. ASSUME BacklogMark, IsOldest(m, Left)
        PROVE  FALSE
    <3>1. task.left = Left /\ Left \subseteq Messages
      BY <1>1, <2>2, TaskKinds
         DEF BacklogMark, Left, BusyBacklog, TypeInv, Backlog
    <3>2. m \in task'.left /\ BusyBacklog'
      BY <1>2 DEF Left
    <3>3. PICK n \in Messages : IsOldest(n, Left) /\ task'.left = Left \ {n}
      BY <1>1, <2>2, <3>1, <3>2, BacklogSteps
         DEF Register, BacklogMark, BacklogSend, Idle
    <3> QED
      BY <2>2, <3>2, <3>3 DEF IsOldest, Messages
  <2> QED
    BY <2>1, <2>2
<1>3. CASE \E r \in rows' : r.id = m /\ ~r.delivered
  <2>1. PICK r \in rows' : r.id = m /\ ~r.delivered
    BY <1>3
  <2>2. CASE Persist
    <3>1. \/ r \in rows
          \/ r = [id |-> task.id, target |-> task.target, ttl |-> task.ttl,
                  delivered |-> task.connected]
      BY <2>2 DEF Persist, Store, LeaveAudit
    <3>2. ~BacklogMark
      BY <2>2 DEF Persist, Store, LeaveAudit, BacklogMark
    <3> QED
      BY <2>1, <2>2, <3>1, <3>2 DEF Waits
  <2>3. CASE ~Persist
    BY <2>1, <2>3, RowSteps DEF Waits
  <2> QED
    BY <2>2, <2>3
<1> QED
  BY <1>2, <1>3 DEF Waits

WaitsInOrder ==
  \A m, later \in Messages :
    later < nextId /\ later > m /\ sent[later].target = sent[m].target /\ Waits(m)
      => pushes[later] = 0

LEMMA NextWaitsInOrder ==
  ASSUME WaitingInv, WaitsInOrder, [Next]_vars
  PROVE  WaitsInOrder'
<1> USE DEF WaitingInv, NumberInv
<1> SUFFICES ASSUME NEW m \in Messages, NEW later \in Messages,
                    later < nextId', later > m,
                    sent'[later].target = sent'[m].target, Waits(m)'
             PROVE  pushes'[later] = 0
  BY DEF WaitsInOrder
<1>0. /\ nextId \in Nat /\ Messages \subseteq Nat /\ TypeOK
      /\ pushes \in [Messages -> Nat]
  BY DEF TypeInv, TypeOK, Messages
<1>1. Waits(m)
  <2>1. ASSUME Persist, m = task.id
        PROVE  FALSE
    <3>1. BusyPosting /\ nextId' = nextId
      BY <2>1 DEF Persist, Store, LeaveAudit, BusyPosting
    <3> QED
      BY <1>0, <2>1, <3>1 DEF NewestInProgress
  <2> QED
    BY <2>1, WaitsSteps
<1>2. m < nextId
  BY <1>1 DEF Waits, HeldIsSent, RowsAgree
<1>3. sent'[m] = sent[m]
  BY <1>0, <1>2, SentStays
<1>4. pushes[later] = 0
  <2>1. CASE later < nextId
    BY <1>0, <1>1, <1>3, <2>1, SentStays DEF WaitsInOrder
  <2>2. CASE later >= nextId
    BY <2>2 DEF HeldIsSent
  <2> QED
    BY <1>0, <2>1, <2>2
<1>5. \A o \in Organs : OpenClients(o) # {} /\ sent[m].target = o =>
        BusyBacklog /\ m \in Left
  <2> SUFFICES ASSUME NEW o \in Organs, OpenClients(o) # {}, sent[m].target = o,
                      NEW r \in rows, r.id = m, ~r.delivered
               PROVE  BusyBacklog /\ m \in Left
    BY <1>1 DEF Waits, Left
  <2>1. r \in Pending(o)
    BY DEF Pending, RowsAgree
  <2> QED
    BY <2>1 DEF WaitingIsBacklog
<1>6. ASSUME WritesOnly(later), RoutesTo(later), task'.connected
      PROVE  FALSE
  <2>1. task = Idle /\ BusyPosting' /\ task'.id = nextId /\ later = nextId
    BY <1>6 DEF RoutesTo, BusyPosting
  <2>2. ~BusyPosting /\ ~BusyBacklog
    BY <1>0, <2>1, TaskKinds
  <2>3. /\ OpenClients(task'.target) # {} /\ task'.target = sent'[later].target
        /\ task'.target \in Organs
    <3>1. task' \in Posting
      <4>1. task' \in {Idle} \cup Posting \cup Backlog
        BY NextTypes DEF TypeInv, TypeOK
      <4> QED
        BY <1>6, <4>1 DEF RoutesTo, Backlog, Idle
    <3> QED
      BY <1>6, <2>1, <2>2, <3>1, PostingSteps DEF Posting
  <2> QED
    BY <1>3, <1>5, <2>2, <2>3
<1>7. ASSUME WritesOnly(later), BacklogSend, IsOldest(later, Left),
             rs[task.socket] = "open"
      PROVE  FALSE
  <2>1. later \in Left /\ BusyBacklog /\ task.socket \in Sockets
    BY <1>0, <1>7, TaskKinds DEF IsOldest, BacklogSend, BusyBacklog, Backlog
  <2>2. sent[later].target = organ[task.socket]
    BY <1>7, <2>1 DEF BacklogOfOrgan
  <2>3. later < nextId
    BY <2>1 DEF HeldIsSent
  <2>4. sent[later].target \in Organs /\ sent'[later] = sent[later]
    <3>1. sent \in Seq(Sent) /\ later \in 1..Len(sent)
      BY <1>0, <2>3 DEF TypeOK, Sent, Messages
    <3>2. sent[later] \in Sent
      BY <3>1
    <3> QED
      BY <1>0, <2>3, <3>2, SentStays DEF Sent
  <2>5. task.socket \in OpenClients(sent[later].target)
    BY <1>7, <2>1, <2>2 DEF OpenClients, ClientsNamed
  <2>6. m \in Left
    BY <1>3, <1>5, <2>4, <2>5
  <2> QED
    BY <1>0, <1>7, <2>6 DEF IsOldest
<1> QED
  <2>1. UNCHANGED pushes \/ \E n \in Messages : WritesOnly(n) /\ n # later
    BY <1>6, <1>7, PushSteps
  <2> QED
    BY <1>0, <1>4, <2>1 DEF WritesOnly

\* The backlog's message that was written, and is not marked yet.
BeingMarked(m) == task.kind = "mark" /\ IsOldest(m, Left)

\* Only a crash makes a message that was written wait again.
WaitsAgainByCrash ==
  \A m \in Messages :
    /\ pushes[m] <= restarts + 1
    /\ Waits(m) /\ ~BeingMarked(m) => pushes[m] <= restarts

LEMMA NextWaitsAgainByCrash ==
  ASSUME WaitingInv, WaitsAgainByCrash, [Next]_vars
  PROVE  WaitsAgainByCrash'
<1> USE DEF WaitingInv, NumberInv
<1> SUFFICES ASSUME NEW m \in Messages
             PROVE  /\ pushes'[m] <= restarts' + 1
                    /\ Waits(m)' /\ ~BeingMarked(m)' => pushes'[m] <= restarts'
  BY DEF WaitsAgainByCrash
<1>1. /\ nextId \in Nat /\ Messages \subseteq Nat /\ TypeOK
      /\ pushes \in [Messages -> Nat] /\ restarts \in Nat
  BY BoundsAssumption DEF BoundsAssumption, TypeInv, TypeOK, Messages
<1>2. CASE Restart
  <2>1. pushes' = pushes /\ restarts' = restarts + 1
    BY <1>2 DEF Restart, history
  <2> QED
    BY <1>1, <2>1 DEF WaitsAgainByCrash
<1>3. CASE ~Restart
  <2>1. restarts' = restarts
    BY <1>3, Writers
  <2>2. CASE WritesOnly(m) /\ RoutesTo(m)
    <3>1. pushes[m] = 0 /\ pushes'[m] = 1
      BY <1>1, <2>2 DEF WritesOnly, RoutesTo, HeldIsSent
    <3>2. ~Waits(m)
      BY <1>1, <2>2 DEF Waits, RoutesTo, HeldIsSent, RowsAgree
    <3>3. ~Persist
      BY <2>2 DEF RoutesTo, Persist, Store, LeaveAudit, Idle
    <3> QED
      BY <1>1, <2>1, <3>1, <3>2, <3>3, WaitsSteps
  <2>3. CASE /\ WritesOnly(m) /\ BacklogSend /\ IsOldest(m, Left)
             /\ task \in Backlog /\ task' = [task EXCEPT !.kind = "mark"]
    <3>1. ~BeingMarked(m) /\ Waits(m)
      BY <2>3 DEF BacklogSend, BeingMarked, Waits, IsOldest
    <3>2. pushes'[m] = pushes[m] + 1 /\ pushes[m] <= restarts
      BY <1>1, <2>3, <3>1 DEF WritesOnly, WaitsAgainByCrash
    <3>3. BeingMarked(m)'
      BY <2>3 DEF BeingMarked, Left, BusyBacklog, Backlog, BacklogSend, IsOldest
    <3> QED
      BY <1>1, <2>1, <3>2, <3>3
  <2>4. CASE pushes'[m] = pushes[m]
    <3> SUFFICES ASSUME Waits(m)', ~BeingMarked(m)'
                 PROVE  pushes[m] <= restarts
      BY <2>1, <2>4 DEF WaitsAgainByCrash
    <3>1. CASE Persist /\ m = task.id /\ ~task.connected
      BY <1>1, <3>1 DEF RoutePushed, Persist, Store, LeaveAudit
    <3>2. CASE Waits(m) /\ ~BeingMarked(m)
      BY <3>2 DEF WaitsAgainByCrash
    <3>3. CASE BeingMarked(m)
      <4>1. task.kind = "mark" /\ BusyBacklog /\ IsOldest(m, Left)
        BY <3>3 DEF BeingMarked, BusyBacklog
      <4>2. ~BacklogMark /\ ~BacklogDone
        BY <4>1, WaitsSteps DEF BacklogDone
      <4>3. BusyBacklog'
        BY <1>3, <4>1, <4>2, BacklogEnds
      <4>4. UNCHANGED task
        BY <4>1, <4>2, <4>3, BacklogSteps DEF BacklogSend, Idle
      <4> QED
        BY <3>3, <4>4 DEF BeingMarked, Left, BusyBacklog, IsOldest
    <3> QED
      BY <3>1, <3>2, <3>3, WaitsSteps
  <2>5. \/ pushes'[m] = pushes[m]
        \/ WritesOnly(m) /\ RoutesTo(m)
        \/ /\ WritesOnly(m) /\ BacklogSend /\ IsOldest(m, Left)
           /\ task \in Backlog /\ task' = [task EXCEPT !.kind = "mark"]
    <3>1. \A n \in Messages : WritesOnly(n) /\ n # m => pushes'[m] = pushes[m]
      BY <1>1 DEF WritesOnly
    <3> QED
      BY <3>1, PushSteps
  <2> QED
    BY <2>2, <2>3, <2>4, <2>5
<1> QED
  BY <1>2, <1>3

OrderInv == WaitingInv /\ WaitsInOrder /\ WaitsAgainByCrash

LEMMA OrderInvariant == Spec => []OrderInv
<1>1. Init => OrderInv
  <2> SUFFICES ASSUME Init PROVE OrderInv
    OBVIOUS
  <2>1. WaitsInOrder /\ WaitsAgainByCrash
    BY DEF Init, WaitsInOrder, WaitsAgainByCrash
  <2> QED
    BY <2>1, InitWaiting DEF OrderInv
<1>2. OrderInv /\ [Next]_vars => OrderInv'
  BY NumberStep, NextRoutePushed, NextClientsNamed, NextBacklogOfOrgan,
     NextWaitingIsBacklog, NextWaitsInOrder, NextWaitsAgainByCrash
     DEF OrderInv, WaitingInv
<1> QED
  BY <1>1, <1>2, PTL DEF Spec

\* No message is pushed more often than the process was restarted, and once
\* (handler.js 497-527: written first, marked as delivered then).
THEOREM PushedAgainByCrash == Spec => []RepeatedByCrashOnly
<1>1. OrderInv => RepeatedByCrashOnly
  BY BoundsAssumption
     DEF BoundsAssumption, OrderInv, WaitingInv, NumberInv, TypeInv, TypeOK,
         WaitsAgainByCrash, RepeatedByCrashOnly
<1> QED
  BY <1>1, OrderInvariant, PTL

\* Over all connections of an organ and all restarts of the process, nothing is
\* pushed to an organ after a message that was posted later (handler.js:501,
\* "Messages are delivered in FIFO order").
THEOREM PushesAreInOrder == Spec => PushedInOrder
<1>1. OrderInv /\ [Next]_vars =>
        [\A m, later \in DOMAIN sent :
           /\ later > m /\ sent[later].target = sent[m].target
           /\ pushes'[m] > pushes[m]
           => pushes[later] = 0]_vars
  <2> SUFFICES ASSUME OrderInv, [Next]_vars,
                      NEW m \in DOMAIN sent, NEW later \in DOMAIN sent,
                      later > m, sent[later].target = sent[m].target,
                      pushes'[m] > pushes[m]
               PROVE  pushes[later] = 0
    OBVIOUS
  <2> USE DEF OrderInv, WaitingInv, NumberInv
  <2>1. /\ nextId \in Nat /\ Messages \subseteq Nat
        /\ pushes \in [Messages -> Nat]
        /\ m \in Messages /\ later \in Messages
        /\ m < nextId /\ later < nextId
    <3>1. /\ pushes \in [Messages -> Nat] /\ Messages \subseteq Nat
          /\ nextId \in Nat
      BY DEF TypeInv, TypeOK, Messages
    <3>2. \A n \in DOMAIN sent : n \in Messages /\ n < nextId
      BY SentIsNumbered DEF TypeInv
    <3> QED
      BY <3>1, <3>2
  <2>2. PICK n \in Messages : WritesOnly(n) /\ (RoutesTo(n) \/ IsOldest(n, Left))
    BY <2>1, PushSteps
  <2>3. n = m
    BY <2>1, <2>2 DEF WritesOnly
  <2>4. Waits(m)
    BY <2>1, <2>2, <2>3 DEF RoutesTo, IsOldest, Waits
  <2> QED
    BY <2>1, <2>4 DEF WaitsInOrder
<1> QED
  BY <1>1, OrderInvariant, PTL DEF Spec, PushedInOrder

-----------------------------------------------------------------------------
(* The audit trail.                                                         *)

\* What has no audit event, is not in progress and is not on its way there.
Missing == {m \in Messages : m < nextId} \ (audit \cup InProgress \cup ToSet(events))

AuditInv ==
  /\ NumberInv
  /\ Cardinality(Missing \cap OfClients) <= restarts + failures
  /\ Missing # {} => restarts + failures + deaths > 0
  /\ accepted \subseteq audit

\* A message in progress stays so until it is stored and audited.
LEMMA InProgressGoesOn ==
  ASSUME TypeInv, [Next]_vars, task.kind \in {"route", "audit"}
  PROVE  Persist \/ PostAudit \/ StatementFails \/ Restart \/ UNCHANGED task
<1>1. task # Idle
  BY DEF Idle
<1>2. ~\/ PostDepth \/ PostSignal \/ PostRespond
       \/ BacklogSend \/ BacklogMark \/ BacklogDone
  BY DEF PostDepth, PostSignal, PostRespond, BacklogSend, BacklogMark,
         BacklogDone
<1>3. /\ ~\E o \in Organs \cup {NoOrgan}, type \in Types, asked \in BOOLEAN :
             PostPush(o, type, asked)
      /\ ~\E human \in Principals : EmitPush(human)
  BY <1>1 DEF PostPush, EmitPush, MayRoute
<1>4. ~\E s \in Sockets : \/ Connect(s) \/ \E o \in Organs : Register(s, o)
                          \/ PeerCloses(s) \/ Disconnect(s)
  BY <1>1 DEF Connect, Register, PeerCloses, Disconnect
<1>5. CASE \/ \E o \in Organs : Drain(o)
           \/ \E ids \in SUBSET Messages : Ack(ids)
           \/ ExpireMessages \/ WorkerPersistEvent \/ WorkerDies
           \/ \E s \in Sockets : Receive(s) \/ Cut(s)
           \/ UNCHANGED vars
  BY <1>5 DEF Drain, Ack, ExpireMessages, WorkerPersistEvent, WorkerDies,
              Receive, Cut, vars, main
<1> QED
  BY <1>2, <1>3, <1>4, <1>5 DEF Next

\* The audit event of an emitted message is refused.
QueueFull == Persist /\ task.by = "spine" /\ failures' = failures + 1

\* Only a fault makes a message be missing from the audit trail.
LEMMA MissingSteps ==
  ASSUME NumberInv, [Next]_vars, NEW m \in Missing', m \notin Missing
  PROVE  /\ StatementFails \/ Restart \/ WorkerDies \/ QueueFull
         /\ m \in InProgress \/ m \in ToSet(events)
         /\ WorkerDies => m \in ToSet(events)
<1> USE DEF NumberInv
<1>1. /\ nextId \in Nat /\ Messages \subseteq Nat /\ TypeOK
      /\ events \in Seq(Messages)
  BY DEF TypeInv, TypeOK, Messages
<1>2. /\ m \in Messages /\ m < nextId'
      /\ m \notin audit' /\ m \notin InProgress' /\ m \notin ToSet(events')
  BY DEF Missing
<1>3. m < nextId
  <2>1. UNCHANGED nextId \/ (BusyPosting' /\ task'.kind = "route"
                               /\ task'.id = nextId /\ nextId' = nextId + 1)
    <3>1. \A target \in Organs, type \in Types \cup {"HOM"}, ttl \in BOOLEAN,
             by \in Origins :
            StartRoute(target, type, ttl, by) =>
              BusyPosting' /\ task'.kind = "route" /\ task'.id = nextId
                /\ nextId' = nextId + 1
      BY DEF StartRoute, BusyPosting
    <3>2. ASSUME NEW o \in Organs \cup {NoOrgan}, NEW type \in Types,
                 NEW asked \in BOOLEAN, PostPush(o, type, asked)
          PROVE  BusyPosting' /\ task'.kind = "route" /\ task'.id = nextId
                   /\ nextId' = nextId + 1
      BY <3>1, <3>2 DEF PostPush, MayRoute, HasTtl, Origins
    <3>3. ASSUME NEW human \in Principals, EmitPush(human)
          PROVE  BusyPosting' /\ task'.kind = "route" /\ task'.id = nextId
                   /\ nextId' = nextId + 1
      BY <3>1, <3>3, OrgansAssumption
         DEF EmitPush, MayRoute, Origins, OrgansAssumption
    <3>4. CASE \/ Persist \/ PostAudit \/ PostDepth \/ PostSignal \/ PostRespond
               \/ BacklogSend \/ BacklogMark \/ BacklogDone
               \/ \E s \in Sockets :
                    \/ Connect(s) \/ \E o \in Organs : Register(s, o)
                    \/ PeerCloses(s) \/ Disconnect(s) \/ Receive(s) \/ Cut(s)
      BY <3>4 DEF Persist, Store, LeaveAudit, PostAudit, PostDepth, PostSignal,
                  PostRespond, BacklogSend, BacklogMark, BacklogDone, Connect,
                  Register, PeerCloses, Disconnect, Receive, Cut, main
    <3>5. CASE \/ \E o \in Organs : Drain(o)
               \/ \E ids \in SUBSET Messages : Ack(ids)
               \/ ExpireMessages \/ WorkerPersistEvent \/ WorkerDies
               \/ StatementFails \/ Restart \/ UNCHANGED vars
      BY <3>5 DEF Drain, Ack, ExpireMessages, WorkerPersistEvent, WorkerDies,
                  StatementFails, InsertFails, EventFails, Restart, vars, main
    <3> QED
      BY <3>2, <3>3, <3>4, <3>5 DEF Next
  <2> QED
    BY <1>1, <1>2, <2>1 DEF InProgress
<1>4. m \notin audit
  BY <1>2, Writers DEF PostAudit, WorkerPersistEvent
<1>5. m \in InProgress \/ m \in ToSet(events)
  BY <1>2, <1>3, <1>4 DEF Missing
<1>6. events # <<>> => ToSet(events) = {Head(events)} \cup ToSet(Tail(events))
  BY <1>1, SetOfSeq
<1>7. ASSUME Persist, ~QueueFull
      PROVE  task.by = "spine" => ToSet(events') = ToSet(events) \cup {task.id}
  <2>1. task.id \in Messages
    BY <1>7, InProgressIsSent DEF Persist, Store, LeaveAudit, BusyPosting
  <2>2. ToSet(Append(events, task.id)) = ToSet(events) \cup {task.id}
    BY <1>1, <2>1, SetOfSeq
  <2>3. task.by = "spine" => events' = Append(events, task.id)
    BY <1>7 DEF QueueFull, Persist, LeaveAudit
  <2> QED
    BY <2>2, <2>3
<1>8. m \in InProgress => StatementFails \/ Restart \/ QueueFull
  <2> SUFFICES ASSUME m \in InProgress, ~StatementFails, ~Restart, ~QueueFull
               PROVE  FALSE
    OBVIOUS
  <2>1. /\ task.kind \in {"route", "audit"} /\ m = task.id /\ BusyPosting
        /\ task \in Posting
    BY <1>1, TaskKinds DEF InProgress, BusyPosting
  <2>2. CASE Persist
    <3>1. CASE task.by = "spine"
      BY <1>2, <1>7, <2>1, <2>2, <3>1
    <3>2. CASE task.by # "spine"
      <4>1. task' = [task EXCEPT !.kind = "audit"]
        BY <2>2, <3>2 DEF Persist, Store, LeaveAudit
      <4> QED
        BY <1>2, <2>1, <4>1 DEF InProgress, Posting
    <3> QED
      BY <3>1, <3>2
  <2>3. CASE PostAudit
    BY <1>2, <2>1, <2>3 DEF PostAudit
  <2>4. CASE UNCHANGED task
    BY <1>2, <2>1, <2>4 DEF InProgress
  <2> QED
    BY <2>1, <2>2, <2>3, <2>4, InProgressGoesOn
<1>9. m \in ToSet(events) =>
        StatementFails \/ Restart \/ WorkerDies \/ QueueFull
  <2> SUFFICES ASSUME m \in ToSet(events), ~StatementFails, ~Restart,
                      ~WorkerDies, ~QueueFull
               PROVE  FALSE
    OBVIOUS
  <2>1. CASE Persist
    BY <1>2, <1>7, <2>1 DEF Persist, Store, LeaveAudit
  <2>2. CASE WorkerPersistEvent
    BY <1>2, <1>6, <2>2 DEF WorkerPersistEvent
  <2> QED
    BY <1>2, <2>1, <2>2, Writers
<1>10. WorkerDies => UNCHANGED task
  BY DEF WorkerDies, main
<1>11. WorkerDies /\ m \in InProgress => FALSE
  BY <1>2, <1>10 DEF InProgress
<1> QED
  BY <1>5, <1>8, <1>9, <1>11

LEMMA NoMore ==
  \A c, d, f, g, r, t \in Nat :
    d <= c /\ c <= r + f /\ t + g >= r + f => d <= t + g
OBVIOUS

LEMMA NextAudit ==
  ASSUME AuditInv, [Next]_vars
  PROVE  AuditInv'
<1> USE DEF AuditInv
<1>0. /\ TypeInv /\ nextId \in Nat /\ Messages \subseteq Nat
      /\ restarts \in Nat /\ failures \in Nat /\ deaths \in Nat
      /\ MaxMessages \in Nat
  BY BoundsAssumption
     DEF NumberInv, TypeInv, TypeOK, Messages, BoundsAssumption
<1>1. NumberInv'
  BY NumberStep
<1>2. \/ StatementFails /\ failures' = failures + 1 /\ restarts' = restarts
           /\ deaths' = deaths
      \/ Restart /\ restarts' = restarts + 1 /\ failures' = failures
           /\ deaths' = deaths
      \/ WorkerDies /\ deaths' = deaths + 1 /\ UNCHANGED <<failures, restarts>>
      \/ QueueFull /\ failures' = failures + 1 /\ restarts' = restarts
           /\ deaths' = deaths
      \/ /\ ~StatementFails /\ ~Restart /\ ~WorkerDies /\ ~QueueFull
         /\ UNCHANGED <<deaths, failures, restarts>>
  <2>1. CASE StatementFails \/ Restart \/ WorkerDies
    BY <2>1 DEF StatementFails, InsertFails, EventFails, Restart, WorkerDies
  <2>2. CASE QueueFull
    BY <2>2 DEF QueueFull, Persist
  <2>3. CASE ~StatementFails /\ ~Restart /\ ~WorkerDies /\ ~QueueFull
    <3>1. UNCHANGED <<deaths, restarts>>
      BY <2>3, Writers
    <3>2. UNCHANGED failures
      BY <2>3, Writers DEF QueueFull, Persist, LeaveAudit
    <3> QED
      BY <2>3, <3>1, <3>2
  <2> QED
    BY <2>1, <2>2, <2>3
<1>3. Missing' # {} => restarts' + failures' + deaths' > 0
  <2>1. CASE Missing' \subseteq Missing
    BY <1>0, <1>2, <2>1
  <2>2. CASE ~(Missing' \subseteq Missing)
    <3>1. StatementFails \/ Restart \/ WorkerDies \/ QueueFull
      BY <2>2, MissingSteps
    <3> QED
      BY <1>0, <1>2, <3>1
  <2> QED
    BY <2>1, <2>2
<1>4. accepted' \subseteq audit'
  <2>1. audit \subseteq audit'
    BY Writers DEF PostAudit, WorkerPersistEvent
  <2>2. PostRespond => accepted' = accepted \cup {task.id} /\ task.id \in audit
    BY <1>0 DEF PostRespond, TypeInv, AuditedFirst
  <2> QED
    BY <2>1, <2>2, Writers
<1>5. Cardinality((Missing \cap OfClients)') <= restarts' + failures'
  <2>1. IsFiniteSet(Missing \cap OfClients)
    <3>1. IsFiniteSet(Messages)
      BY <1>0, FS_Interval DEF Messages
    <3> QED
      BY <3>1, FS_Subset DEF Missing
  <2>2. \A m \in Missing' \cap OfClients' :
          \/ m \in Missing \cap OfClients
          \/ (StatementFails \/ Restart) /\ m \in InProgress
    <3> SUFFICES ASSUME NEW m \in Missing' \cap OfClients'
                 PROVE  \/ m \in Missing \cap OfClients
                        \/ (StatementFails \/ Restart) /\ m \in InProgress
      OBVIOUS
    <3>1. m \in Missing \/ m \in InProgress \/ m \in ToSet(events)
      BY MissingSteps
    <3>2. m < nextId /\ m \in Messages
      <4>1. m \in InProgress => m < nextId
        BY InProgressIsSent DEF InProgress, BusyPosting
      <4>2. m \in ToSet(events) => m < nextId
        BY DEF NumberInv, HeldIsSent
      <4> QED
        BY <3>1, <4>1, <4>2 DEF Missing
    <3>3. sent'[m].by = "client"
      BY DEF OfClients
    <3>4. sent[m].by = "client"
      BY <3>2, <3>3, SentStays DEF NumberInv, TypeInv
    <3>5. m \in OfClients
      BY <3>2, <3>4, SentIsNumbered DEF OfClients, NumberInv, TypeInv
    <3>6. m \notin ToSet(events)
      BY <3>4 DEF NumberInv, HeldIsSent
    <3>7. CASE m \in InProgress
      <4>1. task.kind \in {"route", "audit"} /\ m = task.id /\ BusyPosting
        BY <3>7 DEF InProgress, BusyPosting
      <4>2. task.by = "client"
        BY <3>4, <4>1 DEF NumberInv, NewestInProgress
      <4> QED
        BY <3>5, <3>6, <4>2, MissingSteps DEF QueueFull
    <3> QED
      BY <3>5, <3>6, <3>7, MissingSteps
  <2>3. CASE ~StatementFails /\ ~Restart
    <3>1. Missing' \cap OfClients' \subseteq Missing \cap OfClients
      BY <2>2, <2>3
    <3>2. Cardinality(Missing' \cap OfClients') <= Cardinality(Missing \cap OfClients)
      BY <2>1, <3>1, FS_Subset
    <3>3. /\ Cardinality(Missing' \cap OfClients') \in Nat
          /\ Cardinality(Missing \cap OfClients) \in Nat
      BY <2>1, <3>1, FS_Subset, FS_CardinalityType
    <3>4. restarts' + failures' >= restarts + failures
      BY <1>0, <1>2, <2>3
    <3>5. /\ restarts \in Nat /\ failures \in Nat
          /\ restarts' \in Nat /\ failures' \in Nat
      BY <1>0, <1>1 DEF NumberInv, TypeInv, TypeOK
    <3>6. Cardinality(Missing \cap OfClients) <= restarts + failures
      OBVIOUS
    <3> QED
      BY <3>2, <3>3, <3>4, <3>5, <3>6, NoMore
  <2>4. CASE StatementFails \/ Restart
    <3> DEFINE more == (Missing \cap OfClients) \cup {task.id}
    <3>1. Missing' \cap OfClients' \subseteq more
      BY <2>2 DEF InProgress
    <3>2. /\ IsFiniteSet(more)
          /\ Cardinality(more) \in Nat /\ Cardinality(Missing \cap OfClients) \in Nat
          /\ Cardinality(more) <= Cardinality(Missing \cap OfClients) + 1
      <4>1. /\ IsFiniteSet(more)
            /\ Cardinality(more) = IF task.id \in Missing \cap OfClients
                                   THEN Cardinality(Missing \cap OfClients)
                                   ELSE Cardinality(Missing \cap OfClients) + 1
        BY <2>1, FS_AddElement
      <4>2. Cardinality(Missing \cap OfClients) \in Nat
        BY <2>1, FS_CardinalityType
      <4> HIDE DEF more
      <4> QED
        BY <4>1, <4>2
    <3> HIDE DEF more
    <3>3. /\ Cardinality(Missing' \cap OfClients') <= Cardinality(more)
          /\ Cardinality(Missing' \cap OfClients') \in Nat
      BY <3>1, <3>2, FS_Subset, FS_CardinalityType
    <3>4. restarts' + failures' = restarts + failures + 1
      BY <1>0, <2>4 DEF StatementFails, InsertFails, EventFails, Restart
    <3> QED
      BY <1>0, <3>2, <3>3, <3>4
  <2> QED
    BY <2>3, <2>4
<1> QED
  BY <1>1, <1>3, <1>4, <1>5

\* A message that was stored or written and has no audit event, is not in
\* progress and has none on its way, is missing because of a fault: one message
\* of a client for each crash and each statement that fails, and those of the
\* spine that die with the worker or are refused; and no sender was told that
\* one is accepted that has no audit event (messages.js 89-134, index.js 93-127).
THEOREM AuditGapsHaveFaults == Spec => []AuditGapsByFaultOnly
<1>1. Init => AuditInv
  <2> SUFFICES ASSUME Init PROVE AuditInv
    OBVIOUS
  <2>1. Missing = {}
    BY DEF Init, Missing, Messages
  <2>2. Cardinality(Missing \cap OfClients) = 0
    BY <2>1, FS_EmptySet
  <2> QED
    BY <2>1, <2>2, InitNumber DEF Init, AuditInv
<1>2. AuditInv /\ [Next]_vars => AuditInv'
  BY NextAudit
<1>3. AuditInv => AuditGapsByFaultOnly
  <2> SUFFICES ASSUME AuditInv PROVE AuditGapsByFaultOnly
    OBVIOUS
  <2>1. /\ TypeOK /\ pushes \in [Messages -> Nat] /\ nextId \in Nat
        /\ Messages \subseteq Nat
        /\ restarts \in Nat /\ failures \in Nat /\ MaxMessages \in Nat
    BY BoundsAssumption
       DEF AuditInv, NumberInv, TypeInv, TypeOK, Messages, BoundsAssumption
  <2>2. Unaudited \subseteq Missing
    <3> SUFFICES ASSUME NEW m \in Messages, pushes[m] > 0 \/ Row(m) # {}
                 PROVE  m < nextId
      BY DEF Unaudited, Missing
    <3>1. Row(m) # {} => m < nextId
      BY DEF Row, AuditInv, NumberInv, RowsAgree
    <3>2. m >= nextId => pushes[m] = 0
      BY DEF AuditInv, NumberInv, HeldIsSent
    <3> QED
      BY <2>1, <3>1, <3>2
  <2>3. IsFiniteSet(Missing \cap OfClients)
    <3>1. IsFiniteSet(Messages)
      BY <2>1, FS_Interval DEF Messages
    <3> QED
      BY <3>1, FS_Subset DEF Missing
  <2>4. /\ Cardinality(Unaudited \cap OfClients) <= Cardinality(Missing \cap OfClients)
        /\ Cardinality(Unaudited \cap OfClients) \in Nat
        /\ Cardinality(Missing \cap OfClients) \in Nat
    <3>1. Unaudited \cap OfClients \subseteq Missing \cap OfClients
      BY <2>2
    <3> QED
      BY <2>3, <3>1, FS_Subset, FS_CardinalityType
  <2> QED
    BY <2>1, <2>2, <2>4 DEF AuditInv, AuditGapsByFaultOnly
<1> QED
  BY <1>1, <1>2, <1>3, PTL DEF Spec

-----------------------------------------------------------------------------
(* The pressure signal.                                                     *)

\* Messages whose sender has been, or is going to be, answered without more.
Decided == accepted \cup (IF task.kind = "respond" THEN {task.id} ELSE {})

SignalledWhenDeep ==
  \A m \in Decided : m \in signals \/ Cardinality(Before(m)) <= Threshold

\* A signal is given for an organ that has no open connection.
SignalMeansAbsent == task.kind = "signal" => OpenClients(task.target) = {}

PressureInv == WaitingInv /\ SignalledWhenDeep /\ SignalMeansAbsent

\* A mailbox holds finitely many rows, one for a message at most.
LEMMA RowsAreFinite ==
  ASSUME NumberInv
  PROVE  /\ IsFiniteSet(rows)
         /\ \A some \in SUBSET rows :
              IsFiniteSet(some) /\ Cardinality(some) \in Nat
<1>1. IsFiniteSet(Messages)
  <2>1. MaxMessages \in Nat
    BY BoundsAssumption DEF BoundsAssumption
  <2> QED
    BY <2>1, FS_Interval DEF Messages
<1>2. [r \in rows |-> r.id] \in Injection(rows, Messages)
  BY DEF Injection, IsInjective, NumberInv, RowsAgree, TypeInv, TypeOK, Rows
<1>3. IsFiniteSet(rows)
  BY <1>1, <1>2, FS_Injection
<1> QED
  BY <1>3, FS_Subset, FS_CardinalityType

\* No row comes before a message that is decided upon: those that wait are
\* fewer and fewer.
LEMMA BeforeShrinks ==
  ASSUME NumberInv, [Next]_vars, NEW m \in Messages, m < nextId,
         Persist => m # task.id
  PROVE  Before(m)' \subseteq Before(m)
<1> USE DEF NumberInv
<1>1. sent'[m] = sent[m]
  BY SentStays DEF TypeInv
<1> SUFFICES ASSUME NEW r \in rows', r.target = sent[m].target, ~r.delivered,
                    r.id <= m
             PROVE  r \in rows
  BY <1>1 DEF Before
<1>2. rows' \subseteq Rows /\ rows \subseteq Rows
  BY NextTypes DEF TypeInv, TypeOK
<1>3. CASE Persist
  <2>1. /\ BusyPosting /\ nextId \in Nat /\ Messages \subseteq Nat
    BY <1>3 DEF Persist, Store, LeaveAudit, BusyPosting, TypeInv, TypeOK,
                Messages
  <2>2. m < task.id /\ task.id \in Messages
    BY <1>3, <2>1, InProgressIsSent DEF NewestInProgress
  <2> QED
    BY <1>3, <2>1, <2>2 DEF Persist, Store, LeaveAudit
<1>4. CASE ~Persist
  <2>1. PICK old \in rows :
          /\ r.id = old.id /\ r.target = old.target /\ r.ttl = old.ttl
          /\ old.delivered => r.delivered
    BY <1>4, RowSteps
  <2>2. /\ r = [id |-> r.id, target |-> r.target, ttl |-> r.ttl,
                delivered |-> r.delivered]
        /\ old = [id |-> old.id, target |-> old.target, ttl |-> old.ttl,
                  delivered |-> old.delivered]
        /\ r.delivered \in BOOLEAN /\ old.delivered \in BOOLEAN
    BY <1>2 DEF Rows
  <2>3. r.delivered = FALSE /\ old.delivered = FALSE
    BY <2>1, <2>2
  <2> QED
    BY <2>1, <2>2, <2>3
<1> QED
  BY <1>3, <1>4

LEMMA NextSignalledWhenDeep ==
  ASSUME PressureInv, [Next]_vars
  PROVE  SignalledWhenDeep'
<1> USE DEF PressureInv, WaitingInv
<1>a. NumberInv'
  BY NumberStep
<1>b. TypeInv
  BY DEF NumberInv
<1>0. /\ NumberInv' /\ TypeInv /\ Threshold \in Nat
      /\ nextId \in Nat /\ Messages \subseteq Nat
  <2>1. Threshold \in Nat /\ MaxMessages \in Nat
    BY BoundsAssumption
  <2>2. nextId \in 1..MaxMessages + 1
    BY <1>b DEF TypeInv, TypeOK
  <2>3. Messages \subseteq Nat
    BY <2>1 DEF Messages
  <2> QED
    BY <1>a, <1>b, <2>1, <2>2, <2>3
<1> SUFFICES ASSUME NEW m \in Decided'
             PROVE  m \in signals' \/ Cardinality(Before(m)') <= Threshold
  BY DEF SignalledWhenDeep
<1>1. signals \subseteq signals'
  BY Writers DEF PostSignal
<1>2. \/ m \in Decided
      \/ PostDepth /\ task'.kind = "respond" /\ m = task'.id /\ BusyPosting'
      \/ PostSignal /\ m = task.id
  <2>1. CASE m \in accepted'
    <3>1. m \in accepted \/ (PostRespond /\ m = task.id)
      BY <2>1, Writers DEF PostRespond
    <3> QED
      BY <3>1 DEF PostRespond, Decided
  <2>2. CASE task'.kind = "respond" /\ m = task'.id
    <3>1. BusyPosting' /\ task'.kind # "route" /\ task'.kind # "audit"
              /\ task'.kind # "depth"
      BY <2>2 DEF BusyPosting
    <3>2. \/ UNCHANGED task
          \/ PostDepth
          \/ PostSignal /\ task'.id = task.id
      BY <2>2, <3>1, PostingSteps DEF NumberInv
    <3> QED
      BY <2>2, <3>1, <3>2 DEF Decided
  <2> QED
    BY <2>1, <2>2 DEF Decided
<1>3. CASE m \in Decided
  <2>1. m \in Messages /\ m < nextId /\ (Persist => m # task.id)
    <3>1. CASE m \in accepted
      BY <1>0, <3>1 DEF NumberInv, HeldIsSent, NewestInProgress, BusyPosting,
                        Persist, Store, LeaveAudit, TypeInv, TypeOK
    <3>2. CASE task.kind = "respond" /\ m = task.id
      BY <3>2, InProgressIsSent DEF BusyPosting, Persist, Store, LeaveAudit
    <3> QED
      BY <1>3, <3>1, <3>2 DEF Decided
  <2>2. Before(m)' \subseteq Before(m)
    BY <2>1, BeforeShrinks
  <2>3. Before(m) \in SUBSET rows
    BY DEF Before
  <2>4. Cardinality(Before(m)') <= Cardinality(Before(m))
    BY <2>2, <2>3, RowsAreFinite, FS_Subset
  <2>5. Cardinality(Before(m)') \in Nat /\ Cardinality(Before(m)) \in Nat
    <3>1. Before(m)' \in SUBSET rows
      BY <2>2, <2>3
    <3> QED
      BY <2>3, <3>1, RowsAreFinite
  <2> QED
    BY <1>0, <1>1, <1>3, <2>4, <2>5 DEF SignalledWhenDeep
<1>4. CASE PostDepth /\ task'.kind = "respond" /\ m = task'.id /\ BusyPosting'
  <2>1. /\ task.kind = "depth" /\ task \in Posting /\ BusyPosting
        /\ task.id = m /\ m \in Messages
    BY <1>0, <1>4, InProgressIsSent
       DEF PostDepth, BusyPosting, Posting
  <2>2. ~OverThreshold(Cardinality(Pending(task.target)))
    BY <1>4, <2>1 DEF PostDepth, Posting
  <2>3. UNCHANGED <<rows, sent>>
    BY <1>4 DEF PostDepth, db, history
  <2>4. Before(m)' = Before(m)
    BY <2>3 DEF Before
  <2>5. Before(m) \subseteq Pending(task.target) /\ Pending(task.target) \in SUBSET rows
    BY <2>1 DEF Before, Pending, NumberInv, NewestInProgress
  <2>6. Cardinality(Before(m)) <= Cardinality(Pending(task.target))
    BY <2>5, RowsAreFinite, FS_Subset
  <2>7. Cardinality(Before(m)) \in Nat /\ Cardinality(Pending(task.target)) \in Nat
    <3>1. Before(m) \in SUBSET rows
      BY <2>5
    <3> QED
      BY <2>5, <3>1, RowsAreFinite
  <2> QED
    BY <1>0, <2>2, <2>4, <2>6, <2>7 DEF OverThreshold
<1>5. CASE PostSignal /\ m = task.id
  BY <1>5 DEF PostSignal
<1> QED
  BY <1>2, <1>3, <1>4, <1>5

\* A mailbox over the threshold is not empty.
LEMMA DeepIsPending ==
  ASSUME NumberInv, NEW o, OverThreshold(Cardinality(Pending(o)))
  PROVE  Pending(o) # {}
<1>1. Threshold \in Nat
  BY BoundsAssumption DEF BoundsAssumption
<1>2. Cardinality({}) = 0
  BY FS_EmptySet
<1> QED
  BY <1>1, <1>2 DEF OverThreshold

LEMMA NextSignalMeansAbsent ==
  ASSUME PressureInv, [Next]_vars
  PROVE  SignalMeansAbsent'
<1> USE DEF PressureInv, WaitingInv
<1> SUFFICES ASSUME task'.kind = "signal"
             PROVE  OpenClients(task.target)' = {}
  BY DEF SignalMeansAbsent
<1>1. BusyPosting' /\ TypeInv
  BY DEF BusyPosting, NumberInv
<1>2. \/ BusyPosting /\ UNCHANGED task
      \/ BusyPosting /\ PostDepth /\ task'.target = task.target
  BY <1>1, PostingSteps DEF NumberInv
<1>3. CASE BusyPosting /\ UNCHANGED task
  <2>1. task # Idle /\ task' # Idle
    BY <1>3 DEF BusyPosting, Idle
  <2>2. UNCHANGED sockets
    BY <2>1, Writers DEF Connect, Register, PeerCloses, Disconnect, Restart
  <2> QED
    BY <1>3, <2>2 DEF SignalMeansAbsent, OpenClients, sockets
<1>4. CASE BusyPosting /\ PostDepth /\ task'.target = task.target
  <2>1. /\ task.kind = "depth" /\ task \in Posting /\ ~BusyBacklog
        /\ task.target \in Organs
    BY <1>1, <1>4, TaskKinds DEF PostDepth, Posting, TypeInv
  <2>2. OverThreshold(Cardinality(Pending(task.target)))
    BY <1>4, <2>1 DEF PostDepth, Posting
  <2>3. OpenClients(task.target) = {}
    BY <2>1, <2>2, DeepIsPending DEF WaitingIsBacklog
  <2> QED
    BY <1>4, <2>3 DEF PostDepth, OpenClients, sockets
<1> QED
  BY <1>2, <1>3, <1>4

LEMMA PressureInvariant == Spec => []PressureInv
<1>1. Init => PressureInv
  <2> SUFFICES ASSUME Init PROVE PressureInv
    OBVIOUS
  <2>1. SignalledWhenDeep /\ SignalMeansAbsent
    BY DEF Init, SignalledWhenDeep, SignalMeansAbsent, Decided, Idle
  <2> QED
    BY <2>1, InitWaiting DEF PressureInv
<1>2. PressureInv /\ [Next]_vars => PressureInv'
  BY NumberStep, NextRoutePushed, NextClientsNamed, NextBacklogOfOrgan,
     NextWaitingIsBacklog, NextSignalledWhenDeep, NextSignalMeansAbsent
     DEF PressureInv, WaitingInv
<1> QED
  BY <1>1, <1>2, PTL DEF Spec

\* Whatever is swept, acknowledged, drained or pushed meanwhile: no accepted
\* message waits behind more than the threshold without the signal having been
\* given for it (messages.js 101-125).
THEOREM DeepMailboxIsSignalled == Spec => []PressureIsSignalled
<1>1. PressureInv => PressureIsSignalled
  <2> SUFFICES ASSUME PressureInv, NEW m \in accepted,
                      Cardinality(Before(m)) > Threshold
               PROVE  m \in signals
    BY DEF PressureIsSignalled
  <2>1. Cardinality(Before(m)) \in Nat /\ Threshold \in Nat
    BY RowsAreFinite, BoundsAssumption
       DEF PressureInv, WaitingInv, Before, BoundsAssumption
  <2> QED
    BY <2>1 DEF PressureInv, SignalledWhenDeep, Decided
<1> QED
  BY <1>1, PressureInvariant, PTL

\* Pressure is a sign of an absent organ: a signal is given, and a mailbox is
\* over the threshold between two events, only when its organ has no open
\* connection (messages.js 101-125, health.js).
THEOREM PressureIsOfTheAbsent == Spec => []PressureMeansAbsent
<1>1. PressureInv => PressureMeansAbsent
  <2> SUFFICES ASSUME PressureInv PROVE PressureMeansAbsent
    OBVIOUS
  <2>1. task = Idle => \A o \in UnderPressure : OpenClients(o) = {}
    <3> SUFFICES ASSUME task = Idle, NEW o \in UnderPressure
                 PROVE  OpenClients(o) = {}
      OBVIOUS
    <3>1. o \in Organs /\ Pending(o) # {} /\ ~BusyBacklog
      BY DeepIsPending
         DEF UnderPressure, PressureInv, WaitingInv, BusyBacklog, Idle
    <3> QED
      BY <3>1 DEF PressureInv, WaitingInv, WaitingIsBacklog
  <2> QED
    BY <2>1 DEF PressureInv, SignalMeansAbsent, PressureMeansAbsent
<1> QED
  BY <1>1, PressureInvariant, PTL
=============================================================================
