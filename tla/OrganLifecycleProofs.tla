------------------------ MODULE OrganLifecycleProofs ------------------------
(***************************************************************************)
(* Proofs about the organ lifecycle, for any organs, sockets and bounds.   *)
(*                                                                         *)
(* The client map and the clocks of absence: WatchInv, with repeated       *)
(* registers, failures and restarts.                                       *)
(*                                                                         *)
(* What the sequences leave behind when they have all ended, for clients   *)
(* that register once and on an open socket, over failures and restarts: a *)
(* required organ that was lost is watched (AbsentWatched), and a lost     *)
(* organ's database says so (AbsentFollows).  The first follows the disconnect   *)
(* sequence of the organ's last socket from request to request to the      *)
(* timer it arms or the failure that cuts it short; the second is about    *)
(* the order of the requests in the two queues of the worker.              *)
(***************************************************************************)
EXTENDS OrganLifecycle, FiniteSetTheorems, TLAPS

-----------------------------------------------------------------------------
(* Types of the worker's two queues *)

\* The requests the handlers issue are well-formed.
LEMMA RequestsTyped ==
  ASSUME NEW o \in Organs, NEW ws \in Sockets
  PROVE  /\ ReadRequest("degraded", o, NoSocket) \in Requests
         /\ ReadRequest("recovered", o, NoSocket) \in Requests
         /\ ReadRequest("disconnect", o, ws) \in Requests
         /\ StatusRequest(o, ws) \in Requests
BY DEF ReadRequest, StatusRequest, Requests, RawRequests, States

LEMMA TransitionRequestsTyped ==
  ASSUME NEW o \in Organs, NEW ws \in Sockets,
         NEW from \in States, NEW to \in States
  PROVE  /\ TransitionRequest("degraded", o, NoSocket, from, to) \in Requests
         /\ TransitionRequest("recovered", o, NoSocket, from, to) \in Requests
         /\ TransitionRequest("disconnect", o, ws, from, to) \in Requests
BY DEF TransitionRequest, Requests, RawRequests

LEMMA HealthRequestsTyped ==
  ASSUME NEW due \in SUBSET Organs
  PROVE  /\ HealthRequest("sweep", due) \in Requests
         /\ HealthRequest("hom", due) \in Requests
BY DEF HealthRequest, Requests, RawRequests, States

\* Facts about queues.
LEMMA HeadTyped ==
  ASSUME NEW S, NEW q \in Seq(S), q # <<>>
  PROVE  Head(q) \in S /\ Tail(q) \in Seq(S)
OBVIOUS

LEMMA AppendTyped ==
  ASSUME NEW S, NEW q \in Seq(S), NEW x \in S
  PROVE  Append(q, x) \in Seq(S)
OBVIOUS

LEMMA ConcatTyped ==
  ASSUME NEW S, NEW q \in Seq(S), NEW p \in Seq(S)
  PROVE  q \o p \in Seq(S)
OBVIOUS

LEMMA SingletonTyped ==
  ASSUME NEW S, NEW x \in S
  PROVE  <<x>> \in Seq(S)
OBVIOUS

LEMMA EmptyTyped ==
  ASSUME NEW S
  PROVE  <<>> \in Seq(S)
OBVIOUS

\* The sockets whose disconnect sequence a failure can end.
LEMMA LosersTyped ==
  ASSUME NEW p \in Seq(Requests)
  PROVE  Losers(p) \subseteq Sockets
<1>1. \A i \in DOMAIN p : p[i] \in Requests
  OBVIOUS
<1>2. QED
  BY <1>1 DEF Losers, Requests

\* The reply at the head is well-formed.
LEMMA ReplyTyped ==
  ASSUME TypeOK, replies # <<>>
  PROVE  /\ Request \in Requests
         /\ Head(replies).state # "error" => Head(replies).state \in States
         /\ Tail(replies) \in Seq(Replies)
<1>1. Head(replies) \in Replies /\ Tail(replies) \in Seq(Replies)
  BY HeadTyped DEF TypeOK
<1>2. QED
  BY <1>1 DEF Request, Replies

\* Posting well-formed requests, or having them refused, keeps the state typed.
LEMMA PostTyped ==
  ASSUME TypeOK, NEW p \in Seq(Requests), Post(p)
  PROVE  /\ queue' \in Seq(Requests)
         /\ cutShort' \subseteq Sockets
         /\ failures' \in 0 .. MaxFailures
         /\ restarts' \in 0 .. MaxRestarts
<1>1. Losers(p) \subseteq Sockets
  BY LosersTyped
<1>2. CASE queue' = queue \o p /\ UNCHANGED faultVars
  BY <1>2, ConcatTyped DEF faultVars, TypeOK
<1>3. CASE /\ Fail
           /\ cutShort' = cutShort \cup Losers(p)
           /\ UNCHANGED <<queue, restarts>>
  BY <1>1, <1>3, BoundsAssumption DEF Fail, TypeOK
<1>4. QED
  BY <1>2, <1>3 DEF Post

\* Handling a reply and issuing well-formed requests keeps both queues typed.
LEMMA ContinueTyped ==
  ASSUME TypeOK, replies # <<>>, NEW rest \in Seq(Requests), Continue(rest)
  PROVE  /\ queue' \in Seq(Requests) /\ replies' \in Seq(Replies)
         /\ cutShort' \subseteq Sockets
         /\ failures' \in 0 .. MaxFailures
         /\ restarts' \in 0 .. MaxRestarts
BY PostTyped, ReplyTyped DEF Continue

\* Executing a well-formed request keeps the database typed.
LEMMA ExecuteTyped ==
  ASSUME TypeOK, NEW r \in Requests, Execute(r)
  PROVE  /\ entity' \in [Organs -> States]
         /\ mailbox' \in [Organs -> {"registered", "active", "disconnected"}]
<1>1. r.to \in States
  BY DEF Requests, RawRequests
<1>2. QED
  BY <1>1 DEF Execute, TypeOK

\* The ping state of dropped entries stays typed.
LEMMA DropTyped ==
  ASSUME TypeOK, NEW S, DropEntries(S)
  PROVE  /\ clients' \subseteq Sockets
         /\ missed' \in [Sockets -> 0 .. MaxMissed]
         /\ notified' \in [Sockets -> BOOLEAN]
<1>1. clients' \subseteq Sockets
  BY DEF DropEntries, TypeOK
<1>2. missed' \in [Sockets -> 0 .. MaxMissed]
  BY MissedAssumption DEF DropEntries, TypeOK
<1>3. notified' \in [Sockets -> BOOLEAN]
  <2>1. \A ws \in Sockets : (ws \notin S /\ notified[ws]) \in BOOLEAN
    OBVIOUS
  <2>2. QED
    BY <2>1 DEF DropEntries
<1>4. QED
  BY <1>1, <1>2, <1>3

\* The requests one tick of the ping cycle issues form a sequence.
LEMMA TickRequestsTyped ==
  ASSUME TypeOK,
         NEW order \in Orders({ws \in TimedOut : organ[ws] # NoOrgan}
                                \cup Degrading)
  PROVE  [i \in DOMAIN order |-> TickRequest(order[i])] \in Seq(Requests)
<1> DEFINE S == {ws \in TimedOut : organ[ws] # NoOrgan} \cup Degrading
<1>1. S \subseteq Sockets /\ \A ws \in S : organ[ws] \in Organs
  BY DEF TimedOut, Degrading, TypeOK
<1>2. Cardinality(S) \in Nat
  BY <1>1, SocketsAssumption, FS_Subset, FS_CardinalityType
<1>3. order \in [1 .. Cardinality(S) -> S]
  BY DEF Orders
<1>4. \A i \in 1 .. Cardinality(S) : TickRequest(order[i]) \in Requests
  BY <1>1, <1>3, RequestsTyped DEF TickRequest
<1>5. QED
  BY <1>2, <1>3, <1>4

-----------------------------------------------------------------------------
(* Type correctness *)

LEMMA TypeInit == Init => TypeOK
<1>1. <<>> \in Seq(Requests) /\ <<>> \in Seq(Replies)
  OBVIOUS
<1>2. 0 \in 0 .. MaxMissed /\ 0 \in 0 .. MaxFailures /\ 0 \in 0 .. MaxRestarts
  BY MissedAssumption, BoundsAssumption
<1>3. QED
  BY <1>1, <1>2 DEF Init, TypeOK, States

\* The socket events keep the state typed.
LEMMA SocketTyped ==
  ASSUME TypeOK, NEW ws \in Sockets,
         \/ Connect(ws) \/ RegisterUnknown(ws) \/ CloseEvent(ws)
         \/ ErrorEvent(ws) \/ GoSilent(ws) \/ Pong(ws)
  PROVE  TypeOK'
<1> USE DEF dbVars, pipeVars, watchVars, pastVars, faultVars
<1>1. CASE Connect(ws)
  BY <1>1 DEF Connect, TypeOK
<1>2. CASE RegisterUnknown(ws)
  BY <1>2 DEF RegisterUnknown, TypeOK
<1>3. ASSUME NEW s \in {"closing", "closed"}, StartDisconnect(ws, s),
             silent' \subseteq Sockets
      PROVE  TypeOK'
  <2>1. \E p \in Seq(Requests) : Post(p)
    <3>1. CASE ws \in clients /\ organ[ws] # NoOrgan
      <4>1. StatusRequest(organ[ws], ws) \in Requests
        BY <3>1, RequestsTyped DEF TypeOK
      <4>2. QED
        BY <1>3, <3>1, <4>1, SingletonTyped DEF StartDisconnect
    <3>2. CASE ~(ws \in clients /\ organ[ws] # NoOrgan)
      BY <1>3, <3>2, EmptyTyped DEF StartDisconnect
    <3>3. QED
      BY <3>1, <3>2
  <2>2. DropEntries({ws}) /\ rs' = [rs EXCEPT ![ws] = s]
    BY <1>3 DEF StartDisconnect
  <2>3. rs' \in [Sockets -> {"new", "open", "closing", "closed"}]
    BY <2>2 DEF TypeOK
  <2>4. QED
    BY <1>3, <2>1, <2>2, <2>3, DropTyped, PostTyped
       DEF StartDisconnect, TypeOK
<1>4. CASE CloseEvent(ws)
  BY <1>3, <1>4 DEF CloseEvent, TypeOK
<1>5. CASE ErrorEvent(ws)
  BY <1>3, <1>5 DEF ErrorEvent, TypeOK
<1>6. CASE GoSilent(ws)
  BY <1>6 DEF GoSilent, TypeOK
<1>7. CASE Pong(ws)
  <2>1. \E p \in Seq(Requests) : Post(p)
    <3>1. CASE notified[ws] /\ organ[ws] # NoOrgan
      <4>1. ReadRequest("recovered", organ[ws], NoSocket) \in Requests
        BY <3>1, RequestsTyped DEF TypeOK
      <4>2. QED
        BY <1>7, <3>1, <4>1, SingletonTyped DEF Pong
    <3>2. CASE ~(notified[ws] /\ organ[ws] # NoOrgan)
      BY <1>7, <3>2, EmptyTyped DEF Pong
    <3>3. QED
      BY <3>1, <3>2
  <2>2. QED
    BY <1>7, <2>1, MissedAssumption, PostTyped DEF Pong, TypeOK
<1>8. QED
  BY <1>1, <1>2, <1>4, <1>5, <1>6, <1>7

LEMMA RegisterTyped ==
  ASSUME TypeOK, NEW ws \in Sockets, NEW o \in Organs, Register(ws, o)
  PROVE  TypeOK'
<1>1. DropEntries(Replaced(ws, o))
  BY DEF Register
<1>2. /\ rs' \in [Sockets -> {"new", "open", "closing", "closed"}]
      /\ organ' \in [Sockets -> Organs \cup {NoOrgan}]
  BY DEF Register, TypeOK
<1>3. entity' \in [Organs -> States]
  BY DEF Register, ConnectEntity, TypeOK, States
<1>4. /\ mailbox' \in [Organs -> {"registered", "active", "disconnected"}]
      /\ homs' \in [Organs -> Nat] /\ unreported' \subseteq Organs
      /\ latest' \in [Organs -> Sockets \cup {NoSocket}]
  BY DEF Register, TypeOK
<1>5. /\ timers' \subseteq Sockets
      /\ handle' \in [Organs -> Sockets \cup {NoSocket}]
      /\ tracked' \in [Organs -> {"no", "recent", "overdue"}]
      /\ alerted' \subseteq Organs
  BY DEF Register, ClearWatch, TypeOK
<1>6. UNCHANGED <<silent, queue, replies, cutShort, failures, restarts>>
  BY DEF Register, pipeVars, faultVars
<1>7. QED
  BY <1>1, <1>2, <1>3, <1>4, <1>5, <1>6, DropTyped DEF TypeOK

LEMMA ForgetTyped ==
  ASSUME TypeOK, ForgetAll,
         entity' \in [Organs -> States],
         mailbox' \in [Organs -> {"registered", "active", "disconnected"}]
  PROVE  TypeOK'
<1>1. <<>> \in Seq(Requests) /\ <<>> \in Seq(Replies)
  OBVIOUS
<1>2. restarts' \in 0 .. MaxRestarts
  BY BoundsAssumption DEF ForgetAll, TypeOK
<1>3. rs' \in [Sockets -> {"new", "open", "closing", "closed"}]
  BY DEF ForgetAll, TypeOK
<1>4. missed' \in [Sockets -> 0 .. MaxMissed]
  BY MissedAssumption DEF ForgetAll
<1>5. QED
  BY <1>1, <1>2, <1>3, <1>4 DEF ForgetAll, TypeOK

LEMMA HeartbeatTyped ==
  ASSUME TypeOK, HeartbeatTick
  PROVE  TypeOK'
<1>1. \E p \in Seq(Requests) : Post(p)
  BY TickRequestsTyped DEF HeartbeatTick
<1>2. missed' \in [Sockets -> 0 .. MaxMissed]
  BY MissedAssumption DEF HeartbeatTick, TimedOut, TypeOK
<1>3. notified' \in [Sockets -> BOOLEAN]
  <2>1. \A ws \in Sockets :
          (ws \notin TimedOut /\ (notified[ws] \/ ws \in Degrading)) \in BOOLEAN
    OBVIOUS
  <2>2. QED
    BY <2>1 DEF HeartbeatTick
<1>4. /\ rs' \in [Sockets -> {"new", "open", "closing", "closed"}]
      /\ clients' \subseteq Sockets
  BY DEF HeartbeatTick, TypeOK
<1>5. QED
  BY <1>1, <1>2, <1>3, <1>4, PostTyped
     DEF HeartbeatTick, dbVars, watchVars, pastVars, TypeOK

LEMMA WorkerTyped ==
  ASSUME TypeOK, WorkerExec \/ WorkerFails \/ WorkerCrash
  PROVE  TypeOK'
<1>1. queue # <<>>
  BY DEF WorkerExec, WorkerFails, WorkerCrash
<1>2. Head(queue) \in Requests /\ Tail(queue) \in Seq(Requests)
  BY <1>1, HeadTyped DEF TypeOK
<1>3. /\ entity' \in [Organs -> States]
      /\ mailbox' \in [Organs -> {"registered", "active", "disconnected"}]
  <2>1. CASE Execute(Head(queue))
    BY <1>2, <2>1, ExecuteTyped
  <2>2. CASE UNCHANGED dbVars
    BY <2>2 DEF dbVars, TypeOK
  <2>3. QED
    BY <2>1, <2>2 DEF WorkerExec, WorkerFails, WorkerCrash
<1>4. failures' \in 0 .. MaxFailures /\ restarts' \in 0 .. MaxRestarts
  BY BoundsAssumption
     DEF WorkerExec, WorkerFails, WorkerCrash, Fail, faultVars, TypeOK
<1>5. CASE WorkerExec
  <2> DEFINE reply == [req |-> Head(queue),
                       state |-> IF Head(queue).op = "read"
                                   THEN entity[Head(queue).organ] ELSE "absent"]
  <2>1. Head(queue).op = "read" => entity[Head(queue).organ] \in States
    BY <1>2 DEF Requests, RawRequests, TypeOK
  <2>2. reply \in Replies
    BY <1>2, <2>1 DEF Replies, States
  <2>3. replies' \in Seq(Replies)
    <3>1. replies' = Append(replies, reply)
      BY <1>5 DEF WorkerExec
    <3>2. QED
      BY <2>2, <3>1, AppendTyped DEF TypeOK
  <2>4. QED
    BY <1>2, <1>3, <1>4, <1>5, <2>3
       DEF WorkerExec, sockVars, watchVars, pastVars, faultVars, TypeOK
<1>6. CASE WorkerFails
  <2>1. [req |-> Head(queue), state |-> "error"] \in Replies
    BY <1>2 DEF Replies
  <2>2. replies' \in Seq(Replies)
    BY <1>6, <2>1, AppendTyped DEF WorkerFails, TypeOK
  <2>3. QED
    BY <1>2, <1>3, <1>4, <1>6, <2>2
       DEF WorkerFails, sockVars, watchVars, pastVars, TypeOK
<1>7. CASE WorkerCrash
  <2>1. queue' \in Seq(Requests) /\ cutShort' \subseteq Sockets
    BY <1>7, LosersTyped DEF WorkerCrash, TypeOK
  <2>2. QED
    BY <1>3, <1>4, <1>7, <2>1
       DEF WorkerCrash, sockVars, watchVars, pastVars, TypeOK
<1>8. QED
  BY <1>5, <1>6, <1>7

\* A rejected call ends its sequence and changes nothing else.
LEMMA RejectedTyped ==
  ASSUME TypeOK, Rejected
  PROVE  TypeOK'
<1>1. replies # <<>>
  BY DEF Rejected
<1>2. Request \in Requests /\ replies' \in Seq(Replies)
  BY <1>1, ReplyTyped DEF Rejected
<1>3. Losers(<<Request>>) \subseteq Sockets
  BY <1>2, LosersTyped, SingletonTyped
<1>4. QED
  BY <1>2, <1>3
     DEF Rejected, sockVars, dbVars, watchVars, pastVars, TypeOK

\* The continuations of the lifecycle sequences keep the state typed.
LEMMA SequencesTyped ==
  ASSUME TypeOK,
         \/ DegradedRead \/ RecoveredRead \/ TransitionDone
         \/ DisconnectStatusSet \/ DisconnectRead \/ DisconnectDone
  PROVE  TypeOK'
<1> USE DEF sockVars, dbVars, watchVars, pastVars
<1>1. replies # <<>>
  BY DEF DegradedRead, RecoveredRead, TransitionDone, DisconnectStatusSet,
         DisconnectRead, DisconnectDone, HasReply
<1>2. /\ Request \in Requests /\ Head(replies).state \in States
      /\ <<>> \in Seq(Requests)
  BY <1>1, ReplyTyped
     DEF DegradedRead, RecoveredRead, TransitionDone, DisconnectStatusSet,
         DisconnectRead, DisconnectDone, HasReply
<1>3. {"ALIVE", "DEGRADED", "DISCONNECTED"} \subseteq States
  BY DEF States
<1>4. ASSUME NEW rest \in Seq(Requests), Continue(rest),
             UNCHANGED <<sockVars, dbVars, tracked, alerted, pastVars>>,
             timers' \subseteq Sockets,
             handle' \in [Organs -> Sockets \cup {NoSocket}]
      PROVE  TypeOK'
  <2>1. QED
    BY <1>1, <1>4, ContinueTyped DEF TypeOK
<1>5. CASE DegradedRead
  <2>1. TransitionRequest("degraded", Request.organ, NoSocket,
                          "ALIVE", "DEGRADED") \in Requests
    BY <1>2, <1>5, <1>3
       DEF DegradedRead, HasReply, Request, Requests, RawRequests,
           TransitionRequest
  <2>2. QED
    BY <1>2, <1>4, <1>5, <2>1, SingletonTyped DEF DegradedRead, TypeOK
<1>6. CASE RecoveredRead
  <2>1. TransitionRequest("recovered", Request.organ, NoSocket,
                          "DEGRADED", "ALIVE") \in Requests
    BY <1>2, <1>6, <1>3
       DEF RecoveredRead, HasReply, Request, Requests, RawRequests,
           TransitionRequest
  <2>2. QED
    BY <1>2, <1>4, <1>6, <2>1, SingletonTyped DEF RecoveredRead, TypeOK
<1>7. CASE TransitionDone
  BY <1>2, <1>4, <1>7 DEF TransitionDone, TypeOK
<1>8. ASSUME HasReply("disconnect", "status")
             \/ HasReply("disconnect", "read")
             \/ HasReply("disconnect", "transition")
      PROVE  Request.organ \in Organs /\ Request.socket \in Sockets
  BY <1>2, <1>8 DEF HasReply, Request, Requests, RawRequests
<1>9. CASE DisconnectStatusSet
  <2>1. ReadRequest("disconnect", Request.organ, Request.socket) \in Requests
    BY <1>8, <1>9, RequestsTyped DEF DisconnectStatusSet
  <2>2. QED
    BY <1>2, <1>4, <1>9, <2>1, SingletonTyped DEF DisconnectStatusSet, TypeOK
<1>10. ASSUME ArmTimer(Request.socket, Request.organ),
              Request.socket \in Sockets
       PROVE  /\ timers' \subseteq Sockets
              /\ handle' \in [Organs -> Sockets \cup {NoSocket}]
              /\ UNCHANGED <<tracked, alerted>>
  BY <1>10 DEF ArmTimer, TypeOK
<1>11. CASE DisconnectRead
  <2>1. CASE Head(replies).state \in {"ALIVE", "DEGRADED"}
    <3>1. TransitionRequest("disconnect", Request.organ, Request.socket,
                            Head(replies).state, "DISCONNECTED") \in Requests
      BY <1>2, <1>3, <1>8, <1>11, TransitionRequestsTyped DEF DisconnectRead
    <3>2. QED
      BY <1>4, <1>11, <2>1, <3>1, SingletonTyped DEF DisconnectRead, TypeOK
  <2>2. CASE Head(replies).state \notin {"ALIVE", "DEGRADED"}
    <3>1. ArmTimer(Request.socket, Request.organ) /\ Continue(<<>>)
      BY <1>11, <2>2 DEF DisconnectRead
    <3>2. QED
      BY <1>2, <1>4, <1>8, <1>10, <1>11, <3>1 DEF DisconnectRead
  <2>3. QED
    BY <2>1, <2>2
<1>12. CASE DisconnectDone
  <2>1. ArmTimer(Request.socket, Request.organ) /\ Continue(<<>>)
    BY <1>12 DEF DisconnectDone
  <2>2. QED
    BY <1>2, <1>4, <1>8, <1>10, <1>12, <2>1 DEF DisconnectDone
<1>13. QED
  BY <1>5, <1>6, <1>7, <1>9, <1>11, <1>12

\* So do the steps of the watch on required organs.
LEMMA WatchTyped ==
  ASSUME TypeOK,
         \/ HealthTick \/ HealthCheck
         \/ \E ws \in Sockets : TimerFires(ws)
         \/ \E o \in Organs : TimePasses(o)
  PROVE  TypeOK'
<1> USE DEF sockVars, dbVars, pipeVars, watchVars, pastVars, faultVars
<1>1. CASE HealthTick
  <2>1. <<HealthRequest("sweep", {})>> \in Seq(Requests)
    BY HealthRequestsTyped, SingletonTyped
  <2>2. QED
    BY <1>1, <2>1, PostTyped DEF HealthTick, TypeOK
<1>2. CASE HealthCheck
  <2>1. replies # <<>>
    BY <1>2 DEF HealthCheck, HasReply
  <2>2. PICK due \in SUBSET Organs : CheckMissing(due)
    <3>1. Request.due \in SUBSET Organs
      BY <2>1, ReplyTyped DEF Requests, RawRequests
    <3>2. QED
      BY <1>2, <3>1 DEF HealthCheck
  <2>3. /\ tracked' \in [Organs -> {"no", "recent", "overdue"}]
        /\ UNCHANGED <<timers, handle>>
    BY <2>2 DEF CheckMissing, TypeOK
  <2>4. \A o \in ToReport(due) : o \in Organs
    BY DEF ToReport
  <2>5. /\ alerted' \subseteq Organs
        /\ homs' \in [Organs -> Nat] /\ unreported' \subseteq Organs
    <3>1. CASE ToReport(due) = {}
      BY <2>2, <3>1 DEF CheckMissing, TypeOK
    <3>2. CASE ToReport(due) # {}
      <4>1. PICK o \in ToReport(due) :
              /\ alerted' = (alerted \ Back) \cup {o}
              /\ \/ homs' = [homs EXCEPT ![o] = @ + 1] /\ UNCHANGED unreported
                 \/ unreported' = unreported \cup {o} /\ UNCHANGED homs
        BY <2>2, <3>2 DEF CheckMissing
      <4>2. o \in Organs /\ homs[o] \in Nat
        BY <2>4 DEF TypeOK
      <4>3. alerted' \subseteq Organs
        BY <4>1, <4>2 DEF TypeOK
      <4>4. CASE homs' = [homs EXCEPT ![o] = @ + 1] /\ UNCHANGED unreported
        BY <4>2, <4>3, <4>4 DEF TypeOK
      <4>5. CASE unreported' = unreported \cup {o} /\ UNCHANGED homs
        BY <4>2, <4>3, <4>5 DEF TypeOK
      <4>6. QED
        BY <4>1, <4>4, <4>5
    <3>3. QED
      BY <3>1, <3>2
  <2>6. /\ queue' \in Seq(Requests) /\ replies' \in Seq(Replies)
        /\ cutShort' \subseteq Sockets
        /\ failures' \in 0 .. MaxFailures
        /\ restarts' \in 0 .. MaxRestarts
    <3>1. \A o : <<HealthRequest("hom", ToReport(due) \ {o})>> \in Seq(Requests)
      <4>1. \A o : ToReport(due) \ {o} \in SUBSET Organs
        BY DEF ToReport
      <4>2. QED
        BY <4>1, HealthRequestsTyped, SingletonTyped
    <3>2. CASE \E p \in Seq(Requests) : Continue(p)
      BY <2>1, <3>2, ContinueTyped
    <3>3. CASE /\ Fail
               /\ replies' = Tail(replies)
               /\ UNCHANGED <<queue, cutShort, restarts>>
      BY <2>1, <3>3, ReplyTyped, BoundsAssumption DEF Fail, TypeOK
    <3>4. <<>> \in Seq(Requests)
      BY EmptyTyped
    <3>5. CASE ToReport(due) = {}
      BY <2>2, <3>2, <3>4, <3>5 DEF CheckMissing
    <3>6. CASE ToReport(due) # {}
      <4>1. PICK o \in ToReport(due) :
              \/ Continue(<<HealthRequest("hom", ToReport(due) \ {o})>>)
              \/ /\ Fail
                 /\ replies' = Tail(replies)
                 /\ UNCHANGED <<queue, cutShort, restarts>>
        BY <2>2, <3>6 DEF CheckMissing
      <4>2. QED
        BY <3>1, <3>2, <3>3, <4>1
    <3>7. QED
      BY <3>5, <3>6
  <2>7. QED
    BY <1>2, <2>3, <2>5, <2>6 DEF HealthCheck, TypeOK
<1>3. ASSUME NEW ws \in Sockets, TimerFires(ws) PROVE TypeOK'
  BY <1>3 DEF TimerFires, TypeOK
<1>4. ASSUME NEW o \in Organs, TimePasses(o) PROVE TypeOK'
  BY <1>4 DEF TimePasses, TypeOK
<1>5. QED
  BY <1>1, <1>2, <1>3, <1>4

LEMMA TypeNext == TypeOK /\ [Next]_vars => TypeOK'
<1> SUFFICES ASSUME TypeOK, [Next]_vars PROVE TypeOK'
  OBVIOUS
<1>1. ASSUME NEW ws \in Sockets, NEW o \in Organs, RestartInRegister(ws, o)
      PROVE  TypeOK'
  BY <1>1, ForgetTyped DEF RestartInRegister, TypeOK, States
<1>2. CASE Restart
  BY <1>2, ForgetTyped DEF Restart, dbVars, TypeOK
<1>3. CASE UNCHANGED vars
  BY <1>3 DEF vars, sockVars, dbVars, pipeVars, watchVars, pastVars, faultVars,
              TypeOK
<1>4. QED
  BY <1>1, <1>2, <1>3, SocketTyped, RegisterTyped, HeartbeatTyped, WorkerTyped,
     RejectedTyped, SequencesTyped, WatchTyped
     DEF Next, Environment, MainReply, Answered

\* Every step of the lifecycle keeps the state typed.
THEOREM TypeCorrect == Spec => []TypeOK
BY TypeInit, TypeNext, PTL DEF Spec

-----------------------------------------------------------------------------
(* The client map and the watch on missing organs *)

\* A socket without a connection yet has no organ and no client entry.
NewIsAnonymous ==
  \A ws \in Sockets :
    rs[ws] = "new" => organ[ws] = NoOrgan /\ ws \notin clients

\* An organ of which a HOM has been sent is in criticalAlertsSent.
ReportedIsAlerted == \A o \in Organs : homs[o] # 0 => o \in alerted

\* The inductive invariant.  AtMostOneHom needs TrackedIsDisconnected: the
\* health check forgets the alert of an organ it finds connected.
\* TrackedIsDisconnected needs NewIsAnonymous: a new connection is no organ's.
WatchInv ==
  /\ TypeOK
  /\ NewIsAnonymous
  /\ AtMostOneClient
  /\ TrackedIsDisconnected
  /\ ReportedIsAlerted
  /\ AtMostOneHom

LEMMA WatchInit == Init => WatchInv
BY TypeInit DEF Init, WatchInv, NewIsAnonymous, AtMostOneClient,
                TrackedIsDisconnected, ReportedIsAlerted, AtMostOneHom

seen == <<rs, clients, organ, tracked, alerted, homs>>

\* What a step does to the variables of WatchInv.
LEMMA StepKinds ==
  ASSUME TypeOK, [Next]_vars
  PROVE  \/ UNCHANGED seen
         \/ \E ws \in Sockets : Connect(ws)
         \/ /\ clients' \subseteq clients
            /\ \A ws \in Sockets : rs'[ws] = "new" => rs[ws] = "new"
            /\ UNCHANGED <<organ, tracked, alerted, homs>>
         \/ \E ws \in Sockets, o \in Organs : Register(ws, o)
         \/ ForgetAll
         \/ \E ws \in Sockets : TimerFires(ws)
         \/ \E o \in Organs : TimePasses(o)
         \/ \E due \in SUBSET Organs : CheckMissing(due) /\ UNCHANGED sockVars
<1> USE DEF seen, sockVars, dbVars, pipeVars, watchVars, pastVars, faultVars
<1> DEFINE Shrinks ==
             /\ clients' \subseteq clients
             /\ \A ws \in Sockets : rs'[ws] = "new" => rs[ws] = "new"
             /\ UNCHANGED <<organ, tracked, alerted, homs>>
<1>1. ASSUME NEW ws \in Sockets, RegisterUnknown(ws) PROVE Shrinks
  BY <1>1 DEF RegisterUnknown, TypeOK
<1>2. ASSUME NEW ws \in Sockets, CloseEvent(ws) \/ ErrorEvent(ws)
      PROVE  Shrinks
  BY <1>2 DEF CloseEvent, ErrorEvent, StartDisconnect, DropEntries, TypeOK
<1>3. ASSUME NEW ws \in Sockets, GoSilent(ws) \/ Pong(ws)
      PROVE  UNCHANGED seen
  BY <1>3 DEF GoSilent, Pong
<1>4. CASE HeartbeatTick
  <2>1. Shrinks
    BY <1>4 DEF HeartbeatTick, TypeOK
  <2>2. QED
    BY <2>1
<1>5. CASE WorkerExec \/ WorkerFails \/ WorkerCrash \/ HealthTick
  BY <1>5 DEF WorkerExec, WorkerFails, WorkerCrash, HealthTick
<1>6. CASE \/ DegradedRead \/ RecoveredRead \/ TransitionDone
           \/ DisconnectStatusSet \/ DisconnectRead \/ DisconnectDone
           \/ Rejected
  <2>1. UNCHANGED seen
    BY <1>6 DEF DegradedRead, RecoveredRead, TransitionDone, Rejected,
                DisconnectStatusSet, DisconnectRead, DisconnectDone, ArmTimer
  <2>2. QED
    BY <2>1
<1>7. CASE HealthCheck
  <2>1. replies # <<>>
    BY <1>7 DEF HealthCheck, HasReply
  <2>2. Request.due \in SUBSET Organs
    BY <2>1, ReplyTyped DEF Requests, RawRequests
  <2>3. QED
    BY <1>7, <2>2 DEF HealthCheck
<1>8. CASE Restart \/ \E ws \in Sockets, o \in Organs : RestartInRegister(ws, o)
  BY <1>8 DEF Restart, RestartInRegister
<1>9. CASE UNCHANGED vars
  BY <1>9 DEF vars
<1>10. QED
  BY <1>1, <1>2, <1>3, <1>4, <1>5, <1>6, <1>7, <1>8, <1>9
     DEF Next, Environment, MainReply, Answered

LEMMA WatchNext == WatchInv /\ TypeOK' /\ [Next]_vars => WatchInv'
<1> SUFFICES ASSUME WatchInv, TypeOK', [Next]_vars
             PROVE  /\ NewIsAnonymous' /\ AtMostOneClient'
                    /\ TrackedIsDisconnected' /\ ReportedIsAlerted'
                    /\ AtMostOneHom'
  BY DEF WatchInv
<1> USE OrgansAssumption DEF WatchInv
<1>1. CASE UNCHANGED seen
  BY <1>1 DEF seen, NewIsAnonymous, AtMostOneClient, TrackedIsDisconnected,
              ReportedIsAlerted, AtMostOneHom, Connected
<1>2. ASSUME NEW ws \in Sockets, Connect(ws)
      PROVE  /\ NewIsAnonymous' /\ AtMostOneClient'
             /\ TrackedIsDisconnected' /\ ReportedIsAlerted'
             /\ AtMostOneHom'
  <2>1. /\ rs' = [rs EXCEPT ![ws] = "open"]
        /\ clients' = clients \cup {ws}
        /\ organ[ws] = NoOrgan
        /\ UNCHANGED <<organ, tracked, alerted, homs>>
    BY <1>2 DEF Connect, watchVars, pastVars, NewIsAnonymous
  <2>2. NewIsAnonymous'
    BY <2>1 DEF NewIsAnonymous, TypeOK
  <2>3. AtMostOneClient'
    BY <2>1 DEF AtMostOneClient
  <2>4. TrackedIsDisconnected'
    BY <2>1 DEF TrackedIsDisconnected, Connected
  <2>5. QED
    BY <2>1, <2>2, <2>3, <2>4 DEF ReportedIsAlerted, AtMostOneHom
<1>3. CASE /\ clients' \subseteq clients
           /\ \A ws \in Sockets : rs'[ws] = "new" => rs[ws] = "new"
           /\ UNCHANGED <<organ, tracked, alerted, homs>>
  BY <1>3 DEF NewIsAnonymous, AtMostOneClient, TrackedIsDisconnected,
              ReportedIsAlerted, AtMostOneHom, Connected
<1>4. ASSUME NEW ws \in Sockets, NEW o \in Organs, Register(ws, o)
      PROVE  /\ NewIsAnonymous' /\ AtMostOneClient'
             /\ TrackedIsDisconnected' /\ ReportedIsAlerted'
             /\ AtMostOneHom'
  <2>1. /\ clients' = clients \ Replaced(ws, o)
        /\ organ' = IF ws \in clients THEN [organ EXCEPT ![ws] = o] ELSE organ
        /\ rs[ws] # "new"
    BY <1>4 DEF Register, DropEntries, MayRegister
  <2>2. /\ rs' = [s \in Sockets |->
                   IF s \in Replaced(ws, o) THEN "closing" ELSE rs[s]]
        /\ tracked' = [tracked EXCEPT ![o] = "no"]
        /\ alerted' = alerted \ {o}
        /\ homs' = [homs EXCEPT ![o] = 0]
    BY <1>4 DEF Register, ClearWatch
  <2>3. NewIsAnonymous'
    BY <2>1, <2>2 DEF NewIsAnonymous, TypeOK
  <2>4. \A s \in clients' : s # ws => organ'[s] = organ[s] /\ organ[s] # o
    BY <2>1 DEF Replaced, TypeOK
  <2>5. ws \in clients' => organ'[ws] = o
    BY <2>1 DEF TypeOK
  <2>6. AtMostOneClient'
    BY <2>1, <2>4, <2>5 DEF AtMostOneClient
  <2>7. TrackedIsDisconnected'
    BY <2>1, <2>2, <2>4, <2>5 DEF TrackedIsDisconnected, Connected, TypeOK
  <2>8. ReportedIsAlerted' /\ AtMostOneHom'
    BY <2>2 DEF ReportedIsAlerted, AtMostOneHom, TypeOK
  <2>9. QED
    BY <2>3, <2>6, <2>7, <2>8
<1>5. CASE ForgetAll
  BY <1>5 DEF ForgetAll, NewIsAnonymous, AtMostOneClient,
              TrackedIsDisconnected, ReportedIsAlerted, AtMostOneHom, Connected
<1>6. ASSUME NEW ws \in Sockets, TimerFires(ws)
      PROVE  /\ NewIsAnonymous' /\ AtMostOneClient'
             /\ TrackedIsDisconnected' /\ ReportedIsAlerted'
             /\ AtMostOneHom'
  <2>1. UNCHANGED <<rs, clients, organ, alerted, homs>>
    BY <1>6 DEF TimerFires, sockVars, pastVars
  <2>2. \A o \in Organs : Connected(o)' <=> Connected(o)
    BY <2>1 DEF Connected
  <2>3. \A o \in Organs : tracked'[o] # "no" => tracked[o] # "no" \/ ~Connected(o)
    BY <1>6 DEF TimerFires, TypeOK
  <2>4. TrackedIsDisconnected'
    BY <2>2, <2>3 DEF TrackedIsDisconnected
  <2>5. QED
    BY <2>1, <2>4
       DEF NewIsAnonymous, AtMostOneClient, ReportedIsAlerted, AtMostOneHom
<1>7. ASSUME NEW o \in Organs, TimePasses(o)
      PROVE  /\ NewIsAnonymous' /\ AtMostOneClient'
             /\ TrackedIsDisconnected' /\ ReportedIsAlerted'
             /\ AtMostOneHom'
  <2>1. UNCHANGED <<rs, clients, organ, alerted, homs>>
    BY <1>7 DEF TimePasses, sockVars, pastVars
  <2>2. \A d \in Organs : tracked'[d] # "no" => tracked[d] # "no"
    BY <1>7 DEF TimePasses, TypeOK
  <2>3. QED
    BY <2>1, <2>2 DEF NewIsAnonymous, AtMostOneClient, TrackedIsDisconnected,
                      ReportedIsAlerted, AtMostOneHom, Connected
<1>8. ASSUME NEW due \in SUBSET Organs, CheckMissing(due), UNCHANGED sockVars
      PROVE  /\ NewIsAnonymous' /\ AtMostOneClient'
             /\ TrackedIsDisconnected' /\ ReportedIsAlerted'
             /\ AtMostOneHom'
  <2>1. Back = {}
    BY DEF TrackedIsDisconnected, Back
  <2>2. UNCHANGED <<rs, clients, organ>>
    BY <1>8 DEF sockVars
  <2>3. \A o \in Organs : tracked'[o] = tracked[o]
    BY <1>8, <2>1 DEF CheckMissing, TypeOK
  <2>4. TrackedIsDisconnected'
    BY <2>2, <2>3 DEF TrackedIsDisconnected, Connected
  <2>5. ReportedIsAlerted' /\ AtMostOneHom'
    <3>1. CASE alerted \subseteq alerted' /\ UNCHANGED homs
      BY <3>1 DEF ReportedIsAlerted, AtMostOneHom
    <3>2. ASSUME NEW o \in ToReport(due), alerted' = (alerted \ Back) \cup {o},
                 homs' = [homs EXCEPT ![o] = @ + 1]
          PROVE  ReportedIsAlerted' /\ AtMostOneHom'
      <4>1. o \in Organs /\ o \notin alerted
        BY DEF ToReport
      <4>2. homs[o] = 0
        BY <4>1 DEF ReportedIsAlerted
      <4>3. QED
        BY <2>1, <3>2, <4>1, <4>2 DEF ReportedIsAlerted, AtMostOneHom, TypeOK
    <3>3. CASE ToReport(due) = {}
      BY <1>8, <2>1, <3>1, <3>3 DEF CheckMissing
    <3>4. CASE ToReport(due) # {}
      <4>1. PICK o \in ToReport(due) :
              /\ alerted' = (alerted \ Back) \cup {o}
              /\ homs' = [homs EXCEPT ![o] = @ + 1] \/ UNCHANGED homs
        BY <1>8, <3>4 DEF CheckMissing
      <4>2. QED
        BY <2>1, <3>1, <3>2, <4>1
    <3>5. QED
      BY <3>3, <3>4
  <2>6. QED
    BY <2>2, <2>4, <2>5 DEF NewIsAnonymous, AtMostOneClient
<1>9. QED
  BY <1>1, <1>2, <1>3, <1>4, <1>5, <1>6, <1>7, <1>8, StepKinds

LEMMA WatchInvariant == Spec => []WatchInv
BY WatchInit, WatchNext, TypeCorrect, PTL DEF Spec

\* However registers, closes, errors and time-outs are interleaved, no organ has
\* two connections in the client map.
THEOREM OneClientPerOrgan == Spec => []AtMostOneClient
<1>1. WatchInv => AtMostOneClient
  BY DEF WatchInv
<1>2. QED
  BY <1>1, WatchInvariant, PTL

\* No connected organ is being timed as missing, whichever grace timers of
\* earlier disconnects are still armed.
THEOREM NoConnectedOrganIsTracked == Spec => []TrackedIsDisconnected
<1>1. WatchInv => TrackedIsDisconnected
  BY DEF WatchInv
<1>2. QED
  BY <1>1, WatchInvariant, PTL

\* One absence is reported to the human at most once, for any number of health
\* checks under way at a time.
THEOREM OneHomPerAbsence == Spec => []AtMostOneHom
<1>1. WatchInv => AtMostOneHom
  BY DEF WatchInv
<1>2. QED
  BY <1>1, WatchInvariant, PTL

-----------------------------------------------------------------------------
(* The sequences under way                                                 *)
(*                                                                         *)
(* A client that registers again on a socket changes that socket's organ,  *)
(* and one that registers on a socket the map has forgotten gives the      *)
(* organ no connection; what follows is about clients that do neither.     *)

\* An open socket has a client entry, so a register gives it an organ.
OpenIsClient == \A ws \in Sockets : rs[ws] = "open" => ws \in clients

\* A request of a disconnect sequence names the organ of the socket that was
\* lost, and its transition goes to DISCONNECTED.  The health check does no
\* transition.
WellFormed(r) ==
  /\ r.seq = "disconnect" => r.organ \in Organs /\ organ[r.socket] = r.organ
  /\ r.op = "transition" => r.seq # "health"
  /\ r.op = "transition" /\ r.seq = "disconnect" => r.to = "DISCONNECTED"

PipeWellFormed ==
  /\ \A i \in DOMAIN queue : WellFormed(queue[i])
  /\ \A i \in DOMAIN replies : WellFormed(replies[i].req)

\* reconnectionTimers holds a timer under the name of its socket's organ.
HandleNamesOrgan ==
  \A o \in Organs : handle[o] # NoSocket => organ[handle[o]] = o

\* The entry of a connected organ is that of its last register.
EntryIsLatest ==
  \A ws \in clients : organ[ws] # NoOrgan => latest[organ[ws]] = ws

NamesInv ==
  /\ OpenIsClient
  /\ ~Repeat => PipeWellFormed /\ HandleNamesOrgan /\ EntryIsLatest

\* Request r of the disconnect sequence of organ o's socket ws, at operation op.
Losing(r, op, o, ws) ==
  r.seq = "disconnect" /\ r.op = op /\ r.organ = o /\ r.socket = ws

\* Request r of organ o in the sequence of a degraded or recovered organ,
\* at operation op.
Pinging(r, op, o) ==
  r.seq \in {"degraded", "recovered"} /\ r.op = op /\ r.organ = o

\* A call of the disconnect sequence of ws has failed, and the main thread is
\* about to learn of it.
Failing(o, ws) ==
  \E i \in DOMAIN replies :
    /\ replies[i].req.seq = "disconnect"
    /\ replies[i].req.organ = o /\ replies[i].req.socket = ws
    /\ replies[i].state = "error"

\* Organ o was lost with socket ws, and no failure has reached the disconnect
\* sequence of ws.
Gone(o, ws) ==
  /\ ws = latest[o] /\ ws \notin cutShort
  /\ ~Failing(o, ws) /\ ~Connected(o)

\* No sequence of a degraded or recovered organ o is before its transition.
NoneReads(o) ==
  /\ \A i \in DOMAIN queue : ~Pinging(queue[i], "read", o)
  /\ \A i \in DOMAIN replies : ~Pinging(replies[i].req, "read", o)

\* The four places of the disconnect sequence that has the last word on o, that
\* of its last socket ws.  Its status request is posted behind every read of a
\* degraded or recovered o, so it reads the entity behind their transitions.
StatusPosted(o, ws) ==
  \E i \in DOMAIN queue :
    /\ Losing(queue[i], "status", o, ws)
    /\ \A j \in DOMAIN queue : j > i => ~Pinging(queue[j], "read", o)
StatusSet(o, ws) ==
  /\ \A j \in DOMAIN queue : ~Pinging(queue[j], "read", o)
  /\ \E i \in DOMAIN replies :
       /\ Losing(replies[i].req, "status", o, ws)
       /\ \A j \in DOMAIN replies :
            j > i => ~Pinging(replies[j].req, "read", o)
ReadPosted(o, ws) ==
  /\ NoneReads(o)
  /\ \E i \in DOMAIN queue :
       /\ Losing(queue[i], "read", o, ws)
       /\ \A j \in DOMAIN queue :
            j > i => ~Pinging(queue[j], "transition", o)
ReadDone(o, ws) ==
  /\ NoneReads(o)
  /\ \A j \in DOMAIN queue : ~Pinging(queue[j], "transition", o)
  /\ \/ entity[o] \notin {"ALIVE", "DEGRADED"}
     \/ \E i \in DOMAIN queue : Losing(queue[i], "transition", o, ws)
     \/ \E i \in DOMAIN replies :
          /\ Losing(replies[i].req, "read", o, ws)
          /\ replies[i].state \in {"ALIVE", "DEGRADED"}

EntityFollows(o, ws) ==
  \/ StatusPosted(o, ws) \/ StatusSet(o, ws)
  \/ ReadPosted(o, ws) \/ ReadDone(o, ws)

\* The mailbox of an organ that is lost is not active, or is about to be marked.
MailboxFollows(o, ws) ==
  \/ mailbox[o] # "active"
  \/ \E i \in DOMAIN queue : Losing(queue[i], "status", o, ws)

AbsentFollows ==
  \A o \in Organs, ws \in Sockets :
    Gone(o, ws) => EntityFollows(o, ws) /\ MailboxFollows(o, ws)

\* The disconnect sequence of ws is under way.
Leaving(o, ws) ==
  \/ \E i \in DOMAIN queue :
       /\ queue[i].seq = "disconnect"
       /\ queue[i].organ = o /\ queue[i].socket = ws
  \/ \E i \in DOMAIN replies :
       /\ replies[i].req.seq = "disconnect"
       /\ replies[i].req.organ = o /\ replies[i].req.socket = ws

\* A required organ that is lost is watched, or the disconnect sequence that
\* will watch it is under way.
Watched(o, ws) ==
  \/ tracked[o] # "no"
  \/ \E t \in timers : organ[t] = o
  \/ Leaving(o, ws)

AbsentWatched ==
  \A o \in Required, ws \in Sockets : Gone(o, ws) => Watched(o, ws)

-----------------------------------------------------------------------------
(* Steps, as the sequences see them                                        *)

\* A visit of all sockets of a set comes to each of them, once.
LEMMA OrdersVisitAll ==
  ASSUME NEW S, IsFiniteSet(S), NEW order \in Orders(S)
  PROVE  /\ DOMAIN order = 1 .. Cardinality(S) /\ Cardinality(S) \in Nat
         /\ \A i \in DOMAIN order : order[i] \in S
         /\ \A ws \in S : \E i \in DOMAIN order : order[i] = ws
<1>1. Cardinality(S) \in Nat
  BY FS_CardinalityType
<1>2. order \in [1 .. Cardinality(S) -> S] /\ IsInjective(order)
  BY DEF Orders
<1>3. order \in Injection(1 .. Cardinality(S), S)
  BY <1>2 DEF Injection
<1>4. Cardinality(1 .. Cardinality(S)) = Cardinality(S)
  BY <1>1, FS_Interval
<1>5. order \in Surjection(1 .. Cardinality(S), S)
  BY <1>3, <1>4, FS_Injection
<1>6. \A ws \in S : \E i \in 1 .. Cardinality(S) : order[i] = ws
  BY <1>5 DEF Surjection
<1>7. QED
  BY <1>1, <1>2, <1>6

\* The elements of a queue that grows at its end or loses its head.
LEMMA Elements ==
  ASSUME NEW S, NEW q \in Seq(S)
  PROVE  /\ DOMAIN q = 1 .. Len(q) /\ Len(q) \in Nat
         /\ \A i \in DOMAIN q : q[i] \in S
         /\ q # <<>> => /\ 1 \in DOMAIN q /\ Head(q) = q[1]
                        /\ \A i \in DOMAIN q :
                             i # 1 => /\ i - 1 \in DOMAIN Tail(q)
                                      /\ Tail(q)[i - 1] = q[i]
                        /\ \A i \in DOMAIN Tail(q) :
                             /\ i \in Nat \ {0} /\ i + 1 \in DOMAIN q
                             /\ Tail(q)[i] = q[i + 1]
OBVIOUS

LEMMA Grown ==
  ASSUME NEW S, NEW q \in Seq(S), NEW p \in Seq(S)
  PROVE  /\ \A i \in DOMAIN q :
              i \in DOMAIN (q \o p) /\ (q \o p)[i] = q[i]
         /\ \A i \in DOMAIN p :
              Len(q) + i \in DOMAIN (q \o p) /\ (q \o p)[Len(q) + i] = p[i]
         /\ \A i \in DOMAIN (q \o p) :
              \/ i \in DOMAIN q /\ (q \o p)[i] = q[i]
              \/ /\ i \notin DOMAIN q /\ i > Len(q)
                 /\ i - Len(q) \in DOMAIN p
                 /\ (q \o p)[i] = p[i - Len(q)]
<1>1. /\ DOMAIN q = 1 .. Len(q) /\ Len(q) \in Nat
      /\ DOMAIN p = 1 .. Len(p) /\ Len(p) \in Nat
      /\ DOMAIN (q \o p) = 1 .. Len(q) + Len(p)
  OBVIOUS
<1>2. \A i \in 1 .. Len(q) + Len(p) :
        (q \o p)[i] = IF i <= Len(q) THEN q[i] ELSE p[i - Len(q)]
  OBVIOUS
<1>3. \A i \in DOMAIN q : i \in DOMAIN (q \o p) /\ (q \o p)[i] = q[i]
  BY <1>1, <1>2
<1>4. \A i \in DOMAIN p :
        Len(q) + i \in DOMAIN (q \o p) /\ (q \o p)[Len(q) + i] = p[i]
  <2> SUFFICES ASSUME NEW i \in DOMAIN p
               PROVE  /\ Len(q) + i \in DOMAIN (q \o p)
                      /\ (q \o p)[Len(q) + i] = p[i]
    OBVIOUS
  <2>1. /\ Len(q) + i \in 1 .. Len(q) + Len(p) /\ ~(Len(q) + i <= Len(q))
        /\ Len(q) + i - Len(q) = i
    BY <1>1
  <2>2. QED
    BY <1>1, <1>2, <2>1
<1>5. ASSUME NEW i \in DOMAIN (q \o p)
      PROVE  \/ i \in DOMAIN q /\ (q \o p)[i] = q[i]
             \/ /\ i \notin DOMAIN q /\ i > Len(q)
                /\ i - Len(q) \in DOMAIN p
                /\ (q \o p)[i] = p[i - Len(q)]
  <2>1. CASE i <= Len(q)
    BY <1>1, <1>2, <2>1
  <2>2. CASE ~(i <= Len(q))
    <3>1. i - Len(q) \in DOMAIN p /\ i \notin DOMAIN q /\ i > Len(q)
      BY <1>1, <2>2
    <3>2. QED
      BY <1>1, <1>2, <2>2, <3>1
  <2>3. QED
    BY <2>1, <2>2
<1>6. QED
  BY <1>3, <1>4, <1>5

\* A step of a socket or a timer posts the requests of p, or has them refused:
\* one for each registered entry it drops, and perhaps some for entries that
\* stay.
Posts(p) ==
  /\ p \in Seq(Requests)
  /\ \/ queue' = queue \o p /\ UNCHANGED cutShort
     \/ UNCHANGED queue /\ cutShort' = cutShort \cup Losers(p)
  /\ clients' \subseteq clients
  /\ \A ws \in Sockets :
       rs'[ws] = "open" => rs[ws] = "open" /\ (ws \in clients => ws \in clients')
  /\ \A ws \in clients \ clients' :
       organ[ws] # NoOrgan =>
         \E i \in DOMAIN p : p[i] = StatusRequest(organ[ws], ws)
  /\ \A i \in DOMAIN p :
       \/ \E ws \in clients \ clients' :
            organ[ws] # NoOrgan /\ p[i] = StatusRequest(organ[ws], ws)
       \/ \E ws \in clients' :
            /\ organ[ws] # NoOrgan
            /\ \/ p[i] = ReadRequest("degraded", organ[ws], NoSocket)
               \/ p[i] = ReadRequest("recovered", organ[ws], NoSocket)
       \/ p[i] = HealthRequest("sweep", {})
  /\ UNCHANGED <<organ, replies, entity, mailbox, timers, handle, tracked,
                 latest>>

LEMMA SocketPosts ==
  ASSUME TypeOK, NEW ws \in Sockets,
         CloseEvent(ws) \/ ErrorEvent(ws) \/ Pong(ws)
  PROVE  \E p : Posts(p)
<1> USE DEF dbVars, watchVars, pastVars
<1>1. <<>> \in Seq(Requests) /\ DOMAIN <<>> = {}
  OBVIOUS
<1>2. \A r \in Requests : /\ <<r>> \in Seq(Requests)
                          /\ DOMAIN <<r>> = {1} /\ <<r>>[1] = r
  OBVIOUS
<1>3. \A o \in Organs : /\ StatusRequest(o, ws) \in Requests
                        /\ ReadRequest("recovered", o, NoSocket) \in Requests
  BY RequestsTyped
<1>4. \A p : Post(p) => \/ queue' = queue \o p /\ UNCHANGED cutShort
                        \/ UNCHANGED queue /\ cutShort' = cutShort \cup Losers(p)
  BY DEF Post, faultVars
<1>5. ASSUME CloseEvent(ws) \/ ErrorEvent(ws) PROVE \E p : Posts(p)
  <2>1. /\ clients' = clients \ {ws}
        /\ rs'[ws] # "open" /\ \A s \in Sockets \ {ws} : rs'[s] = rs[s]
        /\ UNCHANGED <<organ, replies, entity, mailbox, timers, handle,
                       tracked, latest>>
    BY <1>5 DEF CloseEvent, ErrorEvent, StartDisconnect, DropEntries, TypeOK
  <2>2. CASE ws \in clients /\ organ[ws] # NoOrgan
    <3>1. Post(<<StatusRequest(organ[ws], ws)>>)
      BY <1>5, <2>2 DEF CloseEvent, ErrorEvent, StartDisconnect
    <3>2. StatusRequest(organ[ws], ws) \in Requests
      BY <1>3, <2>2 DEF TypeOK
    <3>3. Posts(<<StatusRequest(organ[ws], ws)>>)
      BY <1>2, <1>4, <2>1, <2>2, <3>1, <3>2 DEF Posts
    <3>4. QED
      BY <3>3
  <2>3. CASE ~(ws \in clients /\ organ[ws] # NoOrgan)
    <3>1. Post(<<>>)
      BY <1>5, <2>3 DEF CloseEvent, ErrorEvent, StartDisconnect
    <3>2. Posts(<<>>)
      BY <1>1, <1>4, <2>1, <2>3, <3>1 DEF Posts
    <3>3. QED
      BY <3>2
  <2>4. QED
    BY <2>2, <2>3
<1>6. CASE Pong(ws)
  <2>1. /\ ws \in clients
        /\ UNCHANGED <<rs, clients, organ, replies, entity, mailbox, timers,
                       handle, tracked, latest>>
    BY <1>6 DEF Pong
  <2>2. CASE notified[ws] /\ organ[ws] # NoOrgan
    <3>1. Post(<<ReadRequest("recovered", organ[ws], NoSocket)>>)
      BY <1>6, <2>2 DEF Pong
    <3>2. ReadRequest("recovered", organ[ws], NoSocket) \in Requests
      BY <1>3, <2>2 DEF TypeOK
    <3>3. Posts(<<ReadRequest("recovered", organ[ws], NoSocket)>>)
      BY <1>2, <1>4, <2>1, <2>2, <3>1, <3>2 DEF Posts
    <3>4. QED
      BY <3>3
  <2>3. CASE ~(notified[ws] /\ organ[ws] # NoOrgan)
    <3>1. Post(<<>>)
      BY <1>6, <2>3 DEF Pong
    <3>2. Posts(<<>>)
      BY <1>1, <1>4, <2>1, <3>1 DEF Posts
    <3>3. QED
      BY <3>2
  <2>4. QED
    BY <2>2, <2>3
<1>7. QED
  BY <1>5, <1>6

LEMMA TimerPosts ==
  ASSUME TypeOK, HeartbeatTick \/ HealthTick
  PROVE  \E p : Posts(p)
<1> USE DEF sockVars, dbVars, watchVars, pastVars
<1>1. \A p : Post(p) => \/ queue' = queue \o p /\ UNCHANGED cutShort
                        \/ UNCHANGED queue /\ cutShort' = cutShort \cup Losers(p)
  BY DEF Post, faultVars
<1>2. CASE HealthTick
  <2>1. HealthRequest("sweep", {}) \in Requests
    BY HealthRequestsTyped
  <2>2. /\ Post(<<HealthRequest("sweep", {})>>)
        /\ DOMAIN <<HealthRequest("sweep", {})>> = {1}
        /\ <<HealthRequest("sweep", {})>> \in Seq(Requests)
    BY <1>2, <2>1 DEF HealthTick
  <2>3. \A i \in DOMAIN <<HealthRequest("sweep", {})>> :
          <<HealthRequest("sweep", {})>>[i] = HealthRequest("sweep", {})
    BY <2>2
  <2>4. UNCHANGED <<rs, clients, organ, replies, entity, mailbox, timers, handle,
                    tracked, latest>>
    BY <1>2 DEF HealthTick
  <2> DEFINE p == <<HealthRequest("sweep", {})>>
  <2>5. \/ queue' = queue \o p /\ UNCHANGED cutShort
        \/ UNCHANGED queue /\ cutShort' = cutShort \cup Losers(p)
    BY <1>1, <2>2
  <2> HIDE DEF p
  <2>6. Posts(p)
    BY <2>2, <2>3, <2>4, <2>5 DEF Posts, p
  <2>7. QED
    BY <2>6
<1>3. CASE HeartbeatTick
  <2> DEFINE S == {ws \in TimedOut : organ[ws] # NoOrgan} \cup Degrading
  <2>1. PICK order \in Orders(S) :
          Post([i \in DOMAIN order |-> TickRequest(order[i])])
    BY <1>3 DEF HeartbeatTick
  <2> DEFINE p == [i \in DOMAIN order |-> TickRequest(order[i])]
  <2>2. S \subseteq Sockets /\ IsFiniteSet(S)
    <3>1. S \subseteq Sockets
      BY DEF TimedOut, Degrading, TypeOK
    <3>2. QED
      BY <3>1, SocketsAssumption, FS_Subset
  <2>3. /\ \A i \in DOMAIN order : order[i] \in S
        /\ \A ws \in S : \E i \in DOMAIN order : order[i] = ws
    BY <2>2, OrdersVisitAll
  <2>4. p \in Seq(Requests)
    BY TickRequestsTyped
  <2>5. /\ clients' = clients \ TimedOut /\ clients \ clients' = TimedOut
        /\ \A ws \in Sockets : /\ ws \in TimedOut => rs'[ws] # "open"
                               /\ ws \notin TimedOut => rs'[ws] = rs[ws]
        /\ UNCHANGED <<organ, replies, entity, mailbox, timers, handle,
                       tracked, latest>>
    BY <1>3 DEF HeartbeatTick, TimedOut
  <2>6. \A ws \in clients \ clients' :
          organ[ws] # NoOrgan =>
            \E i \in DOMAIN p : p[i] = StatusRequest(organ[ws], ws)
    BY <2>3, <2>5 DEF TickRequest
  <2>7. \A i \in DOMAIN p :
          \/ \E ws \in clients \ clients' :
               organ[ws] # NoOrgan /\ p[i] = StatusRequest(organ[ws], ws)
          \/ \E ws \in clients' :
               /\ organ[ws] # NoOrgan
               /\ p[i] = ReadRequest("degraded", organ[ws], NoSocket)
    BY <2>3, <2>5 DEF TickRequest, Degrading
  <2>8. Post(p)
    BY <2>1
  <2> HIDE DEF p, S
  <2>9. Posts(p)
    BY <1>1, <2>4, <2>5, <2>6, <2>7, <2>8 DEF Posts
  <2>10. QED
    BY <2>9
<1>4. QED
  BY <1>2, <1>3

-----------------------------------------------------------------------------
(* Names                                                                   *)

\* Without repeated registers a socket keeps the organ it is given.
LEMMA OrganStays ==
  ASSUME TypeOK, ~Repeat, [Next]_vars
  PROVE  \A ws \in Sockets : organ[ws] # NoOrgan => organ'[ws] = organ[ws]
<1>1. CASE UNCHANGED organ
  BY <1>1
<1>2. ASSUME NEW ws \in Sockets, NEW o \in Organs, Register(ws, o)
      PROVE  \A s \in Sockets : organ[s] # NoOrgan => organ'[s] = organ[s]
  BY <1>2 DEF Register, MayRegister, TypeOK
<1>3. UNCHANGED organ \/ \E ws \in Sockets, o \in Organs : Register(ws, o)
  <2>1. CASE ForgetAll
    BY <2>1 DEF ForgetAll
  <2>2. CASE \E ws \in Sockets : Connect(ws) \/ TimerFires(ws)
    BY <2>2 DEF Connect, TimerFires, sockVars
  <2>3. CASE \E o \in Organs : TimePasses(o)
    BY <2>3 DEF TimePasses, sockVars
  <2>4. QED
    BY <2>1, <2>2, <2>3, StepKinds DEF seen, sockVars
<1>4. QED
  BY <1>1, <1>2, <1>3

\* The new requests of the handlers are well-formed.
LEMMA PostedWellFormed ==
  ASSUME TypeOK, NEW p, Posts(p)
  PROVE  \A i \in DOMAIN p : WellFormed(p[i])
<1>1. \A ws \in clients :
        organ[ws] # NoOrgan =>
          /\ WellFormed(StatusRequest(organ[ws], ws))
          /\ WellFormed(ReadRequest("degraded", organ[ws], NoSocket))
          /\ WellFormed(ReadRequest("recovered", organ[ws], NoSocket))
  BY DEF WellFormed, StatusRequest, ReadRequest, TypeOK
<1>2. WellFormed(HealthRequest("sweep", {}))
  BY DEF WellFormed, HealthRequest
<1>3. QED
  BY <1>1, <1>2 DEF Posts

\* The end of a disconnect sequence arms the timer of the organ's socket.
Arms ==
  /\ Request.seq = "disconnect"
  /\ ArmTimer(Request.socket, Request.organ)

\* What the handling of a reply posts, by the sequence it goes on with: a
\* disconnect sequence goes on until it arms the timer, or until it is cut
\* short.
Fits(p) ==
  /\ WellFormed(Request) => \A i \in DOMAIN p : WellFormed(p[i])
  /\ \A i \in DOMAIN p, o \in Organs :
       /\ ~Pinging(p[i], "read", o)
       /\ Pinging(p[i], "transition", o) => Pinging(Request, "read", o)
  /\ \A o \in Organs, ws \in Sockets \ cutShort' :
       /\ Losing(Request, "status", o, ws) =>
            1 \in DOMAIN p /\ Losing(p[1], "read", o, ws)
       /\ /\ Losing(Request, "read", o, ws)
          /\ Head(replies).state \in {"ALIVE", "DEGRADED"}
          => 1 \in DOMAIN p /\ Losing(p[1], "transition", o, ws)
       /\ /\ Request.seq = "disconnect"
          /\ Request.organ = o /\ Request.socket = ws
          => \/ Arms
             \/ /\ 1 \in DOMAIN p /\ p[1].seq = "disconnect"
                /\ p[1].organ = o /\ p[1].socket = ws

\* A sequence that ends here.
LEMMA NothingFits ==
  ASSUME \/ Request.seq # "disconnect"
         \/ Request.socket \in cutShort'
         \/ /\ Arms /\ Request.op # "status"
            /\ Request.op = "read" =>
                 Head(replies).state \notin {"ALIVE", "DEGRADED"}
  PROVE  Fits(<<>>)
<1>1. DOMAIN <<>> = {}
  OBVIOUS
<1>2. QED
  BY <1>1 DEF Fits, Losing

\* A sequence that goes on with r, or is refused r.
LEMMA NextFits ==
  ASSUME TypeOK, NEW r \in Requests, Post(<<r>>), cutShort' \subseteq Sockets,
         WellFormed(Request) => WellFormed(r),
         \A o \in Organs :
           /\ ~Pinging(r, "read", o)
           /\ Pinging(r, "transition", o) => Pinging(Request, "read", o),
         Request.seq = "disconnect" =>
           /\ r.seq = "disconnect"
           /\ r.organ = Request.organ /\ r.socket = Request.socket
           /\ \/ Request.op = "status" /\ r.op = "read"
              \/ Request.op = "read" /\ r.op = "transition"
  PROVE  \E p \in Seq(Requests) :
           queue' = queue \o p /\ Fits(p) /\ cutShort \subseteq cutShort'
<1>1. /\ <<r>> \in Seq(Requests) /\ DOMAIN <<r>> = {1} /\ <<r>>[1] = r
      /\ <<>> \in Seq(Requests)
  OBVIOUS
<1>2. CASE queue' = queue \o <<r>> /\ UNCHANGED cutShort
  <2>1. Fits(<<r>>)
    BY <1>1 DEF Fits, Losing
  <2>2. QED
    BY <1>1, <1>2, <2>1
<1>3. CASE UNCHANGED queue /\ cutShort' = cutShort \cup Losers(<<r>>)
  <2>1. r.seq = "disconnect" => r.socket \in cutShort'
    BY <1>1, <1>3 DEF Losers
  <2>2. Fits(<<>>)
    BY <2>1, NothingFits
  <2>3. queue' = queue \o <<>>
    BY <1>3 DEF TypeOK
  <2>4. QED
    BY <1>1, <1>3, <2>2, <2>3
<1>4. QED
  BY <1>2, <1>3 DEF Post, faultVars

LEMMA ReplyPosts ==
  ASSUME TypeOK, TypeOK', MainReply
  PROVE  /\ replies # <<>> /\ Request \in Requests
         /\ replies' = Tail(replies) /\ cutShort \subseteq cutShort'
         /\ \E p \in Seq(Requests) : queue' = queue \o p /\ Fits(p)
<1>1. replies # <<>>
  BY DEF MainReply, Answered, Rejected, HasReply, DegradedRead, RecoveredRead,
         TransitionDone, DisconnectStatusSet, DisconnectRead, DisconnectDone,
         HealthCheck
<1>2. Request \in Requests
  BY <1>1, ReplyTyped
<1>3. {"ALIVE", "DEGRADED", "DISCONNECTED"} \subseteq States
  BY DEF States
<1>4. cutShort' \subseteq Sockets /\ <<>> \in Seq(Requests) /\ queue \o <<>> = queue
  BY DEF TypeOK
<1> DEFINE Goal == /\ replies' = Tail(replies) /\ cutShort \subseteq cutShort'
                   /\ \E p \in Seq(Requests) : queue' = queue \o p /\ Fits(p)
<1>5. ASSUME UNCHANGED queue, replies' = Tail(replies),
             cutShort \subseteq cutShort', Fits(<<>>)
      PROVE  Goal
  BY <1>4, <1>5
<1>6. ASSUME Continue(<<>>), Fits(<<>>) PROVE Goal
  BY <1>4, <1>5, <1>6 DEF Continue, Post, faultVars
<1>7. ASSUME NEW r \in Requests, Continue(<<r>>),
             WellFormed(Request) => WellFormed(r),
             \A o \in Organs :
               /\ ~Pinging(r, "read", o)
               /\ Pinging(r, "transition", o) => Pinging(Request, "read", o),
             Request.seq = "disconnect" =>
               /\ r.seq = "disconnect"
               /\ r.organ = Request.organ /\ r.socket = Request.socket
               /\ \/ Request.op = "status" /\ r.op = "read"
                  \/ Request.op = "read" /\ r.op = "transition"
      PROVE  Goal
  BY <1>4, <1>7, NextFits DEF Continue
<1> SUFFICES Goal
  BY <1>1, <1>2
<1> HIDE DEF Goal
<1>8. CASE DegradedRead \/ RecoveredRead
  <2>1. /\ Request.seq \in {"degraded", "recovered"} /\ Request.op = "read"
        /\ Request.organ \in Organs
    BY <1>2, <1>8 DEF DegradedRead, RecoveredRead, HasReply, Request, Requests,
                      RawRequests
  <2>2. ASSUME NEW from \in States, NEW to \in States,
               NEW seq \in {"degraded", "recovered"},
               Continue(<<TransitionRequest(seq, Request.organ, NoSocket,
                                            from, to)>>)
        PROVE  Goal
    <3> DEFINE r == TransitionRequest(seq, Request.organ, NoSocket, from, to)
    <3>1. r \in Requests
      BY <2>1 DEF TransitionRequest, Requests, RawRequests
    <3>2. /\ r.seq \in {"degraded", "recovered"} /\ r.op = "transition"
          /\ r.organ = Request.organ
      BY DEF TransitionRequest
    <3>3. Continue(<<r>>)
      BY <2>2
    <3> HIDE DEF r
    <3>4. QED
      BY <1>7, <2>1, <3>1, <3>2, <3>3 DEF Pinging, WellFormed
  <2>3. Continue(<<>>) => Goal
    BY <1>6, <2>1, NothingFits
  <2>4. QED
    BY <1>3, <1>8, <2>2, <2>3 DEF DegradedRead, RecoveredRead
<1>9. CASE TransitionDone
  <2>1. Request.seq # "disconnect" /\ Continue(<<>>)
    BY <1>9 DEF TransitionDone, HasReply, Request
  <2>2. QED
    BY <1>6, <2>1, NothingFits
<1>10. ASSUME \/ HasReply("disconnect", "status") \/ HasReply("disconnect", "read")
              \/ HasReply("disconnect", "transition")
       PROVE  /\ Request.organ \in Organs /\ Request.socket \in Sockets
              /\ Request.seq = "disconnect" /\ Head(replies).state \in States
  BY <1>1, <1>2, <1>10, ReplyTyped
     DEF HasReply, Request, Requests, RawRequests
<1>11. CASE DisconnectStatusSet
  <2> DEFINE r == ReadRequest("disconnect", Request.organ, Request.socket)
  <2>1. r \in Requests /\ Continue(<<r>>)
    BY <1>10, <1>11, RequestsTyped DEF DisconnectStatusSet
  <2>2. /\ r.seq = "disconnect" /\ r.op = "read"
        /\ r.organ = Request.organ /\ r.socket = Request.socket
        /\ Request.seq = "disconnect" /\ Request.op = "status"
    BY <1>11 DEF ReadRequest, DisconnectStatusSet, HasReply, Request
  <2> HIDE DEF r
  <2>3. QED
    BY <1>7, <2>1, <2>2 DEF Pinging, WellFormed
<1>12. CASE DisconnectRead
  <2> DEFINE r == TransitionRequest("disconnect", Request.organ,
                    Request.socket, Head(replies).state, "DISCONNECTED")
  <2>1. r \in Requests
    BY <1>3, <1>10, <1>12, TransitionRequestsTyped DEF DisconnectRead
  <2>2. /\ r.seq = "disconnect" /\ r.op = "transition"
        /\ r.organ = Request.organ /\ r.socket = Request.socket
        /\ r.to = "DISCONNECTED"
        /\ Request.seq = "disconnect" /\ Request.op = "read"
    BY <1>12 DEF TransitionRequest, DisconnectRead, HasReply, Request
  <2>3. \/ Continue(<<r>>)
        \/ /\ Continue(<<>>) /\ Arms
           /\ Head(replies).state \notin {"ALIVE", "DEGRADED"}
    BY <1>12, <2>2 DEF DisconnectRead, Arms
  <2> HIDE DEF r
  <2>4. Continue(<<r>>) => Goal
    BY <1>7, <2>1, <2>2 DEF Pinging, WellFormed
  <2>5. QED
    BY <1>6, <2>2, <2>3, <2>4, NothingFits
<1>13. CASE DisconnectDone
  <2>1. Arms /\ Request.op = "transition" /\ Continue(<<>>)
    BY <1>13 DEF DisconnectDone, HasReply, Request, Arms
  <2>2. QED
    BY <1>6, <2>1, NothingFits
<1>14. CASE HealthCheck
  <2>1. Request.seq = "health"
    BY <1>14 DEF HealthCheck, HasReply, Request
  <2>2. PICK due \in SUBSET Organs : CheckMissing(due)
    <3>1. Request.due \in SUBSET Organs
      BY <1>2 DEF Requests, RawRequests
    <3>2. QED
      BY <1>14, <3>1 DEF HealthCheck
  <2>3. \/ Continue(<<>>)
        \/ \E todo \in SUBSET Organs : Continue(<<HealthRequest("hom", todo)>>)
        \/ replies' = Tail(replies) /\ UNCHANGED <<queue, cutShort>>
    <3>1. \A o : ToReport(due) \ {o} \in SUBSET Organs
      BY DEF ToReport
    <3>2. QED
      BY <2>2, <3>1 DEF CheckMissing
  <2>4. ASSUME NEW todo \in SUBSET Organs,
               Continue(<<HealthRequest("hom", todo)>>)
        PROVE  Goal
    <3>1. /\ HealthRequest("hom", todo) \in Requests
          /\ HealthRequest("hom", todo).seq = "health"
          /\ HealthRequest("hom", todo).op = "hom"
      BY HealthRequestsTyped DEF HealthRequest
    <3>2. QED
      BY <1>7, <2>1, <2>4, <3>1 DEF Pinging, WellFormed
  <2>5. QED
    BY <1>5, <1>6, <2>1, <2>3, <2>4, NothingFits
<1>15. CASE Rejected
  <2>1. /\ UNCHANGED queue /\ replies' = Tail(replies)
        /\ cutShort' = cutShort \cup Losers(<<Request>>)
    BY <1>15 DEF Rejected
  <2>2. Request.seq = "disconnect" => Request.socket \in Losers(<<Request>>)
    BY DEF Losers
  <2>3. QED
    BY <1>5, <2>1, <2>2, NothingFits
<1>16. QED
  BY <1>1, <1>2, <1>8, <1>9, <1>11, <1>12, <1>13, <1>14, <1>15
     DEF MainReply, Answered, Goal

\* Nothing that the sequences or the watch see happens.
Idles ==
  /\ \A ws \in Sockets : rs'[ws] = "open" => rs[ws] = "open"
  /\ UNCHANGED <<clients, organ, queue, replies, entity, mailbox, timers,
                 handle, tracked, latest, cutShort>>

\* The kinds of steps.
LEMMA Kinds ==
  ASSUME TypeOK, [Next]_vars
  PROVE  \/ Idles
         \/ \E ws \in Sockets : Connect(ws)
         \/ \E p : Posts(p)
         \/ \E ws \in Sockets, o \in Organs : Register(ws, o)
         \/ WorkerExec \/ WorkerFails
         \/ WorkerCrash
         \/ MainReply
         \/ \E ws \in Sockets : TimerFires(ws)
         \/ \E o \in Organs : TimePasses(o)
         \/ ForgetAll
<1> USE DEF sockVars, dbVars, pipeVars, watchVars, pastVars, faultVars
<1>1. CASE \E ws \in Sockets : RegisterUnknown(ws) \/ GoSilent(ws)
  BY <1>1 DEF RegisterUnknown, GoSilent, Idles, TypeOK
<1>2. CASE \E ws \in Sockets : CloseEvent(ws) \/ ErrorEvent(ws) \/ Pong(ws)
  BY <1>2, SocketPosts
<1>3. CASE HeartbeatTick \/ HealthTick
  BY <1>3, TimerPosts
<1>4. CASE Restart \/ \E ws \in Sockets, o \in Organs : RestartInRegister(ws, o)
  BY <1>4 DEF Restart, RestartInRegister
<1>5. CASE UNCHANGED vars
  BY <1>5 DEF vars, Idles
<1>6. QED
  BY <1>1, <1>2, <1>3, <1>4, <1>5 DEF Next, Environment

LEMMA PipeWellFormedNext ==
  ASSUME TypeOK, TypeOK', ~Repeat, PipeWellFormed, [Next]_vars
  PROVE  PipeWellFormed'
<1> DEFINE Fine(r) ==
             /\ r.seq = "disconnect" =>
                  r.organ \in Organs /\ organ'[r.socket] = r.organ
             /\ r.op = "transition" => r.seq # "health"
             /\ r.op = "transition" /\ r.seq = "disconnect" =>
                  r.to = "DISCONNECTED"
<1>1. /\ queue \in Seq(Requests) /\ replies \in Seq(Replies)
      /\ \A i \in DOMAIN queue : queue[i] \in Requests
      /\ \A i \in DOMAIN replies : replies[i].req \in Requests
  <2>1. queue \in Seq(Requests) /\ replies \in Seq(Replies)
    BY DEF TypeOK
  <2>2. /\ \A i \in DOMAIN queue : queue[i] \in Requests
        /\ \A i \in DOMAIN replies : replies[i] \in Replies
    BY <2>1, Elements
  <2>3. QED
    BY <2>1, <2>2 DEF Replies
<1>2. \A r \in Requests : WellFormed(r) => Fine(r)
  <2> SUFFICES ASSUME NEW r \in Requests, WellFormed(r) PROVE Fine(r)
    OBVIOUS
  <2>1. r.seq = "disconnect" => r.socket \in Sockets
    BY DEF Requests
  <2>2. QED
    BY <2>1, OrganStays, OrgansAssumption DEF WellFormed
<1>3. /\ \A i \in DOMAIN queue : Fine(queue[i])
      /\ \A i \in DOMAIN replies : Fine(replies[i].req)
  BY <1>1, <1>2 DEF PipeWellFormed
<1> HIDE DEF Fine
<1> SUFFICES /\ \A i \in DOMAIN queue' : Fine(queue'[i])
             /\ \A i \in DOMAIN replies' : Fine(replies'[i].req)
  BY DEF Fine, PipeWellFormed, WellFormed
<1>4. ASSUME NEW p \in Seq(Requests), \A i \in DOMAIN p : WellFormed(p[i])
      PROVE  \A i \in DOMAIN (queue \o p) : Fine((queue \o p)[i])
  <2>1. \A i \in DOMAIN p : p[i] \in Requests
    BY Elements
  <2>2. \A i \in DOMAIN p : Fine(p[i])
    BY <1>2, <1>4, <2>1
  <2>3. QED
    BY <1>1, <1>3, <2>2, Grown
<1>5. CASE UNCHANGED <<queue, replies>>
  BY <1>3, <1>5
<1>6. ASSUME NEW p, Posts(p)
      PROVE  /\ \A i \in DOMAIN queue' : Fine(queue'[i])
             /\ \A i \in DOMAIN replies' : Fine(replies'[i].req)
  <2>1. /\ p \in Seq(Requests) /\ replies' = replies
        /\ queue' = queue \o p \/ UNCHANGED queue
    BY <1>6 DEF Posts
  <2>2. \A i \in DOMAIN p : WellFormed(p[i])
    BY <1>6, PostedWellFormed
  <2>3. QED
    BY <1>3, <1>4, <2>1, <2>2
<1>7. CASE WorkerExec \/ WorkerFails
  <2>1. PICK x : /\ x.req = Head(queue) /\ queue # <<>>
                 /\ replies' = Append(replies, x)
                 /\ queue' = Tail(queue)
    BY <1>7 DEF WorkerExec, WorkerFails
  <2>2. \A i \in DOMAIN queue' : Fine(queue'[i])
    BY <1>1, <1>3, <2>1, Elements
  <2>3. Fine(x.req)
    BY <1>1, <1>3, <2>1, Elements
  <2>4. \A i \in DOMAIN replies' :
          \/ i \in DOMAIN replies /\ replies'[i] = replies[i]
          \/ replies'[i] = x
    BY <1>1, <2>1
  <2>5. QED
    BY <1>3, <2>2, <2>3, <2>4
<1>8. CASE MainReply
  <2>1. replies # <<>> /\ replies' = Tail(replies)
    BY <1>8, ReplyPosts
  <2>2. WellFormed(Request)
    <3>1. Request = replies[1].req /\ 1 \in DOMAIN replies
      BY <1>1, <2>1, Elements DEF Request
    <3>2. QED
      BY <3>1 DEF PipeWellFormed
  <2>3. PICK p \in Seq(Requests) :
          queue' = queue \o p /\ \A i \in DOMAIN p : WellFormed(p[i])
    BY <1>8, <2>2, ReplyPosts DEF Fits
  <2>4. \A i \in DOMAIN replies' : Fine(replies'[i].req)
    BY <1>1, <1>3, <2>1, Elements
  <2>5. QED
    BY <1>4, <2>3, <2>4
<1>9. CASE WorkerCrash \/ ForgetAll
  <2>1. queue' = <<>> /\ replies' = <<>>
    BY <1>9 DEF WorkerCrash, ForgetAll
  <2>2. QED
    BY <2>1
<1>10. CASE \/ Idles
            \/ \E ws \in Sockets : Connect(ws) \/ TimerFires(ws)
            \/ \E ws \in Sockets, o \in Organs : Register(ws, o)
            \/ \E o \in Organs : TimePasses(o)
  <2>1. UNCHANGED <<queue, replies>>
    BY <1>10 DEF Idles, Connect, TimerFires, Register, TimePasses, pipeVars
  <2>2. QED
    BY <1>5, <2>1
<1>11. QED
  BY <1>6, <1>7, <1>8, <1>9, <1>10, Kinds

\* What the handling of a reply does to the watch.
LEMMA ReplyKinds ==
  ASSUME TypeOK, MainReply
  PROVE  /\ UNCHANGED <<rs, clients, organ, entity, mailbox, latest>>
         /\ \/ UNCHANGED <<timers, handle, tracked>>
            \/ Arms
            \/ \E due \in SUBSET Organs :
                 CheckMissing(due) /\ Request.seq = "health"
<1> USE DEF sockVars, dbVars, watchVars, pastVars
<1>1. CASE \/ DegradedRead \/ RecoveredRead \/ TransitionDone
           \/ DisconnectStatusSet \/ Rejected
  BY <1>1 DEF DegradedRead, RecoveredRead, TransitionDone, DisconnectStatusSet,
              Rejected
<1>2. CASE DisconnectRead \/ DisconnectDone
  <2>1. Request.seq = "disconnect"
    BY <1>2 DEF DisconnectRead, DisconnectDone, HasReply, Request
  <2>2. UNCHANGED <<timers, handle, tracked>> \/ Arms
    BY <1>2, <2>1 DEF DisconnectRead, DisconnectDone, Arms
  <2>3. QED
    BY <1>2, <2>2 DEF DisconnectRead, DisconnectDone
<1>3. CASE HealthCheck
  <2>1. replies # <<>> /\ Request.seq = "health"
    BY <1>3 DEF HealthCheck, HasReply, Request
  <2>2. Request.due \in SUBSET Organs
    BY <2>1, ReplyTyped DEF Requests, RawRequests
  <2>3. \E due \in SUBSET Organs : CheckMissing(due) /\ Request.seq = "health"
    BY <1>3, <2>1, <2>2 DEF HealthCheck
  <2>4. QED
    BY <1>3, <2>3 DEF HealthCheck
<1>4. QED
  BY <1>1, <1>2, <1>3 DEF MainReply, Answered

LEMMA HandleNext ==
  ASSUME TypeOK, TypeOK', ~Repeat, PipeWellFormed, HandleNamesOrgan, [Next]_vars
  PROVE  HandleNamesOrgan'
<1>1. \A ws \in Sockets : organ[ws] # NoOrgan => organ'[ws] = organ[ws]
  BY OrganStays
<1>2. ASSUME \A o \in Organs : handle'[o] \in {handle[o], NoSocket}
      PROVE  HandleNamesOrgan'
  <2>1. \A o \in Organs : handle[o] # NoSocket => handle[o] \in Sockets
    BY DEF TypeOK
  <2>2. QED
    BY <1>1, <1>2, <2>1, OrgansAssumption DEF HandleNamesOrgan
<1>3. CASE MainReply
  <2>1. UNCHANGED handle => HandleNamesOrgan'
    BY <1>2
  <2>2. CASE Arms
    <3>1. replies # <<>>
      BY <1>3, ReplyPosts
    <3>2. WellFormed(Request)
      <4>1. Request = replies[1].req /\ 1 \in DOMAIN replies
        BY <3>1, Elements DEF Request, TypeOK
      <4>2. QED
        BY <4>1 DEF PipeWellFormed
    <3>3. organ[Request.socket] = Request.organ
      BY <2>2, <3>2 DEF WellFormed, Arms
    <3>4. \A o \in Organs : \/ handle'[o] = handle[o]
                            \/ handle'[o] = Request.socket /\ o = Request.organ
      BY <2>2 DEF Arms, ArmTimer, TypeOK
    <3>5. UNCHANGED organ
      BY <1>3, ReplyKinds
    <3>6. QED
      BY <3>3, <3>4, <3>5 DEF HandleNamesOrgan
  <2>3. CASE \E due \in SUBSET Organs : CheckMissing(due)
    BY <1>2, <2>3 DEF CheckMissing
  <2>4. QED
    BY <1>3, <2>1, <2>2, <2>3, ReplyKinds
<1>4. CASE ~MainReply
  <2>1. \A o \in Organs : handle'[o] \in {handle[o], NoSocket}
    <3>1. CASE Idles \/ \E p : Posts(p)
      BY <3>1 DEF Idles, Posts
    <3>2. CASE \E ws \in Sockets : Connect(ws) \/ TimerFires(ws)
      BY <3>2 DEF Connect, TimerFires, watchVars, TypeOK
    <3>3. CASE \E ws \in Sockets, o \in Organs : Register(ws, o)
      BY <3>3 DEF Register, ClearWatch, TypeOK
    <3>4. CASE WorkerExec \/ WorkerFails \/ WorkerCrash \/ ForgetAll
      BY <3>4 DEF WorkerExec, WorkerFails, WorkerCrash, ForgetAll, watchVars
    <3>5. CASE \E o \in Organs : TimePasses(o)
      BY <3>5 DEF TimePasses
    <3>6. QED
      BY <1>4, <3>1, <3>2, <3>3, <3>4, <3>5, Kinds
  <2>2. QED
    BY <1>2, <2>1
<1>5. QED
  BY <1>3, <1>4

LEMMA OpenNext ==
  ASSUME TypeOK, OpenIsClient, [Next]_vars
  PROVE  OpenIsClient'
<1>1. CASE Idles \/ \E p : Posts(p)
  BY <1>1 DEF Idles, Posts, OpenIsClient
<1>2. CASE \E ws \in Sockets : Connect(ws) \/ TimerFires(ws)
  BY <1>2 DEF Connect, TimerFires, sockVars, OpenIsClient, TypeOK
<1>3. CASE \E ws \in Sockets, o \in Organs : Register(ws, o)
  <2>1. PICK ws \in Sockets, o \in Organs :
          /\ rs' = [s \in Sockets |->
                     IF s \in Replaced(ws, o) THEN "closing" ELSE rs[s]]
          /\ clients' = clients \ Replaced(ws, o)
    BY <1>3 DEF Register, DropEntries
  <2>2. QED
    BY <2>1 DEF OpenIsClient
<1>4. CASE WorkerExec \/ WorkerFails \/ WorkerCrash \/ MainReply
  <2>1. UNCHANGED <<rs, clients>>
    BY <1>4, ReplyKinds DEF WorkerExec, WorkerFails, WorkerCrash, sockVars
  <2>2. QED
    BY <2>1 DEF OpenIsClient
<1>5. CASE ForgetAll \/ \E o \in Organs : TimePasses(o)
  BY <1>5 DEF ForgetAll, TimePasses, sockVars, OpenIsClient
<1>6. QED
  BY <1>1, <1>2, <1>3, <1>4, <1>5, Kinds

LEMMA EntryNext ==
  ASSUME TypeOK, NewIsAnonymous, OpenIsClient, ~Repeat, EntryIsLatest,
         [Next]_vars
  PROVE  EntryIsLatest'
<1>1. CASE Idles \/ (\E p : Posts(p)) \/ \E ws \in Sockets : TimerFires(ws)
  <2>1. clients' \subseteq clients /\ UNCHANGED <<organ, latest>>
    BY <1>1 DEF Idles, Posts, TimerFires, sockVars, pastVars
  <2>2. QED
    BY <2>1 DEF EntryIsLatest
<1>2. ASSUME NEW ws \in Sockets, Connect(ws) PROVE EntryIsLatest'
  <2>1. /\ clients' = clients \cup {ws} /\ organ[ws] = NoOrgan
        /\ UNCHANGED <<organ, latest>>
    BY <1>2 DEF Connect, NewIsAnonymous, pastVars
  <2>2. QED
    BY <2>1 DEF EntryIsLatest
<1>3. ASSUME NEW ws \in Sockets, NEW x \in Organs, Register(ws, x)
      PROVE  EntryIsLatest'
  <2>1. ws \in clients /\ organ[ws] = NoOrgan
    BY <1>3 DEF Register, MayRegister, OpenIsClient
  <2>2. /\ clients' = clients \ Replaced(ws, x) /\ clients \subseteq Sockets
        /\ organ' = [organ EXCEPT ![ws] = x]
        /\ latest' = [latest EXCEPT ![x] = ws]
        /\ organ \in [Sockets -> Organs \cup {NoOrgan}]
        /\ latest \in [Organs -> Sockets \cup {NoSocket}]
    BY <1>3, <2>1 DEF Register, DropEntries, TypeOK
  <2>3. organ'[ws] = x /\ latest'[x] = ws
    BY <2>2
  <2>4. ASSUME NEW s \in clients', s # ws, organ'[s] # NoOrgan
        PROVE  latest'[organ'[s]] = s
    <3>1. /\ s \in clients /\ organ'[s] = organ[s] /\ organ[s] # x
          /\ organ[s] \in Organs
      BY <2>2, <2>4 DEF Replaced
    <3>2. QED
      BY <2>2, <2>4, <3>1 DEF EntryIsLatest
  <2>5. QED
    BY <2>3, <2>4 DEF EntryIsLatest
<1>4. CASE WorkerExec \/ WorkerFails \/ WorkerCrash \/ MainReply
  <2>1. UNCHANGED <<clients, organ, latest>>
    BY <1>4, ReplyKinds
       DEF WorkerExec, WorkerFails, WorkerCrash, sockVars, pastVars
  <2>2. QED
    BY <2>1 DEF EntryIsLatest
<1>5. CASE ForgetAll \/ \E o \in Organs : TimePasses(o)
  BY <1>5 DEF ForgetAll, TimePasses, sockVars, pastVars, EntryIsLatest
<1>6. QED
  BY <1>1, <1>2, <1>3, <1>4, <1>5, Kinds

LEMMA NamesNext == WatchInv /\ TypeOK' /\ NamesInv /\ [Next]_vars => NamesInv'
BY PipeWellFormedNext, HandleNext, OpenNext, EntryNext DEF NamesInv, WatchInv

LEMMA NamesInvariant == Spec => []NamesInv
<1>1. Init => NamesInv
  BY DEF Init, NamesInv, OpenIsClient, PipeWellFormed, HandleNamesOrgan,
         EntryIsLatest
<1>2. QED
  BY <1>1, NamesNext, TypeCorrect, WatchInvariant, PTL DEF Spec

-----------------------------------------------------------------------------
(* A required organ that is lost is watched                                *)

\* The organ of a register is connected after it, and no other organ is lost
\* or found.
LEMMA RegisterConnects ==
  ASSUME WatchInv, NamesInv, ~Repeat, NEW ws \in Sockets, NEW x \in Organs,
         Register(ws, x)
  PROVE  /\ Connected(x)'
         /\ \A o \in Organs \ {x} : Connected(o)' <=> Connected(o)
         /\ organ[ws] = NoOrgan
<1>1. rs[ws] = "open" /\ organ[ws] = NoOrgan
  BY DEF Register, MayRegister
<1>2. ws \in clients
  BY <1>1 DEF NamesInv, OpenIsClient
<1>3. /\ clients' = clients \ Replaced(ws, x)
      /\ organ' = [organ EXCEPT ![ws] = x]
      /\ organ \in [Sockets -> Organs \cup {NoOrgan}]
      /\ clients \subseteq Sockets
  BY <1>2 DEF Register, DropEntries, WatchInv, TypeOK
<1>4. ws \in clients' /\ organ'[ws] = x
  BY <1>2, <1>3 DEF Replaced
<1>5. \A s \in clients : s # ws => organ'[s] = organ[s]
  BY <1>3
<1>6. \A o \in Organs \ {x} : Connected(o)' <=> Connected(o)
  BY <1>1, <1>3, <1>4, <1>5, OrgansAssumption DEF Connected, Replaced
<1>7. QED
  BY <1>1, <1>4, <1>6 DEF Connected

\* Nor is any by a new connection.
LEMMA ConnectConnectsNone ==
  ASSUME WatchInv, NEW ws \in Sockets, Connect(ws)
  PROVE  \A o \in Organs : Connected(o)' <=> Connected(o)
<1>1. organ[ws] = NoOrgan /\ clients' = clients \cup {ws} /\ UNCHANGED organ
  BY DEF Connect, WatchInv, NewIsAnonymous
<1>2. QED
  BY <1>1, OrgansAssumption DEF Connected

\* A request that is posted for an organ without a connection is the one of the
\* entry it loses, that of its last register.
LEMMA PostedFor ==
  ASSUME WatchInv, EntryIsLatest, NEW p, Posts(p),
         NEW o \in Organs, NEW ws \in Sockets, ws = latest[o], ~Connected(o)'
  PROVE  /\ \A i \in DOMAIN p : p[i].organ = o => Losing(p[i], "status", o, ws)
         /\ Connected(o) => \E i \in DOMAIN p : Losing(p[i], "status", o, ws)
         /\ ~Connected(o) => \A i \in DOMAIN p : p[i].organ # o
<1>1. UNCHANGED organ /\ clients' \subseteq clients
  BY DEF Posts
<1>2. \A s \in clients' : organ[s] # o
  BY <1>1 DEF Connected
<1>3. \A s \in clients : organ[s] = o => s = ws
  BY OrgansAssumption DEF EntryIsLatest
<1>4. ASSUME NEW i \in DOMAIN p
      PROVE  \/ \E s \in clients \ clients' : p[i] = StatusRequest(organ[s], s)
             \/ p[i].organ # o
  BY <1>2, OrgansAssumption DEF Posts, ReadRequest, HealthRequest
<1>5. Connected(o) => \E i \in DOMAIN p : Losing(p[i], "status", o, ws)
  <2>1. SUFFICES ASSUME ws \in clients, organ[ws] = o
                 PROVE  \E i \in DOMAIN p : Losing(p[i], "status", o, ws)
    BY <1>3 DEF Connected
  <2>2. ws \in clients \ clients' /\ organ[ws] # NoOrgan
    BY <1>2, <2>1, OrgansAssumption
  <2>3. PICK i \in DOMAIN p : p[i] = StatusRequest(organ[ws], ws)
    BY <2>2 DEF Posts
  <2>4. QED
    BY <2>1, <2>3 DEF Losing, StatusRequest
<1>6. QED
  BY <1>3, <1>4, <1>5 DEF Losing, StatusRequest, Connected

\* Requests that are posted join the queue, unless the disconnect sequences
\* among them are cut short.
LEMMA PostedGrows ==
  ASSUME TypeOK, NEW p, Posts(p)
  PROVE  \E q \in Seq(Requests) :
           /\ queue' = queue \o q /\ q \in {p, <<>>}
           /\ \A i \in DOMAIN p :
                p[i].seq = "disconnect" /\ p[i].socket \notin cutShort' => q = p
<1>1. p \in Seq(Requests) /\ <<>> \in Seq(Requests) /\ queue \o <<>> = queue
  BY DEF Posts, TypeOK
<1>2. CASE queue' = queue \o p
  BY <1>1, <1>2
<1>3. CASE UNCHANGED queue /\ cutShort' = cutShort \cup Losers(p)
  <2>1. \A i \in DOMAIN p : p[i].seq = "disconnect" => p[i].socket \in Losers(p)
    BY DEF Losers
  <2>2. QED
    BY <1>1, <1>3, <2>1
<1>4. QED
  BY <1>2, <1>3 DEF Posts

\* Handling a reply leaves the queue and the other replies where they are.
LEMMA ReplyKeeps ==
  ASSUME TypeOK, TypeOK', MainReply
  PROVE  /\ \A i \in DOMAIN queue : i \in DOMAIN queue' /\ queue'[i] = queue[i]
         /\ \A i \in DOMAIN replies :
              i # 1 => i - 1 \in DOMAIN replies' /\ replies'[i - 1] = replies[i]
         /\ 1 \in DOMAIN replies /\ Request = replies[1].req
         /\ Head(replies) = replies[1]
<1>1. /\ replies # <<>> /\ queue \in Seq(Requests) /\ replies \in Seq(Replies)
      /\ replies' = Tail(replies)
  BY ReplyPosts DEF TypeOK
<1>2. PICK p \in Seq(Requests) : queue' = queue \o p
  BY ReplyPosts
<1>3. \A i \in DOMAIN queue : i \in DOMAIN queue' /\ queue'[i] = queue[i]
  BY <1>1, <1>2, Grown
<1>4. QED
  BY <1>1, <1>3, Elements DEF Request

\* The worker moves the request at the head of the queue to the end of the
\* replies.  An answer that is no error tells of its effect.
LEMMA ExecMoves ==
  ASSUME TypeOK, WorkerExec \/ WorkerFails
  PROVE  /\ queue # <<>> /\ Head(queue) = queue[1] /\ 1 \in DOMAIN queue
         /\ \A i \in DOMAIN queue :
              i # 1 => i - 1 \in DOMAIN queue' /\ queue'[i - 1] = queue[i]
         /\ \A i \in DOMAIN queue' :
              /\ i \in Nat \ {0} /\ i + 1 \in DOMAIN queue
              /\ queue'[i] = queue[i + 1]
         /\ \A i \in DOMAIN replies :
              i \in DOMAIN replies' /\ replies'[i] = replies[i]
         /\ Len(replies) + 1 \in DOMAIN replies'
         /\ replies'[Len(replies) + 1].req = queue[1]
         /\ replies'[Len(replies) + 1].state # "error" =>
              /\ Execute(queue[1])
              /\ queue[1].op = "read" =>
                   replies'[Len(replies) + 1].state = entity[queue[1].organ]
         /\ \A i \in DOMAIN replies' :
              i \in DOMAIN replies \/ i = Len(replies) + 1
         /\ Execute(queue[1]) \/ UNCHANGED dbVars
<1>1. /\ queue \in Seq(Requests) /\ replies \in Seq(Replies) /\ queue # <<>>
      /\ queue' = Tail(queue)
      /\ Execute(Head(queue)) \/ UNCHANGED dbVars
  BY DEF WorkerExec, WorkerFails, TypeOK
<1>2. PICK x : /\ x.req = Head(queue)
               /\ x.state # "error" =>
                    /\ Execute(Head(queue))
                    /\ Head(queue).op = "read" =>
                         x.state = entity[Head(queue).organ]
               /\ replies' = Append(replies, x)
  <2>1. CASE WorkerExec
    BY <2>1 DEF WorkerExec
  <2>2. CASE WorkerFails
    BY <2>2 DEF WorkerFails
  <2>3. QED
    BY <2>1, <2>2
<1>3. /\ \A i \in DOMAIN replies :
           i \in DOMAIN replies' /\ replies'[i] = replies[i]
      /\ Len(replies) + 1 \in DOMAIN replies'
      /\ replies'[Len(replies) + 1] = x
      /\ \A i \in DOMAIN replies' :
           i \in DOMAIN replies \/ i = Len(replies) + 1
  BY <1>1, <1>2
<1>4. QED
  BY <1>1, <1>2, <1>3, Elements

\* A crash of the worker cuts short every disconnect sequence in the queue.
LEMMA CrashCuts ==
  ASSUME TypeOK, WorkerCrash
  PROVE  /\ queue' = <<>> /\ replies' = <<>> /\ replies = <<>>
         /\ \A i \in DOMAIN queue :
              queue[i].seq = "disconnect" => queue[i].socket \in cutShort'
         /\ 1 \in DOMAIN queue /\ Head(queue) = queue[1]
         /\ Execute(queue[1]) \/ UNCHANGED dbVars
         /\ cutShort \subseteq cutShort'
<1>1. queue # <<>> /\ queue \in Seq(Requests)
  BY DEF WorkerCrash, TypeOK
<1>2. 1 \in DOMAIN queue /\ Head(queue) = queue[1]
  BY <1>1, Elements
<1>3. QED
  BY <1>2 DEF WorkerCrash, Losers

\* Only a post that drops the organ's entry, or a restart, leaves an organ
\* without a connection.
LEMMA Loses ==
  ASSUME WatchInv, NamesInv, ~Repeat, [Next]_vars,
         NEW o \in Organs, Connected(o), ~Connected(o)'
  PROVE  (\E p : Posts(p)) \/ ForgetAll
<1> USE DEF WatchInv
<1>1. CASE Idles \/ WorkerExec \/ WorkerFails \/ WorkerCrash \/ MainReply
           \/ \E ws \in Sockets : TimerFires(ws)
  <2>1. UNCHANGED <<clients, organ>>
    BY <1>1, ReplyKinds
       DEF Idles, WorkerExec, WorkerFails, WorkerCrash, TimerFires, sockVars
  <2>2. QED
    BY <2>1 DEF Connected
<1>2. CASE \E x \in Organs : TimePasses(x)
  BY <1>2 DEF TimePasses, sockVars, Connected
<1>3. CASE \E ws \in Sockets : Connect(ws)
  BY <1>3, ConnectConnectsNone
<1>4. CASE \E ws \in Sockets, x \in Organs : Register(ws, x)
  BY <1>4, RegisterConnects
<1>5. QED
  BY <1>1, <1>2, <1>3, <1>4, Kinds

\* An organ that is gone after a step was lost with the same socket before it,
\* or is lost by it.
LEMMA GoneStays ==
  ASSUME WatchInv, TypeOK', NamesInv, ~Repeat, [Next]_vars,
         NEW o \in Organs, NEW ws \in Sockets, Gone(o, ws)'
  PROVE  /\ ~ForgetAll
         /\ ws = latest[o] /\ ws \notin cutShort /\ ~Failing(o, ws)
<1> USE DEF WatchInv
<1>1. /\ ws = latest'[o] /\ ws \notin cutShort'
      /\ ~Failing(o, ws)' /\ ~Connected(o)'
  BY DEF Gone
<1>2. ~ForgetAll
  BY <1>1, SocketsAssumption DEF ForgetAll
<1>3. latest'[o] = latest[o]
  <2>1. CASE \/ Idles \/ (\E p : Posts(p)) \/ MainReply
    BY <2>1, ReplyKinds DEF Idles, Posts
  <2>2. CASE \/ WorkerExec \/ WorkerFails \/ WorkerCrash
             \/ \E s \in Sockets : Connect(s) \/ TimerFires(s)
             \/ \E x \in Organs : TimePasses(x)
    BY <2>2 DEF WorkerExec, WorkerFails, WorkerCrash, Connect, TimerFires,
                TimePasses, pastVars
  <2>3. ASSUME NEW s \in Sockets, NEW x \in Organs, Register(s, x)
        PROVE  latest'[o] = latest[o]
    <3>1. o # x
      BY <1>1, <2>3, RegisterConnects
    <3>2. QED
      BY <2>3, <3>1 DEF Register, TypeOK
  <2>4. QED
    BY <1>2, <2>1, <2>2, <2>3, Kinds
<1>4. cutShort \subseteq cutShort'
  <2>1. CASE \/ Idles \/ (\E p : Posts(p)) \/ MainReply \/ WorkerCrash
    BY <2>1, ReplyPosts, CrashCuts DEF Idles, Posts
  <2>2. CASE \/ WorkerExec \/ WorkerFails
             \/ \E s \in Sockets : Connect(s) \/ TimerFires(s)
             \/ \E x \in Organs : TimePasses(x)
             \/ \E s \in Sockets, x \in Organs : Register(s, x)
    BY <2>2 DEF WorkerExec, WorkerFails, Connect, TimerFires, TimePasses,
                Register, faultVars
  <2>3. QED
    BY <1>2, <2>1, <2>2, Kinds
<1>5. ~Failing(o, ws)
  <2>1. SUFFICES ASSUME NEW i \in DOMAIN replies,
                        replies[i].req.seq = "disconnect",
                        replies[i].req.organ = o, replies[i].req.socket = ws,
                        replies[i].state = "error"
                 PROVE  FALSE
    BY DEF Failing
  <2>2. ~(i \in DOMAIN replies' /\ replies'[i] = replies[i])
    BY <1>1, <2>1 DEF Failing
  <2>3. CASE \/ Idles \/ (\E p : Posts(p))
             \/ \E s \in Sockets : Connect(s) \/ TimerFires(s)
             \/ \E x \in Organs : TimePasses(x)
             \/ \E s \in Sockets, x \in Organs : Register(s, x)
    <3>1. UNCHANGED replies
      BY <2>3 DEF Idles, Posts, Connect, TimerFires, TimePasses, Register,
                  pipeVars
    <3>2. QED
      BY <2>1, <2>2, <3>1
  <2>4. CASE WorkerExec \/ WorkerFails
    BY <2>1, <2>2, <2>4, ExecMoves
  <2>5. CASE WorkerCrash
    BY <2>1, <2>5, CrashCuts
  <2>6. CASE MainReply
    <3>1. CASE i # 1
      <4>1. i - 1 \in DOMAIN replies' /\ replies'[i - 1] = replies[i]
        BY <2>1, <2>6, <3>1, ReplyKeeps
      <4>2. QED
        BY <1>1, <2>1, <4>1 DEF Failing
    <3>2. CASE i = 1
      <4>1. Head(replies).state = "error" /\ Request = replies[1].req
        BY <2>1, <2>6, <3>2, ReplyKeeps
      <4>2. Rejected
        BY <2>6, <4>1
           DEF MainReply, Answered, HasReply, DegradedRead, RecoveredRead,
               TransitionDone, DisconnectStatusSet, DisconnectRead,
               DisconnectDone, HealthCheck
      <4>3. ws \in Losers(<<Request>>)
        BY <2>1, <3>2, <4>1 DEF Losers
      <4>4. QED
        BY <1>1, <4>2, <4>3 DEF Rejected
    <3>3. QED
      BY <3>1, <3>2
  <2>7. QED
    BY <1>2, <2>3, <2>4, <2>5, <2>6, Kinds
<1>6. QED
  BY <1>1, <1>2, <1>3, <1>4, <1>5

\* A required organ's disconnect sequence under way goes on, or has the timer
\* armed when it ends.
LEMMA LeavingReplied ==
  ASSUME TypeOK, TypeOK', PipeWellFormed, MainReply,
         NEW o \in Required, NEW ws \in Sockets \ cutShort', Leaving(o, ws)
  PROVE  Leaving(o, ws)' \/ \E t \in timers' : organ'[t] = o
<1>1. CASE \E i \in DOMAIN queue :
             /\ queue[i].seq = "disconnect"
             /\ queue[i].organ = o /\ queue[i].socket = ws
  BY <1>1, ReplyKeeps DEF Leaving
<1>2. ASSUME NEW i \in DOMAIN replies, i # 1,
             replies[i].req.seq = "disconnect",
             replies[i].req.organ = o, replies[i].req.socket = ws
      PROVE  Leaving(o, ws)'
  <2>1. i - 1 \in DOMAIN replies' /\ replies'[i - 1] = replies[i]
    BY <1>2, ReplyKeeps
  <2>2. QED
    BY <1>2, <2>1 DEF Leaving
<1>3. CASE /\ 1 \in DOMAIN replies
           /\ replies[1].req.seq = "disconnect"
           /\ replies[1].req.organ = o /\ replies[1].req.socket = ws
  <2>1. Request = replies[1].req
    BY ReplyKeeps
  <2>2. CASE Arms
    <3>1. organ[ws] = o
      BY <1>3 DEF PipeWellFormed, WellFormed
    <3>2. ws \in timers'
      BY <1>3, <2>1, <2>2 DEF Arms, ArmTimer
    <3>3. QED
      BY <3>1, <3>2, ReplyKinds
  <2>3. CASE ~Arms
    <3>1. PICK p \in Seq(Requests) : queue' = queue \o p /\ Fits(p)
      BY ReplyPosts
    <3>2. /\ 1 \in DOMAIN p /\ p[1].seq = "disconnect"
          /\ p[1].organ = o /\ p[1].socket = ws
      BY <1>3, <2>1, <2>3, <3>1, OrgansAssumption DEF Fits
    <3>3. /\ Len(queue) + 1 \in DOMAIN (queue \o p)
          /\ (queue \o p)[Len(queue) + 1] = p[1]
      BY <3>2, Grown DEF TypeOK
    <3>4. QED
      BY <3>1, <3>2, <3>3 DEF Leaving
  <2>4. QED
    BY <2>2, <2>3
<1>4. QED
  BY <1>1, <1>2, <1>3 DEF Leaving

\* The watch on an organ that stays lost is kept by every step.
LEMMA WatchedStays ==
  ASSUME WatchInv, TypeOK', NamesInv, ~Repeat, [Next]_vars, ~ForgetAll,
         NEW o \in Required, NEW ws \in Sockets \ cutShort',
         ~Connected(o), ~Connected(o)', Watched(o, ws)
  PROVE  Watched(o, ws)'
<1> USE DEF WatchInv
<1>1. o \in Organs /\ PipeWellFormed
  BY OrgansAssumption DEF NamesInv
<1>2. ASSUME UNCHANGED replies,
             \A i \in DOMAIN queue : i \in DOMAIN queue' /\ queue'[i] = queue[i]
      PROVE  Leaving(o, ws) => Leaving(o, ws)'
  BY <1>2 DEF Leaving
<1>3. CASE Idles \/ \E s \in Sockets : Connect(s)
  <2>1. UNCHANGED <<organ, queue, replies, timers, tracked>>
    BY <1>3 DEF Idles, Connect, pipeVars, watchVars
  <2>2. QED
    BY <1>2, <2>1 DEF Watched
<1>4. ASSUME NEW p, Posts(p) PROVE Watched(o, ws)'
  <2>1. UNCHANGED <<organ, replies, timers, tracked>>
    BY <1>4 DEF Posts
  <2>2. PICK q \in Seq(Requests) : queue' = queue \o q
    BY <1>4, PostedGrows
  <2>3. \A i \in DOMAIN queue : i \in DOMAIN queue' /\ queue'[i] = queue[i]
    BY <2>2, Grown DEF TypeOK
  <2>4. QED
    BY <1>2, <2>1, <2>3 DEF Watched
<1>5. ASSUME NEW s \in Sockets, NEW x \in Organs, Register(s, x)
      PROVE  Watched(o, ws)'
  <2>1. o # x
    BY <1>5, RegisterConnects
  <2>2. /\ UNCHANGED <<queue, replies>>
        /\ timers' = timers \ {handle[x]}
        /\ tracked'[o] = tracked[o]
    BY <1>1, <1>5, <2>1 DEF Register, ClearWatch, pipeVars, TypeOK
  <2>3. \A t \in timers : organ[t] = o => t \in timers' /\ organ'[t] = o
    <3>1. handle[x] \in Sockets => organ[handle[x]] = x
      BY SocketsAssumption DEF NamesInv, HandleNamesOrgan
    <3>2. \A t \in timers : organ[t] = o => organ'[t] = o
      BY <1>1, OrganStays, OrgansAssumption DEF TypeOK
    <3>3. QED
      BY <2>1, <2>2, <3>1, <3>2 DEF TypeOK
  <2>4. QED
    BY <1>2, <2>2, <2>3 DEF Watched
<1>6. CASE WorkerExec \/ WorkerFails
  <2>1. UNCHANGED <<organ, timers, tracked>>
    BY <1>6 DEF WorkerExec, WorkerFails, sockVars, watchVars
  <2>2. Leaving(o, ws) => Leaving(o, ws)'
    <3>1. CASE \E i \in DOMAIN replies :
                 /\ replies[i].req.seq = "disconnect"
                 /\ replies[i].req.organ = o /\ replies[i].req.socket = ws
      BY <1>6, <3>1, ExecMoves DEF Leaving
    <3>2. ASSUME NEW i \in DOMAIN queue, queue[i].seq = "disconnect",
                 queue[i].organ = o, queue[i].socket = ws
          PROVE  Leaving(o, ws)'
      BY <1>6, <3>2, ExecMoves DEF Leaving
    <3>3. QED
      BY <3>1, <3>2 DEF Leaving
  <2>3. QED
    BY <2>1, <2>2 DEF Watched
<1>7. CASE WorkerCrash
  <2>1. UNCHANGED <<organ, timers, tracked>>
    BY <1>7 DEF WorkerCrash, sockVars, watchVars
  <2>2. ~Leaving(o, ws)
    BY <1>7, CrashCuts DEF Leaving
  <2>3. QED
    BY <2>1, <2>2 DEF Watched
<1>8. CASE MainReply
  <2>1. UNCHANGED <<organ, clients>>
    BY <1>8, ReplyKinds
  <2>2. /\ tracked[o] # "no" => tracked'[o] # "no"
        /\ timers \subseteq timers'
    <3>1. CASE UNCHANGED <<timers, handle, tracked>>
      BY <3>1
    <3>2. CASE Arms
      BY <3>2 DEF Arms, ArmTimer
    <3>3. CASE \E due \in SUBSET Organs : CheckMissing(due)
      BY <1>1, <3>3 DEF CheckMissing, Back
    <3>4. QED
      BY <1>8, <3>1, <3>2, <3>3, ReplyKinds
  <2>3. Leaving(o, ws) =>
          Leaving(o, ws)' \/ \E t \in timers' : organ'[t] = o
    BY <1>1, <1>8, LeavingReplied
  <2>4. QED
    BY <2>1, <2>2, <2>3 DEF Watched
<1>9. ASSUME NEW s \in Sockets, TimerFires(s) PROVE Watched(o, ws)'
  <2>1. UNCHANGED <<organ, queue, replies>> /\ timers' = timers \ {s}
    BY <1>9 DEF TimerFires, sockVars, pipeVars
  <2>2. /\ tracked[o] # "no" => tracked'[o] # "no"
        /\ organ[s] = o => tracked'[o] # "no"
    BY <1>1, <1>9 DEF TimerFires, TypeOK
  <2>3. QED
    BY <1>2, <2>1, <2>2 DEF Watched
<1>10. ASSUME NEW x \in Organs, TimePasses(x) PROVE Watched(o, ws)'
  <2>1. UNCHANGED <<organ, queue, replies, timers>>
    BY <1>10 DEF TimePasses, sockVars, pipeVars
  <2>2. tracked[o] # "no" => tracked'[o] # "no"
    BY <1>1, <1>10 DEF TimePasses, TypeOK
  <2>3. QED
    BY <1>2, <2>1, <2>2 DEF Watched
<1>11. QED
  BY <1>3, <1>4, <1>5, <1>6, <1>7, <1>8, <1>9, <1>10, Kinds

LEMMA AbsentWatchedNext ==
  ASSUME WatchInv, TypeOK', NamesInv, [Next]_vars, ~Repeat => AbsentWatched
  PROVE  ~Repeat => AbsentWatched'
<1> SUFFICES ASSUME ~Repeat, NEW o \in Required, NEW ws \in Sockets,
                    Gone(o, ws)'
             PROVE  Watched(o, ws)'
  BY DEF AbsentWatched
<1>1. o \in Organs /\ TypeOK /\ EntryIsLatest
  BY OrgansAssumption DEF WatchInv, NamesInv
<1>2. /\ ~ForgetAll /\ ~Connected(o)' /\ ws \notin cutShort'
      /\ ws = latest[o] /\ ws \notin cutShort /\ ~Failing(o, ws)
  BY <1>1, GoneStays DEF Gone
<1>3. CASE Connected(o)
  <2>1. PICK p : Posts(p)
    BY <1>1, <1>2, <1>3, Loses
  <2>2. PICK i \in DOMAIN p : Losing(p[i], "status", o, ws)
    BY <1>1, <1>2, <1>3, <2>1, PostedFor
  <2>3. queue' = queue \o p /\ p \in Seq(Requests)
    BY <1>1, <1>2, <2>1, <2>2, PostedGrows DEF Losing
  <2>4. /\ Len(queue) + i \in DOMAIN (queue \o p)
        /\ (queue \o p)[Len(queue) + i] = p[i]
    BY <1>1, <2>3, Grown DEF TypeOK
  <2>5. QED
    BY <2>2, <2>3, <2>4 DEF Watched, Leaving, Losing
<1>4. CASE ~Connected(o)
  <2>1. Gone(o, ws)
    BY <1>2, <1>4 DEF Gone
  <2>2. Watched(o, ws)
    BY <2>1 DEF AbsentWatched
  <2>3. QED
    BY <1>2, <1>4, <2>2, WatchedStays
<1>5. QED
  BY <1>3, <1>4

\* A lost organ whose sequences have all ended has no failure on its way.
LEMMA LostIsGone ==
  ASSUME TypeOK, NEW o \in Organs, Lost(o), Settled(o)
  PROVE  latest[o] \in Sockets /\ Gone(o, latest[o])
<1>1. latest[o] \in Sockets /\ latest[o] \notin cutShort /\ ~Connected(o)
  BY DEF Lost, TypeOK
<1>2. ~Failing(o, latest[o])
  BY DEF Settled, InPipe, Failing
<1>3. QED
  BY <1>1, <1>2 DEF Gone

\* A required organ that is lost is never forgotten by the watch.  As long as
\* clients register once on a socket and while it is open, whatever fails and
\* however often the worker or the process starts again, such an organ has a
\* timer armed, its absence timed or a sequence under way, unless a failure has
\* ended the disconnect sequence of its last connection.
THEOREM LostOrganIsWatched == Spec => [](~Repeat => RequiredIsWatched)
<1> DEFINE Inv == ~Repeat => AbsentWatched
<1>1. Init => Inv
  BY OrgansAssumption, SocketsAssumption DEF Init, AbsentWatched, Gone
<1>2. WatchInv /\ TypeOK' /\ NamesInv /\ Inv /\ [Next]_vars => Inv'
  BY AbsentWatchedNext
<1>3. TypeOK /\ Inv => (~Repeat => RequiredIsWatched)
  <2>1. ASSUME TypeOK, AbsentWatched, NEW o \in Required, Lost(o), Settled(o)
        PROVE  tracked[o] # "no" \/ \E ws \in timers : organ[ws] = o
    <3>1. Watched(o, latest[o])
      BY <2>1, LostIsGone, OrgansAssumption DEF AbsentWatched
    <3>2. ~Leaving(o, latest[o])
      BY <2>1 DEF Leaving, Settled, InPipe
    <3>3. QED
      BY <3>1, <3>2 DEF Watched
  <2>2. QED
    BY <2>1 DEF RequiredIsWatched
<1> HIDE DEF Inv
<1>4. QED
  BY <1>1, <1>2, <1>3, TypeCorrect, WatchInvariant, NamesInvariant, PTL DEF Spec

-----------------------------------------------------------------------------
(* The database of a lost organ                                            *)

\* A disconnect sequence keeps the last word on an organ when nothing is posted
\* for it.
LEMMA FollowsUnposted ==
  ASSUME NEW o \in Organs, NEW ws, EntityFollows(o, ws), entity'[o] = entity[o],
         UNCHANGED replies, queue \in Seq(Requests),
         NEW p \in Seq(Requests), queue' = queue \o p,
         \A i \in DOMAIN p : p[i].organ # o
  PROVE  EntityFollows(o, ws)'
<1>1. /\ \A i \in DOMAIN queue : i \in DOMAIN queue' /\ queue'[i] = queue[i]
      /\ \A i \in DOMAIN queue' :
           \/ i \in DOMAIN queue /\ queue'[i] = queue[i]
           \/ queue'[i].organ # o
  BY Grown
<1>2. \A op : /\ (\A i \in DOMAIN queue : ~Pinging(queue[i], op, o))
                 => \A i \in DOMAIN queue' : ~Pinging(queue'[i], op, o)
              /\ \A j \in DOMAIN queue :
                   (\A i \in DOMAIN queue : i > j => ~Pinging(queue[i], op, o))
                   => \A i \in DOMAIN queue' :
                        i > j => ~Pinging(queue'[i], op, o)
  BY <1>1 DEF Pinging
<1>3. NoneReads(o) => NoneReads(o)'
  BY <1>2 DEF NoneReads
<1>4. StatusPosted(o, ws) => StatusPosted(o, ws)'
  BY <1>1, <1>2 DEF StatusPosted
<1>5. StatusSet(o, ws) => StatusSet(o, ws)'
  BY <1>2 DEF StatusSet
<1>6. ReadPosted(o, ws) => ReadPosted(o, ws)'
  BY <1>1, <1>2, <1>3 DEF ReadPosted
<1>7. ReadDone(o, ws) => ReadDone(o, ws)'
  BY <1>1, <1>2, <1>3 DEF ReadDone
<1>8. QED
  BY <1>4, <1>5, <1>6, <1>7 DEF EntityFollows

\* The disconnect sequence of an organ that is lost gets the last word on it,
\* unless it is refused.
LEMMA FollowsLoss ==
  ASSUME WatchInv, EntryIsLatest, NEW p, Posts(p),
         NEW o \in Organs, NEW ws \in Sockets \ cutShort', ws = latest[o],
         Connected(o), ~Connected(o)'
  PROVE  EntityFollows(o, ws)' /\ MailboxFollows(o, ws)'
<1>1. /\ queue' = queue \o p /\ p \in Seq(Requests) /\ queue \in Seq(Requests)
  <2>1. \E i \in DOMAIN p : Losing(p[i], "status", o, ws)
    BY PostedFor
  <2>2. QED
    BY <2>1, PostedGrows DEF Losing, WatchInv, TypeOK
<1>2. \A i \in DOMAIN p : p[i].organ = o => Losing(p[i], "status", o, ws)
  BY PostedFor
<1>3. PICK k \in DOMAIN p : Losing(p[k], "status", o, ws)
  BY PostedFor
<1> DEFINE n == Len(queue) + k
<1>4. /\ n \in DOMAIN (queue \o p) /\ (queue \o p)[n] = p[k]
      /\ Len(queue) \in Nat /\ k \in Nat /\ DOMAIN queue = 1 .. Len(queue)
  BY <1>1, Grown, Elements
<1>5. \A j \in DOMAIN (queue \o p) :
        j > n => ~Pinging((queue \o p)[j], "read", o)
  <2> SUFFICES ASSUME NEW j \in DOMAIN (queue \o p), j > n
               PROVE  ~Pinging((queue \o p)[j], "read", o)
    OBVIOUS
  <2>1. j \notin DOMAIN queue
    BY <1>4
  <2>2. j - Len(queue) \in DOMAIN p /\ (queue \o p)[j] = p[j - Len(queue)]
    BY <1>1, <2>1, Grown
  <2>3. QED
    BY <1>2, <2>2 DEF Pinging, Losing
<1>6. n \in DOMAIN queue' /\ Losing(queue'[n], "status", o, ws)
  BY <1>1, <1>3, <1>4
<1>7. \A j \in DOMAIN queue' : j > n => ~Pinging(queue'[j], "read", o)
  BY <1>1, <1>5
<1> HIDE DEF n
<1>8. StatusPosted(o, ws)'
  BY <1>6, <1>7 DEF StatusPosted
<1>9. MailboxFollows(o, ws)'
  BY <1>6 DEF MailboxFollows, Losing
<1>10. QED
  BY <1>8, <1>9 DEF EntityFollows

\* It keeps it when the worker executes a request, unless the request is its own
\* and fails.
LEMMA FollowsExec ==
  ASSUME TypeOK, PipeWellFormed, WorkerExec \/ WorkerFails,
         NEW o \in Organs, NEW ws \in Sockets, EntityFollows(o, ws),
         ~Failing(o, ws)'
  PROVE  EntityFollows(o, ws)'
<1> DEFINE n == Len(replies) + 1
<1>1. /\ Head(queue) = queue[1] /\ 1 \in DOMAIN queue
      /\ \A i \in DOMAIN queue :
           i # 1 => i - 1 \in DOMAIN queue' /\ queue'[i - 1] = queue[i]
      /\ \A i \in DOMAIN queue' :
           /\ i \in Nat \ {0} /\ i + 1 \in DOMAIN queue
           /\ queue'[i] = queue[i + 1]
  BY ExecMoves
<1>2. /\ \A i \in DOMAIN replies :
           i \in DOMAIN replies' /\ replies'[i] = replies[i]
      /\ n \in DOMAIN replies' /\ replies'[n].req = queue[1]
      /\ replies'[n].state # "error" =>
           /\ Execute(queue[1])
           /\ queue[1].op = "read" => replies'[n].state = entity[queue[1].organ]
      /\ \A i \in DOMAIN replies' : i \in DOMAIN replies \/ i = n
  BY ExecMoves
<1>3. /\ \A i \in DOMAIN queue : i \in Nat /\ i >= 1
      /\ \A i \in DOMAIN replies : i \in Nat /\ i < n
  BY Elements DEF TypeOK
<1>4. /\ Execute(queue[1]) =>
           entity' = IF queue[1].op = "transition"
                       THEN [entity EXCEPT ![queue[1].organ] = queue[1].to]
                       ELSE entity
      /\ Execute(queue[1]) \/ entity' = entity
  BY ExecMoves DEF Execute, dbVars
<1> HIDE DEF n
<1>14. queue[1].seq = "disconnect" /\ queue[1].organ = o /\ queue[1].socket = ws
       => replies'[n].state # "error"
  BY <1>2 DEF Failing
<1>5. ASSUME NEW op, \A i \in DOMAIN queue : ~Pinging(queue[i], op, o)
      PROVE  \A i \in DOMAIN queue' : ~Pinging(queue'[i], op, o)
  BY <1>1, <1>5
<1>6. ASSUME NEW op, NEW i \in DOMAIN queue, i # 1,
             \A j \in DOMAIN queue : j > i => ~Pinging(queue[j], op, o)
      PROVE  /\ i - 1 \in DOMAIN queue' /\ queue'[i - 1] = queue[i]
             /\ \A j \in DOMAIN queue' :
                  j > i - 1 => ~Pinging(queue'[j], op, o)
  <2>1. ASSUME NEW j \in DOMAIN queue', j > i - 1
        PROVE  ~Pinging(queue'[j], op, o)
    <3>1. j + 1 \in DOMAIN queue /\ queue'[j] = queue[j + 1] /\ j \in Nat
      BY <1>1
    <3>2. j + 1 > i
      BY <1>3, <2>1, <3>1
    <3>3. QED
      BY <1>6, <3>1, <3>2
  <2>2. QED
    BY <1>1, <1>6, <2>1
<1>7. ASSUME NEW op, \A j \in DOMAIN queue : j > 1 => ~Pinging(queue[j], op, o)
      PROVE  \A j \in DOMAIN queue' : ~Pinging(queue'[j], op, o)
  <2>1. ASSUME NEW j \in DOMAIN queue' PROVE ~Pinging(queue'[j], op, o)
    <3>1. /\ j + 1 \in DOMAIN queue /\ queue'[j] = queue[j + 1]
          /\ j \in Nat \ {0}
      BY <1>1
    <3>2. j + 1 > 1
      BY <3>1
    <3>3. QED
      BY <1>7, <3>1, <3>2
  <2>2. QED
    BY <2>1
<1>8. NoneReads(o) => NoneReads(o)'
  <2>1. SUFFICES ASSUME NoneReads(o) PROVE NoneReads(o)'
    OBVIOUS
  <2>2. \A i \in DOMAIN queue' : ~Pinging(queue'[i], "read", o)
    BY <1>5, <2>1 DEF NoneReads
  <2>3. \A i \in DOMAIN replies' : ~Pinging(replies'[i].req, "read", o)
    BY <1>1, <1>2, <2>1 DEF NoneReads
  <2>4. QED
    BY <2>2, <2>3 DEF NoneReads
<1>9. CASE StatusPosted(o, ws)
  <2>1. PICK i \in DOMAIN queue :
          /\ Losing(queue[i], "status", o, ws)
          /\ \A j \in DOMAIN queue : j > i => ~Pinging(queue[j], "read", o)
    BY <1>9 DEF StatusPosted
  <2>2. CASE i # 1
    <3>1. StatusPosted(o, ws)'
      BY <1>6, <2>1, <2>2 DEF StatusPosted
    <3>2. QED
      BY <3>1 DEF EntityFollows
  <2>3. CASE i = 1
    <3>1. \A j \in DOMAIN queue' : ~Pinging(queue'[j], "read", o)
      BY <1>7, <2>1, <2>3
    <3>2. Losing(replies'[n].req, "status", o, ws)
      BY <1>2, <2>1, <2>3
    <3>3. \A j \in DOMAIN replies' : ~(j > n)
      BY <1>2, <1>3 DEF n
    <3>4. StatusSet(o, ws)'
      BY <1>2, <3>1, <3>2, <3>3 DEF StatusSet
    <3>5. QED
      BY <3>4 DEF EntityFollows
  <2>4. QED
    BY <2>2, <2>3
<1>10. CASE StatusSet(o, ws)
  <2>1. PICK i \in DOMAIN replies :
          /\ Losing(replies[i].req, "status", o, ws)
          /\ \A j \in DOMAIN replies :
               j > i => ~Pinging(replies[j].req, "read", o)
    BY <1>10 DEF StatusSet
  <2>2. \A j \in DOMAIN queue' : ~Pinging(queue'[j], "read", o)
    BY <1>5, <1>10 DEF StatusSet
  <2>3. ~Pinging(queue[1], "read", o)
    BY <1>1, <1>10 DEF StatusSet
  <2>4. \A j \in DOMAIN replies' :
          j > i => ~Pinging(replies'[j].req, "read", o)
    BY <1>2, <2>1, <2>3
  <2>5. StatusSet(o, ws)'
    BY <1>2, <2>1, <2>2, <2>4 DEF StatusSet
  <2>6. QED
    BY <2>5 DEF EntityFollows
<1>11. CASE ReadPosted(o, ws)
  <2>1. PICK i \in DOMAIN queue :
          /\ Losing(queue[i], "read", o, ws)
          /\ \A j \in DOMAIN queue :
               j > i => ~Pinging(queue[j], "transition", o)
    BY <1>11 DEF ReadPosted
  <2>2. NoneReads(o)'
    BY <1>8, <1>11 DEF ReadPosted
  <2>3. CASE i # 1
    <3>1. ReadPosted(o, ws)'
      BY <1>6, <2>1, <2>2, <2>3 DEF ReadPosted
    <3>2. QED
      BY <3>1 DEF EntityFollows
  <2>4. CASE i = 1
    <3>1. \A j \in DOMAIN queue' : ~Pinging(queue'[j], "transition", o)
      BY <1>7, <2>1, <2>4
    <3>2. /\ queue[1].op = "read" /\ queue[1].organ = o
          /\ Losing(replies'[n].req, "read", o, ws)
      BY <1>2, <2>1, <2>4 DEF Losing
    <3>3. replies'[n].state = entity[o] /\ entity' = entity
      BY <1>2, <1>4, <1>14, <2>1, <2>4, <3>2 DEF Losing
    <3>4. ReadDone(o, ws)'
      BY <1>2, <2>2, <3>1, <3>2, <3>3 DEF ReadDone
    <3>5. QED
      BY <3>4 DEF EntityFollows
  <2>5. QED
    BY <2>3, <2>4
<1>12. CASE ReadDone(o, ws)
  <2>1. NoneReads(o)' /\ \A j \in DOMAIN queue' :
                           ~Pinging(queue'[j], "transition", o)
    BY <1>5, <1>8, <1>12 DEF ReadDone
  <2>2. Execute(queue[1]) /\ queue[1].op = "transition" /\ queue[1].organ = o =>
          entity'[o] = "DISCONNECTED"
    <3>1. SUFFICES ASSUME Execute(queue[1]), queue[1].op = "transition",
                          queue[1].organ = o
                   PROVE  entity'[o] = "DISCONNECTED"
      OBVIOUS
    <3>2. queue[1] \in Requests /\ WellFormed(queue[1])
      BY <1>1, Elements DEF TypeOK, PipeWellFormed
    <3>3. queue[1].seq = "disconnect"
      <4>1. queue[1].seq \in {"degraded", "recovered", "disconnect", "health"}
        BY <3>2 DEF Requests, RawRequests
      <4>2. ~Pinging(queue[1], "transition", o)
        BY <1>1, <1>12 DEF ReadDone
      <4>3. QED
        BY <3>1, <3>2, <4>1, <4>2 DEF Pinging, WellFormed
    <3>4. QED
      BY <1>4, <3>1, <3>2, <3>3 DEF WellFormed, TypeOK
  <2>3. ~(Execute(queue[1]) /\ queue[1].op = "transition" /\ queue[1].organ = o)
          => entity'[o] = entity[o]
    BY <1>4 DEF TypeOK
  <2>4. \/ entity'[o] \notin {"ALIVE", "DEGRADED"}
        \/ \E i \in DOMAIN queue' : Losing(queue'[i], "transition", o, ws)
        \/ \E i \in DOMAIN replies' :
             /\ Losing(replies'[i].req, "read", o, ws)
             /\ replies'[i].state \in {"ALIVE", "DEGRADED"}
    <3>1. CASE entity[o] \notin {"ALIVE", "DEGRADED"}
      BY <2>2, <2>3, <3>1
    <3>2. ASSUME NEW i \in DOMAIN queue, Losing(queue[i], "transition", o, ws)
          PROVE  \/ entity'[o] \notin {"ALIVE", "DEGRADED"}
                 \/ \E j \in DOMAIN queue' : Losing(queue'[j], "transition", o, ws)
      BY <1>1, <1>2, <1>14, <2>2, <3>2 DEF Losing
    <3>3. CASE \E i \in DOMAIN replies :
                 /\ Losing(replies[i].req, "read", o, ws)
                 /\ replies[i].state \in {"ALIVE", "DEGRADED"}
      BY <1>2, <3>3
    <3>4. QED
      BY <1>12, <3>1, <3>2, <3>3 DEF ReadDone
  <2>5. ReadDone(o, ws)'
    BY <2>1, <2>4 DEF ReadDone
  <2>6. QED
    BY <2>5 DEF EntityFollows
<1>13. QED
  BY <1>9, <1>10, <1>11, <1>12 DEF EntityFollows

\* And when the main thread handles a reply.
LEMMA FollowsReply ==
  ASSUME TypeOK, TypeOK', MainReply,
         NEW o \in Organs, NEW ws \in Sockets \ cutShort', EntityFollows(o, ws)
  PROVE  EntityFollows(o, ws)'
<1>1. PICK p \in Seq(Requests) :
        /\ queue' = queue \o p
        /\ \A i \in DOMAIN p :
             /\ ~Pinging(p[i], "read", o)
             /\ Pinging(p[i], "transition", o) => Pinging(Request, "read", o)
        /\ Losing(Request, "status", o, ws) =>
             1 \in DOMAIN p /\ Losing(p[1], "read", o, ws)
        /\ /\ Losing(Request, "read", o, ws)
           /\ Head(replies).state \in {"ALIVE", "DEGRADED"}
           => 1 \in DOMAIN p /\ Losing(p[1], "transition", o, ws)
  BY ReplyPosts DEF Fits
<1>2. /\ queue' = queue \o p /\ replies' = Tail(replies) /\ replies # <<>>
      /\ queue \in Seq(Requests) /\ replies \in Seq(Replies)
      /\ entity' = entity
  BY <1>1, ReplyPosts, ReplyKinds DEF TypeOK
<1>3. /\ 1 \in DOMAIN replies /\ Head(replies) = replies[1]
      /\ Request = replies[1].req
      /\ \A i \in DOMAIN replies : i \in Nat /\ i >= 1
      /\ \A i \in DOMAIN replies :
           i # 1 => i - 1 \in DOMAIN replies' /\ replies'[i - 1] = replies[i]
      /\ \A i \in DOMAIN replies' :
           /\ i \in Nat \ {0} /\ i + 1 \in DOMAIN replies
           /\ replies'[i] = replies[i + 1]
  BY <1>2, Elements DEF Request
<1>4. /\ \A i \in DOMAIN queue : i \in DOMAIN queue' /\ queue'[i] = queue[i]
      /\ \A i \in DOMAIN queue' :
           \/ i \in DOMAIN queue /\ queue'[i] = queue[i]
           \/ i - Len(queue) \in DOMAIN p /\ queue'[i] = p[i - Len(queue)]
  BY <1>2, Grown
<1>5. \A i \in DOMAIN queue' :
        \/ i \in DOMAIN queue /\ queue'[i] = queue[i]
        \/ /\ ~Pinging(queue'[i], "read", o)
           /\ Pinging(queue'[i], "transition", o) => Pinging(Request, "read", o)
  BY <1>1, <1>4
<1>6. NoneReads(o) =>
        /\ NoneReads(o)'
        /\ \A i \in DOMAIN queue' :
             \/ i \in DOMAIN queue /\ queue'[i] = queue[i]
             \/ ~Pinging(queue'[i], "transition", o)
  <2>1. SUFFICES ASSUME NoneReads(o)
                 PROVE  /\ NoneReads(o)'
                        /\ \A i \in DOMAIN queue' :
                             \/ i \in DOMAIN queue /\ queue'[i] = queue[i]
                             \/ ~Pinging(queue'[i], "transition", o)
    OBVIOUS
  <2>2. ~Pinging(Request, "read", o)
    BY <1>3, <2>1 DEF NoneReads
  <2>3. \A i \in DOMAIN queue' : ~Pinging(queue'[i], "read", o)
    BY <1>5, <2>1 DEF NoneReads
  <2>4. \A i \in DOMAIN replies' : ~Pinging(replies'[i].req, "read", o)
    BY <1>3, <2>1 DEF NoneReads
  <2>5. QED
    BY <1>5, <2>2, <2>3, <2>4 DEF NoneReads
<1>7. CASE StatusPosted(o, ws)
  <2>1. PICK i \in DOMAIN queue :
          /\ Losing(queue[i], "status", o, ws)
          /\ \A j \in DOMAIN queue : j > i => ~Pinging(queue[j], "read", o)
    BY <1>7 DEF StatusPosted
  <2>2. /\ i \in DOMAIN queue' /\ Losing(queue'[i], "status", o, ws)
        /\ \A j \in DOMAIN queue' : j > i => ~Pinging(queue'[j], "read", o)
    BY <1>4, <1>5, <2>1
  <2>3. StatusPosted(o, ws)'
    BY <2>2 DEF StatusPosted
  <2>4. QED
    BY <2>3 DEF EntityFollows
<1>8. CASE StatusSet(o, ws)
  <2>1. PICK i \in DOMAIN replies :
          /\ Losing(replies[i].req, "status", o, ws)
          /\ \A j \in DOMAIN replies :
               j > i => ~Pinging(replies[j].req, "read", o)
    BY <1>8 DEF StatusSet
  <2>2. \A j \in DOMAIN queue' : ~Pinging(queue'[j], "read", o)
    BY <1>5, <1>8 DEF StatusSet
  <2>3. CASE i # 1
    <3>1. \A j \in DOMAIN replies' :
            j > i - 1 => ~Pinging(replies'[j].req, "read", o)
      <4>1. ASSUME NEW j \in DOMAIN replies', j > i - 1
            PROVE  ~Pinging(replies'[j].req, "read", o)
        <5>1. /\ j + 1 \in DOMAIN replies /\ replies'[j] = replies[j + 1]
              /\ j + 1 > i
          BY <1>3, <4>1
        <5>2. QED
          BY <2>1, <5>1
      <4>2. QED
        BY <4>1
    <3>2. StatusSet(o, ws)'
      BY <1>3, <2>1, <2>2, <2>3, <3>1 DEF StatusSet
    <3>3. QED
      BY <3>2 DEF EntityFollows
  <2>4. CASE i = 1
    <3>1. 1 \in DOMAIN p /\ Losing(p[1], "read", o, ws)
      BY <1>1, <1>3, <2>1, <2>4
    <3>2. NoneReads(o)'
      <4>1. \A j \in DOMAIN replies' : ~Pinging(replies'[j].req, "read", o)
        <5>1. ASSUME NEW j \in DOMAIN replies'
              PROVE  ~Pinging(replies'[j].req, "read", o)
          <6>1. /\ j + 1 \in DOMAIN replies /\ replies'[j] = replies[j + 1]
                /\ j + 1 > 1
            BY <1>3
          <6>2. QED
            BY <2>1, <2>4, <6>1
        <5>2. QED
          BY <5>1
      <4>2. QED
        BY <2>2, <4>1 DEF NoneReads
    <3>3. \A j \in DOMAIN p : ~Pinging(p[j], "transition", o)
      BY <1>1, <1>3, <2>1, <2>4 DEF Pinging, Losing
    <3>4. \E k \in DOMAIN queue' :
            /\ Losing(queue'[k], "read", o, ws)
            /\ \A j \in DOMAIN queue' :
                 j > k => ~Pinging(queue'[j], "transition", o)
      <4>1. /\ Len(queue) + 1 \in DOMAIN (queue \o p)
            /\ (queue \o p)[Len(queue) + 1] = p[1]
        BY <1>2, <3>1, Grown
      <4>2. \A j \in DOMAIN (queue \o p) :
              j > Len(queue) + 1 => ~Pinging((queue \o p)[j], "transition", o)
        <5>1. ASSUME NEW j \in DOMAIN (queue \o p), j > Len(queue) + 1
              PROVE  ~Pinging((queue \o p)[j], "transition", o)
          <6>1. j \notin DOMAIN queue
            BY <1>2, <5>1, Elements
          <6>2. /\ j - Len(queue) \in DOMAIN p
                /\ (queue \o p)[j] = p[j - Len(queue)]
            BY <1>2, <6>1, Grown
          <6>3. QED
            BY <3>3, <6>2
        <5>2. QED
          BY <5>1
      <4>3. QED
        BY <1>2, <3>1, <4>1, <4>2
    <3>5. ReadPosted(o, ws)'
      BY <3>2, <3>4 DEF ReadPosted
    <3>6. QED
      BY <3>5 DEF EntityFollows
  <2>5. QED
    BY <2>3, <2>4
<1>9. CASE ReadPosted(o, ws)
  <2>1. PICK i \in DOMAIN queue :
          /\ Losing(queue[i], "read", o, ws)
          /\ \A j \in DOMAIN queue :
               j > i => ~Pinging(queue[j], "transition", o)
    BY <1>9 DEF ReadPosted
  <2>2. NoneReads(o)' /\ \A j \in DOMAIN queue' :
                           j > i => ~Pinging(queue'[j], "transition", o)
    BY <1>6, <1>9, <2>1 DEF ReadPosted
  <2>3. ReadPosted(o, ws)'
    BY <1>4, <2>1, <2>2 DEF ReadPosted
  <2>4. QED
    BY <2>3 DEF EntityFollows
<1>10. CASE ReadDone(o, ws)
  <2>1. NoneReads(o)' /\ \A j \in DOMAIN queue' :
                           ~Pinging(queue'[j], "transition", o)
    BY <1>6, <1>10 DEF ReadDone
  <2>2. \/ entity'[o] \notin {"ALIVE", "DEGRADED"}
        \/ \E i \in DOMAIN queue' : Losing(queue'[i], "transition", o, ws)
        \/ \E i \in DOMAIN replies' :
             /\ Losing(replies'[i].req, "read", o, ws)
             /\ replies'[i].state \in {"ALIVE", "DEGRADED"}
    <3>1. CASE entity[o] \notin {"ALIVE", "DEGRADED"}
      BY <1>2, <3>1
    <3>2. CASE \E i \in DOMAIN queue : Losing(queue[i], "transition", o, ws)
      BY <1>4, <3>2
    <3>3. ASSUME NEW i \in DOMAIN replies, Losing(replies[i].req, "read", o, ws),
                 replies[i].state \in {"ALIVE", "DEGRADED"}
          PROVE  \/ \E j \in DOMAIN queue' : Losing(queue'[j], "transition", o, ws)
                 \/ \E j \in DOMAIN replies' :
                      /\ Losing(replies'[j].req, "read", o, ws)
                      /\ replies'[j].state \in {"ALIVE", "DEGRADED"}
      <4>1. CASE i # 1
        BY <1>3, <3>3, <4>1
      <4>2. CASE i = 1
        <5>1. 1 \in DOMAIN p /\ Losing(p[1], "transition", o, ws)
          BY <1>1, <1>3, <3>3, <4>2
        <5>2. /\ Len(queue) + 1 \in DOMAIN (queue \o p)
              /\ (queue \o p)[Len(queue) + 1] = p[1]
          BY <1>2, <5>1, Grown
        <5>3. QED
          BY <1>2, <5>1, <5>2
      <4>3. QED
        BY <4>1, <4>2
    <3>4. QED
      BY <1>10, <3>1, <3>2, <3>3 DEF ReadDone
  <2>3. ReadDone(o, ws)'
    BY <2>1, <2>2 DEF ReadDone
  <2>4. QED
    BY <2>3 DEF EntityFollows
<1>11. QED
  BY <1>7, <1>8, <1>9, <1>10 DEF EntityFollows

\* A crash of the worker leaves the last word to the sequence only when nothing
\* more has to be written.
LEMMA FollowsCrash ==
  ASSUME TypeOK, PipeWellFormed, WorkerCrash,
         NEW o \in Organs, NEW ws \in Sockets \ cutShort',
         EntityFollows(o, ws), MailboxFollows(o, ws)
  PROVE  EntityFollows(o, ws)' /\ MailboxFollows(o, ws)'
<1>1. /\ queue' = <<>> /\ replies' = <<>> /\ replies = <<>>
      /\ \A op : \A i \in DOMAIN queue : ~Losing(queue[i], op, o, ws)
      /\ 1 \in DOMAIN queue
  BY CrashCuts DEF Losing
<1>2. DOMAIN replies = {} /\ DOMAIN queue' = {} /\ DOMAIN replies' = {}
  BY <1>1
<1>3. /\ \A j \in DOMAIN queue : ~Pinging(queue[j], "transition", o)
      /\ entity[o] \notin {"ALIVE", "DEGRADED"} /\ mailbox[o] # "active"
  BY <1>1, <1>2 DEF EntityFollows, StatusPosted, StatusSet, ReadPosted, ReadDone,
                    MailboxFollows
<1>4. queue[1].op = "transition" /\ queue[1].organ = o =>
        queue[1].to = "DISCONNECTED"
  <2>1. queue[1].seq \in {"degraded", "recovered", "disconnect", "health"}
    BY <1>1, Elements DEF TypeOK, Requests, RawRequests
  <2>2. WellFormed(queue[1]) /\ ~Pinging(queue[1], "transition", o)
    BY <1>1, <1>3 DEF PipeWellFormed
  <2>3. QED
    BY <2>1, <2>2 DEF Pinging, WellFormed
<1>5. /\ entity'[o] \in {entity[o], "DISCONNECTED"}
      /\ mailbox'[o] \in {mailbox[o], "disconnected"}
  <2>1. CASE Execute(queue[1])
    BY <1>4, <2>1 DEF Execute, TypeOK
  <2>2. CASE UNCHANGED dbVars
    BY <2>2 DEF dbVars
  <2>3. QED
    BY <2>1, <2>2, CrashCuts
<1>6. ReadDone(o, ws)'
  BY <1>2, <1>3, <1>5 DEF ReadDone, NoneReads
<1>7. QED
  BY <1>3, <1>5, <1>6 DEF EntityFollows, MailboxFollows

\* The mailbox of an organ that stays lost.
LEMMA MailboxStays ==
  ASSUME WatchInv, TypeOK', NamesInv, ~Repeat, [Next]_vars,
         ~WorkerCrash, ~ForgetAll,
         NEW o \in Organs, NEW ws \in Sockets,
         ~Connected(o)', ~Failing(o, ws)', MailboxFollows(o, ws)
  PROVE  MailboxFollows(o, ws)'
<1> USE DEF WatchInv
<1>1. CASE \/ Idles
           \/ \E s \in Sockets : Connect(s) \/ TimerFires(s)
           \/ \E x \in Organs : TimePasses(x)
  <2>1. UNCHANGED <<mailbox, queue>>
    BY <1>1 DEF Idles, Connect, TimerFires, TimePasses, dbVars, pipeVars
  <2>2. QED
    BY <2>1 DEF MailboxFollows
<1>2. ASSUME NEW p, Posts(p) PROVE MailboxFollows(o, ws)'
  <2>1. PICK q \in Seq(Requests) : queue' = queue \o q
    BY <1>2, PostedGrows
  <2>2. queue \in Seq(Requests) /\ UNCHANGED mailbox
    BY <1>2 DEF Posts, TypeOK
  <2>3. QED
    BY <2>1, <2>2, Grown DEF MailboxFollows
<1>3. ASSUME NEW s \in Sockets, NEW x \in Organs, Register(s, x)
      PROVE  MailboxFollows(o, ws)'
  <2>1. o # x
    BY <1>3, RegisterConnects
  <2>2. mailbox'[o] = mailbox[o] /\ UNCHANGED queue
    BY <1>3, <2>1 DEF Register, pipeVars, TypeOK
  <2>3. QED
    BY <2>2 DEF MailboxFollows
<1>4. CASE WorkerExec \/ WorkerFails
  <2>1. /\ Execute(queue[1]) =>
             mailbox' = IF queue[1].op = "status"
                          THEN [mailbox EXCEPT ![queue[1].organ] = "disconnected"]
                          ELSE mailbox
        /\ Execute(queue[1]) \/ UNCHANGED mailbox
    BY <1>4, ExecMoves DEF Execute, dbVars
  <2>2. CASE mailbox[o] # "active"
    BY <2>1, <2>2 DEF MailboxFollows, TypeOK
  <2>3. ASSUME NEW i \in DOMAIN queue, Losing(queue[i], "status", o, ws)
        PROVE  MailboxFollows(o, ws)'
    <3>1. CASE i = 1
      <4>1. Execute(queue[1])
        BY <1>4, <2>3, <3>1, ExecMoves DEF Failing, Losing
      <4>2. QED
        BY <2>1, <2>3, <3>1, <4>1 DEF MailboxFollows, Losing, TypeOK
    <3>2. CASE i # 1
      BY <1>4, <2>3, <3>2, ExecMoves DEF MailboxFollows
    <3>3. QED
      BY <3>1, <3>2
  <2>4. QED
    BY <2>2, <2>3 DEF MailboxFollows
<1>5. CASE MainReply
  BY <1>5, ReplyKinds, ReplyKeeps DEF MailboxFollows
<1>6. QED
  BY <1>1, <1>2, <1>3, <1>4, <1>5, Kinds

\* The entity of an organ that stays lost.
LEMMA EntityStays ==
  ASSUME WatchInv, TypeOK', NamesInv, ~Repeat, [Next]_vars,
         ~WorkerCrash, ~ForgetAll,
         NEW o \in Organs, NEW ws \in Sockets \ cutShort', ws = latest[o],
         ~Connected(o), ~Connected(o)', ~Failing(o, ws)', EntityFollows(o, ws)
  PROVE  EntityFollows(o, ws)'
<1> USE DEF WatchInv
<1>1. ASSUME UNCHANGED <<queue, replies>>, entity'[o] = entity[o]
      PROVE  EntityFollows(o, ws)'
  BY <1>1 DEF EntityFollows, StatusPosted, StatusSet, ReadPosted, ReadDone,
              NoneReads
<1>2. CASE \/ Idles
           \/ \E s \in Sockets : Connect(s) \/ TimerFires(s)
           \/ \E x \in Organs : TimePasses(x)
  <2>1. UNCHANGED <<queue, replies, entity>>
    BY <1>2 DEF Idles, Connect, TimerFires, TimePasses, dbVars, pipeVars
  <2>2. QED
    BY <1>1, <2>1
<1>3. ASSUME NEW p, Posts(p) PROVE EntityFollows(o, ws)'
  <2>1. queue \in Seq(Requests) /\ UNCHANGED <<entity, replies>>
    BY <1>3 DEF Posts, TypeOK
  <2>2. PICK q \in Seq(Requests) : queue' = queue \o q /\ q \in {p, <<>>}
    BY <1>3, PostedGrows
  <2>3. \A i \in DOMAIN q : q[i].organ # o
    BY <1>3, <2>2, PostedFor DEF NamesInv
  <2>4. QED
    BY <2>1, <2>2, <2>3, FollowsUnposted
<1>4. ASSUME NEW s \in Sockets, NEW x \in Organs, Register(s, x)
      PROVE  EntityFollows(o, ws)'
  <2>1. o # x
    BY <1>4, RegisterConnects
  <2>2. entity'[o] = entity[o] /\ UNCHANGED <<queue, replies>>
    BY <1>4, <2>1 DEF Register, ConnectEntity, pipeVars, TypeOK
  <2>3. QED
    BY <1>1, <2>2
<1>5. CASE WorkerExec \/ WorkerFails
  BY <1>5, FollowsExec DEF NamesInv
<1>6. CASE MainReply
  BY <1>6, FollowsReply
<1>7. QED
  BY <1>2, <1>3, <1>4, <1>5, <1>6, Kinds

LEMMA AbsentFollowsNext ==
  ASSUME WatchInv, TypeOK', NamesInv, [Next]_vars, ~Repeat => AbsentFollows
  PROVE  ~Repeat => AbsentFollows'
<1> SUFFICES ASSUME ~Repeat, NEW o \in Organs, NEW ws \in Sockets, Gone(o, ws)'
             PROVE  EntityFollows(o, ws)' /\ MailboxFollows(o, ws)'
  BY DEF AbsentFollows
<1>1. TypeOK /\ EntryIsLatest /\ PipeWellFormed
  BY DEF WatchInv, NamesInv
<1>2. /\ ~ForgetAll /\ ~Connected(o)' /\ ~Failing(o, ws)'
      /\ ws \in Sockets \ cutShort'
      /\ ws = latest[o] /\ ws \notin cutShort /\ ~Failing(o, ws)
  BY GoneStays DEF Gone
<1>3. CASE Connected(o)
  BY <1>1, <1>2, <1>3, Loses, FollowsLoss
<1>4. CASE ~Connected(o)
  <2>1. EntityFollows(o, ws) /\ MailboxFollows(o, ws)
    <3>1. Gone(o, ws)
      BY <1>2, <1>4 DEF Gone
    <3>2. QED
      BY <3>1 DEF AbsentFollows
  <2>2. CASE WorkerCrash
    BY <1>1, <1>2, <2>1, <2>2, FollowsCrash
  <2>3. CASE ~WorkerCrash
    BY <1>2, <1>4, <2>1, <2>3, EntityStays, MailboxStays
  <2>4. QED
    BY <2>2, <2>3
<1>5. QED
  BY <1>3, <1>4

\* As long as clients register once on a socket and while it is open: when an
\* organ is lost and no sequence of it is under way, its entity is neither ALIVE
\* nor DEGRADED and its mailbox is not active, whichever sequences of earlier
\* connections have run or failed and however often the worker or the process
\* has started again, unless a failure has ended the disconnect sequence of its last connection.
THEOREM QuietOrganIsMarked == Spec => [](~Repeat => QuietMeansDisconnected)
<1> DEFINE Inv == ~Repeat => AbsentFollows
<1>1. Init => Inv
  BY SocketsAssumption DEF Init, AbsentFollows, Gone
<1>2. WatchInv /\ TypeOK' /\ NamesInv /\ Inv /\ [Next]_vars => Inv'
  BY AbsentFollowsNext
<1>3. TypeOK /\ Inv => (~Repeat => QuietMeansDisconnected)
  <2>1. ASSUME TypeOK, AbsentFollows, NEW o \in Organs, Lost(o), Settled(o)
        PROVE  entity[o] \notin {"ALIVE", "DEGRADED"} /\ mailbox[o] # "active"
    <3>1. /\ \A i \in DOMAIN queue : queue[i].organ # o
          /\ \A i \in DOMAIN replies : replies[i].req.organ # o
      BY <2>1 DEF Settled, InPipe
    <3>2. EntityFollows(o, latest[o]) /\ MailboxFollows(o, latest[o])
      BY <2>1, LostIsGone DEF AbsentFollows
    <3>3. ReadDone(o, latest[o]) /\ MailboxFollows(o, latest[o])
      BY <3>1, <3>2
         DEF EntityFollows, StatusPosted, StatusSet, ReadPosted, Losing
    <3>4. QED
      BY <3>1, <3>3 DEF ReadDone, MailboxFollows, Losing
  <2>2. QED
    BY <2>1 DEF QuietMeansDisconnected
<1> HIDE DEF Inv
<1>4. QED
  BY <1>1, <1>2, <1>3, TypeCorrect, WatchInvariant, NamesInvariant, PTL DEF Spec
=============================================================================
