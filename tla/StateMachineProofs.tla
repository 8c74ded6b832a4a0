------------------------- MODULE StateMachineProofs -------------------------
(* Proofs about the state machine engine, for any set of entities and any  *)
(* registered machine definitions.                                         *)
EXTENDS StateMachine, TLAPS

\* The oldest element of a queue is one of its elements.
LEMMA HeadTyped ==
  ASSUME NEW S, NEW q \in Seq(S), q # <<>>
  PROVE  Head(q) \in S /\ Tail(q) \in Seq(S)
OBVIOUS

\* A record of a step keeps the two tables well-typed.
LEMMA RecordTyped ==
  ASSUME TypeOK, NEW e \in Entities, NEW s \in Steps, Record(e, s)
  PROVE  /\ etype' \in [Entities -> Types \cup {"absent"}]
         /\ current' \in [Entities -> States \cup {"absent"}]
         /\ history' \in [Entities -> Seq(Steps)]
<1>1. s.to \in States
  BY DEF Steps
<1>2. Append(history[e], s) \in Seq(Steps)
  BY DEF TypeOK
<1>3. history' = [history EXCEPT ![e] = Append(history[e], s)]
  BY DEF Record
<1>4. history' \in [Entities -> Seq(Steps)]
  BY <1>2, <1>3 DEF TypeOK
<1>5. QED
  BY <1>1, <1>4 DEF Record, TypeOK

\* Every step, a refused request included, keeps the tables well-typed.
THEOREM TypeCorrect == Spec => []TypeOK
<1>1. Init => TypeOK
  BY BoundsAssumption DEF Init, TypeOK
<1>2. TypeOK /\ [Next]_vars => TypeOK'
  <2> SUFFICES ASSUME TypeOK, [Next]_vars PROVE TypeOK'
    OBVIOUS
  <2> USE EntitiesAssumption, LifecycleAssumption DEF TypeOK
  <2>1. ASSUME NEW e \in Entities, NEW t \in Types, CreateEntity(e, t)
        PROVE  TypeOK'
    <3>1. Machine[t].initial \in States
      BY <2>1, MachineAssumption DEF States
    <3>2. QED
      BY <2>1, <3>1 DEF CreateEntity
  <2>2. ASSUME NEW e \in Entities, NEW s \in Steps, Transition(e, s)
        PROVE  TypeOK'
    <3>1. Recorded(e, Len(history[e]) + 1) \in Announcements
      BY DEF Recorded, Announcements
    <3>2. task' \in Announcements
      BY <2>2, <3>1 DEF Transition
    <3>3. Record(e, s)
      BY <2>2 DEF Transition
    <3>4. QED
      BY <2>2, <3>2, <3>3, RecordTyped DEF Transition
  <2>3. ASSUME NEW e \in LifecycleEntities, NEW s \in LifecycleSteps,
               RequestAsync(e, s)
        PROVE  TypeOK'
    BY <2>3 DEF RequestAsync, tables
  <2>4. CASE TransitionAsync
    <3> DEFINE w == Head(writes)
    <3>1. w \in [entity : LifecycleEntities, step : Steps]
          /\ Tail(writes) \in Seq([entity : LifecycleEntities, step : Steps])
      BY <2>4, HeadTyped DEF TransitionAsync
    <3>2. w.entity \in LifecycleEntities /\ w.entity \in Entities
          /\ w.step \in Steps
      BY <3>1
    <3>3. Record(w.entity, w.step) /\ writes' = Tail(writes)
      BY <2>4 DEF TransitionAsync
    <3>4. Len(history[w.entity]) + 1 \in Nat
      BY <3>2
    <3>5. Recorded(w.entity, Len(history[w.entity]) + 1)
            \in [kind : {"announce"}, entity : LifecycleEntities, at : Nat]
      BY <3>2, <3>4 DEF Recorded
    <3>6. replies' \in Seq([kind : {"announce"}, entity : LifecycleEntities,
                            at : Nat])
      BY <2>4, <3>5 DEF TransitionAsync
    <3>7. QED
      BY <2>4, <3>1, <3>2, <3>3, <3>6, RecordTyped DEF TransitionAsync
  <2>5. CASE TransitionAsyncReturns
    <3>1. /\ Head(replies) \in [kind : {"announce"}, entity : LifecycleEntities,
                                at : Nat]
          /\ Tail(replies) \in Seq([kind : {"announce"},
                                    entity : LifecycleEntities, at : Nat])
      BY <2>5, HeadTyped DEF TransitionAsyncReturns
    <3>2. Head(replies) \in Announcements
      BY <3>1 DEF Announcements
    <3>3. QED
      BY <2>5, <3>1, <3>2 DEF TransitionAsyncReturns, tables
  <2>6. CASE Announce
    <3>1. task.entity \in Entities /\ task.at \in Nat
      BY <2>6 DEF Announce, Announcements
    <3>2. Append(announced[task.entity], task.at) \in Seq(Nat)
      BY <3>1
    <3>3. announced' \in [Entities -> Seq(Nat)]
      BY <2>6, <3>1, <3>2 DEF Announce
    <3>4. QED
      BY <2>6, <3>3 DEF Announce, tables
  <2>7. CASE AnnounceFails
    BY <2>7, BoundsAssumption DEF AnnounceFails, tables
  <2>8. CASE WorkerDies
    <3>1. CASE UNCHANGED tables
      BY <2>8, <3>1, BoundsAssumption DEF WorkerDies, tables
    <3>2. CASE Record(Head(writes).entity, Head(writes).step)
      <4>1. Head(writes) \in [entity : LifecycleEntities, step : Steps]
        BY <2>8, HeadTyped DEF WorkerDies
      <4>2. Head(writes).entity \in Entities /\ Head(writes).step \in Steps
        BY <4>1
      <4>3. QED
        BY <2>8, <3>2, <4>2, RecordTyped, BoundsAssumption DEF WorkerDies
    <3>3. QED
      BY <2>8, <3>1, <3>2 DEF WorkerDies
  <2>9. CASE Restart
    BY <2>9, BoundsAssumption DEF Restart, tables
  <2>10. CASE UNCHANGED vars
    BY <2>10 DEF vars, tables
  <2>11. QED
    BY <2>1, <2>2, <2>3, <2>4, <2>5, <2>6, <2>7, <2>8, <2>9, <2>10 DEF Next
<1>3. QED
  BY <1>1, <1>2, PTL DEF Spec

\* A step of the main thread, the worker or a fault that leaves the tables
\* alone.
QuietStep ==
  \/ \E e \in LifecycleEntities, s \in LifecycleSteps : RequestAsync(e, s)
  \/ TransitionAsyncReturns \/ Announce \/ AnnounceFails \/ Restart
  \/ WorkerDies /\ UNCHANGED tables
  \/ UNCHANGED vars

\* A step of the worker that records the write at the head of its queue.
WorkerRecords ==
  /\ TransitionAsync \/ WorkerDies
  /\ Record(Head(writes).entity, Head(writes).step)

\* Next, by what a step does to the tables.
LEMMA NextByTables ==
  ASSUME [Next]_vars
  PROVE  \/ \E e \in Entities, t \in Types : CreateEntity(e, t)
         \/ \E e \in Entities, s \in Steps : Transition(e, s)
         \/ WorkerRecords
         \/ QuietStep
BY DEF Next, TransitionAsync, WorkerDies, WorkerRecords, QuietStep

LEMMA QuietStepKeepsTables == QuietStep => UNCHANGED tables
BY DEF QuietStep, RequestAsync, TransitionAsyncReturns, Announce,
       AnnounceFails, Restart, vars

LEMMA WorkerRecordsTyped ==
  ASSUME TypeOK, WorkerRecords
  PROVE  Head(writes) \in [entity : LifecycleEntities, step : Steps]
BY HeadTyped DEF WorkerRecords, TransitionAsync, WorkerDies, TypeOK

\* What one more record does to a run: if h is a legal run that ends in s.from
\* and s is allowed from there, h with s appended is a legal run ending in s.to.
LEMMA RunGrows ==
  ASSUME TypeOK,
         NEW e \in Entities, IsRun(e), Exists(e),
         NEW s \in Steps, MayTransition(e, s),
         current'[e] = s.to, etype'[e] = etype[e],
         history'[e] = Append(history[e], s)
  PROVE  IsRun(e)'
<1> DEFINE h == history[e]
           k == history'[e]
<1>1. h \in Seq(Steps) /\ k \in Seq(Steps) /\ Len(k) = Len(h) + 1
      /\ Len(h) \in Nat
  BY DEF TypeOK
<1>2. \A i \in 1 .. Len(h) : k[i] = h[i]
  BY <1>1
<1>3. k[Len(k)] = s /\ k # <<>>
  BY <1>1
<1>4. \A i \in 1 .. Len(k) : k[i].to \in AllowedFrom(etype[e], k[i].from)
  <2> SUFFICES ASSUME NEW i \in 1 .. Len(k)
               PROVE  k[i].to \in AllowedFrom(etype[e], k[i].from)
    OBVIOUS
  <2>1. CASE i \in 1 .. Len(h)
    BY <2>1, <1>2 DEF IsRun
  <2>2. CASE i = Len(k)
    BY <2>2, <1>3 DEF MayTransition
  <2>3. QED
    BY <1>1, <2>1, <2>2
<1>5. \A i \in 1 .. Len(k) - 1 : k[i].to = k[i + 1].from
  <2> SUFFICES ASSUME NEW i \in 1 .. Len(k) - 1
               PROVE  k[i].to = k[i + 1].from
    OBVIOUS
  <2>1. CASE i \in 1 .. Len(h) - 1
    <3>1. k[i] = h[i] /\ k[i + 1] = h[i + 1]
      BY <2>1, <1>1, <1>2
    <3>2. QED
      BY <2>1, <3>1 DEF IsRun
  <2>2. CASE i = Len(h)
    <3>1. h # <<>> /\ h[Len(h)].to = current[e]
      BY <2>2, <1>1 DEF IsRun
    <3>2. QED
      BY <2>2, <3>1, <1>1, <1>2, <1>3 DEF MayTransition
  <2>3. QED
    BY <1>1, <2>1, <2>2
<1>6. k[1].from = Machine[etype[e]].initial
  <2>1. CASE h = <<>>
    <3>1. current[e] = Machine[etype[e]].initial
      BY <2>1 DEF IsRun
    <3>2. k[1] = s
      BY <2>1, <1>1, <1>3
    <3>3. QED
      BY <3>1, <3>2 DEF MayTransition
  <2>2. CASE h # <<>>
    <3>1. 1 \in 1 .. Len(h)
      BY <2>2, <1>1
    <3>2. QED
      BY <2>2, <3>1, <1>2 DEF IsRun
  <2>3. QED
    BY <2>1, <2>2
<1>7. QED
  BY <1>3, <1>4, <1>5, <1>6 DEF IsRun

\* The run of e is untouched by a step that leaves its row and records alone.
LEMMA RunStays ==
  ASSUME NEW e \in Entities, IsRun(e),
         etype'[e] = etype[e], current'[e] = current[e],
         history'[e] = history[e]
  PROVE  IsRun(e)'
BY DEF IsRun, AllowedFrom

\* SyncHistoryIsRun is inductive together with RowsAgree: an entity is created
\* with no record, so its run starts in the machine's initial state.
RunInv == TypeOK /\ RowsAgree /\ SyncHistoryIsRun

LEMMA RunInvInit == Init => RunInv
BY MachineAssumption, BoundsAssumption
   DEF Init, RunInv, TypeOK, RowsAgree, SyncHistoryIsRun, Exists

LEMMA RunInvNext == RunInv /\ TypeOK' /\ [Next]_vars => RunInv'
<1> SUFFICES ASSUME RunInv, TypeOK', [Next]_vars
             PROVE  RowsAgree' /\ SyncHistoryIsRun'
  BY DEF RunInv
<1> USE EntitiesAssumption, MachineAssumption DEF RunInv
<1>1. ASSUME NEW e \in Entities, NEW t \in Types, CreateEntity(e, t)
      PROVE  RowsAgree' /\ SyncHistoryIsRun'
  <2>0. Machine[t].initial \in States /\ Machine[t].initial # "absent"
        /\ t # "absent"
    BY DEF States
  <2>1. RowsAgree'
    BY <1>1, <2>0 DEF CreateEntity, RowsAgree, Exists, TypeOK
  <2>2. ASSUME NEW d \in Entities \ LifecycleEntities, Exists(d)'
        PROVE  IsRun(d)'
    <3>1. CASE d = e
      <4>1. etype'[d] = t /\ current'[d] = Machine[t].initial
            /\ history'[d] = <<>>
        BY <1>1, <3>1 DEF CreateEntity, RowsAgree, TypeOK
      <4>2. QED
        BY <4>1 DEF IsRun
    <3>2. CASE d # e
      BY <1>1, <2>2, <3>2, RunStays
         DEF CreateEntity, SyncHistoryIsRun, Exists, TypeOK
    <3>3. QED
      BY <3>1, <3>2
  <2>3. QED
    BY <2>1, <2>2 DEF SyncHistoryIsRun
<1>2. ASSUME NEW e \in Entities, NEW s \in Steps, Transition(e, s)
      PROVE  RowsAgree' /\ SyncHistoryIsRun'
  <2>0. s.to # "absent"
    BY DEF Steps
  <2>1. RowsAgree'
    BY <1>2, <2>0 DEF Transition, MayTransition, Record, RowsAgree, Exists,
                      TypeOK
  <2>2. ASSUME NEW d \in Entities \ LifecycleEntities, Exists(d)'
        PROVE  IsRun(d)'
    <3>1. IsRun(d) /\ Exists(d)
      BY <1>2, <2>2 DEF Transition, Record, SyncHistoryIsRun, Exists
    <3>2. CASE d = e
      <4>1. /\ current'[d] = s.to
            /\ etype'[d] = etype[d]
            /\ history'[d] = Append(history[d], s)
            /\ MayTransition(d, s)
        BY <1>2, <3>2 DEF Transition, Record, TypeOK
      <4>2. QED
        BY <3>1, <4>1, RunGrows
    <3>3. CASE d # e
      BY <1>2, <3>1, <3>3, RunStays DEF Transition, Record, TypeOK
    <3>4. QED
      BY <3>2, <3>3
  <2>3. QED
    BY <2>1, <2>2 DEF SyncHistoryIsRun
<1>3. CASE WorkerRecords
  <2> DEFINE w == Head(writes)
  <2>0. w \in [entity : LifecycleEntities, step : Steps]
        /\ w.step.to # "absent"
    <3>1. w \in [entity : LifecycleEntities, step : Steps]
      BY <1>3, WorkerRecordsTyped
    <3>2. QED
      BY <3>1 DEF Steps
  <2>1. RowsAgree'
    BY <1>3, <2>0 DEF WorkerRecords, Record, RowsAgree, Exists, TypeOK
  <2>2. ASSUME NEW d \in Entities \ LifecycleEntities, Exists(d)'
        PROVE  IsRun(d)'
    <3>1. d # w.entity
      BY <2>0
    <3>2. QED
      BY <1>3, <2>0, <2>2, <3>1, RunStays
         DEF WorkerRecords, Record, SyncHistoryIsRun, Exists, TypeOK
  <2>3. QED
    BY <2>1, <2>2 DEF SyncHistoryIsRun
<1>4. CASE QuietStep
  <2>1. UNCHANGED tables
    BY <1>4, QuietStepKeepsTables
  <2>2. QED
    BY <2>1 DEF tables, RowsAgree, SyncHistoryIsRun, IsRun, Exists
<1>5. QED
  BY <1>1, <1>2, <1>3, <1>4, NextByTables

\* Every history that only the validated path writes is a legal run of its
\* entity's machine, for any machines, any number of entities and any requests.
THEOREM SyncHistory == Spec => []SyncHistoryIsRun
<1>1. RunInv => SyncHistoryIsRun
  BY DEF RunInv
<1>2. QED
  BY <1>1, RunInvInit, RunInvNext, TypeCorrect, PTL DEF Spec

-----------------------------------------------------------------------------
(* Announcements.                                                          *)

\* What makes AnnouncedInOrder inductive: nothing is announced that is not
\* recorded, what is being announced is the latest record, later than all that
\* was announced before.
Follows(e) ==
  /\ InOrder(e)
  /\ \A i \in 1 .. Len(announced[e]) : announced[e][i] <= Len(history[e])
  /\ Len(history[e]) <= Len(announced[e]) + faults
                         + (IF Announcing(e) THEN 1 ELSE 0)
  /\ Announcing(e) =>
       /\ task.at = Len(history[e])
       /\ \A i \in 1 .. Len(announced[e]) : announced[e][i] < task.at
FollowInv == \A e \in Entities \ LifecycleEntities : Follows(e)

LEMMA FollowsStays ==
  ASSUME NEW e, Follows(e),
         announced'[e] = announced[e], history'[e] = history[e],
         faults' = faults,
         Announcing(e)' <=> Announcing(e), Announcing(e) => task' = task
  PROVE  Follows(e)'
BY DEF Follows, InOrder, Announcing

LEMMA OneMoreFault ==
  ASSUME NEW h \in Nat, NEW a \in Nat, NEW f \in Nat, h <= a + f + 1
  PROVE  h <= a + (f + 1) + 0 /\ h <= a + (f + 1) + 1
OBVIOUS

\* An announcement that is given up, or was never under way: a fault makes up
\* for the record it leaves unannounced.
LEMMA FollowsFault ==
  ASSUME TypeOK, NEW e \in Entities, Follows(e),
         announced'[e] = announced[e], history'[e] = history[e],
         faults' = faults + 1,
         Announcing(e)' => Announcing(e) /\ task' = task
  PROVE  Follows(e)'
<1>1. /\ history[e] \in Seq(Steps) /\ announced[e] \in Seq(Nat)
      /\ Len(history[e]) \in Nat /\ Len(announced[e]) \in Nat
      /\ faults \in Nat
  BY DEF TypeOK
<1>2. Len(history[e]) <= Len(announced[e]) + faults + 1
  <2>1. CASE Announcing(e)
    BY <1>1, <2>1 DEF Follows
  <2>2. CASE ~Announcing(e)
    <3>1. Len(history[e]) <= Len(announced[e]) + faults
      BY <1>1, <2>2 DEF Follows
    <3>2. QED
      BY <1>1, <3>1
  <2>3. QED
    BY <2>1, <2>2
<1>3. (Len(history[e]) <= Len(announced[e]) + faults
                          + (IF Announcing(e) THEN 1 ELSE 0))'
  <2>1. /\ Len(history[e]) <= Len(announced[e]) + (faults + 1) + 0
        /\ Len(history[e]) <= Len(announced[e]) + (faults + 1) + 1
    BY <1>1, <1>2, OneMoreFault
  <2>2. CASE Announcing(e)'
    BY <2>1, <2>2
  <2>3. CASE ~Announcing(e)'
    BY <2>1, <2>3
  <2>4. QED
    BY <2>2, <2>3
<1>4. InOrder(e)'
  BY DEF Follows, InOrder
<1>5. QED
  BY <1>3, <1>4 DEF Follows, Announcing

LEMMA FollowInvInit == Init => FollowInv
<1> SUFFICES ASSUME Init, NEW e \in Entities PROVE Follows(e)
  BY DEF FollowInv
<1>1. /\ announced[e] = <<>> /\ history[e] = <<>> /\ faults = 0
      /\ ~Announcing(e)
  BY DEF Init, Announcing
<1>2. QED
  BY <1>1 DEF Follows, InOrder

LEMMA FollowInvNext == TypeOK /\ FollowInv /\ [Next]_vars => FollowInv'
<1> SUFFICES ASSUME TypeOK, FollowInv, [Next]_vars,
                    NEW d \in Entities \ LifecycleEntities
             PROVE  Follows(d)'
  BY DEF FollowInv
<1> USE EntitiesAssumption
<1>0. Follows(d)
  BY DEF FollowInv
<1>a. /\ history[d] \in Seq(Steps) /\ announced[d] \in Seq(Nat)
      /\ Len(history[d]) \in Nat /\ Len(announced[d]) \in Nat
      /\ faults \in Nat
  BY DEF TypeOK
<1>b. \A a \in Announcements : a # Idle /\ a.entity \in Entities /\ a.at \in Nat
  BY DEF Announcements, Idle
<1>1. ASSUME NEW e \in Entities, NEW t \in Types, CreateEntity(e, t)
      PROVE  Follows(d)'
  BY <1>0, <1>1, FollowsStays DEF CreateEntity, Announcing
<1>2. ASSUME NEW e \in Entities, NEW s \in Steps, Transition(e, s)
      PROVE  Follows(d)'
  <2>1. CASE e # d
    <3>1. ~Announcing(d) /\ ~Announcing(d)'
      BY <1>2, <2>1 DEF Transition, Announcing, Recorded
    <3>2. history'[d] = history[d]
      BY <1>2, <2>1 DEF Transition, Record, TypeOK
    <3>3. QED
      BY <1>0, <1>2, <3>1, <3>2, FollowsStays DEF Transition
  <2>2. CASE e = d
    <3>1. history'[d] = Append(history[d], s)
      BY <1>2, <2>2 DEF Transition, Record, TypeOK
    <3>2. Len(history'[d]) = Len(history[d]) + 1
      BY <1>a, <3>1
    <3>3. /\ ~Announcing(d)
          /\ task' = [kind |-> "announce", entity |-> d,
                      at |-> Len(history[d]) + 1]
          /\ announced' = announced /\ faults' = faults
      BY <1>2, <2>2 DEF Transition, Announcing, Recorded
    <3>4. Announcing(d)' /\ task'.at = Len(history[d]) + 1
      BY <3>3 DEF Announcing, Idle
    <3>5. InOrder(d)'
      BY <1>0, <3>3 DEF Follows, InOrder
    <3>6. \A i \in 1 .. Len(announced[d]) : announced[d][i] <= Len(history[d])
      BY <1>0 DEF Follows
    <3>7. \A i \in 1 .. Len(announced[d]) : announced[d][i] \in Nat
      BY <1>a
    <3>8. Len(history[d]) <= Len(announced[d]) + faults
      BY <1>0, <3>3, <1>a DEF Follows
    <3>9. \A i \in 1 .. Len(announced[d]) :
            /\ announced[d][i] < Len(history[d]) + 1
            /\ announced[d][i] <= Len(history[d]) + 1
      BY <3>6, <3>7, <1>a
    <3>10. QED
      BY <1>a, <3>2, <3>3, <3>4, <3>5, <3>8, <3>9 DEF Follows
  <2>3. QED
    BY <2>1, <2>2
<1>3. CASE WorkerRecords
  <2>1. Head(writes) \in [entity : LifecycleEntities, step : Steps]
    BY <1>3, WorkerRecordsTyped
  <2>2. Head(writes).entity # d
    BY <2>1
  <2>3. history'[d] = history[d]
    BY <1>3, <2>1, <2>2 DEF WorkerRecords, Record, TypeOK
  <2>4. task' = task /\ announced' = announced
    BY <1>3 DEF WorkerRecords, TransitionAsync, WorkerDies
  <2>5. faults' = faults \/ faults' = faults + 1
    BY <1>3 DEF WorkerRecords, TransitionAsync, WorkerDies
  <2>6. Announcing(d)' <=> Announcing(d)
    BY <2>4 DEF Announcing
  <2>7. QED
    BY <1>0, <2>3, <2>4, <2>5, <2>6, FollowsStays, FollowsFault
<1>4. CASE QuietStep
  <2>0. history' = history
    BY <1>4, QuietStepKeepsTables DEF tables
  <2>1. CASE TransitionAsyncReturns
    <3>1. Head(replies) \in [kind : {"announce"}, entity : LifecycleEntities,
                             at : Nat]
      BY <2>1, HeadTyped DEF TransitionAsyncReturns, TypeOK
    <3>2. ~Announcing(d) /\ ~Announcing(d)'
      BY <2>1, <3>1 DEF TransitionAsyncReturns, Announcing
    <3>3. QED
      BY <1>0, <2>0, <2>1, <3>2, FollowsStays DEF TransitionAsyncReturns
  <2>2. CASE Announce
    <3>0. /\ task \in Announcements /\ task # Idle
          /\ task.entity \in Entities /\ task.at \in Nat
          /\ task' = Idle /\ faults' = faults
          /\ announced' = [announced EXCEPT
                             ![task.entity] = Append(@, task.at)]
      BY <2>2, <1>b DEF Announce, TypeOK
    <3>1. CASE task.entity # d
      <4>1. ~Announcing(d) /\ ~Announcing(d)'
        BY <3>0, <3>1 DEF Announcing
      <4>2. announced'[d] = announced[d]
        BY <3>0, <3>1 DEF TypeOK
      <4>3. QED
        BY <1>0, <2>0, <3>0, <4>1, <4>2, FollowsStays
    <3>2. CASE task.entity = d
      <4>1. Announcing(d) /\ ~Announcing(d)'
        BY <3>0, <3>2 DEF Announcing
      <4>2. announced'[d] = Append(announced[d], task.at)
        BY <3>0, <3>2 DEF TypeOK
      <4>3. /\ Len(announced'[d]) = Len(announced[d]) + 1
            /\ \A i \in 1 .. Len(announced[d]) :
                 announced'[d][i] = announced[d][i]
            /\ announced'[d][Len(announced[d]) + 1] = task.at
        BY <1>a, <3>0, <4>2
      <4>4. /\ task.at = Len(history[d])
            /\ \A i \in 1 .. Len(announced[d]) : announced[d][i] < task.at
            /\ Len(history[d]) <= Len(announced[d]) + faults + 1
        BY <1>0, <4>1 DEF Follows
      <4>5. InOrder(d)'
        <5> SUFFICES ASSUME NEW i \in 1 .. Len(announced'[d]),
                            NEW j \in 1 .. Len(announced'[d]), i < j
                     PROVE  announced'[d][i] < announced'[d][j]
          BY DEF InOrder
        <5>1. i \in 1 .. Len(announced[d])
          BY <1>a, <4>3
        <5>2. CASE j \in 1 .. Len(announced[d])
          BY <1>0, <4>3, <5>1, <5>2 DEF Follows, InOrder
        <5>3. CASE j = Len(announced[d]) + 1
          BY <4>3, <4>4, <5>1, <5>3
        <5>4. QED
          BY <1>a, <4>3, <5>2, <5>3
      <4>6. \A i \in 1 .. Len(announced'[d]) : announced'[d][i] <= Len(history[d])
        <5> SUFFICES ASSUME NEW i \in 1 .. Len(announced'[d])
                     PROVE  announced'[d][i] <= Len(history[d])
          OBVIOUS
        <5>1. CASE i \in 1 .. Len(announced[d])
          BY <1>0, <4>3, <5>1 DEF Follows
        <5>2. CASE i = Len(announced[d]) + 1
          BY <1>a, <4>3, <4>4, <5>2
        <5>3. QED
          BY <1>a, <4>3, <5>1, <5>2
      <4>7. Len(history[d]) <= Len(announced'[d]) + faults
        BY <1>a, <4>3, <4>4
      <4>8. QED
        BY <2>0, <1>a, <3>0, <4>1, <4>3, <4>5, <4>6, <4>7 DEF Follows
    <3>3. QED
      BY <3>1, <3>2
  <2>3. CASE AnnounceFails \/ Restart \/ (WorkerDies /\ UNCHANGED tables)
    <3>1. /\ announced' = announced /\ faults' = faults + 1
          /\ task' = Idle \/ task' = task
      BY <2>3 DEF AnnounceFails, Restart, WorkerDies
    <3>2. Announcing(d)' => Announcing(d) /\ task' = task
      BY <3>1 DEF Announcing
    <3>3. QED
      BY <1>0, <2>0, <3>1, <3>2, FollowsFault
  <2>4. CASE \/ \E e \in LifecycleEntities, s \in LifecycleSteps :
                  RequestAsync(e, s)
             \/ UNCHANGED vars
    <3>1. announced' = announced /\ task' = task /\ faults' = faults
      BY <2>4 DEF RequestAsync, vars
    <3>2. QED
      BY <1>0, <2>0, <3>1, FollowsStays DEF Announcing
  <2>5. QED
    BY <1>4, <2>1, <2>2, <2>3, <2>4 DEF QuietStep
<1>5. QED
  BY <1>1, <1>2, <1>3, <1>4, NextByTables

\* What is announced of an entity that only transition() writes follows its
\* history, for any interleaving with the worker and any number of faults.
THEOREM AnnouncementsFollow == Spec => []AnnouncedInOrder
<1>1. FollowInv => AnnouncedInOrder
  BY DEF FollowInv, Follows, AnnouncedInOrder
<1>2. QED
  BY <1>1, FollowInvInit, FollowInvNext, TypeCorrect, PTL DEF Spec

-----------------------------------------------------------------------------
(* Jobs that were denied.                                                  *)

\* A job with DISPATCHED in its history is in one of the states that follow.
Dispatched(e) ==
  \E i \in 1 .. Len(history[e]) : history[e][i].to = "DISPATCHED"
AfterDispatch(after) ==
  \A e \in Entities \ LifecycleEntities :
    etype[e] = "job" /\ Dispatched(e) => current[e] \in after

LEMMA AfterDispatchNext ==
  ASSUME NEW CONSTANT after, DispatchIsOneWay(after),
         TypeOK, RowsAgree, AfterDispatch(after), [Next]_vars
  PROVE  AfterDispatch(after)'
<1> SUFFICES ASSUME NEW d \in Entities \ LifecycleEntities,
                    etype'[d] = "job", Dispatched(d)'
             PROVE  current'[d] \in after
  BY DEF AfterDispatch
<1> USE EntitiesAssumption
<1>0. history[d] \in Seq(Steps) /\ Len(history[d]) \in Nat
  BY DEF TypeOK
<1>a. ASSUME etype'[d] = etype[d], history'[d] = history[d],
             current'[d] = current[d]
      PROVE  current'[d] \in after
  BY <1>a DEF AfterDispatch, Dispatched
<1>1. ASSUME NEW e \in Entities, NEW t \in Types, CreateEntity(e, t)
      PROVE  current'[d] \in after
  <2>1. CASE e # d
    BY <1>1, <1>a, <2>1 DEF CreateEntity, TypeOK
  <2>2. CASE e = d
    <3>1. history'[d] = <<>>
      BY <1>1, <2>2 DEF CreateEntity, RowsAgree
    <3>2. QED
      BY <3>1 DEF Dispatched
  <2>3. QED
    BY <2>1, <2>2
<1>2. ASSUME NEW e \in Entities, NEW s \in Steps, Transition(e, s)
      PROVE  current'[d] \in after
  <2>1. CASE e # d
    BY <1>2, <1>a, <2>1 DEF Transition, Record, TypeOK
  <2>2. CASE e = d
    <3>1. /\ etype[d] = "job" /\ current[d] = s.from
          /\ s.to \in AllowedFrom("job", s.from)
          /\ current'[d] = s.to
          /\ history'[d] = Append(history[d], s)
      BY <1>2, <2>2 DEF Transition, MayTransition, Record, TypeOK
    <3>2. CASE s.to = "DISPATCHED"
      BY <3>1, <3>2 DEF DispatchIsOneWay
    <3>3. CASE s.to # "DISPATCHED"
      <4>1. PICK i \in 1 .. Len(history'[d]) :
                   history'[d][i].to = "DISPATCHED"
        BY DEF Dispatched
      <4>2. /\ Len(history'[d]) = Len(history[d]) + 1
            /\ history'[d][Len(history[d]) + 1] = s
            /\ \A j \in 1 .. Len(history[d]) : history'[d][j] = history[d][j]
        BY <1>0, <3>1
      <4>3. i \in 1 .. Len(history[d])
        BY <1>0, <3>3, <4>1, <4>2
      <4>4. Dispatched(d)
        BY <4>1, <4>2, <4>3 DEF Dispatched
      <4>5. current[d] \in after
        BY <3>1, <4>4 DEF AfterDispatch
      <4>6. QED
        BY <3>1, <4>5 DEF DispatchIsOneWay
    <3>4. QED
      BY <3>2, <3>3
  <2>3. QED
    BY <2>1, <2>2
<1>3. CASE WorkerRecords
  <2>1. Head(writes) \in [entity : LifecycleEntities, step : Steps]
    BY <1>3, WorkerRecordsTyped
  <2>2. Head(writes).entity # d
    BY <2>1
  <2>3. QED
    BY <1>3, <1>a, <2>1, <2>2 DEF WorkerRecords, Record, TypeOK
<1>4. CASE QuietStep
  BY <1>4, <1>a, QuietStepKeepsTables DEF tables
<1>5. QED
  BY <1>1, <1>2, <1>3, <1>4, NextByTables

\* No job is dispatched and denied, for any set of definitions in which the
\* states after DISPATCHED lead only to each other, as in definitions.js.
THEOREM DeniedJobs ==
  ASSUME NEW CONSTANT after, DispatchIsOneWay(after)
  PROVE  Spec => []DeniedNeverDispatched
<1>1. Init => AfterDispatch(after)
  BY DEF Init, AfterDispatch, Dispatched
<1>2. TypeOK /\ RunInv /\ AfterDispatch(after) /\ [Next]_vars
        => AfterDispatch(after)'
  BY AfterDispatchNext DEF RunInv
<1>3. AfterDispatch(after) => DeniedNeverDispatched
  BY DEF AfterDispatch, Dispatched, DispatchIsOneWay, DeniedNeverDispatched
<1>4. QED
  BY <1>1, <1>2, <1>3, RunInvInit, RunInvNext, TypeCorrect, PTL DEF Spec
=============================================================================
