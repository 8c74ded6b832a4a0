---------------------------- MODULE StateMachine ----------------------------
(***************************************************************************)
(* The state machine engine (server/state/machine.js) over the two tables  *)
(* it keeps through the storage adapter: state_entities (type and current  *)
(* state of each entity) and state_transitions (its history).              *)
(*                                                                         *)
(* Entities are changed on two paths.  API callers go through transition,  *)
(* which validates and writes within one synchronous call.  The organ      *)
(* lifecycle handlers of server/ws/handler.js read the current state, wait *)
(* for the SQLite worker, and write through transitionAsync, which         *)
(* validates nothing: `writes' is the worker's queue of such writes.       *)
(*                                                                         *)
(* Every recorded transition is announced: onTransition (server/index.js)  *)
(* broadcasts an OTM with the transition_id and stores it as an event.     *)
(* transition does so before it returns, transitionAsync when the worker's *)
(* answer has come back.  An announcement is known by the place of its     *)
(* transition in the entity's history.                                     *)
(***************************************************************************)
EXTENDS Naturals, Sequences

CONSTANTS
  Entities,           \* entity URNs
  LifecycleEntities,  \* the URNs "organ:<name>" the lifecycle handlers write
  Machine,            \* registered definitions: entity type -> definition
  LifecycleSteps,     \* the [from, to] steps the lifecycle handlers ask for
  MaxHistory,         \* bound: transitions recorded per entity
  MaxWrites,          \* bound: asynchronous writes in flight
  MaxFaults           \* bound: announcements that fail, deaths of the worker,
                      \* and crashes of the process with a restart

Types == DOMAIN Machine
States == UNION {Machine[t].states : t \in Types}
Steps == [from : States, to : States]

ASSUME EntitiesAssumption == LifecycleEntities \subseteq Entities

\* What registerStateMachineDef stores for each type; "absent" is no state.
ASSUME MachineAssumption ==
  /\ "absent" \notin States
  /\ "absent" \notin Types
  /\ \A t \in Types :
       /\ Machine[t].initial \in Machine[t].states
       /\ Machine[t].terminal \subseteq Machine[t].states
       /\ Machine[t].transitions \in
            [Machine[t].states -> SUBSET Machine[t].states]

ASSUME LifecycleAssumption == LifecycleSteps \subseteq Steps

ASSUME BoundsAssumption == {MaxHistory, MaxWrites, MaxFaults} \subseteq Nat

VARIABLES
  etype,      \* entity_type of each row of state_entities, "absent" if no row
  current,    \* current_state of each row, "absent" if no row
  history,    \* rows of state_transitions of each entity, oldest first
  announced,  \* events of the transitions of each entity, oldest first
  task,       \* the transition the main thread is about to announce
  writes,     \* transitionAsync calls the worker has not executed yet
  replies,    \* its answers that the main thread has not handled yet
  faults

tables == <<etype, current, history>>
vars == <<tables, announced, task, writes, replies, faults>>

Idle == [kind |-> "idle"]
Recorded(e, n) == [kind |-> "announce", entity |-> e, at |-> n]
Announcements == [kind : {"announce"}, entity : Entities, at : Nat]

Exists(e) == etype[e] # "absent"

\* machine.transitions[s] || []
AllowedFrom(t, s) ==
  IF s \in DOMAIN Machine[t].transitions THEN Machine[t].transitions[s] ELSE {}

Init ==
  /\ etype = [e \in Entities |-> "absent"]
  /\ current = [e \in Entities |-> "absent"]
  /\ history = [e \in Entities |-> <<>>]
  /\ announced = [e \in Entities |-> <<>>]
  /\ task = Idle /\ writes = <<>> /\ replies = <<>> /\ faults = 0

\* Mutant: entity_type and the initial state are swapped in the INSERT.
CreateEntitySwapped(e, t) ==
  /\ task = Idle
  /\ t \in Types
  /\ ~Exists(e)
  /\ etype' = [etype EXCEPT ![e] = Machine[t].initial]
  /\ current' = [current EXCEPT ![e] = t]
  /\ UNCHANGED <<history, announced, task, writes, replies, faults>>

\* createEntity: the machine must be registered and the URN unused.
CreateEntity(e, t) ==
  /\ task = Idle
  /\ t \in Types
  /\ ~Exists(e)
  /\ etype' = [etype EXCEPT ![e] = t]
  /\ current' = [current EXCEPT ![e] = Machine[t].initial]
  /\ UNCHANGED <<history, announced, task, writes, replies, faults>>

\* The two statements the adapter runs in one SQLite transaction.  Neither
\* compares the row with s.from.
Record(e, s) ==
  /\ Len(history[e]) < MaxHistory
  /\ current' = [current EXCEPT ![e] = s.to]
  /\ history' = [history EXCEPT ![e] = Append(@, s)]
  /\ UNCHANGED etype

\* Mutant: the compare-and-swap guard is dropped, from_state is trusted.
MayTransitionNoCas(e, s) ==
  /\ Exists(e)
  /\ s.from \notin Machine[etype[e]].terminal
  /\ s.to \in AllowedFrom(etype[e], s.from)

\* Mutant: the definition's transition table is not consulted.
MayTransitionAnyStep(e, s) ==
  /\ Exists(e)
  /\ current[e] = s.from
  /\ current[e] \notin Machine[etype[e]].terminal
  /\ s.to \in Machine[etype[e]].states

\* The guards of transition, in the order of the code.
MayTransition(e, s) ==
  /\ Exists(e)
  /\ current[e] = s.from
  /\ current[e] \notin Machine[etype[e]].terminal
  /\ s.to \in AllowedFrom(etype[e], s.from)

\* transition: a caller may send any pair of states; a refused request
\* changes nothing.
Transition(e, s) ==
  /\ task = Idle
  /\ MayTransition(e, s)
  /\ Record(e, s)
  /\ task' = Recorded(e, Len(history[e]) + 1)
  /\ UNCHANGED <<announced, writes, replies, faults>>

\* Mutant: the announcement is not ticked off, and is made again.
AnnounceAgain ==
  /\ task # Idle
  /\ announced' = [announced EXCEPT ![task.entity] = Append(@, task.at)]
  /\ \/ task' = Idle
     \/ task' = task
  /\ UNCHANGED <<tables, writes, replies, faults>>

\* onTransition: the broadcast and the event.
Announce ==
  /\ task # Idle
  /\ announced' = [announced EXCEPT ![task.entity] = Append(@, task.at)]
  /\ task' = Idle
  /\ UNCHANGED <<tables, writes, replies, faults>>

\* onTransition throws: the error is caught and the transition stands.
AnnounceFails ==
  /\ faults < MaxFaults
  /\ task # Idle
  /\ task' = Idle
  /\ faults' = faults + 1
  /\ UNCHANGED <<tables, announced, writes, replies>>

\* A lifecycle handler's own check of the state it has read, after which it
\* calls transitionAsync.  The worker executes the write later.
RequestAsync(e, s) ==
  /\ task = Idle
  /\ Exists(e)
  /\ current[e] = s.from
  /\ Len(writes) < MaxWrites
  /\ writes' = Append(writes, [entity |-> e, step |-> s])
  /\ UNCHANGED <<tables, announced, task, replies, faults>>

\* The worker executes the oldest transitionAsync, and answers.
TransitionAsync ==
  /\ writes # <<>>
  /\ Record(Head(writes).entity, Head(writes).step)
  /\ writes' = Tail(writes)
  /\ replies' = Append(replies, Recorded(Head(writes).entity,
                            Len(history[Head(writes).entity]) + 1))
  /\ UNCHANGED <<announced, task, faults>>

\* transitionAsync goes on when the answer is there.
TransitionAsyncReturns ==
  /\ task = Idle /\ replies # <<>>
  /\ task' = Head(replies)
  /\ replies' = Tail(replies)
  /\ UNCHANGED <<tables, announced, writes, faults>>

\* The worker dies with its queue; the write in execution is committed or not,
\* and not answered.
WorkerDies ==
  /\ faults < MaxFaults /\ writes # <<>>
  /\ faults' = faults + 1
  /\ writes' = <<>>
  /\ UNCHANGED tables \/ Record(Head(writes).entity, Head(writes).step)
  /\ UNCHANGED <<announced, task, replies>>

\* The process dies and is started again: the tables are left as they are.
Restart ==
  /\ faults < MaxFaults
  /\ faults' = faults + 1
  /\ task' = Idle /\ writes' = <<>> /\ replies' = <<>>
  /\ UNCHANGED <<tables, announced>>

Next ==
  \/ \E e \in Entities, t \in Types : CreateEntity(e, t)
  \/ \E e \in Entities, s \in Steps : Transition(e, s)
  \/ \E e \in LifecycleEntities, s \in LifecycleSteps : RequestAsync(e, s)
  \/ TransitionAsync \/ TransitionAsyncReturns
  \/ Announce \/ AnnounceFails
  \/ WorkerDies \/ Restart

Spec == Init /\ [][Next]_vars

-----------------------------------------------------------------------------
(* Properties *)

\* Type invariant of the tables, the main thread and the worker's queues.
TypeOK ==
  /\ etype \in [Entities -> Types \cup {"absent"}]
  /\ current \in [Entities -> States \cup {"absent"}]
  /\ history \in [Entities -> Seq(Steps)]
  /\ announced \in [Entities -> Seq(Nat)]
  /\ task \in {Idle} \cup Announcements
  /\ writes \in Seq([entity : LifecycleEntities, step : Steps])
  /\ replies \in
       Seq([kind : {"announce"}, entity : LifecycleEntities, at : Nat])
  /\ faults \in 0 .. MaxFaults

\* The history of e is a legal run of its machine that ends in its current
\* state: it leaves from the initial state, each record starts where the one
\* before it ended, and each step is allowed by the definition.
IsRun(e) ==
  LET h == history[e]
      m == Machine[etype[e]]
  IN  /\ \A i \in 1 .. Len(h) : h[i].to \in AllowedFrom(etype[e], h[i].from)
      /\ \A i \in 1 .. Len(h) - 1 : h[i].to = h[i + 1].from
      /\ current[e] = IF h = <<>> THEN m.initial ELSE h[Len(h)].to
      /\ h # <<>> => h[1].from = m.initial

\* Whatever requests callers send and in whatever order, the recorded history
\* of an entity that only transition() writes is a legal run of its machine
\* (the guards of machine.js:78-141).
SyncHistoryIsRun ==
  \A e \in Entities \ LifecycleEntities : Exists(e) => IsRun(e)

\* Without a row an entity has no history, and its state is absent exactly when
\* its row is.
RowsAgree ==
  \A e \in Entities \ LifecycleEntities :
    /\ Exists(e) <=> current[e] # "absent"
    /\ ~Exists(e) => history[e] = <<>>

\* A job that was denied authorization was never dispatched, whichever races
\* between the callers that decide and the callers that dispatch
\* (definitions.js:20-26: DENIED is reached from AWAITING_AUTH only).
DeniedNeverDispatched ==
  \A e \in Entities \ LifecycleEntities :
    etype[e] = "job" /\ current[e] = "DENIED" =>
      \A i \in 1 .. Len(history[e]) : history[e][i].to # "DISPATCHED"

\* What the job definition has to do with it: some states can only be followed
\* by each other, DISPATCHED is one of them, and DENIED is not.
DispatchIsOneWay(after) ==
  /\ "DISPATCHED" \in after /\ "DENIED" \notin after
  /\ \A s \in after : AllowedFrom("job", s) \subseteq after

\* Who follows the announcements of an entity that only transition() writes
\* sees its history in order and no transition twice, whatever lifecycle writes
\* come back in between; what is missing is being announced now or was lost to
\* a fault, one transition to each.
Announcing(e) == task # Idle /\ task.entity = e
InOrder(e) ==
  \A i, j \in 1 .. Len(announced[e]) :
    i < j => announced[e][i] < announced[e][j]
AnnouncedInOrder ==
  \A e \in Entities \ LifecycleEntities :
    /\ InOrder(e)
    /\ Len(history[e]) <= Len(announced[e]) + faults
                           + (IF Announcing(e) THEN 1 ELSE 0)
=============================================================================
