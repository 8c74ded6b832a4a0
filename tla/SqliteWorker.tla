---------------------------- MODULE SqliteWorker ----------------------------
(***************************************************************************)
(* The plumbing between the main thread and the SQLite worker thread:      *)
(* _spawnWorker .. _callWorker and close of server/adapter/sqlite.js, and  *)
(* the message loop of server/adapter/sqlite-async-worker.js.              *)
(*                                                                         *)
(* A call looks at the queue depth, awaits the worker's readiness, and     *)
(* only then takes a place in the queue.  The continuation of an await is  *)
(* a microtask: it runs before the next message or exit event is handled.  *)
(* The thread can die at any moment; the main thread learns of it from the *)
(* exit event, which follows every message the dead thread had posted.     *)
(***************************************************************************)
EXTENDS Naturals, Sequences, FiniteSets, SequencesExt

CONSTANTS
  Calls,         \* calls of an *Async method; each has an id of its own
  MaxPending,    \* _maxPendingRequests
  NoCall,
  MaxCrashes     \* bound: deaths of a worker thread

ASSUME CallsAssumption == IsFiniteSet(Calls) /\ NoCall \notin Calls
ASSUME MaxPendingAssumption == MaxPending \in Nat \ {0}
ASSUME MaxCrashesAssumption == MaxCrashes \in Nat

VARIABLES
  \* main thread
  call,       \* what became of each call
  pending,    \* keys of _pendingRequests
  depth,      \* _queueDepth
  ready,      \* has _workerReady resolved for the current worker?
  recent,     \* is _lastCrashAt less than 30 s ago?
  process,    \* "up", "closed" (close() was called) or "exited"
  \* worker thread
  thread,     \* "starting", "serving" or "dead"
  inbox,      \* requests posted to the thread
  running,    \* request that was executed and has not been answered
  outbox,     \* answers posted to the main thread
  crashes,    \* bound: threads that died
  \* what has happened, for the properties only
  runs        \* how often the statement of each call was committed

main == <<call, pending, depth, ready, recent, process>>
worker == <<thread, inbox, running, outbox>>
vars == <<main, worker, crashes, runs>>

\* The "ready" message carries no call.
Answers == [call : Calls \cup {NoCall}, ok : BOOLEAN]
Ready == [call |-> NoCall, ok |-> TRUE]
Outcomes == {"resolved", "failed", "full", "notReady", "crashed", "closed"}

TypeOK ==
  /\ call \in [Calls -> {"idle", "awaiting", "due", "posted"} \cup Outcomes]
  /\ pending \subseteq Calls
  /\ depth \in Nat
  /\ ready \in BOOLEAN /\ recent \in BOOLEAN
  /\ process \in {"up", "closed", "exited"}
  /\ thread \in {"starting", "serving", "dead"}
  /\ inbox \in Seq(Calls)
  /\ running \in Calls \cup {NoCall}
  /\ outbox \in Seq(Answers)
  /\ crashes \in 0..MaxCrashes
  /\ runs \in [Calls -> Nat]

\* The constructor spawns the worker.
Init ==
  /\ call = [c \in Calls |-> "idle"]
  /\ pending = {} /\ depth = 0
  /\ ready = FALSE /\ recent = FALSE /\ process = "up"
  /\ thread = "starting" /\ inbox = <<>> /\ running = NoCall /\ outbox = <<>>
  /\ crashes = 0
  /\ runs = [c \in Calls |-> 0]

-----------------------------------------------------------------------------
(* The calls.                                                              *)

\* A call that is due has only its continuation, a microtask, left to wait for.
HandlesEvent == process = "up" /\ \A c \in Calls : call[c] # "due"

\* The limit is compared here and the place in the queue taken in Post.

CallWorker(c) ==
  /\ process = "up" /\ call[c] = "idle"
  /\ call' = [call EXCEPT ![c] = IF depth >= MaxPending THEN "full"
                                 ELSE IF ready THEN "due" ELSE "awaiting"]
  /\ UNCHANGED <<pending, depth, ready, recent, process, worker, crashes, runs>>

\* Mutant: the place in the queue is not counted.
PostUncounted(c) ==
  /\ process = "up" /\ call[c] = "due"
  /\ call' = [call EXCEPT ![c] = "posted"]
  /\ pending' = pending \cup {c}
  /\ inbox' = IF thread = "dead" THEN inbox ELSE Append(inbox, c)
  /\ UNCHANGED <<depth, ready, recent, process, thread, running, outbox,
                 crashes, runs>>

\* A message posted to a thread that is gone is lost.
Post(c) ==
  /\ process = "up" /\ call[c] = "due"
  /\ call' = [call EXCEPT ![c] = "posted"]
  /\ pending' = pending \cup {c}
  /\ depth' = depth + 1
  /\ inbox' = IF thread = "dead" THEN inbox ELSE Append(inbox, c)
  /\ UNCHANGED <<ready, recent, process, thread, running, outbox, crashes, runs>>

-----------------------------------------------------------------------------
(* The worker thread.                                                      *)

\* Statements prepared, "ready" posted.
WorkerStarts ==
  /\ process # "exited" /\ thread = "starting"
  /\ thread' = "serving"
  /\ outbox' = Append(outbox, Ready)
  /\ UNCHANGED <<main, inbox, running, crashes, runs>>

\* A statement commits, or throws and leaves no trace.
WorkerExec ==
  /\ process # "exited" /\ thread = "serving"
  /\ running = NoCall /\ inbox # <<>>
  /\ inbox' = Tail(inbox)
  /\ \/ /\ running' = Head(inbox)
        /\ runs' = [runs EXCEPT ![Head(inbox)] = @ + 1]
        /\ UNCHANGED outbox
     \/ /\ outbox' = Append(outbox, [call |-> Head(inbox), ok |-> FALSE])
        /\ UNCHANGED <<running, runs>>
  /\ UNCHANGED <<main, thread, crashes>>

WorkerAnswers ==
  /\ process # "exited" /\ thread = "serving" /\ running # NoCall
  /\ outbox' = Append(outbox, [call |-> running, ok |-> TRUE])
  /\ running' = NoCall
  /\ UNCHANGED <<main, thread, inbox, crashes, runs>>

WorkerDies ==
  /\ process = "up" /\ thread # "dead" /\ crashes < MaxCrashes
  /\ thread' = "dead" /\ inbox' = <<>> /\ running' = NoCall
  /\ crashes' = crashes + 1
  /\ UNCHANGED <<main, outbox, runs>>

-----------------------------------------------------------------------------
(* Events of the worker on the main thread.                                *)

HandleReady ==
  /\ HandlesEvent /\ outbox # <<>> /\ Head(outbox) = Ready
  /\ ready' = TRUE
  /\ call' = [c \in Calls |-> IF call[c] = "awaiting" THEN "due" ELSE call[c]]
  /\ outbox' = Tail(outbox)
  /\ UNCHANGED <<pending, depth, recent, process, thread, inbox, running,
                 crashes, runs>>

Settle(answer) ==
  /\ call' = [call EXCEPT ![answer.call] =
                 IF answer.ok THEN "resolved" ELSE "failed"]
  /\ pending' = pending \ {answer.call}
  /\ depth' = depth - 1

HandleWorkerMessage ==
  /\ HandlesEvent /\ outbox # <<>> /\ Head(outbox) # Ready
  /\ IF Head(outbox).call \in pending
     THEN Settle(Head(outbox))
     ELSE UNCHANGED <<call, pending, depth>>
  /\ outbox' = Tail(outbox)
  /\ UNCHANGED <<ready, recent, process, thread, inbox, running, crashes, runs>>

\* Mutant: a crash leaves the depth as it was.
RejectAllKeepsDepth ==
  /\ call' = [c \in Calls |->
       IF c \in pending THEN "crashed"
       ELSE IF call[c] = "awaiting" THEN "notReady" ELSE call[c]]
  /\ pending' = {}
  /\ UNCHANGED depth

\* Mutant: a crash rejects the calls that await readiness only.
RejectAllAwaiting ==
  /\ call' = [c \in Calls |->
       IF call[c] = "awaiting" THEN "notReady" ELSE call[c]]
  /\ UNCHANGED <<pending, depth>>

\* Calls that still await a readiness that will not come are rejected with the
\* worker's error; a readiness promise nobody awaits is an unhandled rejection.
RejectAll ==
  /\ call' = [c \in Calls |->
       IF c \in pending THEN "crashed"
       ELSE IF call[c] = "awaiting" THEN "notReady" ELSE call[c]]
  /\ pending' = {}
  /\ depth' = 0

UnhandledRejection == ~ready /\ \A c \in Calls : call[c] # "awaiting"

\* Mutant: the replacement is sent the requests of the thread that died.
HandleWorkerCrashResends ==
  /\ process = "up" /\ thread = "dead" /\ outbox = <<>>
  /\ recent' = TRUE
  /\ ready' = FALSE /\ thread' = "starting"
  /\ inbox' = SetToSeq(pending)
  /\ UNCHANGED <<call, pending, depth, process, running, outbox, crashes, runs>>

\* A second crash within 30 s ends the process, for launchd to restart it.
\* Calls that are due may run before or after: "ready" can be drained from the
\* port of a thread that is already gone, in the same event as its exit.
HandleWorkerCrash ==
  /\ process = "up" /\ thread = "dead" /\ outbox = <<>>
  /\ RejectAll
  /\ IF recent \/ UnhandledRejection
     THEN /\ process' = "exited"
          /\ UNCHANGED <<ready, recent, thread>>
     ELSE /\ recent' = TRUE
          /\ ready' = FALSE /\ thread' = "starting"
          /\ UNCHANGED process
  /\ UNCHANGED <<inbox, running, outbox, crashes, runs>>

ThirtySecondsPass ==
  /\ recent /\ process = "up"
  /\ recent' = FALSE
  /\ UNCHANGED <<call, pending, depth, ready, process, worker, crashes, runs>>

\* terminate() does not wait for the thread: what it does meanwhile is lost.
Close ==
  /\ HandlesEvent
  /\ process' = "closed"
  /\ call' = [c \in Calls |-> IF c \in pending THEN "closed" ELSE call[c]]
  /\ pending' = {} /\ depth' = 0
  /\ UNCHANGED <<ready, recent, worker, crashes, runs>>

ProcessExits ==
  /\ process = "closed"
  /\ process' = "exited"
  /\ UNCHANGED <<call, pending, depth, ready, recent, worker, crashes, runs>>

Next ==
  \/ \E c \in Calls : CallWorker(c)
  \/ \E c \in Calls : Post(c)
  \/ WorkerStarts \/ WorkerExec \/ WorkerAnswers \/ WorkerDies
  \/ HandleReady \/ HandleWorkerMessage \/ HandleWorkerCrash
  \/ ThirtySecondsPass \/ Close \/ ProcessExits

Spec == Init /\ [][Next]_vars

\* Node keeps delivering events to the main thread and the thread keeps running;
\* no fairness of crashes, of closing, or of time.
Fairness ==
  /\ \A c \in Calls : WF_vars(Post(c))
  /\ WF_vars(WorkerStarts) /\ WF_vars(WorkerExec) /\ WF_vars(WorkerAnswers)
  /\ WF_vars(HandleReady) /\ WF_vars(HandleWorkerMessage)
  /\ WF_vars(HandleWorkerCrash)

FairSpec == Spec /\ Fairness

-----------------------------------------------------------------------------
(* Properties.                                                             *)

\* The counter that guards the queue never drifts from the requests that are
\* outstanding: through answers, crashes that clear the map, and calls that
\* post to a replacement thread, no place is leaked and none is freed twice.
DepthCountsPending == depth = Cardinality(pending)

\* A call the main thread has forgotten is not waited for, and one that is
\* waited for is on its way: in the thread's inbox, in execution, answered, or
\* lost with a thread whose exit is still to be handled.
OnItsWay ==
  (ToSet(inbox) \cup {running} \cup {answer.call : answer \in ToSet(outbox)})
    \ {NoCall}
PendingIsOnItsWay ==
  /\ pending = {c \in Calls : call[c] = "posted"}
  /\ process = "up" => OnItsWay \subseteq pending
  /\ process = "up" /\ thread # "dead" => pending \subseteq OnItsWay

\* The calls behave as WorkerCalls promises: run at most once, resolved only
\* after running, not run any more once the caller was told of a failure.
Status(c) ==
  CASE call[c] \in {"awaiting", "due", "posted"} -> "open"
    [] call[c] \in {"failed", "full", "notReady", "crashed"} -> "rejected"
    [] call[c] = "closed" -> "abandoned"
    [] OTHER -> call[c]
Promise == INSTANCE WorkerCalls WITH
  status <- [c \in Calls |-> Status(c)], runs <- runs
CallsKeepPromise == Promise!Spec

\* Every call is settled, crashes of the thread notwithstanding, unless the
\* process goes away.  A health check or a disconnect sequence awaits such a
\* call; one that is never settled stops it for ever.
Unsettled(c) == call[c] \in {"awaiting", "due", "posted"}
EveryCallSettles ==
  \A c \in Calls : Unsettled(c) ~> ~Unsettled(c) \/ process # "up"

\* sqlite.js:862 "Bounded queue (1000 entries by default) with
\* WorkerQueueFullError back-pressure".
QueueIsBounded == depth <= MaxPending
=============================================================================
