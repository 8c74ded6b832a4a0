------------------------- MODULE SqliteWorkerProofs -------------------------
(***************************************************************************)
(* Proofs about SqliteWorker, for every set of calls, queue limit and      *)
(* number of crashes: the state is well typed, and the depth counter is    *)
(* the number of outstanding requests.                                     *)
(*                                                                         *)
(* The counter is decremented for an answer, so that its staying a natural *)
(* number needs the count of the map; and the count of the map after a     *)
(* post needs that the posted call was not in it.  That a call is in the   *)
(* map exactly while it is posted gives the latter, and the three facts    *)
(* together are inductive.                                                 *)
(***************************************************************************)
EXTENDS SqliteWorker, FiniteSetTheorems, TLAPS

\* The keys of the map are the calls whose promise the map can settle.
PendingIsPosted == pending = {c \in Calls : call[c] = "posted"}

QueueInv == TypeOK /\ PendingIsPosted /\ DepthCountsPending

\* The map holds finitely many calls, and posting and settling one changes
\* their number by one.
LEMMA CountOfPending ==
  ASSUME TypeOK
  PROVE  /\ IsFiniteSet(pending)
         /\ Cardinality(pending) \in Nat
         /\ \A c \in Calls \ pending :
              Cardinality(pending \cup {c}) = Cardinality(pending) + 1
         /\ \A c \in pending :
              Cardinality(pending \ {c}) = Cardinality(pending) - 1
<1>1. IsFiniteSet(pending)
  BY CallsAssumption, FS_Subset DEF CallsAssumption, TypeOK
<1>2. Cardinality(pending) \in Nat
  BY <1>1, FS_CardinalityType
<1>3. \A c \in Calls \ pending :
        Cardinality(pending \cup {c}) = Cardinality(pending) + 1
  BY <1>1, FS_AddElement
<1>4. \A c \in pending : Cardinality(pending \ {c}) = Cardinality(pending) - 1
  BY <1>1, FS_RemoveElement
<1> QED
  BY <1>1, <1>2, <1>3, <1>4

\* The constructor leaves an empty map and a depth of zero.
LEMMA InitQueue == Init => QueueInv
<1> SUFFICES ASSUME Init PROVE QueueInv
  OBVIOUS
<1>1. TypeOK
  <2>1. 0 \in 0..MaxCrashes
    BY MaxCrashesAssumption DEF MaxCrashesAssumption
  <2>2. inbox \in Seq(Calls) /\ outbox \in Seq(Answers)
    BY DEF Init
  <2>3. call \in [Calls -> {"idle", "awaiting", "due", "posted"} \cup Outcomes]
    BY DEF Init
  <2> QED
    BY <2>1, <2>2, <2>3 DEF Init, TypeOK
<1>2. PendingIsPosted
  BY DEF Init, PendingIsPosted
<1>3. DepthCountsPending
  BY FS_EmptySet DEF Init, DepthCountsPending
<1> QED
  BY <1>1, <1>2, <1>3 DEF QueueInv

\* The steps that touch neither the calls nor the map: the worker's own, the
\* passing of time and the end of the process.
LEMMA ThreadSteps ==
  ASSUME QueueInv,
         \/ WorkerStarts \/ WorkerExec \/ WorkerAnswers \/ WorkerDies
         \/ ThirtySecondsPass \/ ProcessExits
  PROVE  QueueInv'
<1> USE DEF QueueInv
<1>1. TypeOK'
  <2>1. CASE WorkerStarts
    BY <2>1 DEF WorkerStarts, TypeOK, main, Ready, Answers
  <2>2. CASE WorkerExec
    <3>1. Head(inbox) \in Calls /\ Tail(inbox) \in Seq(Calls)
      BY <2>2 DEF WorkerExec, TypeOK
    <3>2. outbox' \in Seq(Answers)
      <4>1. [call |-> Head(inbox), ok |-> FALSE] \in Answers
        BY <3>1 DEF Answers
      <4>2. Append(outbox, [call |-> Head(inbox), ok |-> FALSE]) \in Seq(Answers)
        BY <4>1 DEF TypeOK
      <4>3. outbox' \in
              {outbox, Append(outbox, [call |-> Head(inbox), ok |-> FALSE])}
        BY <2>2 DEF WorkerExec
      <4> QED
        BY <4>2, <4>3 DEF TypeOK
    <3>3. runs' \in [Calls -> Nat] /\ running' \in Calls \cup {NoCall}
      BY <2>2, <3>1 DEF WorkerExec, TypeOK
    <3> QED
      BY <2>2, <3>1, <3>2, <3>3 DEF WorkerExec, TypeOK, main
  <2>3. CASE WorkerAnswers
    BY <2>3 DEF WorkerAnswers, TypeOK, main, Answers
  <2>4. CASE WorkerDies
    BY <2>4, MaxCrashesAssumption
       DEF MaxCrashesAssumption, WorkerDies, TypeOK, main
  <2>5. CASE ThirtySecondsPass
    BY <2>5 DEF ThirtySecondsPass, TypeOK, worker
  <2>6. CASE ProcessExits
    BY <2>6 DEF ProcessExits, TypeOK, worker
  <2> QED
    BY <2>1, <2>2, <2>3, <2>4, <2>5, <2>6
<1>2. UNCHANGED <<call, pending, depth>>
  BY DEF WorkerStarts, WorkerExec, WorkerAnswers, WorkerDies,
         ThirtySecondsPass, ProcessExits, main
<1> QED
  BY <1>1, <1>2 DEF PendingIsPosted, DepthCountsPending

\* A call that is refused or starts to wait is not in the map.
LEMMA CallStep ==
  ASSUME QueueInv, NEW c \in Calls, CallWorker(c)
  PROVE  QueueInv'
<1> USE DEF QueueInv, CallWorker
<1>1. TypeOK'
  BY DEF TypeOK, Outcomes, worker
<1>2. PendingIsPosted'
  BY DEF TypeOK, PendingIsPosted
<1>3. DepthCountsPending'
  BY DEF DepthCountsPending
<1> QED
  BY <1>1, <1>2, <1>3

\* A call that is due is not in the map yet: posting it adds one.
LEMMA PostStep ==
  ASSUME QueueInv, NEW c \in Calls, Post(c)
  PROVE  QueueInv'
<1> USE DEF QueueInv, Post
<1>1. TypeOK'
  <2>1. inbox' \in Seq(Calls)
    BY DEF TypeOK
  <2> QED
    BY <2>1 DEF TypeOK
<1>2. PendingIsPosted'
  BY DEF TypeOK, PendingIsPosted
<1>3. c \notin pending
  BY DEF PendingIsPosted
<1>4. DepthCountsPending'
  BY <1>3, CountOfPending DEF DepthCountsPending
<1> QED
  BY <1>1, <1>2, <1>4

\* Calls that become due were waiting, not in the map.
LEMMA ReadyStep ==
  ASSUME QueueInv, HandleReady
  PROVE  QueueInv'
<1> USE DEF QueueInv, HandleReady
<1>1. TypeOK'
  <2>1. Tail(outbox) \in Seq(Answers)
    BY DEF TypeOK
  <2>2. call' \in [Calls -> {"idle", "awaiting", "due", "posted"} \cup Outcomes]
    BY DEF TypeOK
  <2> QED
    BY <2>1, <2>2 DEF TypeOK
<1>2. PendingIsPosted'
  BY DEF TypeOK, PendingIsPosted
<1>3. DepthCountsPending'
  BY DEF DepthCountsPending
<1> QED
  BY <1>1, <1>2, <1>3

\* An answer settles one call of the map, or none.
LEMMA AnswerStep ==
  ASSUME QueueInv, HandleWorkerMessage
  PROVE  QueueInv'
<1> USE DEF QueueInv, HandleWorkerMessage
<1> DEFINE answer == Head(outbox)
<1>1. answer \in Answers /\ Tail(outbox) \in Seq(Answers)
  BY DEF TypeOK
<1>2. CASE answer.call \in pending
  <2>1. answer.call \in Calls /\ Settle(answer)
    BY <1>2 DEF TypeOK
  <2>2. DepthCountsPending'
    BY <1>2, <2>1, CountOfPending DEF Settle, DepthCountsPending
  <2>3. depth' \in Nat
    <3>1. IsFiniteSet(pending')
      BY <2>1, CountOfPending, FS_Subset DEF Settle
    <3> QED
      BY <3>1, <2>2, FS_CardinalityType DEF DepthCountsPending
  <2>4. TypeOK'
    BY <1>1, <2>1, <2>3 DEF TypeOK, Settle, Outcomes
  <2>5. PendingIsPosted'
    BY <2>1 DEF TypeOK, PendingIsPosted, Settle
  <2> QED
    BY <2>2, <2>4, <2>5
<1>3. CASE answer.call \notin pending
  <2>1. TypeOK'
    BY <1>1, <1>3 DEF TypeOK
  <2> QED
    BY <2>1, <1>3 DEF PendingIsPosted, DepthCountsPending
<1> QED
  BY <1>2, <1>3

\* A crash and a shutdown empty the map and leave no call posted.
LEMMA EndStep ==
  ASSUME QueueInv, HandleWorkerCrash \/ Close
  PROVE  QueueInv'
<1> USE DEF QueueInv
<1>1. pending' = {} /\ depth' = 0
  BY DEF HandleWorkerCrash, RejectAll, Close
<1>2. /\ call' \in [Calls -> {"idle", "awaiting", "due", "posted"} \cup Outcomes]
      /\ \A c \in Calls : call'[c] # "posted"
  <2>1. CASE HandleWorkerCrash
    BY <2>1 DEF HandleWorkerCrash, RejectAll, TypeOK, Outcomes, PendingIsPosted
  <2>2. CASE Close
    BY <2>2 DEF Close, TypeOK, Outcomes, PendingIsPosted
  <2> QED
    BY <2>1, <2>2
<1>3. TypeOK'
  <2>1. CASE HandleWorkerCrash
    BY <1>1, <1>2, <2>1 DEF HandleWorkerCrash, TypeOK
  <2>2. CASE Close
    BY <1>1, <1>2, <2>2 DEF Close, TypeOK, worker
  <2> QED
    BY <2>1, <2>2
<1>4. PendingIsPosted'
  BY <1>1, <1>2 DEF PendingIsPosted
<1>5. DepthCountsPending'
  BY <1>1, FS_EmptySet DEF DepthCountsPending
<1> QED
  BY <1>3, <1>4, <1>5

\* Every step keeps the invariant.
LEMMA NextQueue == QueueInv /\ [Next]_vars => QueueInv'
<1> SUFFICES ASSUME QueueInv, [Next]_vars PROVE QueueInv'
  OBVIOUS
<1>1. CASE \E c \in Calls : CallWorker(c)
  BY <1>1, CallStep
<1>2. CASE \E c \in Calls : Post(c)
  BY <1>2, PostStep
<1>3. CASE \/ WorkerStarts \/ WorkerExec \/ WorkerAnswers \/ WorkerDies
           \/ ThirtySecondsPass \/ ProcessExits
  BY <1>3, ThreadSteps
<1>4. CASE HandleReady
  BY <1>4, ReadyStep
<1>5. CASE HandleWorkerMessage
  BY <1>5, AnswerStep
<1>6. CASE HandleWorkerCrash \/ Close
  BY <1>6, EndStep
<1>7. CASE UNCHANGED vars
  BY <1>7 DEF vars, main, worker, QueueInv, TypeOK, PendingIsPosted,
              DepthCountsPending
<1> QED
  BY <1>1, <1>2, <1>3, <1>4, <1>5, <1>6, <1>7 DEF Next

LEMMA QueueInvariant == Spec => []QueueInv
<1>1. Init => QueueInv
  BY InitQueue
<1>2. QueueInv /\ [Next]_vars => QueueInv'
  BY NextQueue
<1> QED
  BY <1>1, <1>2, PTL DEF Spec

\* Every reachable state of the plumbing is well typed; in particular the depth
\* counter never goes below zero.
THEOREM TypeCorrect == Spec => []TypeOK
<1>1. QueueInv => TypeOK
  BY DEF QueueInv
<1> QED
  BY <1>1, QueueInvariant, PTL

\* The depth counter equals the number of outstanding requests (sqlite.js
\* 803-818, 832-838 and 871-895) whatever the calls, answers and crashes.
THEOREM DepthIsCount == Spec => []DepthCountsPending
<1>1. QueueInv => DepthCountsPending
  BY DEF QueueInv
<1> QED
  BY <1>1, QueueInvariant, PTL
=============================================================================
