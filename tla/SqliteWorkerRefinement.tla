----------------------- MODULE SqliteWorkerRefinement -----------------------
(***************************************************************************)
(* Proof that the plumbing of SqliteWorker implements WorkerCalls, for     *)
(* every set of calls, queue limit and number of crashes.                  *)
(*                                                                         *)
(* A call may run again, or run after its caller was told of a failure,    *)
(* only if the thread still has it.  So the invariant follows a call from  *)
(* the inbox through the execution to the outbox: it is in one place at a  *)
(* time, has not run before it is executed and has run when it is answered *)
(* with success; and whoever is on the way is awaited by the main thread,  *)
(* or was given up by a shutdown.                                          *)
(***************************************************************************)
EXTENDS SqliteWorkerProofs, SequenceFacts

\* A call is at one place of its way only.
InOnePlace ==
  /\ \A i, j \in 1..Len(inbox) : inbox[i] = inbox[j] => i = j
  /\ \A i, j \in 1..Len(outbox) :
       outbox[i].call = outbox[j].call /\ outbox[i].call # NoCall => i = j
  /\ \A i \in 1..Len(inbox) :
       inbox[i] # running /\ \A j \in 1..Len(outbox) : inbox[i] # outbox[j].call
  /\ running # NoCall => \A j \in 1..Len(outbox) : running # outbox[j].call

\* A dead thread holds nothing.  What is on its way is awaited, or was given up
\* by close(); and what is awaited is on its way as long as the thread lives.
Whereabouts ==
  /\ thread = "dead" => inbox = <<>> /\ running = NoCall
  /\ process = "up" => OnItsWay \subseteq pending
  /\ process # "up" => OnItsWay \subseteq {c \in Calls : call[c] = "closed"}
  /\ process = "up" /\ thread # "dead" => pending \subseteq OnItsWay

\* A call runs on its way from the inbox to the outbox, and once.
RunsOnTheWay ==
  /\ \A c \in Calls : runs[c] \in {0, 1}
  /\ \A c \in Calls : call[c] \in {"idle", "awaiting", "due"} => runs[c] = 0
  /\ \A i \in 1..Len(inbox) : runs[inbox[i]] = 0
  /\ running # NoCall => runs[running] = 1
  /\ \A j \in 1..Len(outbox) :
       outbox[j].call # NoCall /\ outbox[j].ok => runs[outbox[j].call] = 1

WayInv == InOnePlace /\ Whereabouts /\ RunsOnTheWay

-----------------------------------------------------------------------------
(* What is on its way, when a sequence grows or is consumed.               *)

\* The calls of a sequence of answers.
CallsOf(answers) == {answer.call : answer \in ToSet(answers)}

LEMMA CallsOfAnswers ==
  ASSUME NEW s \in Seq(Answers)
  PROVE  /\ CallsOf(s) = {s[i].call : i \in 1..Len(s)}
         /\ \A a \in Answers : CallsOf(Append(s, a)) = CallsOf(s) \cup {a.call}
         /\ s # <<>> => CallsOf(s) = {Head(s).call} \cup CallsOf(Tail(s))
BY SetOfSeq DEF CallsOf

\* OnItsWay by its three places.
LEMMA Places ==
  OnItsWay = (ToSet(inbox) \cup {running} \cup CallsOf(outbox)) \ {NoCall}
BY DEF OnItsWay, CallsOf

-----------------------------------------------------------------------------
(* The invariant of the way.                                               *)

LEMMA InitWay == Init => WayInv
<1> SUFFICES ASSUME Init PROVE WayInv
  OBVIOUS
<1>1. OnItsWay = {}
  BY DEF Init, OnItsWay, ToSet
<1>2. InOnePlace
  BY DEF Init, InOnePlace
<1>3. Whereabouts
  BY <1>1 DEF Init, Whereabouts
<1>4. RunsOnTheWay
  BY DEF Init, RunsOnTheWay
<1> QED
  BY <1>2, <1>3, <1>4 DEF WayInv

\* What leaves the thread, its queues and its executions alone, and what is
\* awaited, keeps the invariant.
LEMMA BesideTheWay ==
  ASSUME QueueInv, WayInv,
         UNCHANGED <<pending, thread, inbox, running, outbox, runs>>,
         \/ \E c \in Calls : CallWorker(c)
         \/ ThirtySecondsPass \/ ProcessExits
  PROVE  WayInv'
<1> USE DEF QueueInv, WayInv
<1>1. OnItsWay' = OnItsWay
  BY DEF OnItsWay
<1>2. InOnePlace'
  BY DEF InOnePlace
<1>3. \A c \in Calls : call[c] = "closed" => call'[c] = "closed"
  BY DEF CallWorker, ThirtySecondsPass, ProcessExits, TypeOK
<1>4. Whereabouts'
  BY <1>1, <1>3
     DEF Whereabouts, CallWorker, ThirtySecondsPass, ProcessExits, TypeOK
<1>5. \A c \in Calls : call'[c] \in {"idle", "awaiting", "due"} =>
                       call[c] \in {"idle", "awaiting", "due"}
  BY DEF CallWorker, ThirtySecondsPass, ProcessExits, TypeOK
<1>6. RunsOnTheWay'
  BY <1>5 DEF RunsOnTheWay
<1> QED
  BY <1>2, <1>4, <1>6

\* A call that is posted has not been on its way before, and has not run.
LEMMA PostWay ==
  ASSUME QueueInv, WayInv, NEW c \in Calls, Post(c)
  PROVE  WayInv'
<1> USE DEF QueueInv, WayInv
<1>1. c \notin pending /\ c # NoCall /\ runs[c] = 0
  BY CallsAssumption DEF Post, PendingIsPosted, RunsOnTheWay, CallsAssumption
<1>2. c \notin ToSet(inbox) \cup {running} \cup CallsOf(outbox)
  BY <1>1, Places DEF Post, Whereabouts
<1>3. inbox \in Seq(Calls) /\ outbox \in Seq(Answers)
  BY DEF TypeOK
<1>4. /\ \A i \in 1..Len(inbox) : inbox[i] # c
      /\ \A j \in 1..Len(outbox) : outbox[j].call # c
  BY <1>2, <1>3, SetOfSeq, CallsOfAnswers
<1>5. CASE thread = "dead"
  <2>1. UNCHANGED <<thread, inbox, running, outbox, runs, process>>
    BY <1>5 DEF Post
  <2>2. OnItsWay' = OnItsWay
    BY <2>1 DEF OnItsWay
  <2>3. InOnePlace' /\ RunsOnTheWay'
    BY <2>1 DEF InOnePlace, RunsOnTheWay, Post, TypeOK
  <2>4. Whereabouts'
    BY <1>5, <2>1, <2>2 DEF Whereabouts, Post
  <2> QED
    BY <2>3, <2>4
<1>6. CASE thread # "dead"
  <2>1. /\ inbox' = Append(inbox, c)
        /\ UNCHANGED <<thread, running, outbox, runs, process>>
    BY <1>6 DEF Post
  <2>2. OnItsWay' = OnItsWay \cup {c}
    <3>1. ToSet(inbox') = ToSet(inbox) \cup {c}
      BY <1>3, <2>1, SetOfSeq
    <3> QED
      BY <1>1, <2>1, <3>1 DEF OnItsWay
  <2>3. InOnePlace'
    BY <1>2, <1>3, <1>4, <2>1 DEF InOnePlace
  <2>4. Whereabouts'
    BY <1>6, <2>1, <2>2 DEF Whereabouts, Post
  <2>5. RunsOnTheWay'
    BY <1>1, <1>3, <2>1 DEF RunsOnTheWay, Post, TypeOK
  <2> QED
    BY <2>3, <2>4, <2>5
<1> QED
  BY <1>5, <1>6

\* "ready" is posted: no call's answer.
LEMMA StartWay ==
  ASSUME QueueInv, WayInv, WorkerStarts
  PROVE  WayInv'
<1> USE DEF QueueInv, WayInv
<1>1. /\ outbox' = Append(outbox, Ready) /\ thread' = "serving"
      /\ thread # "dead"
      /\ UNCHANGED <<call, pending, process, inbox, running, runs>>
  BY DEF WorkerStarts, main
<1>2. outbox \in Seq(Answers) /\ Ready \in Answers /\ Ready.call = NoCall
  BY DEF TypeOK, Ready, Answers
<1>3. OnItsWay' = OnItsWay
  <2>1. CallsOf(outbox') = CallsOf(outbox) \cup {NoCall}
    BY <1>1, <1>2, CallsOfAnswers
  <2> QED
    BY <1>1, <2>1 DEF OnItsWay, CallsOf
<1>4. /\ Len(outbox') = Len(outbox) + 1
      /\ \A j \in 1..Len(outbox) : outbox'[j] = outbox[j]
      /\ outbox'[Len(outbox) + 1].call = NoCall
  BY <1>1, <1>2
<1>5. \A i \in 1..Len(inbox) : inbox[i] # NoCall
  BY CallsAssumption DEF CallsAssumption, TypeOK
<1>6. InOnePlace'
  BY <1>1, <1>2, <1>4, <1>5 DEF InOnePlace
<1>7. Whereabouts'
  BY <1>1, <1>3 DEF Whereabouts
<1>8. RunsOnTheWay'
  BY <1>1, <1>2, <1>4 DEF RunsOnTheWay
<1> QED
  BY <1>6, <1>7, <1>8

\* A request is executed: it runs for the first time, or it fails and leaves no
\* trace.
LEMMA ExecWay ==
  ASSUME QueueInv, WayInv, WorkerExec
  PROVE  WayInv'
<1> USE DEF QueueInv, WayInv
<1> DEFINE c == Head(inbox)
           failure == [call |-> c, ok |-> FALSE]
<1>1. /\ inbox \in Seq(Calls) /\ inbox # <<>> /\ outbox \in Seq(Answers)
      /\ c \in Calls /\ c # NoCall /\ c = inbox[1] /\ running = NoCall
      /\ inbox' = Tail(inbox) /\ thread # "dead"
      /\ UNCHANGED <<call, pending, process, thread>>
  BY CallsAssumption DEF WorkerExec, main, TypeOK, CallsAssumption
<1>2. ToSet(inbox) = {c} \cup ToSet(inbox')
  BY <1>1, SetOfSeq
<1>3. /\ Len(inbox') = Len(inbox) - 1 /\ Len(inbox) \in Nat
      /\ \A i \in 1..Len(inbox') : inbox'[i] = inbox[i + 1] /\ inbox'[i] # c
                                   /\ i + 1 \in 1..Len(inbox)
  BY <1>1 DEF InOnePlace
<1>4. CASE /\ running' = c /\ runs' = [runs EXCEPT ![c] = @ + 1]
           /\ UNCHANGED outbox
  <2>1. OnItsWay' = OnItsWay
    BY <1>1, <1>2, <1>4 DEF OnItsWay
  <2>2. InOnePlace'
    <3>1. \A j \in 1..Len(outbox) : outbox[j].call # c
      BY <1>1 DEF InOnePlace
    <3> QED
      BY <1>1, <1>3, <1>4, <3>1 DEF InOnePlace
  <2>3. Whereabouts'
    BY <1>1, <1>4, <2>1 DEF Whereabouts
  <2>4. RunsOnTheWay'
    <3>1. runs[c] = 0 /\ runs'[c] = 1
      BY <1>1, <1>4 DEF RunsOnTheWay, TypeOK
    <3>2. \A d \in Calls : d # c => runs'[d] = runs[d]
      BY <1>4 DEF TypeOK
    <3>3. call[c] \notin {"idle", "awaiting", "due"}
      BY <1>1, <1>2 DEF Whereabouts, OnItsWay, PendingIsPosted
    <3>4. \A j \in 1..Len(outbox) :
            /\ outbox[j].call # c
            /\ outbox[j].call # NoCall => outbox[j].call \in Calls
      <4>1. \A j \in 1..Len(outbox) : outbox[j].call # c
        BY <1>1 DEF InOnePlace
      <4>2. \A j \in 1..Len(outbox) : outbox[j] \in Answers
        BY <1>1
      <4> QED
        BY <4>1, <4>2 DEF Answers
    <3>5. \A i \in 1..Len(inbox') : inbox'[i] \in Calls
      BY <1>1, <1>3
    <3>6. \A i \in 1..Len(inbox') : runs'[inbox'[i]] = 0
      BY <1>3, <3>2, <3>5 DEF RunsOnTheWay
    <3>7. \A j \in 1..Len(outbox) :
            outbox[j].call # NoCall /\ outbox[j].ok =>
              runs'[outbox[j].call] = 1
      BY <3>2, <3>4 DEF RunsOnTheWay
    <3> QED
      BY <1>1, <1>4, <3>1, <3>2, <3>3, <3>6, <3>7 DEF RunsOnTheWay
  <2> QED
    BY <2>2, <2>3, <2>4
<1>5. CASE outbox' = Append(outbox, failure) /\ UNCHANGED <<running, runs>>
  <2>1. failure \in Answers /\ failure.call = c /\ failure.ok = FALSE
    BY <1>1 DEF Answers
  <2>2. OnItsWay' = OnItsWay
    <3>1. CallsOf(outbox') = CallsOf(outbox) \cup {c}
      BY <1>1, <1>5, <2>1, CallsOfAnswers
    <3> QED
      BY <1>1, <1>2, <1>5, <3>1 DEF OnItsWay, CallsOf
  <2>3. /\ Len(outbox') = Len(outbox) + 1 /\ Len(outbox) \in Nat
        /\ \A j \in 1..Len(outbox) : outbox'[j] = outbox[j]
        /\ outbox'[Len(outbox) + 1] = failure
    BY <1>1, <1>5, <2>1
  <2>4. \A j \in 1..Len(outbox) : outbox[j].call # c
    BY <1>1 DEF InOnePlace
  <2>5. InOnePlace'
    BY <1>1, <1>3, <1>5, <2>1, <2>3, <2>4 DEF InOnePlace
  <2>6. Whereabouts'
    BY <1>1, <1>5, <2>2 DEF Whereabouts
  <2>7. RunsOnTheWay'
    BY <1>1, <1>3, <1>5, <2>1, <2>3 DEF RunsOnTheWay
  <2> QED
    BY <2>5, <2>6, <2>7
<1> QED
  BY <1>4, <1>5 DEF WorkerExec

\* What has run is answered with success.
LEMMA AnswerWay ==
  ASSUME QueueInv, WayInv, WorkerAnswers
  PROVE  WayInv'
<1> USE DEF QueueInv, WayInv
<1> DEFINE answer == [call |-> running, ok |-> TRUE]
<1>1. /\ outbox \in Seq(Answers) /\ answer \in Answers
      /\ outbox' = Append(outbox, answer)
      /\ running # NoCall /\ running' = NoCall /\ thread # "dead"
      /\ UNCHANGED <<call, pending, process, thread, inbox, runs>>
  BY DEF WorkerAnswers, main, TypeOK, Answers
<1>2. OnItsWay' = OnItsWay
  <2>1. CallsOf(outbox') = CallsOf(outbox) \cup {running}
    BY <1>1, CallsOfAnswers
  <2> QED
    BY <1>1, <2>1 DEF OnItsWay, CallsOf
<1>3. /\ Len(outbox') = Len(outbox) + 1 /\ Len(outbox) \in Nat
      /\ \A j \in 1..Len(outbox) : outbox'[j] = outbox[j]
      /\ outbox'[Len(outbox) + 1] = answer
  BY <1>1
<1>4. \A i \in 1..Len(inbox) : inbox[i] # NoCall
  BY CallsAssumption DEF CallsAssumption, TypeOK
<1>5. InOnePlace'
  BY <1>1, <1>3, <1>4 DEF InOnePlace
<1>6. Whereabouts'
  BY <1>1, <1>2 DEF Whereabouts
<1>7. RunsOnTheWay'
  BY <1>1, <1>3 DEF RunsOnTheWay
<1> QED
  BY <1>5, <1>6, <1>7

\* A thread dies with what it holds; what it has answered is still to come.
LEMMA DieWay ==
  ASSUME QueueInv, WayInv, WorkerDies
  PROVE  WayInv'
<1> USE DEF QueueInv, WayInv
<1>1. /\ inbox' = <<>> /\ running' = NoCall /\ thread' = "dead"
      /\ UNCHANGED <<call, pending, process, outbox, runs>>
  BY DEF WorkerDies, main
<1>2. OnItsWay' \subseteq OnItsWay
  BY <1>1 DEF OnItsWay, ToSet
<1>3. InOnePlace' /\ RunsOnTheWay'
  BY <1>1 DEF InOnePlace, RunsOnTheWay
<1>4. Whereabouts'
  BY <1>1, <1>2 DEF Whereabouts
<1> QED
  BY <1>3, <1>4

\* "ready" is taken from the outbox; the calls that become due have waited.
LEMMA ReadyWay ==
  ASSUME QueueInv, WayInv, HandleReady
  PROVE  WayInv'
<1> USE DEF QueueInv, WayInv
<1>1. /\ outbox \in Seq(Answers) /\ outbox # <<>> /\ outbox' = Tail(outbox)
      /\ Head(outbox).call = NoCall /\ process = "up"
      /\ UNCHANGED <<pending, process, thread, inbox, running, runs>>
  BY DEF HandleReady, HandlesEvent, TypeOK, Ready
<1>2. OnItsWay' = OnItsWay
  <2>1. CallsOf(outbox) = {NoCall} \cup CallsOf(outbox')
    BY <1>1, CallsOfAnswers
  <2> QED
    BY <1>1, <2>1 DEF OnItsWay, CallsOf
<1>3. /\ Len(outbox') = Len(outbox) - 1 /\ Len(outbox) \in Nat
      /\ \A j \in 1..Len(outbox') :
           outbox'[j] = outbox[j + 1] /\ j + 1 \in 1..Len(outbox)
  BY <1>1
<1>4. InOnePlace'
  BY <1>1, <1>3 DEF InOnePlace
<1>5. Whereabouts'
  BY <1>1, <1>2 DEF Whereabouts
<1>6. \A c \in Calls : call'[c] \in {"idle", "awaiting", "due"} =>
                       call[c] \in {"idle", "awaiting", "due"}
  BY DEF HandleReady, TypeOK
<1>7. RunsOnTheWay'
  BY <1>1, <1>3, <1>6 DEF RunsOnTheWay
<1> QED
  BY <1>4, <1>5, <1>7

\* An answer that has come is taken from the outbox together with the entry of
\* the map, and nothing else on its way is that call's.
LEMMA MessageWay ==
  ASSUME QueueInv, WayInv, HandleWorkerMessage
  PROVE  WayInv'
<1> USE DEF QueueInv, WayInv
<1> DEFINE c == Head(outbox).call
<1>1. /\ outbox \in Seq(Answers) /\ outbox # <<>> /\ outbox' = Tail(outbox)
      /\ Head(outbox) = outbox[1] /\ process = "up"
      /\ UNCHANGED <<process, thread, inbox, running, runs>>
  BY DEF HandleWorkerMessage, HandlesEvent, TypeOK
<1>2. /\ Len(outbox') = Len(outbox) - 1 /\ Len(outbox) \in Nat
      /\ Len(outbox) >= 1 /\ outbox' \in Seq(Answers)
      /\ \A j \in 1..Len(outbox') :
           outbox'[j] = outbox[j + 1] /\ j + 1 \in 1..Len(outbox) /\ j + 1 # 1
  BY <1>1
<1>3. CallsOf(outbox) = {c} \cup CallsOf(outbox')
  BY <1>1, CallsOfAnswers
<1>4. InOnePlace'
  BY <1>1, <1>2 DEF InOnePlace
<1>5. RunsOnTheWay'
  <2>1. \A d \in Calls : call'[d] \in {"idle", "awaiting", "due"} =>
                         call[d] \in {"idle", "awaiting", "due"}
    BY DEF HandleWorkerMessage, Settle, TypeOK
  <2> QED
    BY <1>1, <1>2, <2>1 DEF RunsOnTheWay
<1>6. pending' = pending \ {c}
  BY DEF HandleWorkerMessage, Settle
<1>7. OnItsWay' = OnItsWay \ {c}
  <2>1. CASE c = NoCall
    BY <1>1, <1>3, <2>1 DEF OnItsWay, CallsOf
  <2>2. CASE c # NoCall
    <3>1. c \notin CallsOf(outbox')
      <4>1. \A j \in 1..Len(outbox') : outbox'[j].call # c
        BY <1>1, <1>2, <2>2 DEF InOnePlace
      <4> QED
        BY <1>2, <4>1, CallsOfAnswers
    <3>2. c \notin ToSet(inbox) \cup {running}
      <4>1. \A i \in 1..Len(inbox) : inbox[i] # c
        BY <1>1, <1>2 DEF InOnePlace
      <4>2. c \notin ToSet(inbox)
        <5>1. inbox \in Seq(Calls)
          BY DEF TypeOK
        <5> QED
          BY <4>1, <5>1, SetOfSeq
      <4>3. c # running
        BY <1>1, <1>2, <2>2 DEF InOnePlace
      <4> QED
        BY <4>2, <4>3
    <3> QED
      BY <1>1, <1>3, <3>1, <3>2 DEF OnItsWay, CallsOf
  <2> QED
    BY <2>1, <2>2
<1>8. Whereabouts'
  BY <1>1, <1>6, <1>7 DEF Whereabouts
<1> QED
  BY <1>4, <1>5, <1>8

\* When the exit of a thread is handled, nothing is on its way any more.
LEMMA CrashWay ==
  ASSUME QueueInv, WayInv, HandleWorkerCrash
  PROVE  WayInv'
<1> USE DEF QueueInv, WayInv
<1>1. /\ inbox = <<>> /\ running = NoCall /\ outbox = <<>>
      /\ pending' = {} /\ process' \in {"up", "exited"}
      /\ UNCHANGED <<inbox, running, outbox, runs>>
  BY DEF HandleWorkerCrash, RejectAll, Whereabouts
<1>2. OnItsWay' = {}
  BY <1>1 DEF OnItsWay, ToSet
<1>3. InOnePlace'
  BY <1>1 DEF InOnePlace
<1>4. Whereabouts'
  BY <1>1, <1>2 DEF Whereabouts
<1>5. \A c \in Calls : call'[c] \in {"idle", "awaiting", "due"} =>
                       call[c] \in {"idle", "awaiting", "due"}
  BY DEF HandleWorkerCrash, RejectAll, TypeOK
<1>6. RunsOnTheWay'
  BY <1>1, <1>5 DEF RunsOnTheWay
<1> QED
  BY <1>3, <1>4, <1>6

\* A shutdown gives up what is on its way, and the thread goes on with it.
LEMMA CloseWay ==
  ASSUME QueueInv, WayInv, Close
  PROVE  WayInv'
<1> USE DEF QueueInv, WayInv
<1>1. /\ pending' = {} /\ process = "up" /\ process' = "closed"
      /\ UNCHANGED <<thread, inbox, running, outbox, runs>>
  BY DEF Close, HandlesEvent, worker
<1>2. OnItsWay' = OnItsWay
  BY <1>1 DEF OnItsWay
<1>3. InOnePlace'
  BY <1>1 DEF InOnePlace
<1>4. \A c \in pending : c \in Calls /\ call'[c] = "closed"
  BY DEF Close, TypeOK
<1>5. Whereabouts'
  BY <1>1, <1>2, <1>4 DEF Whereabouts
<1>6. \A c \in Calls : call'[c] \in {"idle", "awaiting", "due"} =>
                       call[c] \in {"idle", "awaiting", "due"}
  BY DEF Close, TypeOK
<1>7. RunsOnTheWay'
  BY <1>1, <1>6 DEF RunsOnTheWay
<1> QED
  BY <1>3, <1>5, <1>7

\* Every step keeps the invariant.
LEMMA NextWay == QueueInv /\ WayInv /\ [Next]_vars => WayInv'
<1> SUFFICES ASSUME QueueInv, WayInv, [Next]_vars PROVE WayInv'
  OBVIOUS
<1>1. CASE \/ \E c \in Calls : CallWorker(c)
           \/ ThirtySecondsPass \/ ProcessExits
  <2>1. UNCHANGED <<pending, thread, inbox, running, outbox, runs>>
    BY <1>1 DEF CallWorker, ThirtySecondsPass, ProcessExits, worker
  <2> QED
    BY <1>1, <2>1, BesideTheWay
<1>2. CASE \E c \in Calls : Post(c)
  BY <1>2, PostWay
<1>3. CASE WorkerStarts
  BY <1>3, StartWay
<1>4. CASE WorkerExec
  BY <1>4, ExecWay
<1>5. CASE WorkerAnswers
  BY <1>5, AnswerWay
<1>6. CASE WorkerDies
  BY <1>6, DieWay
<1>7. CASE HandleReady
  BY <1>7, ReadyWay
<1>8. CASE HandleWorkerMessage
  BY <1>8, MessageWay
<1>9. CASE HandleWorkerCrash
  BY <1>9, CrashWay
<1>10. CASE Close
  BY <1>10, CloseWay
<1>11. CASE UNCHANGED vars
  BY <1>11 DEF vars, main, worker, WayInv, InOnePlace, Whereabouts,
               RunsOnTheWay, OnItsWay
<1> QED
  BY <1>1, <1>2, <1>3, <1>4, <1>5, <1>6, <1>7, <1>8, <1>9, <1>10, <1>11
     DEF Next

LEMMA WayInvariant == Spec => [](QueueInv /\ WayInv)
<1>1. Init => WayInv
  BY InitWay
<1>2. QueueInv /\ WayInv /\ [Next]_vars => WayInv'
  BY NextWay
<1> QED
  BY <1>1, <1>2, QueueInvariant, PTL DEF Spec

\* A call the main thread waits for is in the thread's inbox, in execution or
\* answered, unless its thread has died and the exit is still to be handled;
\* what the main thread has given up is in none of them (sqlite.js 803-859).
THEOREM AwaitedIsOnItsWay == Spec => []PendingIsOnItsWay
<1>1. QueueInv /\ WayInv => PendingIsOnItsWay
  BY DEF QueueInv, WayInv, Whereabouts, PendingIsPosted, PendingIsOnItsWay
<1> QED
  BY <1>1, WayInvariant, PTL

-----------------------------------------------------------------------------
(* The refinement.                                                         *)

\* Init maps to the promise's Init: every call is idle and has not run.
LEMMA InitPromise == Init => Promise!Init
BY DEF Init, Promise!Init, Status

\* A call is issued: accepted, or rejected because the queue is full.
LEMMA CallIssues ==
  ASSUME QueueInv, NEW c \in Calls, CallWorker(c)
  PROVE  Promise!Next
<1> DEFINE st == [d \in Calls |-> Status(d)]
<1>1. st[c] = "idle" /\ UNCHANGED runs
  BY DEF CallWorker, Status
<1>2. \A d \in Calls : d # c => call'[d] = call[d]
  BY DEF CallWorker, QueueInv, TypeOK
<1>3. call'[c] \in {"full", "due", "awaiting"}
  BY DEF CallWorker, QueueInv, TypeOK
<1>4. CASE call'[c] = "full"
  <2>1. st' = [st EXCEPT ![c] = "rejected"]
    BY <1>2, <1>4 DEF Status
  <2>2. Promise!Issue(c, "rejected")
    BY <1>1, <2>1 DEF Promise!Issue
  <2> QED
    BY <2>2 DEF Promise!Next
<1>5. CASE call'[c] \in {"due", "awaiting"}
  <2>1. st' = [st EXCEPT ![c] = "open"]
    BY <1>2, <1>5 DEF Status
  <2>2. Promise!Issue(c, "open")
    BY <1>1, <2>1 DEF Promise!Issue
  <2> QED
    BY <2>2 DEF Promise!Next
<1> QED
  BY <1>3, <1>4, <1>5

\* An execution is the promise's Run: the call is open, or abandoned, and has
\* not run; a statement that fails is no step of the promise.
LEMMA ExecRuns ==
  ASSUME QueueInv, WayInv, WorkerExec
  PROVE  Promise!Next \/ UNCHANGED <<[c \in Calls |-> Status(c)], runs>>
<1> USE DEF QueueInv, WayInv
<1> DEFINE st == [d \in Calls |-> Status(d)]
           c == Head(inbox)
<1>1. /\ inbox \in Seq(Calls) /\ inbox # <<>> /\ c \in Calls /\ c = inbox[1]
      /\ c # NoCall /\ UNCHANGED call
  BY CallsAssumption DEF WorkerExec, main, TypeOK, CallsAssumption
<1>2. UNCHANGED st
  BY <1>1 DEF Status
<1>3. CASE UNCHANGED runs
  BY <1>2, <1>3
<1>4. CASE runs' = [runs EXCEPT ![c] = @ + 1]
  <2>1. runs[c] = 0
    BY <1>1 DEF RunsOnTheWay
  <2>2. c \in OnItsWay
    BY <1>1, SetOfSeq DEF OnItsWay
  <2>3. call[c] \in {"posted", "closed"}
    BY <2>2 DEF Whereabouts, PendingIsPosted
  <2>4. st[c] \in {"open", "abandoned"}
    BY <1>1, <2>3 DEF Status
  <2>5. runs' = [runs EXCEPT ![c] = 1]
    BY <1>4, <2>1
  <2>6. Promise!Run(c)
    BY <1>2, <2>1, <2>4, <2>5 DEF Promise!Run
  <2> QED
    BY <1>1, <2>6 DEF Promise!Next
<1> QED
  BY <1>3, <1>4 DEF WorkerExec

\* An answer resolves a call that has run, or rejects it.
LEMMA AnswerSettles ==
  ASSUME QueueInv, WayInv, HandleWorkerMessage
  PROVE  Promise!Next \/ UNCHANGED <<[c \in Calls |-> Status(c)], runs>>
<1> USE DEF QueueInv, WayInv
<1> DEFINE st == [d \in Calls |-> Status(d)]
           answer == Head(outbox)
           c == answer.call
<1>1. /\ outbox \in Seq(Answers) /\ outbox # <<>>
      /\ answer = outbox[1] /\ 1 \in 1..Len(outbox) /\ answer \in Answers
      /\ UNCHANGED runs
  BY DEF HandleWorkerMessage, TypeOK
<1>2. CASE c \notin pending
  <2>1. UNCHANGED call
    BY <1>2 DEF HandleWorkerMessage
  <2> QED
    BY <1>1, <2>1 DEF Status
<1>3. CASE c \in pending
  <2>1. /\ c \in Calls /\ c # NoCall /\ call[c] = "posted"
        /\ call' = [call EXCEPT ![c] =
                      IF answer.ok THEN "resolved" ELSE "failed"]
    BY <1>3, CallsAssumption
       DEF HandleWorkerMessage, Settle, PendingIsPosted, CallsAssumption
  <2>2. /\ st[c] = "open"
        /\ \A d \in Calls : d # c => call'[d] = call[d]
    BY <2>1 DEF Status, TypeOK
  <2>3. CASE answer.ok
    <3>1. call'[c] = "resolved"
      BY <2>1, <2>3 DEF TypeOK
    <3>2. st' = [st EXCEPT ![c] = "resolved"]
      BY <2>2, <3>1 DEF Status
    <3>3. runs[c] = 1
      BY <1>1, <2>1, <2>3 DEF RunsOnTheWay
    <3>4. Promise!Resolve(c)
      BY <1>1, <2>2, <3>2, <3>3 DEF Promise!Resolve
    <3> QED
      BY <2>1, <3>4 DEF Promise!Next
  <2>4. CASE ~answer.ok
    <3>1. call'[c] = "failed"
      BY <2>1, <2>4 DEF TypeOK
    <3>2. st' = [d \in Calls |-> IF d \in {c} THEN "rejected" ELSE st[d]]
      BY <2>2, <3>1 DEF Status
    <3>3. Promise!EndAll({c}, "rejected")
      BY <1>1, <2>2, <3>2 DEF Promise!EndAll
    <3> QED
      BY <2>1, <3>3 DEF Promise!Next
  <2> QED
    BY <2>3, <2>4
<1> QED
  BY <1>2, <1>3

\* A crash rejects the calls that wait, for an answer or for readiness.
LEMMA CrashRejects ==
  ASSUME QueueInv, HandleWorkerCrash
  PROVE  Promise!Next
<1> USE DEF QueueInv
<1> DEFINE st == [d \in Calls |-> Status(d)]
           ended == {d \in Calls : call[d] \in {"posted", "awaiting"}}
<1>1. UNCHANGED runs
  BY DEF HandleWorkerCrash
<1>2. \A d \in ended : st[d] = "open"
  BY DEF Status
<1>3. /\ \A d \in ended : call'[d] \in {"crashed", "notReady"}
      /\ \A d \in Calls \ ended : call'[d] = call[d]
  BY DEF HandleWorkerCrash, RejectAll, PendingIsPosted
<1>4. st' = [d \in Calls |-> IF d \in ended THEN "rejected" ELSE st[d]]
  BY <1>3 DEF Status
<1>5. Promise!EndAll(ended, "rejected")
  BY <1>1, <1>2, <1>4 DEF Promise!EndAll
<1> QED
  BY <1>5 DEF Promise!Next

\* A shutdown abandons the calls that were posted.
LEMMA CloseAbandons ==
  ASSUME QueueInv, Close
  PROVE  Promise!Next
<1> USE DEF QueueInv
<1> DEFINE st == [d \in Calls |-> Status(d)]
<1>1. UNCHANGED runs /\ pending \subseteq Calls
  BY DEF Close, TypeOK
<1>2. \A d \in pending : st[d] = "open"
  BY DEF Status, PendingIsPosted
<1>3. /\ \A d \in pending : call'[d] = "closed"
      /\ \A d \in Calls \ pending : call'[d] = call[d]
  BY DEF Close, PendingIsPosted
<1>4. st' = [d \in Calls |-> IF d \in pending THEN "abandoned" ELSE st[d]]
  BY <1>1, <1>3 DEF Status
<1>5. Promise!EndAll(pending, "abandoned")
  BY <1>1, <1>2, <1>4 DEF Promise!EndAll
<1> QED
  BY <1>1, <1>5 DEF Promise!Next

\* What changes neither the outcome of a call nor the runs is no step of the
\* promise: a call that is due, or posted, stays open.
LEMMA OtherStepsStutter ==
  ASSUME QueueInv,
         \/ \E c \in Calls : Post(c)
         \/ WorkerStarts \/ WorkerAnswers \/ WorkerDies \/ HandleReady
         \/ ThirtySecondsPass \/ ProcessExits \/ UNCHANGED vars
  PROVE  UNCHANGED <<[c \in Calls |-> Status(c)], runs>>
<1> USE DEF QueueInv
<1>1. UNCHANGED runs
  BY DEF Post, WorkerStarts, WorkerAnswers, WorkerDies, HandleReady,
         ThirtySecondsPass, ProcessExits, vars
<1>2. \A d \in Calls :
        \/ call'[d] = call[d]
        \/ call[d] \in {"awaiting", "due"} /\ call'[d] \in {"due", "posted"}
  <2>1. CASE \E c \in Calls : Post(c)
    BY <2>1 DEF Post, TypeOK
  <2>2. CASE HandleReady
    BY <2>2 DEF HandleReady
  <2>3. CASE \/ WorkerStarts \/ WorkerAnswers \/ WorkerDies
             \/ ThirtySecondsPass \/ ProcessExits \/ UNCHANGED vars
    BY <2>3 DEF WorkerStarts, WorkerAnswers, WorkerDies, ThirtySecondsPass,
                ProcessExits, vars, main
  <2> QED
    BY <2>1, <2>2, <2>3
<1>3. \A d \in Calls : Status(d)' = Status(d)
  BY <1>2 DEF Status
<1> QED
  BY <1>1, <1>3

LEMMA NextPromise ==
  QueueInv /\ WayInv /\ [Next]_vars
    => [Promise!Next]_<<[c \in Calls |-> Status(c)], runs>>
<1> SUFFICES ASSUME QueueInv, WayInv, [Next]_vars
             PROVE  \/ Promise!Next
                    \/ UNCHANGED <<[c \in Calls |-> Status(c)], runs>>
  OBVIOUS
<1>1. CASE \E c \in Calls : CallWorker(c)
  BY <1>1, CallIssues
<1>2. CASE WorkerExec
  BY <1>2, ExecRuns
<1>3. CASE HandleWorkerMessage
  BY <1>3, AnswerSettles
<1>4. CASE HandleWorkerCrash
  BY <1>4, CrashRejects
<1>5. CASE Close
  BY <1>5, CloseAbandons
<1>6. CASE \/ \E c \in Calls : Post(c)
           \/ WorkerStarts \/ WorkerAnswers \/ WorkerDies \/ HandleReady
           \/ ThirtySecondsPass \/ ProcessExits \/ UNCHANGED vars
  BY <1>6, OtherStepsStutter
<1> QED
  BY <1>1, <1>2, <1>3, <1>4, <1>5, <1>6 DEF Next

\* The plumbing implements the promise of WorkerCalls: an operation runs at most
\* once, success is reported only after it has run, and after a failure was
\* reported it does not run any more (sqlite.js:770-972 and the worker's loop).
THEOREM CallsAreKept == Spec => CallsKeepPromise
<1>1. Init => Promise!Init
  BY InitPromise
<1>2. QueueInv /\ WayInv /\ [Next]_vars
        => [Promise!Next]_<<[c \in Calls |-> Status(c)], runs>>
  BY NextPromise
<1> QED
  BY <1>1, <1>2, WayInvariant, PTL DEF Spec, CallsKeepPromise, Promise!Spec
=============================================================================
