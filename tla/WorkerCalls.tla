---------------------------- MODULE WorkerCalls ----------------------------
(***************************************************************************)
(* What an asynchronous adapter call promises its caller, whatever queues, *)
(* readiness and crashes there are below (the *Async methods of            *)
(* server/adapter/sqlite.js): the operation runs at most once, a caller    *)
(* told of success can rely on it having run, and once a caller has been   *)
(* told of a failure the operation does not run any more.  Only a shutdown *)
(* abandons a call with the operation possibly still to run.               *)
(***************************************************************************)
EXTENDS Naturals

CONSTANT Calls
VARIABLES
  status,   \* "idle", "open", "resolved", "rejected" or "abandoned"
  runs      \* how often the operation of each call was run

Init ==
  /\ status = [c \in Calls |-> "idle"]
  /\ runs = [c \in Calls |-> 0]

Issue(c, answer) ==
  /\ status[c] = "idle"
  /\ status' = [status EXCEPT ![c] = answer]
  /\ UNCHANGED runs

Run(c) ==
  /\ status[c] \in {"open", "abandoned"} /\ runs[c] = 0
  /\ runs' = [runs EXCEPT ![c] = 1]
  /\ UNCHANGED status

Resolve(c) ==
  /\ status[c] = "open" /\ runs[c] = 1
  /\ status' = [status EXCEPT ![c] = "resolved"]
  /\ UNCHANGED runs

\* A crash of the worker ends every call it held, and a shutdown too.
EndAll(ended, how) ==
  /\ \A c \in ended : status[c] = "open"
  /\ status' = [c \in Calls |-> IF c \in ended THEN how ELSE status[c]]
  /\ UNCHANGED runs

Next ==
  \/ \E c \in Calls : \/ \E answer \in {"open", "rejected"} : Issue(c, answer)
                      \/ Run(c) \/ Resolve(c)
  \/ \E ended \in SUBSET Calls, how \in {"rejected", "abandoned"} :
       EndAll(ended, how)

Spec == Init /\ [][Next]_<<status, runs>>
=============================================================================
