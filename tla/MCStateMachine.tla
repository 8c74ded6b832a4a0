--------------------------- MODULE MCStateMachine ---------------------------
(* Model checking of StateMachine with the two machines of                 *)
(* server/state/definitions.js.                                            *)
EXTENDS StateMachine

JobMachine ==
  [states |-> {"CREATED", "PLANNING", "AWAITING_AUTH", "DISPATCHED",
               "EXECUTING", "SUCCEEDED", "DENIED", "FAILED"},
   transitions |->
     [s \in {"CREATED", "PLANNING", "AWAITING_AUTH", "DISPATCHED",
             "EXECUTING", "SUCCEEDED", "DENIED", "FAILED"} |->
       CASE s = "CREATED"       -> {"PLANNING"}
         [] s = "PLANNING"      -> {"AWAITING_AUTH", "DISPATCHED"}
         [] s = "AWAITING_AUTH" -> {"DISPATCHED", "DENIED"}
         [] s = "DISPATCHED"    -> {"EXECUTING"}
         [] s = "EXECUTING"     -> {"SUCCEEDED", "FAILED"}
         [] OTHER               -> {}],
   initial |-> "CREATED",
   terminal |-> {"SUCCEEDED", "DENIED", "FAILED"}]

OrganMachine ==
  [states |-> {"REGISTERED", "ALIVE", "DEGRADED", "DISCONNECTED"},
   transitions |->
     [REGISTERED   |-> {"ALIVE"},
      ALIVE        |-> {"DEGRADED", "DISCONNECTED"},
      DEGRADED     |-> {"ALIVE", "DISCONNECTED"},
      DISCONNECTED |-> {"ALIVE"}],
   initial |-> "REGISTERED",
   terminal |-> {}]

MCMachine == [job |-> JobMachine, organ |-> OrganMachine]

\* handleOrganDegraded, handleOrganRecovered, executeDisconnectSequence
MCLifecycleSteps ==
  {[from |-> "ALIVE", to |-> "DEGRADED"],
   [from |-> "DEGRADED", to |-> "ALIVE"],
   [from |-> "ALIVE", to |-> "DISCONNECTED"],
   [from |-> "DEGRADED", to |-> "DISCONNECTED"]}

\* definitions.js satisfies the hypothesis of the theorem DeniedJobs.
ASSUME DispatchAssumption ==
  DispatchIsOneWay({"DISPATCHED", "EXECUTING", "SUCCEEDED", "FAILED"})
=============================================================================
