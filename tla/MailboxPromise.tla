--------------------------- MODULE MailboxPromise ---------------------------
(***************************************************************************)
(* What the Spine promises about directed messages, whatever pushes,       *)
(* acknowledgements, sweeps and faults there are: a message that was       *)
(* answered and is to last stays until it is delivered; what is delivered  *)
(* or gone stays so.  MessageDelivery implements this.                     *)
(***************************************************************************)
CONSTANT Messages

VARIABLES
  status,    \* what the mailbox holds of each message
  lasting,   \* messages that no sweep may remove
  answered   \* messages whose sender was told they are accepted

promise == <<status, lasting, answered>>

Statuses == {"unsent", "pending", "delivered", "gone"}

Init ==
  /\ status = [m \in Messages |-> "unsent"]
  /\ lasting = {} /\ answered = {}

\* The mailbox takes the message, or the message is lost before that.
Store(m) == status[m] = "unsent"

Deliver(m) == status[m] = "pending" /\ status'[m] = "delivered"

Expire(m) == status[m] = "pending" /\ status'[m] = "gone" /\ m \notin lasting

\* Whether a message lasts is decided when it is sent, once and for all.
Decided(m) == status[m] # "unsent" => (m \in lasting' <=> m \in lasting)

\* The sender is told, of a message that is stored or had the right to go.
Answer(m) == status[m] # "unsent" /\ (status[m] = "gone" => m \notin lasting)

\* One event may deliver several messages, or let several expire.
Next ==
  /\ status' \in [Messages -> Statuses]
  /\ lasting' \in SUBSET Messages /\ answered' \in SUBSET Messages
  /\ answered \subseteq answered'
  /\ \A m \in Messages :
       /\ status'[m] = status[m] \/ Store(m) \/ Deliver(m) \/ Expire(m)
       /\ Decided(m)
       /\ m \in answered' \ answered => Answer(m)

Spec == Init /\ [][Next]_promise
=============================================================================
