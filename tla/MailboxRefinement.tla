-------------------------- MODULE MailboxRefinement --------------------------
(***************************************************************************)
(* MessageDelivery implements MailboxPromise: each step of the detailed    *)
(* specification maps to a step of the promise, or to a stutter.           *)
(*                                                                         *)
(* A message's status changes with its row only (RowSteps), but for one    *)
(* whose route has not stored it yet: that the row in progress is no row   *)
(* of the table, and that a row has a TTL only if its message may have     *)
(* one, is NumberInv; that the message being answered is stored if it is   *)
(* to last is LastingIsStored, of GivenInv.                                *)
(***************************************************************************)
EXTENDS MessageDeliveryProofs

LEMMA InitMailbox == Init => Promise!Init
<1> SUFFICES ASSUME Init PROVE Promise!Init
  OBVIOUS
<1>1. \A m \in Messages : Status(m) = "unsent"
  BY DEF Init, Status, Row, Messages
<1>2. DOMAIN sent = {} /\ accepted = {}
  BY DEF Init
<1> QED
  BY <1>1, <1>2 DEF Promise!Init

\* The status of a message, read off its row.
LEMMA StatusByRow ==
  ASSUME NumberInv, NEW m \in Messages
  PROVE  /\ Status(m) \in {"unsent", "pending", "delivered", "gone"}
         /\ \A r \in rows : r.id = m =>
              Status(m) = IF r.delivered THEN "delivered" ELSE "pending"
         /\ (\A r \in rows : r.id # m) =>
              Status(m) = IF m >= nextId \/ (task.kind = "route" /\ task.id = m)
                          THEN "unsent" ELSE "gone"
BY DEF NumberInv, RowsAgree, Status, Row

\* A message that is stored or gone does not come into progress again.
LEMMA SentOnce ==
  ASSUME NumberInv, [Next]_vars, NEW m \in Messages, m < nextId,
         ~(task.kind = "route" /\ task.id = m)
  PROVE  m < nextId' /\ ~(task'.kind = "route" /\ task'.id = m)
<1> USE DEF NumberInv
<1>1. m \in Nat /\ nextId \in Nat /\ nextId' \in Nat /\ nextId <= nextId'
  <2>1. TypeOK /\ TypeOK' /\ nextId = Len(sent) + 1
    BY NextTypes DEF TypeInv
  <2>2. nextId <= nextId'
    BY <2>1, SentStays
  <2> QED
    BY <2>1, <2>2 DEF TypeOK, Messages
<1>2. task'.kind = "route" => task'.id = nextId \/ UNCHANGED task
  BY PostingSteps DEF BusyPosting, Persist, PostAudit, PostDepth, PostSignal
<1> QED
  BY <1>1, <1>2

\* What is stored stays, delivered if it was; what may expire may leave.
LEMMA StoredSteps ==
  ASSUME NumberInv, [Next]_vars, NEW old \in rows
  PROVE  \/ \E r \in rows' : r.id = old.id /\ (old.delivered => r.delivered)
         \/ Expirable(old) /\ \A r \in rows' : r.id # old.id
<1> USE DEF NumberInv
<1>1. CASE Persist
  <2>1. old \in rows'
    BY <1>1 DEF Persist, Store
  <2> QED
    BY <2>1
<1>2. CASE ~Persist
  <2>1. \A r \in rows' : r.id = old.id => (old.delivered => r.delivered)
    <3>1. SUFFICES ASSUME NEW r \in rows', r.id = old.id
                   PROVE  old.delivered => r.delivered
      OBVIOUS
    <3>2. PICK before \in rows :
            r.id = before.id /\ (before.delivered => r.delivered)
      BY <1>2, RowSteps
    <3>3. before = old
      BY <3>1, <3>2 DEF RowsAgree
    <3> QED
      BY <3>2, <3>3
  <2>2. Expirable(old) \/ \E r \in rows' : r.id = old.id
    BY <1>2, RowSteps
  <2> QED
    BY <2>1, <2>2
<1> QED
  BY <1>1, <1>2

\* A message that is gone does not come back.
LEMMA GoneSteps ==
  ASSUME NumberInv, [Next]_vars, NEW m \in Messages,
         \A r \in rows : r.id # m, ~(task.kind = "route" /\ task.id = m)
  PROVE  \A r \in rows' : r.id # m
<1>1. CASE Persist
  BY <1>1, RowSteps DEF Persist
<1>2. CASE ~Persist
  BY <1>2, RowSteps
<1> QED
  BY <1>1, <1>2

\* The status of each message goes the way the promise allows.
LEMMA StatusSteps ==
  ASSUME NumberInv, NumberInv', [Next]_vars, NEW m \in Messages
  PROVE  \/ Status(m)' = Status(m)
         \/ Status(m) = "unsent"
         \/ Status(m) = "pending" /\ Status(m)' = "delivered"
         \/ Status(m) = "pending" /\ Status(m)' = "gone" /\ ~Lasting(m)
<1> DEFINE InRoute == task.kind = "route" /\ task.id = m
<1>1. /\ \A r \in rows : r.id = m =>
           Status(m) = IF r.delivered THEN "delivered" ELSE "pending"
      /\ (\A r \in rows : r.id # m) =>
           Status(m) = IF m >= nextId \/ InRoute THEN "unsent" ELSE "gone"
  BY StatusByRow
<1>2. /\ \A r \in rows' : r.id = m =>
           Status(m)' = IF r.delivered THEN "delivered" ELSE "pending"
      /\ (\A r \in rows' : r.id # m) =>
           Status(m)' = IF m >= nextId' \/ InRoute' THEN "unsent" ELSE "gone"
  BY DEF NumberInv, RowsAgree, Status, Row
<1>3. nextId \in Nat /\ nextId' \in Nat /\ m \in Nat
  BY DEF NumberInv, TypeInv, TypeOK, Messages
<1>4. m < nextId /\ ~InRoute => m < nextId' /\ ~InRoute'
  BY SentOnce
<1>5. ASSUME NEW old \in rows, old.id = m
      PROVE  \/ Status(m)' = Status(m)
             \/ Status(m) = "pending" /\ Status(m)' = "delivered"
             \/ Status(m) = "pending" /\ Status(m)' = "gone" /\ ~Lasting(m)
  <2>1. m < nextId /\ ~InRoute /\ (old.ttl => ~Lasting(m))
    BY <1>5 DEF NumberInv, RowsAgree
  <2>2. CASE \E r \in rows' : r.id = m /\ (old.delivered => r.delivered)
    BY <1>1, <1>2, <1>5, <2>2
  <2>3. CASE Expirable(old) /\ \A r \in rows' : r.id # m
    <3>1. Status(m) = "pending"
      BY <1>1, <1>5, <2>3 DEF Expirable
    <3>2. Status(m)' = "gone"
      BY <1>2, <1>3, <1>4, <2>1, <2>3
    <3> QED
      BY <2>1, <2>3, <3>1, <3>2 DEF Expirable
  <2> QED
    BY <1>5, <2>2, <2>3, StoredSteps
<1>6. ASSUME \A r \in rows : r.id # m, m < nextId, ~InRoute
      PROVE  Status(m)' = Status(m)
  <2>1. \A r \in rows' : r.id # m
    BY <1>6, GoneSteps
  <2> QED
    BY <1>1, <1>2, <1>3, <1>4, <1>6, <2>1
<1> QED
  BY <1>1, <1>3, <1>5, <1>6

\* Whether a message lasts is settled when it is sent.
LEMMA LastingSteps ==
  ASSUME NumberInv, [Next]_vars
  PROVE  LET lasting == {m \in DOMAIN sent : Lasting(m)}
         IN  /\ lasting' \subseteq Messages
             /\ \A m \in Messages : m < nextId =>
                  /\ m \in lasting <=> Lasting(m)
                  /\ m \in lasting' <=> m \in lasting
<1> USE DEF NumberInv
<1>1. /\ sent \in Seq(Sent) /\ sent' \in Seq(Sent)
      /\ nextId = Len(sent) + 1 /\ nextId' = Len(sent') + 1
      /\ nextId <= nextId'
  BY SentStays, NextTypes DEF TypeInv, TypeOK, Sent
<1>2. DOMAIN sent = 1..Len(sent) /\ DOMAIN sent' = 1..Len(sent')
  BY <1>1
<1>3. Len(sent) \in Nat /\ Len(sent') \in Nat
  BY <1>1
<1>4. DOMAIN sent' \subseteq Messages
  <2>1. nextId' \in 1..MaxMessages + 1 /\ MaxMessages \in Nat
    BY NextTypes, BoundsAssumption DEF TypeInv, TypeOK
  <2> QED
    BY <1>1, <1>2, <1>3, <2>1 DEF Messages
<1>5. \A m \in Messages : m < nextId =>
        m \in DOMAIN sent /\ m \in DOMAIN sent' /\ sent'[m] = sent[m]
  BY <1>1, <1>2, <1>3, SentStays DEF Messages, TypeInv
<1> QED
  BY <1>4, <1>5 DEF Lasting

\* The message that is answered is stored, or had the right to expire.
LEMMA AnswerSteps ==
  ASSUME GivenInv, [Next]_vars, NEW m \in accepted' \ accepted
  PROVE  /\ m \in Messages /\ m < nextId /\ Status(m) # "unsent"
         /\ Status(m) = "gone" => ~Lasting(m)
<1> USE DEF GivenInv
<1>1. PostRespond /\ m = task.id /\ task.kind = "respond"
  BY Writers DEF PostRespond
<1>2. m \in Messages /\ m < nextId
  BY <1>1, InProgressIsSent DEF BusyPosting
<1>3. m \in Nat /\ nextId \in Nat
  BY <1>2 DEF NumberInv, TypeInv, TypeOK, Messages
<1>4. Status(m) # "unsent"
  BY <1>1, <1>2, <1>3 DEF Status
<1>5. Lasting(m) => \E r \in rows : r.id = m
  BY <1>1 DEF LastingIsStored, Stored
<1>6. (\E r \in rows : r.id = m) => Status(m) # "gone"
  BY DEF Status, Row
<1> QED
  BY <1>2, <1>4, <1>5, <1>6

LEMMA NextMailbox ==
  ASSUME GivenInv, NumberInv', [Next]_vars
  PROVE  Promise!Next
<1> USE DEF GivenInv
<1> DEFINE status == [m \in Messages |-> Status(m)]
           lasting == {m \in DOMAIN sent : Lasting(m)}
<1>1. status' \in [Messages -> Promise!Statuses]
  BY DEF Status, Promise!Statuses
<1>2. lasting' \subseteq Messages
  BY LastingSteps
<1>3. accepted' \subseteq Messages /\ accepted \subseteq accepted'
  BY Writers DEF NumberInv, TypeInv, TypeOK, PostRespond
<1>4. \A m \in Messages : status[m] = Status(m) /\ status'[m] = Status(m)'
  OBVIOUS
<1>5. \A m \in Messages : Status(m) # "unsent" => m < nextId
  <2>1. \A m \in Messages : m \in Nat /\ nextId \in Nat
    BY DEF NumberInv, TypeInv, TypeOK, Messages
  <2> QED
    BY <2>1 DEF Status, NumberInv, RowsAgree, Row
<1>6. ASSUME NEW m \in Messages
      PROVE  \/ status'[m] = status[m]
             \/ Promise!Store(m) \/ Promise!Deliver(m) \/ Promise!Expire(m)
  <2>1. Status(m) = "pending" /\ ~Lasting(m) => m \notin lasting
    OBVIOUS
  <2> QED
    BY <1>4, <2>1, StatusSteps
       DEF Promise!Store, Promise!Deliver, Promise!Expire
<1>7. ASSUME NEW m \in Messages
      PROVE  Promise!Decided(m)
  BY <1>4, <1>5, LastingSteps DEF Promise!Decided
<1>8. ASSUME NEW m \in Messages, m \in accepted' \ accepted
      PROVE  Promise!Answer(m)
  BY <1>4, <1>8, AnswerSteps DEF Promise!Answer
<1> QED
  BY <1>1, <1>2, <1>3, <1>6, <1>7, <1>8 DEF Promise!Next

\* The mailbox keeps the promise of MailboxPromise (db/init.js's table of
\* messages, under routes/messages.js, routes/mailbox.js, ws/handler.js and the
\* worker's sweep): what is delivered or gone stays so, only what has a TTL
\* expires, and no acceptance is answered of a message that is not stored.
THEOREM MailboxIsKept == Spec => MailboxKeepsPromise
<1>1. Init => Promise!Init
  BY InitMailbox
<1>2. GivenInv /\ NumberInv' /\ [Next]_vars
        => [Promise!Next]_<<[m \in Messages |-> Status(m)],
                            {m \in DOMAIN sent : Lasting(m)}, accepted>>
  BY NextMailbox
<1> QED
  BY <1>1, <1>2, GivenInvariant, NumberInvariant, PTL
     DEF Spec, MailboxKeepsPromise, Promise!Spec, Promise!promise
=============================================================================
