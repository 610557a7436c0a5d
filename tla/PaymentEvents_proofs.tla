------------------------- MODULE PaymentEvents_proofs -------------------------
(***************************************************************************)
(* Proofs about PaymentEvents, for any bodies, payments, refunds and       *)
(* number of events: what is recorded of money was reported of this very   *)
(* order, payment and amount.                                              *)
(***************************************************************************)
EXTENDS PaymentEvents, SequenceTheorems, TLAPS

Outcomes == {"NONE", "IGNORED", "REJECTED", "RECONCILIATION_REQUIRED", "PROCESSED"}
SnapshotBody(p) ==
  [type |-> SnapshotType(p), order |-> Absent, entity |-> [p EXCEPT !.currency = Upper(@)]]
Told == {p \in Fetched : p # Broken /\ SnapshotType(p) # Absent}
Bodies == Payloads \cup {SnapshotBody(p) : p \in Told}
KeyOf(p) == <<SnapshotType(p), p.id>>
Keys == {Absent} \cup {KeyOf(p) : p \in Told}
Events == [body : Bodies, key : Keys, outcome : Outcomes]
RefundIds == {Absent} \cup {b.entity.id : b \in Bodies} \cup {r.id : r \in Answers}
Rows ==
  [amount : 0..Total, status : {"NONE", "PROCESSING", "PENDING", "PROCESSED", "FAILED"},
   refund : RefundIds, payment : Ids \cup {Absent}]

\* The shape of the state.
OrderTyped ==
  /\ order \in [status : {"PENDING", "PAID", "SHIPPED", "DELIVERED", "CANCELLED", "FAILED"},
                linked : BOOLEAN]
  /\ payment \in [status : {"CREATED", "AUTHORIZED", "CAPTURED"}, id : Ids \cup {Absent}]
  /\ attempt \in [Ids -> {"NONE", "FAILED", "AUTHORIZED", "CAPTURED"}]
IntentTyped == intent \in [Intents -> Rows]
EventTyped == event \in Seq(Events)
Typed == OrderTyped /\ IntentTyped /\ EventTyped

LEMMA TypedIsType == ConstantsAssumption /\ Typed => TypeOK
<1> SUFFICES ASSUME ConstantsAssumption, Typed PROVE TypeOK
  OBVIOUS
<1>1. \A k \in Intents : /\ intent[k].amount \in 0..Total
                         /\ intent[k].status \in
                              {"NONE", "PROCESSING", "PENDING", "PROCESSED", "FAILED"}
  BY DEF Typed, IntentTyped, Rows
<1>2. \A n \in DOMAIN event : event[n] \in Events
  BY DEF Typed, EventTyped
<1>3. \A n \in DOMAIN event : event[n].outcome \in Outcomes
  BY <1>2 DEF Events
<1> QED BY <1>1, <1>3 DEF Typed, OrderTyped, TypeOK, Outcomes

\* A payment that can be read has an id, also in a body made of a fetched one.
LEMMA BodyIds ==
  ASSUME ConstantsAssumption, NEW b \in Bodies, ~IsRefund(b), b.entity # Broken
  PROVE  b.entity.id \in Ids
<1>1. CASE b \in Payloads
  BY <1>1 DEF ConstantsAssumption
<1>2. ASSUME NEW p \in Told, b = SnapshotBody(p) PROVE b.entity.id \in Ids
  <2>1. p \in Payment
    BY DEF ConstantsAssumption, Told
  <2>2. QED BY <1>2, <2>1 DEF SnapshotBody, Payment
<1>3. QED BY <1>1, <1>2 DEF Bodies

-----------------------------------------------------------------------------
(* The events: stored, and closed once.                                    *)

Kept ==
  \A n \in DOMAIN event :
    /\ n \in DOMAIN event'
    /\ event'[n].body = event[n].body /\ event'[n].key = event[n].key
    /\ event[n].outcome # "NONE" => event'[n].outcome = event[n].outcome

LEMMA ClosedEvent ==
  ASSUME EventTyped, NEW n, Open(n), NEW outcome \in Outcomes, Close(n, outcome)
  PROVE  /\ EventTyped' /\ Kept
         /\ DOMAIN event' = DOMAIN event /\ n \in DOMAIN event
         /\ event'[n].outcome = outcome
         /\ \A m \in DOMAIN event \ {n} : event'[m] = event[m]
<1>1. n \in 1..Len(event) /\ event[n] \in Events /\ DOMAIN event = 1..Len(event)
  BY DEF EventTyped, Open
<1>2. PICK e : e = [event[n] EXCEPT !.outcome = outcome]
  OBVIOUS
<1>3. e \in Events /\ e.body = event[n].body /\ e.key = event[n].key /\ e.outcome = outcome
  BY <1>1, <1>2 DEF Events
<1>4. event' = [event EXCEPT ![n] = e]
  BY <1>2 DEF Close
<1>5. EventTyped'
  BY <1>1, <1>3, <1>4 DEF EventTyped
<1>6. /\ DOMAIN event' = DOMAIN event /\ event'[n] = e
      /\ \A m \in DOMAIN event \ {n} : event'[m] = event[m]
  BY <1>1, <1>4
<1>7. Kept
  BY <1>3, <1>6 DEF Kept, Open
<1> QED BY <1>1, <1>3, <1>5, <1>6, <1>7

LEMMA StoredEvent ==
  ASSUME EventTyped, NEW e \in Events, event' = Append(event, e)
  PROVE  /\ EventTyped' /\ Kept
         /\ DOMAIN event' = DOMAIN event \cup {Len(event) + 1}
         /\ event'[Len(event) + 1] = e
         /\ \A m \in DOMAIN event : event'[m] = event[m]
<1>1. Len(event) \in Nat /\ DOMAIN event = 1..Len(event)
  BY DEF EventTyped
<1>2. /\ event' \in Seq(Events) /\ Len(event') = Len(event) + 1
      /\ event'[Len(event) + 1] = e
      /\ \A m \in 1..Len(event) : event'[m] = event[m]
  BY DEF EventTyped
<1>3. DOMAIN event' = DOMAIN event \cup {Len(event) + 1}
  BY <1>1, <1>2
<1>4. Kept
  BY <1>1, <1>2, <1>3 DEF Kept
<1> QED BY <1>1, <1>2, <1>3, <1>4 DEF EventTyped

LEMMA SameEvents == EventTyped /\ UNCHANGED event => EventTyped' /\ Kept
BY DEF EventTyped, Kept

-----------------------------------------------------------------------------
(* The shape of the state is kept.                                         *)

\* The step n of an event: what happens to the event, for every way to close it.
Closes(n) == Open(n) /\ \E outcome \in Outcomes \ {"NONE"} : Close(n, outcome)

LEMMA DecisionIsOutcome ==
  ASSUME NEW b, Decision(b) \notin {"RECORD", "APPLY"} PROVE Decision(b) \in Outcomes \ {"NONE"}
BY DEF Decision, Outcomes

LEMMA RefusalIsOutcome ==
  ASSUME NEW b, RefundRefusal(b) # "" PROVE RefundRefusal(b) \in Outcomes \ {"NONE"}
BY DEF RefundRefusal, Outcomes

LEMMA StepCloses ==
  ASSUME NEW n, \/ FinalizeEvent(n) \/ RecordAttempt(n) \/ ApplyCapture(n)
                \/ RefuseRefund(n) \/ ApplyRefund(n)
  PROVE  Closes(n)
<1>1. CASE FinalizeEvent(n)
  BY <1>1, DecisionIsOutcome DEF FinalizeEvent, Closes
<1>2. CASE RecordAttempt(n)
  BY <1>2 DEF RecordAttempt, Closes, Outcomes
<1>3. CASE ApplyCapture(n)
  BY <1>3 DEF ApplyCapture, Closes, Outcomes
<1>4. CASE RefuseRefund(n)
  BY <1>4, RefusalIsOutcome DEF RefuseRefund, Closes, Outcomes
<1>5. CASE ApplyRefund(n)
  BY <1>5 DEF ApplyRefund, Closes, Outcomes
<1> QED BY <1>1, <1>2, <1>3, <1>4, <1>5

LEMMA ClosesOK ==
  ASSUME EventTyped, NEW n, Closes(n)
  PROVE  /\ EventTyped' /\ Kept
         /\ DOMAIN event' = DOMAIN event /\ n \in DOMAIN event
         /\ event'[n].outcome # "NONE"
         /\ \A m \in DOMAIN event \ {n} : event'[m] = event[m]
<1>1. PICK outcome \in Outcomes \ {"NONE"} : Close(n, outcome)
  BY DEF Closes
<1>2. Open(n)
  BY DEF Closes
<1> QED BY <1>1, <1>2, ClosedEvent

LEMMA EventInBodies ==
  ASSUME EventTyped, NEW n \in DOMAIN event
  PROVE  event[n] \in Events /\ event[n].body \in Bodies
<1>1. event[n] \in Events
  BY DEF EventTyped
<1> QED BY <1>1 DEF Events

\* An event of which a payment is recorded is about a payment that can be read,
\* of this order and for its whole amount.
LEMMA Counted ==
  ASSUME NEW b, Decision(b) \in {"RECORD", "APPLY"}
  PROVE  /\ b.type \in PaymentTypes /\ WellFormed(b) /\ Matches(b.entity)
         /\ Decision(b) = "RECORD" <=> b.type # "payment.captured"
         /\ Decision(b) = "APPLY" => Applicable(b.entity)
BY DEF Decision

LEMMA PaymentTyped ==
  ASSUME ConstantsAssumption, Typed, NEW n, RecordAttempt(n) \/ ApplyCapture(n)
  PROVE  OrderTyped' /\ event[n].body.entity.id \in Ids
<1> DEFINE b == event[n].body
           id == b.entity.id
<1>1. n \in DOMAIN event /\ ~IsRefund(b) /\ Decision(b) \in {"RECORD", "APPLY"}
  BY DEF RecordAttempt, ApplyCapture, Open
<1>2. b \in Bodies
  BY <1>1, EventInBodies DEF Typed
<1>3. b.entity # Broken
  BY <1>1, Counted DEF WellFormed
<1>4. id \in Ids
  BY <1>1, <1>2, <1>3, BodyIds
<1> HIDE DEF b
<1>5. CASE RecordAttempt(n)
  <2> DEFINE s == IF b.type = "payment.authorized" THEN "AUTHORIZED" ELSE "FAILED"
  <2>1. /\ attempt' = [attempt EXCEPT ![id] = Recorded(@, s)]
        /\ payment' = [payment EXCEPT !.status =
                         IF s = "AUTHORIZED" /\ @ = "CREATED" THEN s ELSE @]
        /\ order' = order
    BY <1>5 DEF RecordAttempt, b
  <2>2. s \in {"AUTHORIZED", "FAILED"}
    OBVIOUS
  <2> HIDE DEF s
  <2>3. attempt' \in [Ids -> {"NONE", "FAILED", "AUTHORIZED", "CAPTURED"}]
    BY <1>4, <2>1, <2>2 DEF Typed, OrderTyped, Recorded
  <2>4. payment' \in [status : {"CREATED", "AUTHORIZED", "CAPTURED"}, id : Ids \cup {Absent}]
    BY <2>1 DEF Typed, OrderTyped
  <2> QED BY <1>4, <2>1, <2>3, <2>4 DEF Typed, OrderTyped, b
<1>6. CASE ApplyCapture(n)
  <2>1. /\ attempt' = [attempt EXCEPT ![id] = "CAPTURED"]
        /\ payment' = [status |-> "CAPTURED", id |-> id]
        /\ order' = [order EXCEPT !.status = "PAID"]
    BY <1>6 DEF ApplyCapture, b
  <2> QED BY <1>4, <2>1 DEF Typed, OrderTyped, b
<1> QED BY <1>5, <1>6

\* A refund's row after an outcome was applied to it.
Applied(row, r) == [row EXCEPT !.status = TargetOf(Lower(r.status)), !.refund = r.id]

LEMMA SettledRow ==
  ASSUME IntentTyped, NEW k \in Intents, NEW r, r.id \in RefundIds, Settled(k, r)
  PROVE  /\ IntentTyped'
         /\ intent'[k].status = TargetOf(Lower(r.status)) /\ intent'[k].refund = r.id
         /\ intent'[k].amount = intent[k].amount /\ intent'[k].payment = intent[k].payment
         /\ \A j \in Intents \ {k} : intent'[j] = intent[j]
<1>1. intent[k] \in Rows
  BY DEF IntentTyped
<1>2. intent' = [intent EXCEPT ![k] = Applied(intent[k], r)]
  BY DEF Settled, Applied
<1>3. TargetOf(Lower(r.status)) \in {"PENDING", "PROCESSED", "FAILED"}
  BY DEF TargetOf
<1>4. /\ Applied(intent[k], r) \in Rows
      /\ Applied(intent[k], r).status = TargetOf(Lower(r.status))
      /\ Applied(intent[k], r).refund = r.id
      /\ Applied(intent[k], r).amount = intent[k].amount
      /\ Applied(intent[k], r).payment = intent[k].payment
  BY <1>1, <1>3 DEF Rows, Applied
<1>5. IntentTyped'
  BY <1>2, <1>4 DEF IntentTyped
<1>6. intent'[k] = Applied(intent[k], r) /\ \A j \in Intents \ {k} : intent'[j] = intent[j]
  BY <1>2 DEF IntentTyped
<1> QED BY <1>4, <1>5, <1>6

AskedRow(amount) ==
  [amount |-> amount, status |-> "PROCESSING", refund |-> Absent, payment |-> payment.id]

LEMMA AskKeeps ==
  ASSUME Typed, NEW k \in Intents, NEW amount \in 1..Total, Ask(k, amount)
  PROVE  /\ IntentTyped' /\ intent[k].status = "NONE" /\ intent'[k].status = "PROCESSING"
         /\ \A j \in Intents \ {k} : intent'[j] = intent[j]
<1>1. intent' = [intent EXCEPT ![k] = AskedRow(amount)]
  BY DEF Ask, AskedRow
<1>2. AskedRow(amount) \in Rows /\ AskedRow(amount).status = "PROCESSING"
  BY DEF AskedRow, Rows, RefundIds, Typed, OrderTyped
<1>3. intent[k].status = "NONE"
  BY DEF Ask, NoIntent
<1> QED BY <1>1, <1>2, <1>3 DEF Typed, IntentTyped

\* A fetched payment is stored as the event it would have been told by.
LEMMA SnapshotKeeps ==
  ASSUME ConstantsAssumption, EventTyped, NEW p \in Fetched, Snapshot(p)
  PROVE  /\ p \in Payment /\ Matches(p) /\ SnapshotType(p) # Absent
         /\ EventTyped' /\ Kept
         /\ \E e \in Events :
              /\ e.body = SnapshotBody(p) /\ e.outcome = "NONE"
              /\ DOMAIN event' = DOMAIN event \cup {Len(event) + 1}
              /\ event'[Len(event) + 1] = e
              /\ \A m \in DOMAIN event : event'[m] = event[m]
<1> DEFINE e == [body |-> SnapshotBody(p), key |-> KeyOf(p), outcome |-> "NONE"]
<1>1. p \in Payment /\ Matches(p) /\ SnapshotType(p) # Absent
  BY DEF Snapshot, IsPayment, ConstantsAssumption
<1>2. p \in Told
  BY <1>1 DEF Told, Snapshot, IsPayment
<1>3. e \in Events
  BY <1>2 DEF Events, Keys, Bodies, Outcomes
<1>4. event' = Append(event, e)
  BY DEF Snapshot, SnapshotBody, KeyOf
<1>5. e.body = SnapshotBody(p) /\ e.outcome = "NONE"
  OBVIOUS
<1> HIDE DEF e
<1> QED BY <1>1, <1>3, <1>4, <1>5, StoredEvent

LEMMA DeliverKeeps ==
  ASSUME EventTyped, NEW b \in Payloads, Deliver(b)
  PROVE  /\ EventTyped' /\ Kept
         /\ \E e \in Events :
              /\ e.key = Absent /\ e.outcome = "NONE"
              /\ DOMAIN event' = DOMAIN event \cup {Len(event) + 1}
              /\ event'[Len(event) + 1] = e
              /\ \A m \in DOMAIN event : event'[m] = event[m]
<1> DEFINE e == [body |-> b, key |-> Absent, outcome |-> "NONE"]
<1>1. e \in Events /\ e.key = Absent /\ e.outcome = "NONE"
  BY DEF Events, Keys, Bodies, Outcomes
<1>2. event' = Append(event, e)
  BY DEF Deliver
<1> HIDE DEF e
<1> QED BY <1>1, <1>2, StoredEvent

LEMMA EventsStep == EventTyped /\ ConstantsAssumption /\ [Next]_vars => EventTyped' /\ Kept
<1> SUFFICES ASSUME EventTyped, ConstantsAssumption, [Next]_vars PROVE EventTyped' /\ Kept
  OBVIOUS
<1>1. ASSUME NEW b \in Payloads, Deliver(b) PROVE EventTyped' /\ Kept
  BY <1>1, DeliverKeeps
<1>2. ASSUME NEW p \in Fetched, Snapshot(p) PROVE EventTyped' /\ Kept
  BY <1>2, SnapshotKeeps
<1>3. ASSUME NEW n \in 1..MaxEvents,
             FinalizeEvent(n) \/ RecordAttempt(n) \/ ApplyCapture(n)
             \/ RefuseRefund(n) \/ ApplyRefund(n)
      PROVE  EventTyped' /\ Kept
  BY <1>3, StepCloses, ClosesOK
<1>4. ASSUME NEW k \in Intents, \/ \E amount \in 1..Total : Ask(k, amount)
                                \/ \E r \in Answers : Answered(k, r)
      PROVE  EventTyped' /\ Kept
  BY <1>4, SameEvents DEF Ask, Answered
<1>5. CASE \/ Link \/ UNCHANGED vars
           \/ \E to \in {"CANCELLED", "FAILED", "SHIPPED", "DELIVERED"} : Move(to)
  BY <1>5, SameEvents DEF Link, Move, vars
<1> QED BY <1>1, <1>2, <1>3, <1>4, <1>5 DEF Next

\* The order: what was linked stays linked, what was closed does not open again,
\* and only the capture of a payment makes it paid.
Paid == {"PAID", "SHIPPED", "DELIVERED"}
OrderKeeps ==
  /\ OrderTyped'
  /\ order.linked => order'.linked
  /\ order.status # "PENDING" => order'.status # "PENDING"

LEMMA OtherOrder ==
  ASSUME OrderTyped, UNCHANGED <<payment, attempt>>,
         \/ UNCHANGED order \/ Link
         \/ \E to \in {"CANCELLED", "FAILED", "SHIPPED", "DELIVERED"} : Move(to)
  PROVE  OrderKeeps /\ (order'.status \in Paid => order.status \in Paid)
<1>1. CASE UNCHANGED order
  BY <1>1 DEF OrderTyped, OrderKeeps
<1>2. CASE Link
  BY <1>2 DEF Link, OrderTyped, OrderKeeps
<1>3. ASSUME NEW to \in {"CANCELLED", "FAILED", "SHIPPED", "DELIVERED"}, Move(to)
      PROVE  OrderKeeps /\ (order'.status \in Paid => order.status \in Paid)
  <2>1. order' = [order EXCEPT !.status = to] /\ <<order.status, to>> \in Moves
    BY <1>3 DEF Move
  <2>2. to \in {"SHIPPED", "DELIVERED"} => order.status \in Paid
    BY <2>1 DEF Moves, Paid
  <2>3. order'.status = to /\ order'.linked = order.linked /\ OrderTyped'
    BY <2>1 DEF OrderTyped
  <2> QED BY <2>2, <2>3 DEF OrderKeeps, Paid
<1> QED BY <1>1, <1>2, <1>3

\* The steps that write payments and attempts, and the others.
LEMMA OtherSteps ==
  ASSUME [Next]_vars
  PROVE  \/ \E n \in 1..MaxEvents : RecordAttempt(n) \/ ApplyCapture(n)
         \/ /\ UNCHANGED <<payment, attempt>>
            /\ \/ UNCHANGED order \/ Link
               \/ \E to \in {"CANCELLED", "FAILED", "SHIPPED", "DELIVERED"} : Move(to)
<1> DEFINE Frame == UNCHANGED <<payment, attempt>>
           Moved == \/ UNCHANGED order \/ Link
                    \/ \E to \in {"CANCELLED", "FAILED", "SHIPPED", "DELIVERED"} : Move(to)
           Writes == \E n \in 1..MaxEvents : RecordAttempt(n) \/ ApplyCapture(n)
<1>1. ASSUME NEW n \in 1..MaxEvents, FinalizeEvent(n) \/ RefuseRefund(n) \/ ApplyRefund(n)
      PROVE  Frame /\ Moved
  BY <1>1 DEF FinalizeEvent, RefuseRefund, ApplyRefund
<1>2. ASSUME NEW n \in 1..MaxEvents, RecordAttempt(n) \/ ApplyCapture(n) PROVE Writes
  BY <1>2
<1>3. ASSUME NEW k \in Intents, \/ \E amount \in 1..Total : Ask(k, amount)
                                \/ \E r \in Answers : Answered(k, r)
      PROVE  Frame /\ Moved
  BY <1>3 DEF Ask, Answered
<1>4. ASSUME NEW b \in Payloads, Deliver(b) PROVE Frame /\ Moved
  BY <1>4 DEF Deliver
<1>5. ASSUME NEW p \in Fetched, Snapshot(p) PROVE Frame /\ Moved
  BY <1>5 DEF Snapshot
<1>6. ASSUME Link PROVE Frame /\ Moved
  BY <1>6 DEF Link
<1>7. ASSUME \E to \in {"CANCELLED", "FAILED", "SHIPPED", "DELIVERED"} : Move(to)
      PROVE  Frame /\ Moved
  BY <1>7 DEF Move
<1>8. ASSUME UNCHANGED vars PROVE Frame /\ Moved
  BY <1>8 DEF vars
<1> HIDE DEF Frame, Moved, Writes
<1>9. Writes \/ (Frame /\ Moved)
  BY <1>1, <1>2, <1>3, <1>4, <1>5, <1>6, <1>7, <1>8 DEF Next
<1> QED BY <1>9 DEF Frame, Moved, Writes

LEMMA OrderStep ==
  ASSUME ConstantsAssumption, Typed, [Next]_vars PROVE OrderKeeps
<1>1. ASSUME NEW n, RecordAttempt(n) PROVE OrderKeeps
  BY <1>1, PaymentTyped DEF RecordAttempt, OrderKeeps
<1>2. ASSUME NEW n, ApplyCapture(n) PROVE OrderKeeps
  <2>1. order' = [order EXCEPT !.status = "PAID"]
    BY <1>2 DEF ApplyCapture
  <2> QED BY <1>2, <2>1, PaymentTyped DEF Typed, OrderTyped, OrderKeeps
<1> QED BY <1>1, <1>2, OtherSteps, OtherOrder DEF Typed

LEMMA IntentStep ==
  ASSUME ConstantsAssumption, Typed, [Next]_vars PROVE IntentTyped'
<1>1. ASSUME NEW n \in 1..MaxEvents, ApplyRefund(n) PROVE IntentTyped'
  <2> DEFINE r == event[n].body.entity
  <2>1. event[n].body \in Bodies
    BY <1>1, EventInBodies DEF ApplyRefund, Open, Typed
  <2>2. r.id \in RefundIds
    BY <2>1 DEF RefundIds
  <2>3. UNCHANGED intent \/ \E k \in Intents : Settled(k, r)
    BY <1>1 DEF ApplyRefund, Named
  <2> HIDE DEF r
  <2> QED BY <2>2, <2>3, SettledRow DEF Typed, IntentTyped
<1>2. ASSUME NEW k \in Intents, NEW amount \in 1..Total, Ask(k, amount) PROVE IntentTyped'
  BY <1>2, AskKeeps
<1>3. ASSUME NEW k \in Intents, NEW r \in Answers, Answered(k, r) PROVE IntentTyped'
  <2>1. r.id \in RefundIds
    BY DEF RefundIds
  <2> QED BY <1>3, <2>1, SettledRow DEF Answered, Typed
<1>4. ASSUME NEW n \in 1..MaxEvents, \/ FinalizeEvent(n) \/ RecordAttempt(n)
                                     \/ ApplyCapture(n) \/ RefuseRefund(n)
      PROVE  UNCHANGED intent
  BY <1>4 DEF FinalizeEvent, RecordAttempt, ApplyCapture, RefuseRefund
<1>5. ASSUME NEW b \in Payloads, Deliver(b) PROVE UNCHANGED intent
  BY <1>5 DEF Deliver
<1>6. ASSUME NEW p \in Fetched, Snapshot(p) PROVE UNCHANGED intent
  BY <1>6 DEF Snapshot
<1>7. ASSUME \/ Link \/ UNCHANGED vars
             \/ \E to \in {"CANCELLED", "FAILED", "SHIPPED", "DELIVERED"} : Move(to)
      PROVE  UNCHANGED intent
  BY <1>7 DEF Link, Move, vars
<1>8. UNCHANGED intent => IntentTyped'
  BY DEF Typed, IntentTyped
<1> QED BY <1>1, <1>2, <1>3, <1>4, <1>5, <1>6, <1>7, <1>8 DEF Next

LEMMA TypedInit == ConstantsAssumption /\ Init => Typed
<1> SUFFICES ASSUME ConstantsAssumption, Init PROVE Typed
  OBVIOUS
<1>1. OrderTyped
  BY DEF Init, OrderTyped
<1>2. NoIntent \in Rows
  BY DEF NoIntent, Rows, RefundIds, ConstantsAssumption
<1>3. IntentTyped
  BY <1>2 DEF Init, IntentTyped
<1>4. EventTyped
  BY DEF Init, EventTyped
<1> QED BY <1>1, <1>3, <1>4 DEF Typed

LEMMA TypedStep == ConstantsAssumption /\ Typed /\ [Next]_vars => Typed'
BY EventsStep, IntentStep, OrderStep DEF Typed, OrderKeeps

\* Whatever bodies are delivered, the rows keep their types: a payment's amount
\* and status reach them only after the checks of the parsers.
THEOREM TypeCorrect == ConstantsAssumption => (Spec => []TypeOK)
<1> SUFFICES ASSUME ConstantsAssumption PROVE Spec => []TypeOK
  OBVIOUS
<1>1. Init => Typed
  BY TypedInit
<1>2. Typed /\ [Next]_vars => Typed'
  BY TypedStep
<1>3. Typed => TypeOK
  BY TypedIsType
<1> QED BY <1>1, <1>2, <1>3, PTL DEF Spec

-----------------------------------------------------------------------------
(* What is recorded was reported.                                          *)

LEMMA SaysIsKept ==
  ASSUME Kept, NEW n \in DOMAIN event, NEW type, NEW id, Says(n, type, id)
  PROVE  n \in DOMAIN event' /\ Says(n, type, id)'
<1>1. n \in DOMAIN event' /\ event'[n].body = event[n].body
      /\ event'[n].outcome = event[n].outcome
  BY DEF Kept, Says
<1> QED BY <1>1 DEF Says

\* An event that may be recorded or applied says what is recorded, once it is
\* closed as processed.
LEMMA CountedSays ==
  ASSUME EventTyped, NEW n, Open(n), Close(n, "PROCESSED"),
         Decision(event[n].body) \in {"RECORD", "APPLY"},
         NEW type, type = event[n].body.type, NEW id, id = event[n].body.entity.id
  PROVE  n \in DOMAIN event' /\ type \in PaymentTypes /\ Says(n, type, id)'
<1> DEFINE b == event[n].body
           o == b.order
<1>1. b.type \in PaymentTypes /\ WellFormed(b) /\ Matches(b.entity)
  BY Counted
<1>2. n \in DOMAIN event' /\ event'[n].body = b /\ event'[n].outcome = "PROCESSED"
  <2>1. "PROCESSED" \in Outcomes
    BY DEF Outcomes
  <2>2. Kept /\ n \in DOMAIN event /\ n \in DOMAIN event' /\ event'[n].outcome = "PROCESSED"
    BY <2>1, ClosedEvent
  <2> QED BY <2>2 DEF Kept
<1> HIDE DEF b
<1>3. b.entity.order = "ours" /\ b.entity.amount = Total /\ Ours(b.entity.currency)
  BY <1>1 DEF Matches
<1>4. o # Absent => /\ o # Broken /\ o.id \in {Absent, "ours"} /\ o.amount \in {Absent, Total}
                    /\ o.currency \in {Absent, "INR", "inr"}
  BY <1>1, <1>3 DEF WellFormed, Agrees, Ours, Upper
<1>5. b.type = type /\ b.entity.id = id
  BY DEF b
<1>6. Says(n, type, id)'
  BY <1>2, <1>3, <1>4, <1>5 DEF Says
<1> QED BY <1>1, <1>2, <1>5, <1>6

PaidIsReported ==
  order.status \in Paid => \E n \in DOMAIN event : Says(n, "payment.captured", payment.id)
AttemptsReported ==
  \A i \in Ids : attempt[i] # "NONE" =>
    \E n \in DOMAIN event, type \in PaymentTypes : Says(n, type, i)
\* A captured payment closed its order; it is paid, or went on from there.
Over == payment.status = "CAPTURED" => order.status # "PENDING"

MoneyInv == Typed /\ PaidIsReported /\ AttemptsReported /\ Over

LEMMA MoneyStep == ConstantsAssumption /\ MoneyInv /\ [Next]_vars => MoneyInv'
<1> SUFFICES ASSUME ConstantsAssumption, MoneyInv, [Next]_vars
             PROVE  PaidIsReported' /\ AttemptsReported' /\ Over'
  BY TypedStep DEF MoneyInv
<1>1. Typed /\ Kept /\ OrderKeeps /\ EventTyped
  BY EventsStep, OrderStep DEF MoneyInv, Typed
<1>2. ASSUME NEW n, RecordAttempt(n) PROVE PaidIsReported' /\ AttemptsReported' /\ Over'
  <2>1. PICK id \in Ids : id = event[n].body.entity.id
    BY <1>1, <1>2, PaymentTyped
  <2>2. n \in DOMAIN event' /\ \E type \in PaymentTypes : Says(n, type, id)'
    BY <1>1, <1>2, <2>1, CountedSays DEF RecordAttempt
  <2>3. \A i \in Ids \ {id} : attempt'[i] = attempt[i]
    BY <1>1, <1>2, <2>1 DEF RecordAttempt, Typed, OrderTyped
  <2>4. /\ order' = order /\ payment'.id = payment.id
        /\ payment'.status = "CAPTURED" => payment.status = "CAPTURED"
    BY <1>1, <1>2 DEF RecordAttempt, Typed, OrderTyped
  <2>5. AttemptsReported'
    BY <1>1, <2>1, <2>2, <2>3, SaysIsKept DEF MoneyInv, AttemptsReported
  <2>6. PaidIsReported'
    BY <1>1, <2>4, SaysIsKept DEF MoneyInv, PaidIsReported
  <2> QED BY <2>4, <2>5, <2>6 DEF MoneyInv, Over
<1>3. ASSUME NEW n, ApplyCapture(n) PROVE PaidIsReported' /\ AttemptsReported' /\ Over'
  <2>1. PICK id \in Ids : id = event[n].body.entity.id
    BY <1>1, <1>3, PaymentTyped
  <2>2. Open(n) /\ Close(n, "PROCESSED") /\ Decision(event[n].body) = "APPLY"
    BY <1>3 DEF ApplyCapture
  <2>3. event[n].body.type = "payment.captured"
    BY <2>2, Counted
  <2>4. /\ n \in DOMAIN event' /\ "payment.captured" \in PaymentTypes
        /\ Says(n, "payment.captured", id)'
    BY <1>1, <2>1, <2>2, <2>3, CountedSays
  <2>5. \A i \in Ids \ {id} : attempt'[i] = attempt[i]
    BY <1>1, <1>3, <2>1 DEF ApplyCapture, Typed, OrderTyped
  <2>6. order'.status = "PAID" /\ payment'.id = id
    BY <1>1, <1>3, <2>1 DEF ApplyCapture, Typed, OrderTyped
  <2>7. AttemptsReported'
    BY <1>1, <2>1, <2>4, <2>5, SaysIsKept DEF MoneyInv, AttemptsReported
  <2>8. PaidIsReported'
    BY <2>4, <2>6 DEF PaidIsReported
  <2> QED BY <2>6, <2>7, <2>8 DEF Over
<1>4. ASSUME UNCHANGED <<payment, attempt>>, order'.status \in Paid => order.status \in Paid
      PROVE  PaidIsReported' /\ AttemptsReported' /\ Over'
  <2>1. AttemptsReported'
    BY <1>1, <1>4, SaysIsKept DEF MoneyInv, AttemptsReported
  <2>2. PaidIsReported'
    BY <1>1, <1>4, SaysIsKept DEF MoneyInv, PaidIsReported
  <2> QED BY <1>1, <1>4, <2>1, <2>2 DEF MoneyInv, Over, OrderKeeps
<1> QED BY <1>1, <1>2, <1>3, <1>4, OtherSteps, OtherOrder DEF Typed

\* An order is paid only if a report said, in every field, that the payment its
\* row names, of this order and its whole amount, was captured, and no attempt
\* is recorded of any other payment; whatever was delivered, fetched, or decided
\* while the order was cancelled or shipped (processPaymentEvent).
THEOREM MoneyTheorem == ConstantsAssumption => (Spec => []MoneyIsReported)
<1> SUFFICES ASSUME ConstantsAssumption PROVE Spec => []MoneyIsReported
  OBVIOUS
<1>1. Init => MoneyInv
  BY TypedInit DEF Init, MoneyInv, PaidIsReported, AttemptsReported, Over, Paid
<1>2. MoneyInv /\ [Next]_vars => MoneyInv'
  BY MoneyStep
<1>3. MoneyInv => MoneyIsReported
  BY DEF MoneyInv, PaidIsReported, AttemptsReported, MoneyIsReported, Paid
<1> QED BY <1>1, <1>2, <1>3, PTL DEF Spec

-----------------------------------------------------------------------------
(* How the events of a step come about: as before, new, or closed.          *)

Same(n) == n \in DOMAIN event /\ event'[n] = event[n]
Stored(n) ==
  /\ event'[n].outcome = "NONE"
  /\ \/ event'[n].key = Absent
     \/ \E p \in Fetched : /\ p \in Payment /\ Matches(p) /\ SnapshotType(p) # Absent
                           /\ event'[n].body = SnapshotBody(p)
Finished(n) ==
  /\ n \in DOMAIN event
  /\ event'[n].body = event[n].body /\ event'[n].key = event[n].key
  /\ \/ FinalizeEvent(n) /\ event'[n].outcome = Decision(event[n].body)
     \/ (RecordAttempt(n) \/ ApplyCapture(n)) /\ event'[n].outcome = "PROCESSED"
     \/ RefuseRefund(n) /\ event'[n].outcome # "PROCESSED"
     \/ ApplyRefund(n) /\ event'[n].outcome = "PROCESSED"

LEMMA FinishedEvent ==
  ASSUME EventTyped, NEW n, \/ FinalizeEvent(n) \/ RecordAttempt(n) \/ ApplyCapture(n)
                            \/ RefuseRefund(n) \/ ApplyRefund(n)
  PROVE  /\ DOMAIN event' = DOMAIN event /\ Finished(n)
         /\ \A m \in DOMAIN event' \ {n} : Same(m)
<1> DEFINE Goal == /\ DOMAIN event' = DOMAIN event /\ n \in DOMAIN event
                   /\ event'[n].body = event[n].body /\ event'[n].key = event[n].key
                   /\ \A m \in DOMAIN event' \ {n} : Same(m)
<1>1. ASSUME Open(n), NEW outcome \in Outcomes, Close(n, outcome)
      PROVE  Goal /\ event'[n].outcome = outcome
  BY <1>1, ClosedEvent DEF Kept, Same
<1>2. "PROCESSED" \in Outcomes /\ "RECONCILIATION_REQUIRED" \in Outcomes
  BY DEF Outcomes
<1> HIDE DEF Goal
<1>3. CASE FinalizeEvent(n)
  <2>1. Open(n) /\ Close(n, Decision(event[n].body)) /\ Decision(event[n].body) \in Outcomes
    BY <1>3, DecisionIsOutcome DEF FinalizeEvent
  <2>2. Goal /\ event'[n].outcome = Decision(event[n].body)
    BY <1>1, <2>1
  <2> QED BY <1>3, <2>2 DEF Finished, Goal
<1>4. CASE RecordAttempt(n) \/ ApplyCapture(n) \/ ApplyRefund(n)
  <2>1. Open(n) /\ Close(n, "PROCESSED")
    BY <1>4 DEF RecordAttempt, ApplyCapture, ApplyRefund
  <2>2. Goal /\ event'[n].outcome = "PROCESSED"
    BY <1>1, <1>2, <2>1
  <2> QED BY <1>4, <2>2 DEF Finished, Goal
<1>5. CASE RefuseRefund(n)
  <2>1. Open(n) /\ \E outcome \in Outcomes \ {"PROCESSED"} : Close(n, outcome)
    <3>1. RefundRefusal(event[n].body) # "" =>
            RefundRefusal(event[n].body) \in Outcomes \ {"PROCESSED"}
      BY DEF RefundRefusal, Outcomes
    <3>2. "RECONCILIATION_REQUIRED" \in Outcomes \ {"PROCESSED"}
      BY <1>2
    <3> QED BY <1>5, <3>1, <3>2 DEF RefuseRefund
  <2>2. Goal /\ event'[n].outcome # "PROCESSED"
    BY <1>1, <2>1
  <2> QED BY <1>5, <2>2 DEF Finished, Goal
<1> QED BY <1>3, <1>4, <1>5

LEMMA EventHistory ==
  ASSUME ConstantsAssumption, EventTyped, [Next]_vars, NEW n \in DOMAIN event'
  PROVE  Same(n) \/ Stored(n) \/ (n \in 1..MaxEvents /\ Finished(n))
<1>1. ASSUME NEW b \in Payloads, Deliver(b) PROVE Same(n) \/ Stored(n)
  BY <1>1, DeliverKeeps DEF Same, Stored
<1>2. ASSUME NEW p \in Fetched, Snapshot(p) PROVE Same(n) \/ Stored(n)
  BY <1>2, SnapshotKeeps DEF Same, Stored
<1>3. ASSUME NEW m \in 1..MaxEvents,
             \/ FinalizeEvent(m) \/ RecordAttempt(m) \/ ApplyCapture(m)
             \/ RefuseRefund(m) \/ ApplyRefund(m)
      PROVE  Same(n) \/ (n \in 1..MaxEvents /\ Finished(n))
  BY <1>3, FinishedEvent
<1>4. UNCHANGED event => Same(n)
  BY DEF Same
<1>5. ASSUME NEW k \in Intents, \/ \E amount \in 1..Total : Ask(k, amount)
                                \/ \E r \in Answers : Answered(k, r)
      PROVE  UNCHANGED event
  BY <1>5 DEF Ask, Answered
<1>6. ASSUME \/ Link \/ UNCHANGED vars
             \/ \E to \in {"CANCELLED", "FAILED", "SHIPPED", "DELIVERED"} : Move(to)
      PROVE  UNCHANGED event
  BY <1>6 DEF Link, Move, vars
<1> QED BY <1>1, <1>2, <1>3, <1>4, <1>5, <1>6 DEF Next

-----------------------------------------------------------------------------
(* Fetched payments pass the checks of a webhook.                           *)

Fit(n) ==
  LET b == event[n].body IN
  b.type \in PaymentTypes /\ WellFormed(b) /\ Matches(b.entity)
NotLost(n) ==
  /\ event[n].outcome \notin {"REJECTED", "IGNORED"}
  /\ event[n].outcome = "RECONCILIATION_REQUIRED" => order.status # "PENDING"
SnapshotsFit == \A n \in DOMAIN event : event[n].key # Absent => Fit(n) /\ NotLost(n)
SnapshotInv == MoneyInv /\ SnapshotsFit

\* A fetched payment, in its body, agrees with the type that was made of its
\* status, and still names this order, its amount and its currency.
LEMMA SnapshotFits ==
  ASSUME ConstantsAssumption, NEW p \in Payment, Matches(p), SnapshotType(p) # Absent
  PROVE  LET b == SnapshotBody(p) IN
         b.type \in PaymentTypes /\ WellFormed(b) /\ Matches(b.entity)
<1> DEFINE b == SnapshotBody(p)
<1>1. /\ b.type = SnapshotType(p) /\ b.order = Absent
      /\ b.entity.status = p.status /\ b.entity.order = p.order /\ b.entity.amount = p.amount
      /\ b.entity.currency = Upper(p.currency)
  BY DEF SnapshotBody, Payment
<1>2. b.entity # Broken
  <2>1. Upper(p.currency) \in Currencies
    BY DEF Upper, Payment, Currencies
  <2>2. [p EXCEPT !.currency = Upper(p.currency)] \in Payment
    BY <2>1 DEF Payment
  <2> QED BY <2>2 DEF SnapshotBody, ConstantsAssumption
<1>3. p.status \in {"captured", "authorized", "failed"}
  BY DEF SnapshotType
<1>4. Lower(b.entity.status) = StatusOf(b.type) /\ b.type \in PaymentTypes
  BY <1>1, <1>3 DEF Lower, StatusOf, SnapshotType, PaymentTypes
<1>5. Upper(Upper(p.currency)) = Upper(p.currency)
  BY DEF Upper
<1> HIDE DEF b
<1>6. WellFormed(b)
  BY <1>1, <1>2, <1>4 DEF WellFormed, Agrees
<1>7. Matches(b.entity)
  BY <1>1, <1>5 DEF Matches, Ours
<1> QED BY <1>4, <1>6, <1>7 DEF b

\* Nothing that is closed for a fetched payment is refused for its form, and it
\* is put aside only when the order is closed.
LEMMA FinishedSnapshot ==
  ASSUME MoneyInv, NEW n, Fit(n), Finished(n), OrderKeeps PROVE NotLost(n)'
<1> DEFINE b == event[n].body
<1>1. b.type \in PaymentTypes /\ WellFormed(b) /\ Matches(b.entity)
  BY DEF Fit
<1>2. ~IsRefund(b)
  BY <1>1 DEF IsRefund, PaymentTypes, RefundTypes
<1>3. ~RefuseRefund(n) /\ ~ApplyRefund(n)
  BY <1>2 DEF RefuseRefund, ApplyRefund
<1>4. Decision(b) \notin {"REJECTED", "IGNORED"}
  BY <1>1 DEF Decision
<1>5. Decision(b) = "RECONCILIATION_REQUIRED" => order.status # "PENDING"
  BY <1>1 DEF Decision, Applicable, MoneyInv, Typed, OrderTyped, Over
<1>6. event'[n].outcome \in {"PROCESSED", Decision(b)}
  BY <1>3 DEF Finished
<1> HIDE DEF b
<1> QED BY <1>4, <1>5, <1>6 DEF NotLost, OrderKeeps

LEMMA SnapshotStep == ConstantsAssumption /\ SnapshotInv /\ [Next]_vars => SnapshotInv'
<1> SUFFICES ASSUME ConstantsAssumption, SnapshotInv, [Next]_vars,
                    NEW n \in DOMAIN event', event'[n].key # Absent
             PROVE  Fit(n)' /\ NotLost(n)'
  BY MoneyStep DEF SnapshotInv, SnapshotsFit
<1>1. MoneyInv /\ EventTyped /\ OrderKeeps
  BY OrderStep DEF SnapshotInv, MoneyInv, Typed
<1>2. ASSUME n \in DOMAIN event, event'[n].key = event[n].key,
             event'[n].body = event[n].body
      PROVE  Fit(n) /\ NotLost(n) /\ Fit(n)'
  <2>1. Fit(n) /\ NotLost(n)
    BY <1>2 DEF SnapshotInv, SnapshotsFit
  <2> QED BY <1>1, <1>2, <2>1 DEF Fit, OrderKeeps, Matches
<1>3. CASE Same(n)
  <2>1. Fit(n) /\ NotLost(n) /\ Fit(n)'
    BY <1>2, <1>3 DEF Same
  <2> QED BY <1>1, <1>3, <2>1 DEF Same, NotLost, OrderKeeps
<1>4. CASE Finished(n)
  <2>1. Fit(n) /\ Fit(n)'
    BY <1>2, <1>4 DEF Finished
  <2> QED BY <1>1, <1>4, <2>1, FinishedSnapshot
<1>5. CASE Stored(n)
  <2>1. PICK p \in Payment : /\ Matches(p) /\ SnapshotType(p) # Absent
                             /\ event'[n].body = SnapshotBody(p)
    BY <1>5 DEF Stored
  <2>2. LET b == SnapshotBody(p) IN
        b.type \in PaymentTypes /\ WellFormed(b) /\ Matches(b.entity)
    BY <2>1, SnapshotFits
  <2>3. Fit(n)'
    BY <1>1, <2>1, <2>2 DEF Fit, OrderKeeps, Matches
  <2> QED BY <1>5, <2>3 DEF Stored, NotLost
<1> QED BY <1>1, <1>3, <1>4, <1>5, EventHistory

\* A payment the server fetched itself passes, as an event, every check a
\* webhook has to pass: it is never rejected nor ignored, and it is put aside
\* only for an order that is not open any more
\* (processProviderPaymentSnapshot, parsePayment, processPaymentEvent).
THEOREM SnapshotTheorem == ConstantsAssumption => (Spec => []SnapshotIsTaken)
<1> SUFFICES ASSUME ConstantsAssumption PROVE Spec => []SnapshotIsTaken
  OBVIOUS
<1>1. Init => SnapshotInv
  BY TypedInit DEF Init, SnapshotInv, SnapshotsFit, MoneyInv, PaidIsReported,
                   AttemptsReported, Over, Paid
<1>2. SnapshotInv /\ [Next]_vars => SnapshotInv'
  BY SnapshotStep
<1>3. SnapshotInv => SnapshotIsTaken
  BY DEF SnapshotInv, SnapshotsFit, NotLost, SnapshotIsTaken
<1> QED BY <1>1, <1>2, <1>3, PTL DEF Spec

-----------------------------------------------------------------------------
(* What a processed refund event says stays in the ledger.                  *)

Shows(k, b) ==
  /\ intent[k].refund = b.entity.id /\ b.entity.id # Absent
  /\ intent[k].payment = b.entity.payment /\ intent[k].amount = b.entity.amount
  /\ b.type = "refund.processed" => intent[k].status = "PROCESSED"
  /\ b.type = "refund.failed" => intent[k].status = "FAILED"

EndedNamed == \A k \in Intents : Ended(k) => intent[k].refund # Absent
RefundsShown ==
  \A n \in DOMAIN event :
    event[n].outcome = "PROCESSED" /\ IsRefund(event[n].body) =>
      \E k \in Intents : Shows(k, event[n].body)
RefundInv == Typed /\ EndedNamed /\ RefundsShown

\* A refund that can be read has an id: bodies of fetched payments are no
\* bodies of refunds.
LEMMA RefundBodyIds ==
  ASSUME ConstantsAssumption, NEW b \in Bodies, IsRefund(b), b.entity # Broken
  PROVE  b.entity.id # Absent
<1>1. CASE b \in Payloads
  BY <1>1 DEF ConstantsAssumption
<1>2. ASSUME NEW p \in Told, b = SnapshotBody(p) PROVE FALSE
  <2>1. b.type = SnapshotType(p) /\ SnapshotType(p) # Absent
    BY <1>2 DEF SnapshotBody, Told
  <2>2. SnapshotType(p) \in {"payment.captured", "payment.authorized", "payment.failed"}
    BY <2>1 DEF SnapshotType
  <2> QED BY <2>1, <2>2 DEF IsRefund, RefundTypes
<1>3. QED BY <1>1, <1>2 DEF Bodies

\* How a row of the ledger may change: it is asked for, or told a first outcome
\* of its refund, whose id it takes and keeps.
Asked(k) == intent[k].refund = Absent /\ intent'[k].status = "PROCESSING"
Heard(k) ==
  /\ ~Ended(k)
  /\ intent'[k].refund # Absent /\ intent[k].refund \in {Absent, intent'[k].refund}
  /\ intent'[k].amount = intent[k].amount /\ intent'[k].payment = intent[k].payment

\* A row that shows a refund goes on showing it.
LEMMA ShownIsKept ==
  ASSUME NEW k, NEW b, Shows(k, b), UNCHANGED intent[k] \/ Asked(k) \/ Heard(k)
  PROVE  Shows(k, b)'
<1>1. CASE UNCHANGED intent[k]
  BY <1>1 DEF Shows
<1>2. CASE Asked(k)
  BY <1>2 DEF Shows, Asked
<1>3. CASE Heard(k)
  BY <1>3 DEF Shows, Heard, Ended
<1> QED BY <1>1, <1>2, <1>3

LEMMA ToldRow ==
  ASSUME IntentTyped, NEW k \in Intents, NEW r, r.id \in RefundIds, r.id # Absent,
         ~Ended(k), Fits(k, r), Settled(k, r)
  PROVE  \A j \in Intents : UNCHANGED intent[j] \/ Heard(j)
<1>1. /\ intent'[k].refund = r.id
      /\ intent'[k].amount = intent[k].amount /\ intent'[k].payment = intent[k].payment
      /\ \A j \in Intents \ {k} : intent'[j] = intent[j]
  BY SettledRow
<1> QED BY <1>1 DEF Heard, Fits

\* A step that applies a refund event leaves the ledger showing it.
LEMMA AppliedRefund ==
  ASSUME ConstantsAssumption, Typed, EndedNamed, NEW n, ApplyRefund(n)
  PROVE  /\ \A j \in Intents : UNCHANGED intent[j] \/ Heard(j)
         /\ \A b : b = event[n].body => \E k \in Intents : Shows(k, b)'
<1>1. PICK b \in Bodies : b = event[n].body
  BY EventInBodies DEF ApplyRefund, Open, Typed
<1>2. PICK r : r = b.entity
  OBVIOUS
<1>3. /\ IsRefund(b) /\ b.entity # Broken
      /\ b.type = "refund.processed" => TargetOf(Lower(r.status)) = "PROCESSED"
      /\ b.type = "refund.failed" => TargetOf(Lower(r.status)) = "FAILED"
  <2>1. IsRefund(b) /\ RefundRefusal(b) = ""
    BY <1>1 DEF ApplyRefund
  <2> QED BY <1>2, <2>1 DEF RefundRefusal, TargetOf, RefundStatuses
<1>4. r.id # Absent /\ r.id \in RefundIds
  BY <1>1, <1>2, <1>3, RefundBodyIds DEF RefundIds
<1>5. PICK k \in Intents :
        /\ Fits(k, r)
        /\ \/ Ended(k) /\ intent[k].status = TargetOf(Lower(r.status)) /\ UNCHANGED intent
           \/ ~Ended(k) /\ Settled(k, r)
  BY <1>1, <1>2 DEF ApplyRefund, Named
<1>6. CASE Ended(k) /\ intent[k].status = TargetOf(Lower(r.status)) /\ UNCHANGED intent
  <2>1. intent[k].refund = r.id
    BY <1>5, <1>6 DEF EndedNamed, Fits
  <2>2. Shows(k, b)'
    BY <1>2, <1>3, <1>4, <1>5, <1>6, <2>1 DEF Shows, Fits
  <2> QED BY <1>1, <1>6, <2>2
<1>7. CASE ~Ended(k) /\ Settled(k, r)
  <2>1. /\ intent'[k].status = TargetOf(Lower(r.status)) /\ intent'[k].refund = r.id
        /\ intent'[k].amount = intent[k].amount /\ intent'[k].payment = intent[k].payment
    BY <1>4, <1>7, SettledRow DEF Typed
  <2>2. Shows(k, b)'
    BY <1>2, <1>3, <1>4, <1>5, <2>1 DEF Shows, Fits
  <2>3. \A j \in Intents : UNCHANGED intent[j] \/ Heard(j)
    BY <1>4, <1>5, <1>7, ToldRow DEF Typed
  <2> QED BY <1>1, <2>2, <2>3
<1> QED BY <1>5, <1>6, <1>7

LEMMA RowStep ==
  ASSUME ConstantsAssumption, Typed, EndedNamed, [Next]_vars, NEW j \in Intents
  PROVE  UNCHANGED intent[j] \/ Asked(j) \/ Heard(j)
<1>1. ASSUME NEW n \in 1..MaxEvents, ApplyRefund(n) PROVE UNCHANGED intent[j] \/ Heard(j)
  BY <1>1, AppliedRefund
<1>2. ASSUME NEW k \in Intents, NEW amount \in 1..Total, Ask(k, amount)
      PROVE  UNCHANGED intent[j] \/ Asked(j)
  <2>1. intent[k].refund = Absent
    BY <1>2 DEF Ask, NoIntent
  <2> QED BY <1>2, <2>1, AskKeeps DEF Asked
<1>3. ASSUME NEW k \in Intents, NEW r \in Answers, Answered(k, r)
      PROVE  UNCHANGED intent[j] \/ Heard(j)
  <2>1. r.id \in RefundIds /\ r.id # Absent
    BY <1>3 DEF RefundIds, Answered, ConstantsAssumption
  <2> QED BY <1>3, <2>1, ToldRow DEF Answered, Typed
<1>4. ASSUME NEW n \in 1..MaxEvents, \/ FinalizeEvent(n) \/ RecordAttempt(n)
                                     \/ ApplyCapture(n) \/ RefuseRefund(n)
      PROVE  UNCHANGED intent[j]
  BY <1>4 DEF FinalizeEvent, RecordAttempt, ApplyCapture, RefuseRefund
<1>5. ASSUME NEW b \in Payloads, Deliver(b) PROVE UNCHANGED intent[j]
  BY <1>5 DEF Deliver
<1>6. ASSUME NEW p \in Fetched, Snapshot(p) PROVE UNCHANGED intent[j]
  BY <1>6 DEF Snapshot
<1>7. ASSUME \/ Link \/ UNCHANGED vars
             \/ \E to \in {"CANCELLED", "FAILED", "SHIPPED", "DELIVERED"} : Move(to)
      PROVE  UNCHANGED intent[j]
  BY <1>7 DEF Link, Move, vars
<1> QED BY <1>1, <1>2, <1>3, <1>4, <1>5, <1>6, <1>7 DEF Next

LEMMA RefundStep == ConstantsAssumption /\ RefundInv /\ [Next]_vars => RefundInv'
<1> SUFFICES ASSUME ConstantsAssumption, RefundInv, [Next]_vars
             PROVE  EndedNamed' /\ RefundsShown'
  BY TypedStep DEF RefundInv
<1>1. Typed /\ EndedNamed /\ EventTyped
  BY DEF RefundInv, Typed
<1>2. \A k \in Intents : UNCHANGED intent[k] \/ Asked(k) \/ Heard(k)
  BY <1>1, RowStep
<1>3. EndedNamed'
  BY <1>1, <1>2 DEF EndedNamed, Ended, Asked, Heard
<1>4. ASSUME NEW b, \E k \in Intents : Shows(k, b) PROVE \E k \in Intents : Shows(k, b)'
  BY <1>2, <1>4, ShownIsKept
<1>5. ASSUME NEW n \in DOMAIN event', event'[n].outcome = "PROCESSED", IsRefund(event'[n].body)
      PROVE  \E k \in Intents : Shows(k, event[n].body)'
  <2>1. PICK b : b = event'[n].body
    OBVIOUS
  <2>2. CASE Same(n)
    <3>1. \E k \in Intents : Shows(k, b)
      BY <1>5, <2>1, <2>2 DEF Same, RefundInv, RefundsShown
    <3> QED BY <1>4, <2>1, <3>1
  <2>3. CASE Finished(n)
    <3>1. ApplyRefund(n) /\ b = event[n].body
      BY <1>5, <2>1, <2>3 DEF Finished, FinalizeEvent, RecordAttempt, ApplyCapture
    <3>2. \E k \in Intents : Shows(k, b)'
      BY <1>1, <3>1, AppliedRefund
    <3> QED BY <2>1, <3>2
  <2>4. ~Stored(n)
    BY <1>5 DEF Stored
  <2> QED BY <1>1, <1>5, <2>2, <2>3, <2>4, EventHistory
<1>6. RefundsShown'
  BY <1>5 DEF RefundsShown
<1> QED BY <1>3, <1>6

\* A refund event that was acknowledged as processed is what a row of the ledger
\* says, then and ever after: the same refund, payment, amount and outcome,
\* whichever of webhook, answer and repetition came first
\* (parseRazorpayRefundWebhook, applyProviderRefundOutcome).
THEOREM RefundTheorem == ConstantsAssumption => (Spec => []RefundIsReported)
<1> SUFFICES ASSUME ConstantsAssumption PROVE Spec => []RefundIsReported
  OBVIOUS
<1>1. Init => RefundInv
  BY TypedInit DEF Init, RefundInv, EndedNamed, RefundsShown, Ended, NoIntent
<1>2. RefundInv /\ [Next]_vars => RefundInv'
  BY RefundStep
<1>3. RefundInv => RefundIsReported
  BY DEF RefundInv, RefundsShown, Shows, RefundIsReported
<1> QED BY <1>1, <1>2, <1>3, PTL DEF Spec
=============================================================================
