---------------------------- MODULE PaymentEvents -----------------------------
(***************************************************************************)
(* What a report of the payment provider is taken for.  A webhook may say  *)
(* anything its signature covers: another order, another amount, a status  *)
(* that is not its type's, an order that contradicts the payment.  The     *)
(* same checks decide on the payments a poller or the browser's callback   *)
(* fetched, which are written into a body of the same form first.          *)
(*                                                                         *)
(*   parseRazorpayPaymentEvent, validateRazorpayPaymentEvent               *)
(*                          modules/payments/razorpayEvent.policy          *)
(*   parseRazorpayRefundWebhook   modules/refunds/refundWebhook.policy     *)
(*   processPaymentEvent    jobs/paymentEvents.ts                          *)
(*   processProviderPaymentSnapshot                                        *)
(*                          modules/payments/paymentReconciliation.service *)
(*   validateProviderOutcome, applyProviderRefundOutcome                   *)
(*                          modules/refunds/refund.service                 *)
(*   parsePayment, parseRefund    lib/razorpay.ts                          *)
(*                                                                         *)
(* One order and its payment; the processing of an event is one step, since*)
(* CheckoutPayment and RefundLedger have its interleavings.  What makes a  *)
(* part of a body unreadable (no object, an empty id, an amount that is no *)
(* safe integer) is Broken.  The type stored with a webhook is copied from *)
(* its body, so the two always agree.  Calls for a refund that fail, and   *)
(* the end of a fully refunded order, are in RefundLedger.                 *)
(***************************************************************************)
EXTENDS Naturals, Sequences, FiniteSetsExt

CONSTANTS
  Payloads,   \* bodies of webhooks: [type, entity, order]
  Fetched,    \* payments, and
  Answers,    \* refunds, as the provider answers a call
  Ids,        \* provider payments
  Intents,    \* refunds asked for
  Total,      \* amount of the order and of its payment
  MaxEvents,  \* bound on the events stored
  Absent, Broken

VARIABLES
  order,    \* Order: status, whether providerOrderId is set
  payment,  \* Payment: status, providerPaymentId
  attempt,  \* PaymentAttempt status, by provider payment
  intent,   \* RefundIntent rows
  event     \* WebhookEvent rows: body, snapshot key, outcome

vars == <<order, payment, attempt, intent, event>>

PaymentTypes == {"payment.authorized", "payment.captured", "payment.failed"}
RefundTypes == {"refund.created", "refund.processed", "refund.failed"}
IsRefund(b) == b.type \in RefundTypes \cup {"refund.other"}

NoIntent == [amount |-> 0, status |-> "NONE", refund |-> Absent, payment |-> Absent]

Init ==
  /\ order = [status |-> "PENDING", linked |-> FALSE]
  /\ payment = [status |-> "CREATED", id |-> Absent]
  /\ attempt = [i \in Ids |-> "NONE"]
  /\ intent = [k \in Intents |-> NoIntent]
  /\ event = <<>>

\* toUpperCase and toLowerCase, on what differs by case here.
Upper(c) == IF c = "inr" THEN "INR" ELSE c
Lower(s) == IF s = "CAPTURED" THEN "captured" ELSE IF s = "PROCESSED" THEN "processed" ELSE s
Ours(c) == Upper(c) = "INR"

Open(n) == n \in DOMAIN event /\ event[n].outcome = "NONE"
Close(n, outcome) == event' = [event EXCEPT ![n].outcome = outcome]

-----------------------------------------------------------------------------
(* Payments. *)

\* The order a body may carry beside its payment must not contradict it.
Agrees(o, e) ==
  \/ o = Absent
  \/ /\ o # Broken
     /\ o.id \in {Absent, e.order}
     /\ o.amount \in {Absent, e.amount}
     /\ o.currency = Absent \/ Upper(o.currency) = Upper(e.currency)

StatusOf(type) ==
  CASE type = "payment.captured" -> "captured"
    [] type = "payment.authorized" -> "authorized"
    [] OTHER -> "failed"

WellFormed(b) ==
  /\ b.entity # Broken
  /\ Lower(b.entity.status) = StatusOf(b.type)
  /\ Agrees(b.order, b.entity)

\* The order is found by its provider order, set together with its payment row
\* and on prepaid orders only; the amount and currency are those of both.
Matches(e) == order.linked /\ e.order = "ours" /\ e.amount = Total /\ Ours(e.currency)

AlreadyApplied(e) ==
  order.status = "PAID" /\ payment.status = "CAPTURED" /\ payment.id = e.id
Applicable(e) ==
  /\ order.status = "PENDING"
  /\ \/ payment.status \in {"CREATED", "AUTHORIZED"}
     \/ payment.status = "CAPTURED" /\ payment.id = e.id

Decision(b) ==
  IF b.type \notin PaymentTypes THEN "IGNORED"
  ELSE IF ~WellFormed(b) THEN "REJECTED"
  ELSE IF ~Matches(b.entity) THEN "RECONCILIATION_REQUIRED"
  ELSE IF b.type # "payment.captured" THEN "RECORD"
  ELSE IF AlreadyApplied(b.entity) THEN "PROCESSED"
  ELSE IF Applicable(b.entity) THEN "APPLY" ELSE "RECONCILIATION_REQUIRED"

\* finalizeEvent with a decision that changes nothing else.
FinalizeEvent(n) ==
  /\ Open(n) /\ ~IsRefund(event[n].body)
  /\ Decision(event[n].body) \notin {"RECORD", "APPLY"}
  /\ Close(n, Decision(event[n].body))
  /\ UNCHANGED <<order, payment, attempt, intent>>

\* recordPaymentAttempt: a status is never taken back.
Recorded(old, new) ==
  IF old = "CAPTURED" \/ (old = "AUTHORIZED" /\ new = "FAILED") THEN old ELSE new

RecordAttempt(n) ==
  LET b == event[n].body
      status == IF b.type = "payment.authorized" THEN "AUTHORIZED" ELSE "FAILED"
  IN
  /\ Open(n) /\ ~IsRefund(b)
  /\ Decision(b) = "RECORD"
  /\ attempt' = [attempt EXCEPT ![b.entity.id] = Recorded(@, status)]
  /\ payment' = [payment EXCEPT !.status =
       IF status = "AUTHORIZED" /\ @ = "CREATED" THEN status ELSE @]
  /\ Close(n, "PROCESSED")
  /\ UNCHANGED <<order, intent>>

ApplyCapture(n) ==
  LET e == event[n].body.entity IN
  /\ Open(n) /\ ~IsRefund(event[n].body)
  /\ Decision(event[n].body) = "APPLY"
  /\ attempt' = [attempt EXCEPT ![e.id] = "CAPTURED"]
  /\ payment' = [status |-> "CAPTURED", id |-> e.id]
  /\ order' = [order EXCEPT !.status = "PAID"]
  /\ Close(n, "PROCESSED")
  /\ UNCHANGED intent

\* parsePayment: a fetched payment that is not of this order is a contract
\* error of the provider, and none of the payments of that answer is used.
IsPayment(p) == p # Broken /\ Matches(p)

\* The body has the form of a webhook's, with the fields of the fetched payment
\* in place of those it was read from.  There is one row per type and payment.
SnapshotType(p) ==
  CASE p.status = "captured" -> "payment.captured"
    [] p.status = "authorized" -> "payment.authorized"
    [] p.status = "failed" -> "payment.failed"
    [] OTHER -> Absent

Snapshot(p) ==
  LET key == <<SnapshotType(p), p.id>> IN
  /\ Len(event) < MaxEvents
  /\ IsPayment(p)
  /\ SnapshotType(p) # Absent
  /\ \A n \in DOMAIN event : event[n].key # key
  /\ event' = Append(event,
       [body |-> [type |-> SnapshotType(p), order |-> Absent,
                  entity |-> [p EXCEPT !.currency = Upper(@)]],
        key |-> key, outcome |-> "NONE"])
  /\ UNCHANGED <<order, payment, attempt, intent>>

-----------------------------------------------------------------------------
(* Refunds. *)

RefundStatuses == {"pending", "processed", "failed"}
TargetOf(status) ==
  CASE status = "pending" -> "PENDING" [] status = "processed" -> "PROCESSED"
    [] OTHER -> "FAILED"

\* parseRazorpayRefundWebhook: "" when the event goes on to the ledger.
RefundRefusal(b) ==
  LET s == Lower(b.entity.status) IN
  IF b.type \notin RefundTypes THEN "IGNORED"
  ELSE IF b.entity = Broken THEN "REJECTED"
  ELSE IF s \notin RefundStatuses THEN "RECONCILIATION_REQUIRED"
  ELSE IF \/ b.type = "refund.processed" /\ s # "processed"
          \/ b.type = "refund.failed" /\ s # "failed" THEN "REJECTED" ELSE ""

\* The row of the refund, or the one its notes name: whichever is found first.
Named(r) == {k \in Intents : /\ intent[k] # NoIntent
                             /\ intent[k].refund = r.id \/ r.intent = k}

\* validateProviderOutcome.
Fits(k, r) ==
  /\ r.payment = intent[k].payment
  /\ r.amount = intent[k].amount
  /\ Ours(r.currency)
  /\ intent[k].refund \in {Absent, r.id}

Ended(k) == intent[k].status \in {"PROCESSED", "FAILED"}

\* The provider's refund is unique among the rows.
Settled(k, r) ==
  /\ \A j \in Intents \ {k} : intent[j].refund # r.id
  /\ intent' = [intent EXCEPT ![k].status = TargetOf(Lower(r.status)), ![k].refund = r.id]

RefuseRefund(n) ==
  LET b == event[n].body IN
  /\ Open(n) /\ IsRefund(b)
  /\ \/ RefundRefusal(b) # "" /\ Close(n, RefundRefusal(b))
     \/ /\ RefundRefusal(b) = ""
        /\ \/ Named(b.entity) = {}
           \/ \E k \in Named(b.entity) :
                \/ ~Fits(k, b.entity)
                \/ Ended(k) /\ intent[k].status # TargetOf(Lower(b.entity.status))
        /\ Close(n, "RECONCILIATION_REQUIRED")
  /\ UNCHANGED <<order, payment, attempt, intent>>

ApplyRefund(n) ==
  LET b == event[n].body IN
  /\ Open(n) /\ IsRefund(b)
  /\ RefundRefusal(b) = ""
  /\ \E k \in Named(b.entity) :
       /\ Fits(k, b.entity)
       /\ \/ /\ Ended(k) /\ intent[k].status = TargetOf(Lower(b.entity.status))
             /\ UNCHANGED intent
          \/ ~Ended(k) /\ Settled(k, b.entity)
  /\ Close(n, "PROCESSED")
  /\ UNCHANGED <<order, payment, attempt>>

\* acquireRefundIntent: what is not refused for good is held back, and a part
\* is paid back only after delivery.
Held == MapThenSumSet(LAMBDA k : intent[k].amount,
                      {k \in Intents : intent[k].status # "FAILED"})
Ask(k, amount) ==
  /\ \/ order.status = "PAID" /\ amount = Total
     \/ order.status = "DELIVERED"
  /\ payment.status = "CAPTURED"
  /\ intent[k] = NoIntent
  /\ amount + Held <= Total
  /\ intent' = [intent EXCEPT ![k] = [amount |-> amount, status |-> "PROCESSING",
                                      refund |-> Absent, payment |-> payment.id]]
  /\ UNCHANGED <<order, payment, attempt, event>>

\* parseRefund of the answer to the submission, and its application.
Answered(k, r) ==
  /\ intent[k] # NoIntent /\ ~Ended(k)
  /\ r # Broken /\ r.status \in RefundStatuses
  /\ r.payment = intent[k].payment /\ r.amount = intent[k].amount
  /\ Fits(k, r)
  /\ Settled(k, r)
  /\ UNCHANGED <<order, payment, attempt, event>>

-----------------------------------------------------------------------------
\* POST /webhooks/razorpay.  Repeats carry the id of their event and are stored
\* once; the same content under another id is another event.
Deliver(b) ==
  /\ Len(event) < MaxEvents
  /\ event' = Append(event, [body |-> b, key |-> Absent, outcome |-> "NONE"])
  /\ UNCHANGED <<order, payment, attempt, intent>>

\* The order's own life: linked to the provider, cancelled, shipped, delivered.
Link ==
  /\ order' = [order EXCEPT !.linked = TRUE]
  /\ UNCHANGED <<payment, attempt, intent, event>>

Moves == {<<"PENDING", "CANCELLED">>, <<"PENDING", "FAILED">>, <<"PAID", "SHIPPED">>,
          <<"SHIPPED", "DELIVERED">>}
Move(to) ==
  /\ <<order.status, to>> \in Moves
  /\ order' = [order EXCEPT !.status = to]
  /\ UNCHANGED <<payment, attempt, intent, event>>

Next ==
  \/ \E b \in Payloads : Deliver(b)
  \/ \E p \in Fetched : Snapshot(p)
  \/ \E n \in 1..MaxEvents :
       FinalizeEvent(n) \/ RecordAttempt(n) \/ ApplyCapture(n)
       \/ RefuseRefund(n) \/ ApplyRefund(n)
  \/ \E k \in Intents : \/ \E amount \in 1..Total : Ask(k, amount)
                        \/ \E r \in Answers : Answered(k, r)
  \/ Link
  \/ \E to \in {"CANCELLED", "FAILED", "SHIPPED", "DELIVERED"} : Move(to)

Spec == Init /\ [][Next]_vars

\* Payments and refunds have ids where they can be read, and a fetched payment
\* is a record; any currency but ours is "USD".
Currencies == {"INR", "inr", "USD"}
Payment == [id : Ids, order : STRING, amount : Nat, currency : Currencies, status : STRING]
ConstantsAssumption ==
  /\ Total \in Nat
  /\ Broken \notin Payment /\ Fetched \subseteq Payment \cup {Broken}
  /\ \A b \in Payloads : b.entity # Broken =>
       IF IsRefund(b) THEN b.entity.id # Absent ELSE b.entity.id \in Ids
  /\ \A r \in Answers : r # Broken => r.id # Absent

-----------------------------------------------------------------------------
(* Properties. *)

TypeOK ==
  /\ order \in [status : {"PENDING", "PAID", "SHIPPED", "DELIVERED", "CANCELLED", "FAILED"},
                linked : BOOLEAN]
  /\ payment \in [status : {"CREATED", "AUTHORIZED", "CAPTURED"}, id : Ids \cup {Absent}]
  /\ attempt \in [Ids -> {"NONE", "FAILED", "AUTHORIZED", "CAPTURED"}]
  /\ \A k \in Intents :
       /\ intent[k].amount \in 0..Total
       /\ intent[k].status \in {"NONE", "PROCESSING", "PENDING", "PROCESSED", "FAILED"}
  /\ \A n \in DOMAIN event : event[n].outcome \in
       {"NONE", "IGNORED", "REJECTED", "RECONCILIATION_REQUIRED", "PROCESSED"}

\* What the event n says of a payment of this order, for its whole amount.
Says(n, type, id) ==
  LET b == event[n].body IN
  /\ event[n].outcome = "PROCESSED"
  /\ b.type = type
  /\ b.entity.id = id /\ b.entity.order = "ours"
  /\ b.entity.amount = Total /\ Ours(b.entity.currency)
  /\ b.order # Absent => /\ b.order # Broken
                         /\ b.order.id \in {Absent, "ours"}
                         /\ b.order.amount \in {Absent, Total}
                         /\ b.order.currency \in {Absent, "INR", "inr"}

\* An order is paid, by the payment its row names, only if a report said that
\* this payment of this order was captured in full; and no attempt is recorded
\* but of a payment reported for this order (processPaymentEvent).
MoneyIsReported ==
  /\ order.status \in {"PAID", "SHIPPED", "DELIVERED"} =>
       \E n \in DOMAIN event : Says(n, "payment.captured", payment.id)
  /\ \A i \in Ids : attempt[i] # "NONE" =>
       \E n \in DOMAIN event, type \in PaymentTypes : Says(n, type, i)

\* A refund event acknowledged as processed is what a row of the ledger says:
\* the same refund, of the same payment, amount and outcome, whatever came
\* before or after it (applyProviderRefundOutcome).
RefundIsReported ==
  \A n \in DOMAIN event : LET b == event[n].body IN
    event[n].outcome = "PROCESSED" /\ IsRefund(b) =>
      \E k \in Intents :
        /\ intent[k].refund = b.entity.id
        /\ intent[k].payment = b.entity.payment /\ intent[k].amount = b.entity.amount
        /\ b.type = "refund.processed" => intent[k].status = "PROCESSED"
        /\ b.type = "refund.failed" => intent[k].status = "FAILED"

\* A payment that was fetched passes every check a webhook has to pass: it is
\* put aside only if the order is not open any more, and then for its state and
\* not for its form (processProviderPaymentSnapshot, parsePayment).
SnapshotIsTaken ==
  \A n \in DOMAIN event : event[n].key # Absent =>
    /\ event[n].outcome \notin {"REJECTED", "IGNORED"}
    /\ event[n].outcome = "RECONCILIATION_REQUIRED" => order.status # "PENDING"

=============================================================================
