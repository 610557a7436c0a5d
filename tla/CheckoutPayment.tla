--------------------------- MODULE CheckoutPayment ---------------------------
(***************************************************************************)
(* The prepaid checkout of the backend, from the reservation of stock to a *)
(* paid, shipped, cancelled or failed order.  Handlers and jobs (Workers)  *)
(* run concurrently over one PostgreSQL database and the payment provider. *)
(* One action is one database transaction, one database read or one call   *)
(* of the provider; between two of them any other worker may run and the   *)
(* process may crash.                                                      *)
(*                                                                         *)
(*   createFreshCheckoutSession, finalizePrepaidCheckout, cancelCheckout,  *)
(*   verifyCheckoutPayment     modules/checkout/checkout.service.ts        *)
(*   expireCheckoutReservation modules/checkout/checkoutExpiry.service.ts  *)
(*   reconcilePendingPayment   modules/payments/paymentReconciliation...   *)
(*   processPaymentEvent       jobs/paymentEvents.ts                       *)
(*   transition                modules/orders/stateMachine.ts              *)
(*                                                                         *)
(* Each order is made by one execution of the checkout (retries with the   *)
(* same key are another module's subject), so the provider order created   *)
(* for an order is identified with the order itself.                       *)
(***************************************************************************)
EXTENDS OrderTransitions, Naturals, Sequences, FiniteSets

CONSTANTS
  Orders,        \* order ids
  Variants,      \* product variants (SKUs)
  Workers,       \* request handlers and job workers
  Demand,        \* Demand[o][v]: units of v order o asks for
  InitStock,     \* InitStock[v]: units of v in stock at the start
  CouponOrders,  \* the orders whose request carries the promotional coupon
  MaxUses,       \* Coupon.maxUses
  MaxPayments,   \* payments a customer may open per provider order
  HeaderIds,     \* TRUE: webhooks carry x-razorpay-event-id
  Operations,    \* the operations workers may start
  MaxCrashes     \* bound on process crashes

ASSUME ConstantsAssumption ==
  /\ Demand \in [Orders -> [Variants -> Nat]]
  /\ InitStock \in [Variants -> Nat]
  /\ CouponOrders \subseteq Orders
  /\ MaxUses \in Nat
  /\ MaxPayments \in Nat
  /\ HeaderIds \in BOOLEAN
  /\ MaxCrashes \in Nat

Payments == Orders \X (1..MaxPayments)
OrderOf(p) == p[1]
PaymentsOf(o) == {p \in Payments : OrderOf(p) = o}

\* Ids of stored events: webhooks use the header's id when there is one,
\* snapshots always use eventType + ":" + payment.id.
Kinds == {"authorized", "captured", "failed"}
EventIds == Kinds \X Payments \X {"header", "composite"}
KindOf(e) == e[1]
PaymentOf(e) == e[2]
Event(k, p, src) == <<k, p, src>>

Reconcilers == {"cancel", "expire", "poll"}

VARIABLES
  status,     \* Order.status, NoOrder when the row does not exist
  history,    \* OrderStatusHistory rows <<fromStatus, toStatus>> per order
  stock,      \* ProductVariant.stock
  used,       \* Coupon.usedCount
  due,        \* reservationExpiresAt has passed
  expired,    \* reservationExpiredAt is set
  linked,     \* Order.providerOrderId is set
  payment,    \* Payment.status, NONE when the row does not exist
  paidBy,     \* Payment.providerPaymentId
  attempt,    \* PaymentAttempt.status per provider payment
  event,      \* WebhookEvent: NONE, UNPROCESSED or its outcome
  notices,    \* AdminNotification rows of type ORDER_PAID
  provider,   \* the provider's status of each payment
  worker,     \* local state of each worker
  crashes

dbVars == <<status, history, stock, used, due, expired, linked, payment,
            paidBy, attempt, event, notices>>
vars == <<dbVars, provider, worker, crashes>>

PaymentStatuses ==
  {"NONE", "CREATED", "AUTHORIZED", "CAPTURED", "FAILED", "REFUNDED"}
EventStates == {"NONE", "UNPROCESSED", "PROCESSED", "RECONCILIATION_REQUIRED"}
ProviderStatuses ==
  {"none", "created", "stale", "authorized", "captured", "failed", "refunded"}

-----------------------------------------------------------------------------
(* Local state of a worker.  op: the operation it runs; at: where it is;   *)
(* o: its order; e: the stored event in hand; to, before, hadPayment: the  *)
(* arguments and the first read of transition(); todo: provider payments   *)
(* of a snapshot still to be replayed; open: the snapshot held a payment   *)
(* in flight; result: outcome decided for e.                               *)

None == <<>>
NoOp == "idle"
Idle == [op |-> NoOp, at |-> NoOp, o |-> None, e |-> None, to |-> NoOrder,
         before |-> NoOrder, hadPayment |-> FALSE, todo |-> {},
         open |-> FALSE, result |-> "NONE"]

WorkerStates ==
  [op : {NoOp, "checkout", "cancel", "orderCancel", "expire", "poll", "verify",
         "worker", "ship", "deliver", "refund"},
   at : {NoOp, "create", "link", "read", "commit", "reconcile", "fetch", "next",
         "load", "decide", "finalize", "record"},
   o : Orders \cup {None}, e : EventIds \cup {None},
   to : OrderStatuses \cup {NoOrder}, before : OrderStatuses \cup {NoOrder},
   hadPayment : BOOLEAN, todo : SUBSET (Kinds \X Payments), open : BOOLEAN,
   result : EventStates]

Begin(op, at, o) == [Idle EXCEPT !.op = op, !.at = at, !.o = o]
Transit(t, to) == [t EXCEPT !.at = "read", !.to = to]
Set(w, t) == worker' = [worker EXCEPT ![w] = t]
At(w, place) == worker[w].at = place

Init ==
  /\ status = [o \in Orders |-> NoOrder]
  /\ history = [o \in Orders |-> <<>>]
  /\ stock = InitStock
  /\ used = 0
  /\ due = [o \in Orders |-> FALSE]
  /\ expired = [o \in Orders |-> FALSE]
  /\ linked = [o \in Orders |-> FALSE]
  /\ payment = [o \in Orders |-> "NONE"]
  /\ paidBy = [o \in Orders |-> None]
  /\ attempt = [p \in Payments |-> "NONE"]
  /\ event = [e \in EventIds |-> "NONE"]
  /\ notices = [o \in Orders |-> 0]
  /\ provider = [p \in Payments |-> "none"]
  /\ worker = [w \in Workers |-> Idle]
  /\ crashes = 0

CanStart(w, op) == op \in Operations /\ At(w, NoOp)

-----------------------------------------------------------------------------
(* Checkout: reserve everything in one transaction, then create the        *)
(* provider order, then persist the linkage.                               *)

\* The transaction rolls back as a whole when one variant or the coupon runs
\* out, so an order that cannot be reserved leaves no trace and no step here.
Reserve(w, o) ==
  /\ CanStart(w, "checkout")
  /\ status[o] = NoOrder
  /\ \A v \in Variants : stock[v] >= Demand[o][v]
  /\ o \in CouponOrders => used < MaxUses
  /\ stock' = [v \in Variants |-> stock[v] - Demand[o][v]]
  /\ used' = IF o \in CouponOrders THEN used + 1 ELSE used
  /\ status' = [status EXCEPT ![o] = "PENDING"]
  /\ history' = [history EXCEPT ![o] = Append(@, <<NoOrder, "PENDING">>)]
  /\ Set(w, Begin("checkout", "create", o))
  /\ UNCHANGED <<due, expired, linked, payment, paidBy, attempt, event,
                 notices, provider, crashes>>

\* createRazorpayOrder: on an error the order is to be moved to FAILED.
CreateProviderOrder(w) ==
  /\ At(w, "create")
  /\ \/ Set(w, [worker[w] EXCEPT !.at = "link"])
     \/ Set(w, Transit(worker[w], "FAILED"))
  /\ UNCHANGED <<dbVars, provider, crashes>>

\* Linkage, Payment row (upsert) and attempt commit together; the status of
\* the order is not looked at.
LinkProviderOrder(w) ==
  LET o == worker[w].o IN
  /\ At(w, "link")
  /\ linked' = [linked EXCEPT ![o] = TRUE]
  /\ payment' = [payment EXCEPT ![o] = IF @ = "NONE" THEN "CREATED" ELSE @]
  /\ Set(w, Idle)
  /\ UNCHANGED <<status, history, stock, used, due, expired, paidBy, attempt,
                 event, notices, provider, crashes>>

-----------------------------------------------------------------------------
(* The customer and the provider (external).  A customer can pay from the  *)
(* moment the checkout response carries the provider order.  "stale" is a  *)
(* created payment older than PAYMENT_CREATED_GRACE_SECONDS.  An authorized *)
(* payment is captured, or the provider gives the money back.  At most one *)
(* payment of a provider order is captured.                                *)

ProviderNext(s) ==
  CASE s = "none"       -> {"created"}
    [] s = "created"    -> {"authorized", "failed", "stale"}
    [] s = "stale"      -> {"authorized", "failed"}
    [] s = "authorized" -> {"captured", "refunded"}
    [] OTHER            -> {}

ProviderStep(p, s) ==
  /\ linked[OrderOf(p)]
  /\ s \in ProviderNext(provider[p])
  /\ s \in {"created", "authorized"} =>
       \A q \in PaymentsOf(OrderOf(p)) \ {p} :
         provider[q] \notin {"authorized", "captured"}
  /\ provider' = [provider EXCEPT ![p] = s]
  /\ UNCHANGED <<dbVars, worker, crashes>>

\* POST /webhooks/razorpay: createMany with skipDuplicates.  Deliveries may be
\* late, reordered and repeated; a repeat changes nothing.
Occurred(k, p) ==
  \/ provider[p] = k
  \/ k = "authorized" /\ provider[p] = "captured"

WebhookDelivery(k, p) ==
  LET e == Event(k, p, IF HeaderIds THEN "header" ELSE "composite") IN
  /\ Occurred(k, p)
  /\ event[e] = "NONE"
  /\ event' = [event EXCEPT ![e] = "UNPROCESSED"]
  /\ UNCHANGED <<status, history, stock, used, due, expired, linked, payment,
                 paidBy, attempt, notices, provider, worker, crashes>>

\* The clock passes reservationExpiresAt.
ReservationLapses(o) ==
  /\ status[o] = "PENDING"
  /\ ~due[o]
  /\ due' = [due EXCEPT ![o] = TRUE]
  /\ UNCHANGED <<status, history, stock, used, expired, linked, payment,
                 paidBy, attempt, event, notices, provider, worker, crashes>>

-----------------------------------------------------------------------------
(* Operations that close or advance an order.                              *)

\* cancelCheckout: only a linked order is reconciled before it is cancelled.
StartCancel(w, o) ==
  /\ CanStart(w, "cancel")
  /\ status[o] = "PENDING"
  /\ Set(w, IF linked[o] THEN Begin("cancel", "reconcile", o)
                         ELSE Transit(Begin("cancel", "read", o), "CANCELLED"))
  /\ UNCHANGED <<dbVars, provider, crashes>>

\* POST /orders/:id/cancel and the admin routes call transition() directly.
\* The refund ledger asks for REFUNDED; its own module says when.
DirectTargets ==
  [orderCancel |-> "CANCELLED", ship |-> "SHIPPED", deliver |-> "DELIVERED",
   refund |-> "REFUNDED"]

StartDirect(w, o, op) ==
  /\ CanStart(w, op)
  /\ op = "orderCancel" => status[o] = "PENDING"
  /\ op = "refund" => status[o] \in {"PAID", "DELIVERED"}
  /\ status[o] # NoOrder
  /\ Set(w, Transit(Begin(op, "read", o), DirectTargets[op]))
  /\ UNCHANGED <<dbVars, provider, crashes>>

\* expireCheckoutReservation and processPendingPaymentReconciliations.
StartExpire(w, o) ==
  /\ CanStart(w, "expire")
  /\ status[o] = "PENDING" /\ due[o] /\ ~expired[o]
  /\ Set(w, Begin("expire", "reconcile", o))
  /\ UNCHANGED <<dbVars, provider, crashes>>

StartPoll(w, o) ==
  /\ CanStart(w, "poll")
  /\ status[o] = "PENDING" /\ linked[o]
  /\ Set(w, Begin("poll", "reconcile", o))
  /\ UNCHANGED <<dbVars, provider, crashes>>

\* What the caller of reconcilePendingPayment does with UNPAID.
AfterUnpaid(t) ==
  IF t.op \in {"cancel", "expire"} THEN Transit(t, "CANCELLED") ELSE Idle

\* reconcilePendingPayment reads the order: TERMINAL, UNPAID or go on.
ReconcileRead(w) ==
  LET t == worker[w] IN
  /\ At(w, "reconcile")
  /\ Set(w, IF status[t.o] # "PENDING" THEN Idle
            ELSE IF ~linked[t.o] THEN AfterUnpaid(t)
            ELSE [t EXCEPT !.at = "fetch"])
  /\ UNCHANGED <<dbVars, provider, crashes>>

\* fetchRazorpayOrderPayments answers with a snapshot, or fails and the
\* operation ends with the order left as it is.  A payment in flight (ACTIVE),
\* a refunded one, or a captured one that left the order PENDING (both throw)
\* keep the caller from closing the order: open.  A created payment counts as
\* in flight only until its grace period ends.
KeepsOpenNoGrace(s) ==
  s \in {"created", "stale", "authorized", "captured", "refunded"}
KeepsOpen(s) == s \in {"created", "authorized", "captured", "refunded"}

HasEventAny(s) == s # "none"
HasEvent(s) == s \in Kinds

FetchAnswered(w) ==
  LET t == worker[w]
      mine == PaymentsOf(t.o)
  IN /\ At(w, "fetch")
     /\ Set(w, [t EXCEPT !.at = "next",
                  !.todo = {<<provider[p], p>> : p \in
                             {q \in mine : HasEvent(provider[q])}},
                  !.open = \E p \in mine : KeepsOpen(provider[p])])
     /\ UNCHANGED <<dbVars, provider, crashes>>

FetchFailed(w) ==
  /\ At(w, "fetch")
  /\ Set(w, Idle)
  /\ UNCHANGED <<dbVars, provider, crashes>>

\* verifyCheckoutPayment: the customer's browser names a payment it completed.
StartVerify(w, p) ==
  /\ CanStart(w, "verify")
  /\ linked[OrderOf(p)]
  /\ provider[p] \in {"authorized", "captured"}
  /\ Set(w, [Begin("verify", "next", OrderOf(p)) EXCEPT
               !.todo = {<<provider[p], p>>}])
  /\ UNCHANGED <<dbVars, provider, crashes>>

\* Captured payments are replayed first, then authorized, then failed ones.
Priority == [captured |-> 0, authorized |-> 1, failed |-> 2]

\* processProviderPaymentSnapshot: store the event under its composite id
\* unless it is there already, then process it.
ReplaySnapshot(w, s) ==
  LET t == worker[w]
      e == Event(s[1], s[2], "composite")
  IN /\ At(w, "next")
     /\ s \in t.todo
     /\ \A r \in t.todo : Priority[s[1]] <= Priority[r[1]]
     /\ event' = [event EXCEPT ![e] = IF @ = "NONE" THEN "UNPROCESSED" ELSE @]
     /\ Set(w, [t EXCEPT !.at = "load", !.e = e, !.todo = @ \ {s}])
     /\ UNCHANGED <<status, history, stock, used, due, expired, linked,
                    payment, paidBy, attempt, notices, provider, crashes>>

\* All payments replayed: read the order again and report.  An order that is
\* still PENDING with nothing in flight is UNPAID.
ReconcileDone(w) ==
  LET t == worker[w] IN
  /\ At(w, "next")
  /\ t.todo = {}
  /\ Set(w, IF status[t.o] = "PENDING" /\ ~t.open THEN AfterUnpaid(t) ELSE Idle)
  /\ UNCHANGED <<dbVars, provider, crashes>>

-----------------------------------------------------------------------------
(* processPaymentEvent, run by the queue's workers on a stored event and   *)
(* inline by verify and reconcile.  Amounts and currencies always match    *)
(* here; the mismatches only lead to RECONCILIATION_REQUIRED.              *)

StartWorker(w, e) ==
  /\ CanStart(w, "worker")
  /\ event[e] = "UNPROCESSED"
  /\ Set(w, [Begin("worker", "load", OrderOf(PaymentOf(e))) EXCEPT !.e = e])
  /\ UNCHANGED <<dbVars, provider, crashes>>

\* The caller goes on with the outcome of its event: reconcilePendingPayment
\* throws unless it was PROCESSED, the others are done.
AfterEvent(t, outcome) ==
  IF t.op \in Reconcilers /\ outcome = "PROCESSED"
    THEN [t EXCEPT !.at = "next", !.e = None, !.result = "NONE",
                   !.to = NoOrder, !.before = NoOrder, !.hadPayment = FALSE]
    ELSE Idle

\* The stored row is read: a processed event answers with its outcome.
LoadEvent(w) ==
  LET t == worker[w] IN
  /\ At(w, "load")
  /\ Set(w, IF event[t.e] = "UNPROCESSED"
              THEN [t EXCEPT !.at = "decide"]
              ELSE AfterEvent(t, event[t.e]))
  /\ UNCHANGED <<dbVars, provider, crashes>>

IsCaptureLoose(e) == KindOf(e) \in {"captured", "authorized"}
IsCapture(e) == KindOf(e) = "captured"

CaptureDecisionLoose(o, p) ==
  IF status[o] = "PENDING" THEN "APPLY" ELSE "PROCESSED"

\* validateRazorpayPaymentEvent on a captured payment p of order o.
CaptureDecision(o, p) ==
  IF payment[o] = "CAPTURED" /\ paidBy[o] # None /\ paidBy[o] # p
    THEN "RECONCILIATION_REQUIRED"
  ELSE IF status[o] = "PAID"
    THEN IF payment[o] = "CAPTURED" THEN "PROCESSED"
                                    ELSE "RECONCILIATION_REQUIRED"
  ELSE IF status[o] # "PENDING" \/ payment[o] \notin
            {"CREATED", "AUTHORIZED", "CAPTURED"}
    THEN "RECONCILIATION_REQUIRED"
  ELSE "APPLY"

\* The order and its payment are read, and decided upon.
DecideEvent(w) ==
  LET t == worker[w]
      d == CaptureDecision(t.o, PaymentOf(t.e))
  IN /\ At(w, "decide")
     /\ Set(w, IF ~IsCapture(t.e) THEN [t EXCEPT !.at = "record"]
               ELSE IF d = "APPLY" THEN Transit(t, "PAID")
               ELSE [t EXCEPT !.at = "finalize", !.result = d])
     /\ UNCHANGED <<dbVars, provider, crashes>>

\* finalizeEvent overwrites the outcome whatever the row holds by now.
FinalizeEvent(w) ==
  LET t == worker[w] IN
  /\ At(w, "finalize")
  /\ event' = [event EXCEPT ![t.e] = t.result]
  /\ Set(w, AfterEvent(t, t.result))
  /\ UNCHANGED <<status, history, stock, used, due, expired, linked, payment,
                 paidBy, attempt, notices, provider, crashes>>

AttemptRank == [NONE |-> 0, FAILED |-> 1, AUTHORIZED |-> 2, CAPTURED |-> 3]

RecordedAttemptLatest(p, new) == [attempt EXCEPT ![p] = new]

\* recordPaymentAttempt: an attempt's status never goes down.
RecordedAttempt(p, new) ==
  [attempt EXCEPT ![p] = IF AttemptRank[@] > AttemptRank[new] THEN @ ELSE new]

\* The transaction that records an authorized or failed payment; it rolls back
\* when the event was processed in the meantime.
RecordAttempt(w) ==
  LET t == worker[w]
      authorized == KindOf(t.e) = "authorized"
  IN /\ At(w, "record")
     /\ event[t.e] = "UNPROCESSED"
     /\ attempt' = RecordedAttempt(PaymentOf(t.e),
                     IF authorized THEN "AUTHORIZED" ELSE "FAILED")
     /\ payment' = [payment EXCEPT ![t.o] =
                     IF authorized /\ @ = "CREATED" THEN "AUTHORIZED" ELSE @]
     /\ event' = [event EXCEPT ![t.e] = "PROCESSED"]
     /\ Set(w, AfterEvent(t, "PROCESSED"))
     /\ UNCHANGED <<status, history, stock, used, due, expired, linked, paidBy,
                    notices, provider, crashes>>

RecordAttemptRefused(w) ==
  /\ At(w, "record")
  /\ event[worker[w].e] # "UNPROCESSED"
  /\ Set(w, Idle)
  /\ UNCHANGED <<dbVars, provider, crashes>>

-----------------------------------------------------------------------------
(* transition(): a first read outside any transaction, then a transaction  *)
(* that locks the order row, compares it with the first read, runs the     *)
(* caller's transactionWork and applies the move with its side effects.    *)

Expires(t) == t.op = "expire" /\ t.to = "CANCELLED"
HasWork(t) == t.to = "PAID" \/ Expires(t) \/ t.op \in {"deliver", "refund"}

TransitionRead(w) ==
  LET t == worker[w]
      before == status[t.o]
      proceed == /\ before # NoOrder
                 /\ IF before = t.to THEN HasWork(t)
                                     ELSE CanTransition(before, t.to)
  IN /\ At(w, "read")
     /\ Set(w, IF proceed
                 THEN [t EXCEPT !.at = "commit", !.before = before,
                                !.hadPayment = (payment[t.o] # "NONE")]
                 ELSE Idle)
     /\ UNCHANGED <<dbVars, provider, crashes>>

LockedStatusIgnored(t) == status[t.o] # NoOrder

\* SELECT ... FOR UPDATE, and the locked status against the first read.
LockedStatusOk(t) == status[t.o] \in {t.before, t.to}

\* The caller's transactionWork finds its row as it needs it.
WorkApplies(t) ==
  /\ t.to = "PAID" => event[t.e] = "UNPROCESSED"
  /\ Expires(t) => status[t.o] = "PENDING" /\ due[t.o] /\ ~expired[t.o]

\* What transactionWork writes: the capture's attempt and audit outcome, or
\* the mark of an expired reservation.
DoWork(t) ==
  /\ attempt' = IF t.to = "PAID" THEN RecordedAttempt(PaymentOf(t.e), "CAPTURED")
                                 ELSE attempt
  /\ event' = IF t.to = "PAID" THEN [event EXCEPT ![t.e] = "PROCESSED"] ELSE event
  /\ expired' = IF Expires(t) THEN [expired EXCEPT ![t.o] = TRUE] ELSE expired

AfterTransition(t) == IF t.to = "PAID" THEN AfterEvent(t, "PROCESSED") ELSE Idle

\* The locked row is neither the first read nor the target, or the work fails.
TransitionRefused(w) ==
  LET t == worker[w] IN
  /\ At(w, "commit")
  /\ ~LockedStatusOk(t) \/ ~WorkApplies(t)
  /\ Set(w, Idle)
  /\ UNCHANGED <<dbVars, provider, crashes>>

\* Someone else reached the target: the work commits, no side effect repeats.
TransitionConverged(w) ==
  LET t == worker[w] IN
  /\ At(w, "commit")
  /\ status[t.o] = t.to
  /\ WorkApplies(t)
  /\ DoWork(t)
  /\ Set(w, AfterTransition(t))
  /\ UNCHANGED <<status, history, stock, used, due, linked, payment, paidBy,
                 notices, provider, crashes>>

NewPaymentStatus(t) ==
  IF t.to = "PAID" THEN "CAPTURED"
  ELSE IF t.to = "REFUNDED" THEN "REFUNDED"
  ELSE IF Expires(t) THEN "FAILED"
  ELSE payment[t.o]

TransitionApplied(w) ==
  LET t == worker[w]
      o == t.o
  IN /\ At(w, "commit")
     /\ LockedStatusOk(t)
     /\ status[o] # t.to
     /\ WorkApplies(t)
     /\ DoWork(t)
     /\ stock' = [v \in Variants |-> IF ReleasesStock(t.before, t.to)
                    THEN stock[v] + Demand[o][v] ELSE stock[v]]
     /\ used' = IF RestoresCoupon(t.before, t.to) /\ o \in CouponOrders
                   /\ used > 0 THEN used - 1 ELSE used
     /\ payment' = IF t.hadPayment
                     THEN [payment EXCEPT ![o] = NewPaymentStatus(t)] ELSE payment
     /\ paidBy' = IF t.hadPayment /\ t.to = "PAID"
                    THEN [paidBy EXCEPT ![o] = PaymentOf(t.e)] ELSE paidBy
     /\ status' = [status EXCEPT ![o] = t.to]
     /\ history' = [history EXCEPT ![o] = Append(@, <<t.before, t.to>>)]
     /\ notices' = IF t.to = "PAID" THEN [notices EXCEPT ![o] = @ + 1] ELSE notices
     /\ Set(w, AfterTransition(t))
     /\ UNCHANGED <<due, linked, provider, crashes>>

-----------------------------------------------------------------------------
\* The process that runs w dies: its local state is gone, the database stays.
Crash(w) ==
  /\ ~At(w, NoOp)
  /\ crashes < MaxCrashes
  /\ crashes' = crashes + 1
  /\ Set(w, Idle)
  /\ UNCHANGED <<dbVars, provider>>

Transition(w) ==
  \/ TransitionRead(w)
  \/ TransitionRefused(w)
  \/ TransitionConverged(w)
  \/ TransitionApplied(w)

ProcessEvent(w) ==
  \/ LoadEvent(w)
  \/ DecideEvent(w)
  \/ FinalizeEvent(w)
  \/ RecordAttempt(w)
  \/ RecordAttemptRefused(w)

Reconcile(w) ==
  \/ ReconcileRead(w)
  \/ FetchAnswered(w)
  \/ FetchFailed(w)
  \/ \E s \in Kinds \X Payments : ReplaySnapshot(w, s)
  \/ ReconcileDone(w)

Checkout(w) == CreateProviderOrder(w) \/ LinkProviderOrder(w)

Continue(w) == Checkout(w) \/ Reconcile(w) \/ ProcessEvent(w) \/ Transition(w)

Start(w) ==
  \/ \E o \in Orders :
       \/ Reserve(w, o)
       \/ StartCancel(w, o)
       \/ StartExpire(w, o)
       \/ StartPoll(w, o)
       \/ \E op \in DOMAIN DirectTargets : StartDirect(w, o, op)
  \/ \E p \in Payments : StartVerify(w, p)
  \/ \E e \in EventIds : StartWorker(w, e)

Environment ==
  \/ \E p \in Payments : \E s \in ProviderNext(provider[p]) : ProviderStep(p, s)
  \/ \E k \in Kinds, p \in Payments : WebhookDelivery(k, p)
  \/ \E o \in Orders : ReservationLapses(o)

Next ==
  \/ \E w \in Workers : Start(w) \/ Continue(w) \/ Crash(w)
  \/ Environment

Spec == Init /\ [][Next]_vars

(* A running handler goes on, the provider answers a fetch now and then, the *)
(* repeatable jobs come back to every due order and stored event, and the    *)
(* provider decides on every payment and delivers its webhooks.              *)
Fairness ==
  /\ \A w \in Workers : WF_vars(Continue(w)) /\ SF_vars(FetchAnswered(w))
  /\ \A o \in Orders : /\ WF_vars(ReservationLapses(o))
                       /\ SF_vars(\E w \in Workers : StartExpire(w, o))
  /\ \A e \in EventIds : SF_vars(\E w \in Workers : StartWorker(w, e))
  /\ \A p \in Payments :
       /\ WF_vars(\E s \in {"stale", "captured", "refunded"} : ProviderStep(p, s))
       /\ WF_vars(WebhookDelivery("captured", p))

FairSpec == Spec /\ Fairness

-----------------------------------------------------------------------------
(* Properties                                                              *)

\* Shape of the state: every row and every worker's local state.
TypeOK ==
  /\ status \in [Orders -> OrderStatuses \cup {NoOrder}]
  /\ history \in [Orders -> Seq((OrderStatuses \cup {NoOrder}) \X OrderStatuses)]
  /\ stock \in [Variants -> Nat]
  /\ used \in Nat
  /\ due \in [Orders -> BOOLEAN]
  /\ expired \in [Orders -> BOOLEAN]
  /\ linked \in [Orders -> BOOLEAN]
  /\ payment \in [Orders -> PaymentStatuses]
  /\ paidBy \in [Orders -> Payments \cup {None}]
  /\ attempt \in [Payments -> DOMAIN AttemptRank]
  /\ event \in [EventIds -> EventStates]
  /\ notices \in [Orders -> Nat]
  /\ provider \in [Payments -> ProviderStatuses]
  /\ worker \in [Workers -> WorkerStates]
  /\ crashes \in Nat

\* The units of v that orders hold: reserved, sold or shipped and not returned.
\* A refund returns the units of a paid order, not those of a delivered one.
LastMove(o) == history[o][Len(history[o])]

Holds(o) ==
  \/ status[o] \in {"PENDING", "CONFIRMED", "PAID", "SHIPPED", "DELIVERED"}
  \/ status[o] = "REFUNDED" /\ LastMove(o) # <<"PAID", "REFUNDED">>

HeldUnits(v) ==
  UNION {{o} \X (1..Demand[o][v]) : o \in {q \in Orders : Holds(q)}}

\* No unit is lost, released twice or sold twice: whatever the interleaving of
\* checkouts, cancellations, expiries, captures and refunds, the stock column
\* plus the units orders hold is the initial stock ("NEVER oversell").
StockConserved ==
  \A v \in Variants : stock[v] + Cardinality(HeldUnits(v)) = InitStock[v]

\* Coupon.usedCount counts exactly the orders that still stand on the coupon,
\* and the limit is never passed.
CouponConserved ==
  /\ used = Cardinality({o \in CouponOrders :
                           status[o] \notin {NoOrder, "CANCELLED", "FAILED"}})
  /\ used <= MaxUses

\* An order is paid, shipped or delivered only against a payment the provider
\* captured for this very order, and the Payment row names it.
PaidIsCaptured ==
  \A o \in Orders : status[o] \in {"PAID", "SHIPPED", "DELIVERED"} =>
    /\ payment[o] = "CAPTURED"
    /\ paidBy[o] \in PaymentsOf(o)
    /\ provider[paidBy[o]] = "captured"

\* A capture reported as processed did pay its order: no captured money is
\* acknowledged and dropped, whichever of webhook, callback and poll came first.
CaptureAcknowledged ==
  \A e \in EventIds :
    KindOf(e) = "captured" /\ event[e] = "PROCESSED" =>
      /\ paidBy[OrderOf(PaymentOf(e))] = PaymentOf(e)
      /\ status[OrderOf(PaymentOf(e))] \in
           {"PAID", "SHIPPED", "DELIVERED", "REFUNDED"}

\* The audit trail is one unbroken path of legal moves from creation to the
\* status of the order, with at most one move into each status: no side effect
\* of a move ever runs twice.
AuditTrail ==
  \A o \in Orders :
    LET h == history[o] IN
    /\ \A i \in 1..Len(h) :
         /\ h[i][1] = IF i = 1 THEN NoOrder ELSE h[i-1][2]
         /\ i > 1 => CanTransition(h[i][1], h[i][2])
    /\ status[o] = IF h = <<>> THEN NoOrder ELSE h[Len(h)][2]
    /\ notices[o] = IF \E i \in 1..Len(h) : h[i][2] = "PAID" THEN 1 ELSE 0

\* Late, repeated and reordered provider events never take a captured payment
\* or a payment attempt back to an earlier status.
MoneyNeverRegresses ==
  [][/\ \A o \in Orders : payment[o] = "CAPTURED" =>
                            payment'[o] \in {"CAPTURED", "REFUNDED"}
     /\ \A p \in Payments : AttemptRank[attempt'[p]] >= AttemptRank[attempt[p]]
    ]_vars

\* "Never release reserved stock until Razorpay confirms there is no captured
\* or in-flight payment" (checkoutExpiry.service.ts).
NeverExpireWithMoney ==
  [][\A o \in Orders : ~expired[o] /\ expired'[o] =>
       \A p \in PaymentsOf(o) : provider[p] \notin {"authorized", "captured"}
    ]_vars

\* Every reservation ends: it is paid, or cancelled once it is due, unless the
\* provider gave an authorized payment back.
ReservationSettles ==
  \A o \in Orders :
    status[o] = "PENDING" ~>
      \/ status[o] # "PENDING"
      \/ \E p \in PaymentsOf(o) : provider[p] = "refunded"

\* Money the provider captured is never ignored: it pays its order or its event
\* is put aside for reconciliation by an operator.
CaptureSettles ==
  \A p \in Payments :
    provider[p] = "captured" ~>
      \/ paidBy[OrderOf(p)] = p
      \/ \E e \in EventIds : /\ KindOf(e) = "captured" /\ PaymentOf(e) = p
                              /\ event[e] = "RECONCILIATION_REQUIRED"

\* The orders the provider captured a payment of.
CapturedOrders == {o \in Orders : \E p \in PaymentsOf(o) : provider[p] = "captured"}

Book == INSTANCE OrderBook
          WITH order <- status, shelf <- stock, captured <- CapturedOrders

\* All of this program's reads, locks, retries, replays and crashes amount to
\* the single steps of the order book: each step of a handler is one move of
\* one order with its units and its coupon, or changes nothing of the book.
KeepsBook == Book!Spec

=============================================================================
