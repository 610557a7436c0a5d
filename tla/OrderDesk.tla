----------------------------- MODULE OrderDesk -----------------------------
(***************************************************************************)
(* An order on the desks of its administrators: the order page of the      *)
(* admin, open in several browsers at once, and the routes behind its      *)
(* forms - manual dispatch, delivery, cancellation, refunds and the check  *)
(* of a refund with the payment provider.                                  *)
(*                                                                         *)
(*   AdminOrderDetailPage      app/admin/orders/[id]/page.tsx              *)
(*   adminGetOrder and the mutations that invalidate it  lib/ordersApi.ts  *)
(*   POST /orders/:id/shipments, /deliver, /cancel, /refunds and           *)
(*   POST /refunds/:id/reconcile        modules/admin/adminOrders.routes.ts *)
(*   createManualShipment, markOpenShipmentsDelivered                      *)
(*                             modules/fulfillment/fulfillment.service.ts  *)
(*   transition                modules/orders/stateMachine.ts              *)
(*   requestRefund             modules/refunds/refund.service.ts           *)
(*                                                                         *)
(* A page shows the order as it last fetched it.  Requests and answers     *)
(* travel apart from it: a page may take a request for lost that the       *)
(* server still works on.  What happens to a refund at the provider is     *)
(* module RefundLedger's; here it is ACTIVE, PROCESSED or FAILED.          *)
(***************************************************************************)
EXTENDS OrderTransitions, Naturals, Sequences, SequencesExt

CONSTANTS
  Admins,    \* administrators, each with the order's page open
  Numbers,   \* tracking numbers of the carriers
  Paid,      \* Payment.amount, in the smallest unit that is refunded
  Offered,   \* the mutations the administrators use
  Starts,    \* statuses the order may have when the pages are opened
  Slots,     \* requests the server works on at a time
  MaxKeys,   \* bound on the refund keys of one page
  MaxLost    \* bound on requests and answers that are lost

ASSUME ConstantsAssumption ==
  /\ Numbers # {}
  /\ Paid \in Nat \ {0}
  /\ Offered \subseteq {"dispatch", "act", "refund", "check"}
  /\ Starts \subseteq {"PAID", "CONFIRMED", "DELIVERED"}
  /\ MaxKeys \in Nat
  /\ MaxLost \in Nat

VARIABLES
  status,    \* Order.status
  method,    \* Order.paymentMethod
  payment,   \* Payment.status
  ledger,    \* the order's refund intents, in the order they were made
  shipment,  \* the manual shipment with each tracking number
  page,      \* each administrator's page
  job,       \* requests the server has received and their answers
  lost       \* requests and answers lost so far

vars == <<status, method, payment, ledger, shipment, page, job, lost>>

\* ACTIVE is any status that is neither PROCESSED nor FAILED.  action numbers
\* what the administrator wanted: it is not stored, it tells intents apart that
\* were meant as one.
IntentStates == {"ACTIVE", "PROCESSED", "FAILED"}
Intents ==
  [by : Admins, key : 1..MaxKeys, action : 1..MaxKeys + 1, amount : 1..Paid,
   state : IntentStates]

Kinds == {"dispatch", "act", "refund", "check"}

\* The answer to adminGetOrder, of which the page derives its forms and buttons.
View ==
  [status |-> status, payment |-> payment, ledger |-> ledger,
   tracked |-> \E n \in Numbers : shipment[n] # "none"]

NoMessage == [text |-> "none", key |-> 0, was |-> "none"]

(* A page: what it shows, whether that is to be fetched again, the refund key *)
(* it keeps (0: none), the keys it made, the number of the refund it is       *)
(* about, the request each of its mutations waits for and the       *)
(* message of its last refund, with the intent's state behind it.             *)
NewPage(view) ==
  [view |-> view, stale |-> FALSE, key |-> 0, keys |-> 0, action |-> 1,
   wait |-> [kind \in Kinds |-> "none"], told |-> NoMessage]

(* A request.  i: the place of its refund in the ledger; before: the status   *)
(* transition() read first; ok, latest, was: the answer, with the states of   *)
(* the newest intent and of the one asked for.                                *)
NoJob ==
  [at |-> "none", kind |-> "none", by |-> "nobody", to |-> NoOrder, number |-> "none",
   key |-> 0, action |-> 1, amount |-> 0, i |-> 0, before |-> NoOrder,
   ok |-> FALSE, latest |-> "none", was |-> "none"]

Init ==
  /\ status \in Starts
  /\ method = IF status = "CONFIRMED" THEN "COD" ELSE "PREPAID"
  /\ payment = IF status = "CONFIRMED" THEN "CREATED" ELSE "CAPTURED"
  /\ ledger = <<>>
  /\ shipment = [n \in Numbers |-> IF status = "DELIVERED" THEN "delivered" ELSE "none"]
  /\ page = [a \in Admins |-> NewPage(View)]
  /\ job = [s \in Slots |-> NoJob]
  /\ lost = 0

-----------------------------------------------------------------------------
(* What the order as fetched allows.                                       *)

Amount(rows, states) ==
  FoldLeft(LAMBDA sum, row : IF row.state \in states THEN sum + row.amount ELSE sum,
           0, rows)

\* Everything that has not failed is reserved.
Refundable(rows) == Paid - Amount(rows, {"ACTIVE", "PROCESSED"})

CanRefund(view) ==
  /\ view.status \in {"PAID", "DELIVERED"}
  /\ view.payment = "CAPTURED"
  /\ Refundable(view.ledger) > 0

\* Offered before delivery: the whole remaining amount, which the field shows.
Amounts(view) ==
  IF view.status = "DELIVERED" THEN 1..Refundable(view.ledger)
  ELSE {Refundable(view.ledger)}

\* SHIPPED has a form of its own, that asks for the carrier's number.
Buttons(view) == {to \in {"DELIVERED", "CANCELLED"} : CanTransition(view.status, to)}

CanCreateShipment(view) == CanTransition(view.status, "SHIPPED") /\ ~view.tracked

-----------------------------------------------------------------------------
(* The page.                                                               *)

Free(s) == job[s].at = "none"

\* A mutation's button is disabled while it is loading.
Send(a, s, request, changed) ==
  /\ request.kind \in Offered
  /\ Free(s)
  /\ page[a].wait[request.kind] = "none"
  /\ job' = [job EXCEPT ![s] = request]
  /\ page' = [page EXCEPT ![a] = [changed EXCEPT !.wait[request.kind] = s]]
  /\ UNCHANGED <<status, method, payment, ledger, shipment, lost>>

\* Where the server begins with a request.
FirstStep == [dispatch |-> "find", act |-> "read", refund |-> "acquire", check |-> "process"]

Request(a, kind) == [NoJob EXCEPT !.kind = kind, !.by = a, !.at = FirstStep[kind]]

\* handleDispatch, with the carrier's number.
Dispatch(a, s, n) ==
  /\ CanCreateShipment(page[a].view)
  /\ Send(a, s, [Request(a, "dispatch") EXCEPT !.to = "SHIPPED", !.number = n],
          page[a])

\* handleAction
Act(a, s, to) ==
  /\ to \in Buttons(page[a].view)
  /\ Send(a, s, [Request(a, "act") EXCEPT !.to = to], page[a])

\* refundRequestKey ?? crypto.randomUUID()
RefundKey(a) == IF page[a].key # 0 THEN page[a].key ELSE page[a].keys + 1

\* handleRefund, up to the request.
Ask(a, s, amount) ==
  /\ CanRefund(page[a].view)
  /\ amount \in Amounts(page[a].view)
  /\ RefundKey(a) <= MaxKeys
  /\ Send(a, s,
          [Request(a, "refund") EXCEPT
             !.key = RefundKey(a), !.action = page[a].action, !.amount = amount],
          [page[a] EXCEPT !.key = RefundKey(a), !.told = NoMessage,
             !.keys = IF RefundKey(a) > @ THEN RefundKey(a) ELSE @])

\* handleRefundReconcile: a refund that is listed as not settled yet.
Check(a, s, i) ==
  /\ i \in DOMAIN page[a].view.ledger
  /\ page[a].view.ledger[i].state = "ACTIVE"
  /\ Send(a, s, [Request(a, "check") EXCEPT !.i = i],
          [page[a] EXCEPT !.told = NoMessage])

Awaited(s) == page[job[s].by].wait[job[s].kind] = s

\* A mutation has ended, well or not: the order is fetched again.
Ended(p, kind) == [p EXCEPT !.wait[kind] = "none", !.stale = TRUE]

RefundMessage(j) ==
  [text |-> IF j.latest = "PROCESSED" THEN "processed" ELSE "accepted",
   key |-> j.key, was |-> j.was]

\* The rest of handleRefund: a success clears the key, a failure keeps it.
AfterRefund(p, j) ==
  IF j.ok
  THEN [p EXCEPT !.told = RefundMessage(j), !.key = 0, !.action = p.action + 1]
  ELSE p

\* The answer arrives; nobody waits for the answer of a request given up.
Answer(s) ==
  /\ job[s].at = "answered"
  /\ page' = IF Awaited(s)
             THEN [page EXCEPT ![job[s].by] =
                    Ended(IF job[s].kind = "refund" THEN AfterRefund(@, job[s]) ELSE @,
                          job[s].kind)]
             ELSE page
  /\ job' = [job EXCEPT ![s] = NoJob]
  /\ UNCHANGED <<status, method, payment, ledger, shipment, lost>>

\* The page's connection fails; the server has the request or it has not.
Lose(s, received) ==
  /\ ~Free(s)
  /\ Awaited(s)
  /\ lost < MaxLost
  /\ received \/ job[s].at = FirstStep[job[s].kind]
  /\ lost' = lost + 1
  /\ page' = [page EXCEPT ![job[s].by] = Ended(@, job[s].kind)]
  /\ job' = IF received THEN job ELSE [job EXCEPT ![s] = NoJob]
  /\ UNCHANGED <<status, method, payment, ledger, shipment>>

\* adminGetOrder again, because a mutation invalidated its tag.
Refetch(a) ==
  /\ page[a].stale
  /\ page' = [page EXCEPT ![a].view = View, ![a].stale = FALSE]
  /\ UNCHANGED <<status, method, payment, ledger, shipment, job, lost>>

-----------------------------------------------------------------------------
(* The server's side of a transition.                                      *)

Refuse(s) == job' = [job EXCEPT ![s].at = "answered", ![s].ok = FALSE]
Succeed(s) == job' = [job EXCEPT ![s].at = "answered", ![s].ok = TRUE]

\* POST /orders/:id/shipments looks the order up before it calls transition().
Find(s) ==
  /\ job[s].at = "find"
  /\ IF status \in {"PAID", "CONFIRMED", "SHIPPED"}
     THEN job' = [job EXCEPT ![s].at = "read"]
     ELSE Refuse(s)
  /\ UNCHANGED <<status, method, payment, ledger, shipment, page, lost>>

RefundsInTheWay == \E i \in DOMAIN ledger : ledger[i].state # "FAILED"

\* transition() up to its transaction.  Work that must commit with the status
\* (a shipment, the end of the open ones) also runs if the status is reached.
Read(s) ==
  /\ job[s].at = "read"
  /\ LET to == job[s].to IN
     IF \/ to = "SHIPPED" /\ RefundsInTheWay
        \/ status # to /\ ~CanTransition(status, to)
     THEN Refuse(s)
     ELSE IF status = to /\ to = "CANCELLED" THEN Succeed(s)
     ELSE job' = [job EXCEPT ![s].at = "commit", ![s].before = status]
  /\ UNCHANGED <<status, method, payment, ledger, shipment, page, lost>>

MayCommitUnlocked(j) ==
  /\ j.to = "SHIPPED" => ~RefundsInTheWay
  /\ j.kind = "dispatch" => shipment[j.number] = "none"

\* What is read again under the order's lock, and the unique tracking number.
MayCommit(j) ==
  /\ status \in {j.before, j.to}
  /\ j.to = "SHIPPED" => ~RefundsInTheWay
  /\ j.kind = "dispatch" => shipment[j.number] = "none"

\* createManualShipment and markOpenShipmentsDelivered
Worked(j) ==
  CASE j.kind = "dispatch" -> [shipment EXCEPT ![j.number] = "open"]
    [] j.to = "DELIVERED"  -> [n \in Numbers |-> IF shipment[n] = "open"
                                                 THEN "delivered" ELSE shipment[n]]
    [] OTHER -> shipment

\* The transaction of transition(): the order row is locked.
Commit(s) ==
  /\ job[s].at = "commit"
  /\ IF MayCommit(job[s])
     THEN /\ status' = job[s].to
          /\ shipment' = Worked(job[s])
          /\ payment' = IF method = "COD" /\ job[s].to = "DELIVERED" /\ status # "DELIVERED"
                        THEN "CAPTURED" ELSE payment
          /\ Succeed(s)
     ELSE Refuse(s) /\ UNCHANGED <<status, payment, shipment>>
  /\ UNCHANGED <<method, ledger, page, lost>>

-----------------------------------------------------------------------------
(* The server's side of a refund.                                          *)

Known(j) == {i \in DOMAIN ledger : ledger[i].by = j.by /\ ledger[i].key = j.key}

MayRefund(j) ==
  /\ status \in {"PAID", "DELIVERED"}
  /\ payment = "CAPTURED"
  /\ j.amount <= Refundable(ledger)
  /\ j.amount # Paid => status = "DELIVERED"

\* acquireRefundIntent, under the locks of the order and of its payment.
Acquire(s) ==
  LET j == job[s] IN
  /\ j.at = "acquire"
  /\ \/ /\ \E i \in Known(j) : ledger[i].amount = j.amount
        /\ job' = [job EXCEPT ![s].at = "process", ![s].i = CHOOSE i \in Known(j) : TRUE]
        /\ UNCHANGED ledger
     \/ /\ Known(j) = {}
        /\ MayRefund(j)
        /\ ledger' = Append(ledger, [by |-> j.by, key |-> j.key, action |-> j.action,
                                     amount |-> j.amount, state |-> "ACTIVE"])
        /\ job' = [job EXCEPT ![s].at = "process", ![s].i = Len(ledger) + 1]
     \/ /\ IF Known(j) = {} THEN ~MayRefund(j)
           ELSE \A i \in Known(j) : ledger[i].amount # j.amount
        /\ Refuse(s)
        /\ UNCHANGED ledger
  /\ UNCHANGED <<status, method, payment, shipment, page, lost>>

\* A collected payment is refunded by hand and counts as processed at once.
Outcomes == IF method = "COD" THEN {"PROCESSED"} ELSE IntentStates

Settle(i, state) ==
  ledger' = IF ledger[i].state = "ACTIVE" THEN [ledger EXCEPT ![i].state = state] ELSE ledger

\* processRefundIntent: the provider answers, or the refund stays ACTIVE.
Process(s, state) ==
  /\ job[s].at = "process"
  /\ state \in Outcomes
  /\ Settle(job[s].i, state)
  /\ job' = [job EXCEPT ![s].at = "summary"]
  /\ UNCHANGED <<status, method, payment, shipment, page, lost>>

\* getRefundSummary: the intents, newest first.
Summary(s) ==
  /\ job[s].at = "summary"
  /\ job' = [job EXCEPT ![s].at = "answered", ![s].ok = TRUE,
               ![s].latest = ledger[Len(ledger)].state,
               ![s].was = ledger[job[s].i].state]
  /\ UNCHANGED <<status, method, payment, ledger, shipment, page, lost>>

\* A webhook or the reconciliation job settles a refund.
Webhook(i, state) ==
  /\ i \in DOMAIN ledger
  /\ ledger[i].state = "ACTIVE"
  /\ state \in Outcomes \ {"ACTIVE"}
  /\ Settle(i, state)
  /\ UNCHANGED <<status, method, payment, shipment, page, job, lost>>

\* finalizeFullyRefundedOrder, at once or by the job.
Finalize ==
  /\ Amount(ledger, {"PROCESSED"}) = Paid
  /\ CanTransition(status, "REFUNDED")
  /\ status' = "REFUNDED"
  /\ payment' = "REFUNDED"
  /\ UNCHANGED <<method, ledger, shipment, page, job, lost>>

-----------------------------------------------------------------------------

Desk(a) ==
  \E s \in Slots :
    \/ \E n \in Numbers : Dispatch(a, s, n)
    \/ \E to \in {"SHIPPED", "DELIVERED", "CANCELLED"} : Act(a, s, to)
    \/ \E amount \in 1..Paid : Ask(a, s, amount)
    \/ \E i \in 1..Len(ledger) : Check(a, s, i)

Serve(s) ==
  \/ Find(s) \/ Read(s) \/ Commit(s)
  \/ Acquire(s) \/ (\E state \in IntentStates : Process(s, state)) \/ Summary(s)

Environment ==
  \/ \E s \in Slots, received \in BOOLEAN : Lose(s, received)
  \/ \E i \in 1..Len(ledger), state \in IntentStates : Webhook(i, state)
  \/ Finalize

Next ==
  \/ \E a \in Admins : Desk(a) \/ Refetch(a)
  \/ \E s \in Slots : Serve(s) \/ Answer(s)
  \/ Environment

Spec == Init /\ [][Next]_vars

\* Requests are served, answers arrive, pages fetch what was invalidated, and an
\* administrator who began a refund presses its button until something is told.
Press(a) == page[a].key # 0 /\ \E s \in Slots, amount \in 1..Paid : Ask(a, s, amount)

-----------------------------------------------------------------------------

\* Types of the order, its refunds and the pages; what remains refundable is
\* never negative.
TypeOK ==
  /\ status \in OrderStatuses
  /\ method \in {"COD", "PREPAID"}
  /\ payment \in {"CREATED", "CAPTURED", "REFUNDED"}
  /\ \A i \in DOMAIN ledger : ledger[i] \in Intents
  /\ Refundable(ledger) \in Nat
  /\ shipment \in [Numbers -> {"none", "open", "delivered"}]
  /\ \A a \in Admins :
       /\ page[a].key \in 0..MaxKeys
       /\ page[a].wait \in [Kinds -> Slots \cup {"none"}]
  /\ lost \in 0..MaxLost

\* However often a refund's button is pressed after lost answers, one wish of an
\* administrator makes one refund intent (handleRefund keeps the key until a
\* success is told, acquireRefundIntent finds the row under it).
OneRefundPerAction ==
  \A i, k \in DOMAIN ledger :
    ledger[i].by = ledger[k].by /\ ledger[i].action = ledger[k].action => i = k

\* An order that is over has no shipment on its way: dispatch, delivery,
\* cancellation and refunds decided on stale pages exclude each other under the
\* order's lock.
NothingOnTheWay ==
  status \in {"DELIVERED", "CANCELLED", "REFUNDED"} =>
    \A n \in Numbers : shipment[n] # "open"

\* The page ships an order with a tracking record only.
ShippedIsTracked ==
  status \in {"SHIPPED", "DELIVERED"} => \E n \in Numbers : shipment[n] # "none"

\* Administrators who decide on stale pages exclude each other under the
\* order's lock: an order that is over has no parcel on its way and one that
\* is shipped has one, and one wish makes one refund however often its button
\* is pressed after lost answers (admin/orders/[id]/page.tsx, transition,
\* acquireRefundIntent).
DeskIsSafe == NothingOnTheWay /\ ShippedIsTracked /\ OneRefundPerAction

\* An administrator asks for a refund under a key of the page; it is made, or
\* the page no longer offers one.
Asks(a, key) == page[a].key = key
MadeOrClosed(a, key) ==
  \/ \E i \in DOMAIN ledger : ledger[i].by = a /\ ledger[i].key = key
  \/ ~CanRefund(page[a].view)

=============================================================================
