----------------------------- MODULE MCOrdering ------------------------------
(* Small instances for TLC of what stands around a checkout: its attempts,    *)
(* carts, the client of the payment provider, the delivery of its events and  *)
(* what they are taken for.                                                   *)
EXTENDS CheckoutAttempts, Stage, Sequences, TLC

CONSTANTS
  None, Absent, Broken,
  w1, w2, w3, t1, t2,          \* processes, and what they work at: all alike
  d1, p1, c1, v1, v2, b1       \* forms, events, variants and a bundle

-----------------------------------------------------------------------------
(* The scenes. *)

Delivery == INSTANCE WebhookDelivery WITH
  PaymentEvents <- {p1}, CourierEvents <- {c1}, Workers <- {w1, w2}, MaxAttempts <- 2,
  Batch <- 1, MaxFaults <- 2,
  row <- x1, job <- x2, listener <- x3, spent <- x4, worker <- x5, faults <- x6
ASSUME Delivery!ConstantsAssumption

CartOps == INSTANCE Cart WITH
  Variants <- {v1, v2}, Bundles <- {b1}, Needs <- [b \in {b1} |-> [v \in {v1, v2} |-> 1]],
  FirstStock <- [v \in {v1, v2} |-> 3], Levels <- {1}, Amounts <- {1, 2},
  Requests <- {"get", "add", "set", "remove", "clear", "merge"}, Workers <- {w1},
  MaxRequests <- 3, MaxMoves <- 1, FreeMoves <- FALSE, SlowClamps <- TRUE,
  cart <- x1, current <- x2, stock <- x3, wanted <- x4, settled <- x5, requests <- x6,
  moves <- x7, worker <- x8
ASSUME CartOps!ConstantsAssumption

CartAdds == INSTANCE Cart WITH
  Variants <- {v1}, Bundles <- {}, Needs <- <<>>, FirstStock <- [v \in {v1} |-> 3],
  Levels <- {}, Amounts <- {1}, Requests <- {"get", "add"}, Workers <- {w1, w2, w3},
  MaxRequests <- 3, MaxMoves <- 0, FreeMoves <- FALSE, SlowClamps <- TRUE,
  cart <- x1, current <- x2, stock <- x3, wanted <- x4, settled <- x5, requests <- x6,
  moves <- x7, worker <- x8
ASSUME CartAdds!ConstantsAssumption

CartStock == INSTANCE Cart WITH
  Variants <- {v1}, Bundles <- {}, Needs <- <<>>, FirstStock <- [v \in {v1} |-> 2],
  Levels <- {1, 2}, Amounts <- {1, 2}, Requests <- {"get", "add", "set", "merge", "remove"},
  Workers <- {w1, w2}, MaxRequests <- 3, MaxMoves <- 2, FreeMoves <- FALSE, SlowClamps <- TRUE,
  cart <- x1, current <- x2, stock <- x3, wanted <- x4, settled <- x5, requests <- x6,
  moves <- x7, worker <- x8
ASSUME CartStock!ConstantsAssumption

CartOrders == INSTANCE Cart WITH
  Variants <- {v1, v2}, Bundles <- {b1}, Needs <- [b \in {b1} |-> [v \in {v1, v2} |-> 1]],
  FirstStock <- [v \in {v1, v2} |-> 2], Levels <- {1}, Amounts <- {2},
  Requests <- {"add", "remove", "clear", "checkout"}, Workers <- {w1, w2}, MaxRequests <- 3,
  MaxMoves <- 1, FreeMoves <- FALSE, SlowClamps <- FALSE,
  cart <- x1, current <- x2, stock <- x3, wanted <- x4, settled <- x5, requests <- x6,
  moves <- x7, worker <- x8
ASSUME CartOrders!ConstantsAssumption

Calls == INSTANCE ProviderClient WITH
  Callers <- {w1, w2}, MaxAttempts <- 2, MaxCalls <- 2, MaxBusy <- 1, Busy <- {409, 429, 503},
  refuses <- x1, orders <- x2, refunds <- x3, call <- x4, late <- x5, calls <- x6, busy <- x7
ASSUME Calls!ConstantsAssumption

\* Bodies of webhooks: as they should be, and with one slip.
PaymentBody(type, status, i) ==
  [type |-> type, order |-> Absent,
   entity |-> [id |-> i, order |-> "ours", amount |-> 2, currency |-> "inr", status |-> status]]
OrderPart(i, a, c) == [id |-> i, amount |-> a, currency |-> c]
PaymentSlips(b) ==
  {b, [b EXCEPT !.entity = Broken], [b EXCEPT !.entity.order = "other"],
   [b EXCEPT !.entity.amount = 1], [b EXCEPT !.entity.currency = "USD"],
   [b EXCEPT !.entity.status = "CAPTURED"], [b EXCEPT !.type = "payment.other"]}
  \cup {[b EXCEPT !.order = o] :
          o \in {Broken, OrderPart("ours", 2, "INR"), OrderPart("other", Absent, Absent),
                 OrderPart(Absent, 1, Absent), OrderPart(Absent, Absent, "USD")}}
PaymentBodies == UNION {PaymentSlips(PaymentBody("payment." \o s, s, i)) :
                          s \in {"authorized", "captured", "failed"}, i \in {v1, v2}}
RefundBody(type, status, r, a, k) ==
  [type |-> type, order |-> Absent,
   entity |-> [id |-> r, payment |-> v1, amount |-> a, currency |-> "inr",
               status |-> status, intent |-> k]]
RefundSlips(b) ==
  {b, [b EXCEPT !.entity = Broken], [b EXCEPT !.entity.payment = v2],
   [b EXCEPT !.entity.amount = 2], [b EXCEPT !.entity.currency = "USD"],
   [b EXCEPT !.entity.status = "failed"], [b EXCEPT !.entity.status = "other"],
   [b EXCEPT !.type = "refund.other"], [b EXCEPT !.entity.intent = Absent]}
RefundBodies ==
  RefundSlips(RefundBody("refund.processed", "processed", b1, 1, p1)) \cup
  {RefundBody("refund.created", "pending", b1, 1, p1),
   RefundBody("refund.failed", "failed", b1, 1, p1),
   RefundBody("refund.processed", "processed", d1, 1, p1)}
PaymentAnswers ==
  [id : {v1, v2}, order : {"ours", "other"}, amount : {1, 2}, currency : {"inr", "USD"},
   status : {"created", "captured", "authorized", "failed", "refunded"}]
RefundAnswers ==
  [id : {b1, d1}, payment : {v1, v2}, amount : {1, 2}, currency : {"INR"},
   status : {"pending", "processed", "other"}, intent : {Absent}]

Reports == INSTANCE PaymentEvents WITH
  Payloads <- PaymentBodies, Fetched <- PaymentAnswers \cup {Broken}, Answers <- {},
  Ids <- {v1, v2}, Intents <- {}, Total <- 2, MaxEvents <- 2,
  order <- x1, payment <- x2, attempt <- x3, intent <- x4, event <- x5

RefundReports == INSTANCE PaymentEvents WITH
  Payloads <- RefundBodies \cup {PaymentBody("payment.captured", "captured", v1)},
  Fetched <- {}, Answers <- RefundAnswers \cup {Broken},
  Ids <- {v1}, Intents <- {p1, c1}, Total <- 2, MaxEvents <- 3,
  order <- x1, payment <- x2, attempt <- x3, intent <- x4, event <- x5
ASSUME Reports!ConstantsAssumption /\ RefundReports!ConstantsAssumption

Opening ==
  \/ Opens("delivery", 6) /\ Delivery!Init
  \/ Opens("cartOps", 8) /\ CartOps!Init
  \/ Opens("cartAdds", 8) /\ CartAdds!Init
  \/ Opens("cartStock", 8) /\ CartStock!Init
  \/ Opens("cartOrders", 8) /\ CartOrders!Init
  \/ Opens("calls", 7) /\ Calls!Init
  \/ Opens("reports", 5) /\ Reports!Init
  \/ Opens("refundReports", 5) /\ RefundReports!Init

Playing ==
  \/ Plays("delivery", 6) /\ Delivery!Next
  \/ Plays("cartOps", 8) /\ CartOps!Next
  \/ Plays("cartAdds", 8) /\ CartAdds!Next
  \/ Plays("cartStock", 8) /\ CartStock!Next
  \/ Plays("cartOrders", 8) /\ CartOrders!Next
  \/ Plays("calls", 7) /\ Calls!Next
  \/ Plays("reports", 5) /\ Reports!Next
  \/ Plays("refundReports", 5) /\ RefundReports!Next

\* The attempts have variables of their own, which rest in the other scenes.
SceneInit ==
  /\ Init
  /\ Opening \/ Opens("attempts", 0)

SceneNext ==
  \/ Playing /\ UNCHANGED vars
  \/ scene = "attempts" /\ Next /\ UNCHANGED stage

SceneSpec == SceneInit /\ [][SceneNext]_<<vars, stage>>

Symmetry == Permutations({w1, w2, w3}) \cup Permutations({t1, t2})

-----------------------------------------------------------------------------
(* Properties *)

\* No event of the payment provider is lost among the queue's jobs: none is
\* given up before a job of it used up its attempts, and a processed one is
\* not buried by who still holds an old view of its job
\* (paymentEventDelivery.service.ts).
EventsKept ==
  /\ [](scene = "delivery" => Delivery!TypeOK /\ Delivery!DeadIsExhausted)
  /\ [][scene = "delivery" => Delivery!ProcessedNotBuried]_stage

\* Once every request has ended a cart holds what the requests asked for, one
\* after the other and capped at the stock: none undoes another, also not
\* while another request runs between the two writes of one; and a cart read
\* since the stock last changed holds no more than there is (cart.service.ts
\* addItem, setItemQty, mergeGuestIntoUser, hydrate).
CartAsRequested ==
  /\ scene = "cartOps" => CartOps!TypeOK /\ CartOps!AsRequested
  /\ scene = "cartAdds" => CartAdds!TypeOK /\ CartAdds!AsRequested
  /\ scene = "cartStock" => CartStock!WithinStock

\* The cart a checkout goes on to order is the customer's cart at the moment
\* its revision was compared again (createFreshCheckoutSession): nothing that
\* was put in or taken out since the first read is missing or charged.
SnapshotIsCart == [][scene = "cartOrders" => CartOrders!SnapshotIsCart]_stage

\* What the provider reports is taken for what it is.  By its client, when the
\* provider puts requests off with 409, 429 or 503: a refund is made once however
\* often it is asked for and comes late, what is reported as made is made, what
\* is reported as rejected is not, and an order is reported as failed only
\* after its receipt was looked up and not found (razorpay.ts:518).  And by the
\* processing of events, whatever their bodies say: an order is paid and a
\* refund settled only by a report about this very payment, and a payment that
\* was fetched passes the checks a webhook has to pass (razorpayEvent.policy.ts,
\* refundWebhook.policy.ts).
ReportedIsSo ==
  /\ [](scene = "calls" =>
          /\ Calls!TypeOK /\ Calls!OneRefund /\ Calls!OkIsMade
          /\ Calls!LookedUpFirst /\ Calls!RejectedIsNotMade)
  /\ [][scene = "calls" => Calls!FailedHasNone]_stage
  /\ [](scene = "reports" =>
          Reports!TypeOK /\ Reports!MoneyIsReported /\ Reports!SnapshotIsTaken)
  /\ [](scene = "refundReports" => RefundReports!TypeOK /\ RefundReports!RefundIsReported)
=============================================================================
