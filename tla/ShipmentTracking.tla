-------------------------- MODULE ShipmentTracking --------------------------
(***************************************************************************)
(* The shipments of one order and the courier's scans of them.  The        *)
(* courier reports each parcel's journey; its reports arrive late,         *)
(* repeated and out of order, and several queue workers apply them at      *)
(* once.  A scan may ship or complete the order in the same transaction;   *)
(* administrators dispatch, deliver and cancel shipments meanwhile.        *)
(*                                                                         *)
(*   applyCourierEvent, applyEventInTransaction, findShipment              *)
(*                              modules/fulfillment/courierTracking.ts     *)
(*   SHIPMENT_TRANSITIONS       modules/fulfillment/fulfillment.policy.ts  *)
(*   createManualShipment, markOpenShipmentsDelivered                      *)
(*                              modules/fulfillment/fulfillment.service.ts *)
(*   cancelCourierShipment      modules/fulfillment/courierBooking.service *)
(*   transition                 modules/orders/stateMachine.ts             *)
(*   POST shipments, deliver    modules/admin/adminOrders.routes.ts        *)
(*   reconcileShipment          jobs/courierEvents.ts                      *)
(*                                                                         *)
(* Events recorded by hand are left out: they come with a final status.    *)
(*                                                                         *)
(* PostgreSQL runs at READ COMMITTED: inside a transaction every read sees *)
(* what is committed by then, and an update re-checks its condition on the *)
(* committed row.  A transition holds the row lock of the order.           *)
(***************************************************************************)
EXTENDS Naturals, Sequences

CONSTANTS
  Courier,     \* shipments booked with the courier, tracked by its scans
  Manual,      \* shipments an administrator dispatches by hand
  Workers,     \* queue workers and administrators' requests
  Reported,    \* the statuses the courier reports
  MaxScans,    \* bound on the scans of one shipment
  Operations   \* the operations that happen: "track", "dispatch", "deliver", "cancel", "refund"

Shipments == Courier \cup Manual
NoOne == "no one"

ConstantsAssumption ==
  /\ MaxScans \in Nat
  /\ Courier \cap Manual = {} /\ NoOne \notin Shipments

Statuses == {"LABEL_CREATED", "PICKED_UP", "IN_TRANSIT", "OUT_FOR_DELIVERY",
             "DELIVERED", "DELIVERY_FAILED", "RTO_IN_TRANSIT", "RETURNED",
             "CANCELLED"}

\* SHIPMENT_TRANSITIONS.
Transitions(from) ==
  CASE from = "LABEL_CREATED" ->
         {"PICKED_UP", "IN_TRANSIT", "OUT_FOR_DELIVERY", "DELIVERED",
          "DELIVERY_FAILED", "CANCELLED"}
    [] from = "PICKED_UP" ->
         {"IN_TRANSIT", "OUT_FOR_DELIVERY", "DELIVERED", "DELIVERY_FAILED"}
    [] from = "IN_TRANSIT" ->
         {"OUT_FOR_DELIVERY", "DELIVERED", "DELIVERY_FAILED", "RTO_IN_TRANSIT"}
    [] from = "OUT_FOR_DELIVERY" -> {"DELIVERED", "DELIVERY_FAILED"}
    [] from = "DELIVERY_FAILED" ->
         {"PICKED_UP", "IN_TRANSIT", "OUT_FOR_DELIVERY", "DELIVERED",
          "RTO_IN_TRANSIT", "RETURNED"}
    [] from = "RTO_IN_TRANSIT" -> {"RETURNED"}
    [] OTHER -> {}

CanTransition(from, to) == from = to \/ to \in Transitions(from)

\* impliesShipmentHandoff.
Handoff(st) == st \in {"PICKED_UP", "IN_TRANSIT", "OUT_FOR_DELIVERY"}

VARIABLES
  order,    \* Order.status, from PAID on
  status,   \* Shipment.status, "NONE" when the row does not exist
  setBy,    \* occurredAt of the scan the status was taken from, 0 for none
  scans,    \* ShipmentEvent rows of the courier, as their occurredAt
  journey,  \* what happened to the parcel: its statuses in order of time
  refund,   \* a refund of the order is under way
  lock,     \* holder of the order's row lock
  worker    \* local state of each worker

vars == <<order, status, setBy, scans, journey, refund, lock, worker>>

\* s, n: the shipment and the scan in hand; seen: the order's status read
\* first; cur, latest: the shipment's status and newest scan read in the
\* transaction; to: the order transition the transaction belongs to.
Idle == [at |-> "idle", s |-> NoOne, n |-> 0, seen |-> "PAID", cur |-> "NONE",
         latest |-> 0, to |-> "none"]

Init ==
  /\ order = "PAID"
  /\ status = [s \in Shipments |-> "NONE"]
  /\ setBy = [s \in Shipments |-> 0]
  /\ scans = [s \in Shipments |-> {}]
  /\ journey = [s \in Shipments |-> <<>>]
  /\ refund = FALSE
  /\ lock = NoOne
  /\ worker = [w \in Workers |-> Idle]

At(w, place) == worker[w].at = place
Set(w, t) == worker' = [worker EXCEPT ![w] = t]
Goto(w, place) == worker' = [worker EXCEPT ![w].at = place]
CanStart(w, op) == At(w, "idle") /\ op \in Operations
Exists(s) == status[s] # "NONE"
Newest(s) == IF scans[s] = {} THEN 0 ELSE CHOOSE n \in scans[s] : \A m \in scans[s] : m <= n
ScanStatus(s, n) == journey[s][n]

-----------------------------------------------------------------------------
(* The courier.  Scan n of a shipment happened before scan n + 1.          *)

Position(s) == IF journey[s] = <<>> THEN "LABEL_CREATED" ELSE journey[s][Len(journey[s])]

Travel(s, st) ==
  /\ s \in Courier /\ Exists(s)
  /\ Len(journey[s]) < MaxScans
  /\ st \in Transitions(Position(s)) \cap Reported
  /\ journey' = [journey EXCEPT ![s] = Append(@, st)]
  /\ UNCHANGED <<order, status, setBy, scans, lock, worker, refund>>

-----------------------------------------------------------------------------
(* applyCourierEvent.  A report that fails is retried by the queue, and    *)
(* any report may be delivered again.                                      *)

Find(w, s, n) ==
  /\ CanStart(w, "track")
  /\ s \in Courier /\ Exists(s) /\ n \in DOMAIN journey[s]
  /\ LET st == ScanStatus(s, n)
         t == [Idle EXCEPT !.s = s, !.n = n, !.seen = order] IN
     Set(w, IF (Handoff(st) \/ st = "DELIVERED") /\ order = "PAID"
            THEN [t EXCEPT !.at = "transition", !.to = "SHIPPED"]
            ELSE [t EXCEPT !.at = IF st = "DELIVERED" /\ order = "SHIPPED"
                                  THEN "count" ELSE "apply"])
  /\ UNCHANGED <<order, status, setBy, scans, journey, lock, refund>>

\* The reads of transition() before its transaction: an order that cannot go
\* there refuses, and none is shipped while it is refunded.
CanMove(from, to) ==
  /\ to = "SHIPPED" => ~refund
  /\ <<from, to>> \in {<<to, to>>, <<"PAID", "SHIPPED">>, <<"SHIPPED", "DELIVERED">>}

ReadOrder(w) ==
  /\ At(w, "transition")
  /\ IF CanMove(order, worker[w].to)
     THEN Set(w, [worker[w] EXCEPT !.at = "lock", !.seen = order])
     ELSE Set(w, Idle)
  /\ UNCHANGED <<order, status, setBy, scans, journey, lock, refund>>

\* SELECT ... FOR UPDATE: go on if the status is the one read before, or the
\* target already.
LockOrder(w) ==
  /\ At(w, "lock") /\ lock = NoOne
  /\ IF /\ order \in {worker[w].seen, worker[w].to}
        /\ worker[w].to = "SHIPPED" => ~refund
     THEN /\ lock' = w
          /\ Goto(w, IF worker[w].s = NoOne THEN "admin"
                     ELSE IF worker[w].to = "SHIPPED" /\ ScanStatus(worker[w].s, worker[w].n) = "DELIVERED"
                     THEN "commit" ELSE "apply")
     ELSE Set(w, Idle) /\ UNCHANGED lock
  /\ UNCHANGED <<order, status, setBy, scans, journey, refund>>

\* A delivered parcel completes the order when no other shipment is open.
Open(st) == st \notin {"NONE", "DELIVERED", "CANCELLED"}
CountOpen(w) ==
  LET s == worker[w].s
      others == {x \in Shipments \ {s} : Open(status[x])} IN
  /\ At(w, "count")
  /\ Set(w, IF others = {}
            THEN [worker[w] EXCEPT !.at = "transition", !.to = "DELIVERED"]
            ELSE [worker[w] EXCEPT !.at = "apply", !.to = "none"])
  /\ UNCHANGED <<order, status, setBy, scans, journey, lock, refund>>

\* applyEventInTransaction, its reads: a scan that is stored already changes
\* nothing.
ReadShipment(w) ==
  LET t == worker[w] IN
  /\ At(w, "apply")
  /\ Set(w, IF t.n \in scans[t.s]
            THEN [t EXCEPT !.at = IF t.to = "none" THEN "idle" ELSE "commit", !.cur = "NONE"]
            ELSE [t EXCEPT !.at = "commit", !.cur = status[t.s], !.latest = Newest(t.s)])
  /\ UNCHANGED <<order, status, setBy, scans, journey, lock, refund>>

\* updateMany where status is the one read.
StillAnything(s, cur) == TRUE
StillAt(s, cur) == status[s] = cur

Applied(t) ==
  LET st == ScanStatus(t.s, t.n) IN
  /\ t.cur # "NONE"
  /\ t.n >= t.latest /\ CanTransition(t.cur, st)
  /\ StillAt(t.s, t.cur)

\* A delivered parcel of an order that was shipped just now: the order may be
\* complete as well.
AfterShipped == "count"

\* The commit of a scan: the status moves if it may, the scan is stored in any
\* case, and the order moves with them.  The unique index on the scan makes
\* the second of two commits of one scan fail.
Commit(w) ==
  LET t == worker[w]  st == ScanStatus(t.s, t.n) IN
  /\ At(w, "commit")
  /\ IF t.cur # "NONE" /\ t.n \in scans[t.s]
     THEN Set(w, Idle) /\ UNCHANGED <<order, status, setBy, scans>>
     ELSE /\ status' = IF Applied(t) THEN [status EXCEPT ![t.s] = st] ELSE status
          /\ setBy' = IF Applied(t) THEN [setBy EXCEPT ![t.s] = t.n] ELSE setBy
          /\ scans' = IF t.cur # "NONE" THEN [scans EXCEPT ![t.s] = @ \cup {t.n}] ELSE scans
          /\ order' = IF t.to = "none" THEN order ELSE t.to
          /\ Set(w, IF t.to = "SHIPPED" /\ st = "DELIVERED"
                    THEN [t EXCEPT !.at = AfterShipped] ELSE Idle)
  /\ lock' = IF lock = w THEN NoOne ELSE lock
  /\ UNCHANGED <<journey, refund>>

-----------------------------------------------------------------------------
(* The administrators.                                                     *)

\* bookOrderWithCourier reads a paid order; the courier answers later, and
\* only then is the shipment made.
StartBook(w, s) ==
  /\ CanStart(w, "track")
  /\ s \in Courier /\ ~Exists(s) /\ order = "PAID"
  /\ Set(w, [Idle EXCEPT !.at = "book", !.s = s])
  /\ UNCHANGED <<order, status, setBy, scans, journey, refund, lock>>

\* The courier's own word for it is NEW.
Booked == "LABEL_CREATED"

FinishBook(w) ==
  /\ At(w, "book") /\ ~Exists(worker[w].s)
  /\ status' = [status EXCEPT ![worker[w].s] = Booked]
  /\ Set(w, Idle)
  /\ UNCHANGED <<order, setBy, scans, journey, refund, lock>>

\* Manual dispatch, and delivery by hand: transitions with their own work.
StartAdmin(w, op, to) ==
  /\ CanStart(w, op)
  /\ op = "dispatch" => order \in {"PAID", "SHIPPED"}
  /\ Set(w, [Idle EXCEPT !.at = "transition", !.to = to])
  /\ UNCHANGED <<order, status, setBy, scans, journey, lock, refund>>

\* createManualShipment.
Dispatch(w, s) ==
  /\ At(w, "admin") /\ worker[w].to = "SHIPPED"
  /\ s \in Manual /\ ~Exists(s)
  /\ status' = [status EXCEPT ![s] = "IN_TRANSIT"]
  /\ order' = "SHIPPED"
  /\ lock' = NoOne
  /\ Set(w, Idle)
  /\ UNCHANGED <<setBy, scans, journey, refund>>

\* markOpenShipmentsDelivered.
DeliverByHand(w) ==
  /\ At(w, "admin") /\ worker[w].to = "DELIVERED"
  /\ status' = [s \in Shipments |->
       IF Open(status[s]) /\ status[s] # "RETURNED" THEN "DELIVERED" ELSE status[s]]
  /\ order' = "DELIVERED"
  /\ lock' = NoOne
  /\ Set(w, Idle)
  /\ UNCHANGED <<setBy, scans, journey, refund>>

\* No tracking number is free: the unique index refuses, all rolls back.
RefuseDispatch(w) ==
  /\ At(w, "admin") /\ worker[w].to = "SHIPPED"
  /\ \A s \in Manual : Exists(s)
  /\ lock' = NoOne
  /\ Set(w, Idle)
  /\ UNCHANGED <<order, status, setBy, scans, journey, refund>>

\* cancelCourierShipment: the status is checked, the courier is asked, and
\* then the row is updated by its id alone.
StartCancel(w, s) ==
  /\ CanStart(w, "cancel")
  /\ status[s] \in {"LABEL_CREATED", "DELIVERY_FAILED"}
  /\ Set(w, [Idle EXCEPT !.at = "cancel", !.s = s])
  /\ UNCHANGED <<order, status, setBy, scans, journey, lock, refund>>

FinishCancel(w) ==
  /\ At(w, "cancel")
  /\ status' = [status EXCEPT ![worker[w].s] = "CANCELLED"]
  /\ Set(w, Idle)
  /\ UNCHANGED <<order, setBy, scans, journey, lock, refund>>

\* The courier refuses, or the process dies, anywhere.
GiveUp(w) ==
  /\ ~At(w, "idle")
  /\ lock' = IF lock = w THEN NoOne ELSE lock
  /\ Set(w, Idle)
  /\ UNCHANGED <<order, status, setBy, scans, journey, refund>>

\* A refund is created, is given up, or its finalization moves the order.
StartRefund ==
  /\ "refund" \in Operations
  /\ order \in {"PAID", "DELIVERED"} /\ lock = NoOne /\ ~refund
  /\ refund' = TRUE
  /\ UNCHANGED <<order, status, setBy, scans, journey, lock, worker>>

EndRefund ==
  /\ refund /\ lock = NoOne /\ order # "REFUNDED"
  /\ \/ refund' = FALSE /\ UNCHANGED order
     \/ order' = "REFUNDED" /\ UNCHANGED refund
  /\ UNCHANGED <<status, setBy, scans, journey, lock, worker>>

Continue(w) ==
  \/ ReadOrder(w) \/ LockOrder(w) \/ CountOpen(w) \/ ReadShipment(w) \/ Commit(w)
  \/ DeliverByHand(w) \/ RefuseDispatch(w) \/ FinishCancel(w)
  \/ FinishBook(w)
  \/ \E s \in Shipments : Dispatch(w, s)

Start(w) ==
  \/ \E s \in Shipments : StartBook(w, s) \/ StartCancel(w, s)
  \/ \E s \in Shipments, n \in 1..MaxScans : Find(w, s, n)
  \/ StartAdmin(w, "dispatch", "SHIPPED") \/ StartAdmin(w, "deliver", "DELIVERED")

Next ==
  \/ \E w \in Workers : Start(w) \/ Continue(w) \/ GiveUp(w)
  \/ \E s \in Shipments, st \in Statuses : Travel(s, st)
  \/ StartRefund \/ EndRefund

Spec == Init /\ [][Next]_vars

-----------------------------------------------------------------------------
(* Properties.                                                             *)

OrderStates == {"PAID", "SHIPPED", "DELIVERED", "REFUNDED"}

TypeOK ==
  /\ order \in OrderStates
  /\ status \in [Shipments -> Statuses \cup {"NONE"}]
  /\ setBy \in [Shipments -> 0..MaxScans]
  /\ scans \in [Shipments -> SUBSET (1..MaxScans)]
  /\ \A s \in Shipments : DOMAIN journey[s] \subseteq 1..MaxScans
  /\ refund \in BOOLEAN
  /\ lock \in Workers \cup {NoOne}
  /\ worker \in [Workers -> [at : {"idle", "transition", "lock", "count", "apply",
                                   "commit", "admin", "cancel", "book"},
                             s : Shipments \cup {NoOne}, n : 0..MaxScans,
                             seen : OrderStates, cur : Statuses \cup {"NONE"},
                             latest : 0..MaxScans, to : OrderStates \cup {"none"}]]

\* Reports applied by several workers at once move a shipment only along the
\* transition table: what was delivered, returned or cancelled stays so.
OnlyAdvances ==
  \A s \in Shipments : Exists(s) => CanTransition(status[s], status'[s])

\* A parcel the courier has picked up belongs to an order that was shipped:
\* scan and order change together, so such an order cannot be refunded as
\* not yet shipped.
HandoffMeansShipped ==
  \A s \in Shipments :
    status[s] \in {"PICKED_UP", "IN_TRANSIT", "OUT_FOR_DELIVERY", "DELIVERED"} => order # "PAID"

\* When the courier's reports have all been applied and every active shipment
\* is delivered, the order is completed.
AllDelivered ==
  /\ \E s \in Shipments : status[s] = "DELIVERED"
  /\ \A s \in Shipments : status[s] \in {"NONE", "DELIVERED", "CANCELLED"}
Applying == \E w \in Workers : ~At(w, "idle")
DeliveryCompletes == AllDelivered /\ ~Applying => order # "SHIPPED"
=============================================================================
