--------------------------- MODULE CourierBooking ---------------------------
(***************************************************************************)
(* Booking the courier for one order: a saga of provider calls, each       *)
(* followed by an update of the booking row, resumed from the row when the *)
(* administrator tries again.  Calls fail, their answers get lost, a call  *)
(* given up after its timeout is still carried out later, the server stops *)
(* anywhere, and two administrators may book at once.                      *)
(*                                                                         *)
(*   bookOrderWithCourier, cancelCourierShipment                           *)
(*                           modules/fulfillment/courierBooking.service.ts *)
(*   ShiprocketProvider      modules/fulfillment/shiprocket.provider.ts    *)
(*   POST courier-booking, cancel                                          *)
(*                           modules/fulfillment/adminFulfillment.routes.ts*)
(*                                                                         *)
(* A worker works on its copy of the booking row, which every update       *)
(* returns whole.  The courier's orders are numbered as it makes them; an  *)
(* AWB carries the number of the courier's order it was assigned to, and   *)
(* asking for the AWB, label or pickup of an order again gives the same.   *)
(***************************************************************************)
EXTENDS Naturals, FiniteSets

CONSTANTS
  Workers,     \* requests of administrators
  MaxOrders,   \* bound on the orders made at the courier
  MaxFaults,   \* bound on lost answers, failed calls and stops
  SlowCalls,   \* an abandoned call may still be carried out
  Cancels      \* administrators cancel shipments

ConstantsAssumption ==
  /\ {MaxOrders, MaxFaults} \subseteq Nat
  /\ {SlowCalls, Cancels} \subseteq BOOLEAN

VARIABLES
  bookable,    \* the order is PAID or CONFIRMED
  booking,     \* the CourierBooking row of the order
  shipments,   \* the Shipment rows of the courier
  created,     \* courier: how many orders were made under the order's reference
  awbs,        \* courier: orders an AWB was assigned to
  pickups,     \* courier: orders with a pickup
  cancelled,   \* courier: AWBs cancelled
  abandoned,   \* courier: order creations given up and not yet carried out
  faults,      \* faults so far
  worker       \* local state of each worker

courier == <<created, awbs, pickups, cancelled, abandoned>>
vars == <<bookable, booking, shipments, courier, faults, worker>>

\* po: providerOrderId and providerShipmentId; ship: the shipment's po.
NoBooking == [status |-> "NONE", po |-> 0, awb |-> 0, ship |-> 0, label |-> FALSE]
\* row: the worker's copy of the booking; got: the answer it has not stored.
Idle == [at |-> "idle", row |-> NoBooking, got |-> 0]

Init ==
  /\ bookable = TRUE
  /\ booking = NoBooking
  /\ shipments = {}
  /\ created = 0 /\ awbs = {} /\ pickups = {} /\ cancelled = {}
  /\ abandoned = 0
  /\ faults = 0
  /\ worker = [w \in Workers |-> Idle]

At(w, place) == worker[w].at = place
Set(w, t) == worker' = [worker EXCEPT ![w] = t]
Goto(w, place) == worker' = [worker EXCEPT ![w].at = place]
Row(w) == worker[w].row
Shipment(po) == CHOOSE x \in shipments : x.po = po

-----------------------------------------------------------------------------
(* The booking.                                                            *)

\* The order is checked, and the booking read: one that is ready is answered
\* as it is.
Begin(w) ==
  /\ At(w, "idle")
  /\ bookable
  /\ ~(booking.status = "READY" /\ booking.ship # 0)
  /\ Set(w, [Idle EXCEPT !.at = IF booking.status = "NONE" THEN "insert" ELSE "count"])
  /\ UNCHANGED <<bookable, booking, shipments, courier, faults>>

\* One booking per order and provider.
Insert(w) ==
  /\ At(w, "insert")
  /\ IF booking.status = "NONE"
     THEN booking' = [NoBooking EXCEPT !.status = "PENDING"] /\ Goto(w, "count")
     ELSE UNCHANGED booking /\ Set(w, Idle)
  /\ UNCHANGED <<bookable, shipments, courier, faults>>

\* The first step the row does not show as done; the pickup is asked for in
\* any case.
NextStepCreate(row) ==
  IF row.po = 0        THEN "create"
  ELSE IF row.awb = 0  THEN "awb"
  ELSE IF row.ship = 0 THEN "ship"
  ELSE IF ~row.label   THEN "label"
  ELSE "pickup"
NextStep(row) ==
  IF row.po = 0        THEN "find"
  ELSE IF row.awb = 0  THEN "awb"
  ELSE IF row.ship = 0 THEN "ship"
  ELSE IF ~row.label   THEN "label"
  ELSE "pickup"

\* The whole row comes back from an update.
Continue(w, row) == Set(w, [at |-> NextStep(row), row |-> row, got |-> 0])

CountAttempt(w) ==
  /\ At(w, "count")
  /\ Continue(w, booking)
  /\ UNCHANGED <<bookable, booking, shipments, courier, faults>>

\* findOrder ?? createOrder.
FindOrder(w) ==
  /\ At(w, "find")
  /\ IF created = 0
     THEN Goto(w, "create")
     ELSE \E po \in 1..created : Set(w, [worker[w] EXCEPT !.at = "saveOrder", !.got = po])
  /\ UNCHANGED <<bookable, booking, shipments, courier, faults>>

Make == created < MaxOrders /\ created' = created + 1

CreateOrder(w) ==
  /\ At(w, "create")
  /\ Make
  /\ Set(w, [worker[w] EXCEPT !.at = "saveOrder", !.got = created + 1])
  /\ UNCHANGED <<bookable, booking, shipments, awbs, pickups, cancelled, abandoned, faults>>

SaveOrder(w) ==
  LET row == [booking EXCEPT !.status = "ORDER_CREATED", !.po = worker[w].got] IN
  /\ At(w, "saveOrder")
  /\ booking' = row
  /\ Continue(w, row)
  /\ UNCHANGED <<bookable, shipments, courier, faults>>

AssignAwb(w) ==
  /\ At(w, "awb")
  /\ awbs' = awbs \cup {Row(w).po}
  /\ Set(w, [worker[w] EXCEPT !.at = "saveAwb", !.got = Row(w).po])
  /\ UNCHANGED <<bookable, booking, shipments, created, pickups, cancelled, abandoned, faults>>

SaveAwb(w) ==
  LET row == [booking EXCEPT !.status = "AWB_ASSIGNED", !.awb = worker[w].got] IN
  /\ At(w, "saveAwb")
  /\ booking' = row
  /\ Continue(w, row)
  /\ UNCHANGED <<bookable, shipments, courier, faults>>

\* One transaction makes the shipment and ties it to the booking; a courier's
\* order and an AWB have one shipment each.
CreateShipment(w) ==
  LET row == [booking EXCEPT !.ship = Row(w).po]
      new == [po |-> Row(w).po, awb |-> Row(w).awb, status |-> "LABEL_CREATED", label |-> FALSE] IN
  /\ At(w, "ship")
  /\ IF \A x \in shipments : x.po # new.po /\ x.awb # new.awb
     THEN shipments' = shipments \cup {new} /\ booking' = row /\ Continue(w, row)
     ELSE UNCHANGED <<shipments, booking>> /\ Goto(w, "failed")
  /\ UNCHANGED <<bookable, courier, faults>>

Update(po, x) == (shipments \ {Shipment(po)}) \cup {x}

GetLabel(w) ==
  LET row == [booking EXCEPT !.label = TRUE]
      po == Row(w).ship IN
  /\ At(w, "label")
  /\ shipments' = Update(po, [Shipment(po) EXCEPT !.label = TRUE])
  /\ booking' = row
  /\ Continue(w, row)
  /\ UNCHANGED <<bookable, courier, faults>>

SchedulePickup(w) ==
  /\ At(w, "pickup")
  /\ pickups' = pickups \cup {Row(w).po}
  /\ Goto(w, "saveReady")
  /\ UNCHANGED <<bookable, booking, shipments, created, awbs, cancelled, abandoned, faults>>

SaveReady(w) ==
  /\ At(w, "saveReady")
  /\ booking' = [booking EXCEPT !.status = "READY"]
  /\ Set(w, Idle)
  /\ UNCHANGED <<bookable, shipments, courier, faults>>

\* The catch block: by the booking's id alone.
Failure == "FAILED"

SaveFailed(w) ==
  /\ At(w, "failed")
  /\ booking' = [booking EXCEPT !.status = Failure]
  /\ Set(w, Idle)
  /\ UNCHANGED <<bookable, shipments, courier, faults>>

-----------------------------------------------------------------------------
(* Cancellation.                                                           *)

\* The shipment the page shows, not yet handed over: the courier cancels its
\* AWB, and a transaction records it.
Cancel(w) ==
  /\ Cancels
  /\ At(w, "idle")
  /\ \E x \in shipments :
       /\ x.status = "LABEL_CREATED" /\ x.po = booking.ship
       /\ cancelled' = cancelled \cup {x.awb}
       /\ Set(w, [Idle EXCEPT !.at = "saveCancel", !.got = x.po])
  /\ UNCHANGED <<bookable, booking, shipments, created, awbs, pickups, abandoned, faults>>

SaveCancel(w) ==
  LET po == worker[w].got IN
  /\ At(w, "saveCancel")
  /\ shipments' = Update(po, [Shipment(po) EXCEPT !.status = "CANCELLED"])
  /\ booking' = [booking EXCEPT !.status = "CANCELLED"]
  /\ Set(w, Idle)
  /\ UNCHANGED <<bookable, courier, faults>>

-----------------------------------------------------------------------------
(* Faults.                                                                 *)

Fault == faults < MaxFaults /\ faults' = faults + 1

Calling == {"find", "create", "awb", "label", "pickup"}

\* The courier refuses a call, or the answer is lost: with the call carried
\* out, not carried out, or carried out later.
CallFails(w) ==
  /\ worker[w].at \in Calling
  /\ Fault
  /\ Goto(w, "failed")
  /\ \/ UNCHANGED courier
     \/ At(w, "create") /\ Make
        /\ UNCHANGED <<awbs, pickups, cancelled, abandoned>>
     \/ At(w, "create") /\ SlowCalls /\ abandoned' = abandoned + 1
        /\ UNCHANGED <<created, awbs, pickups, cancelled>>
     \/ At(w, "awb") /\ awbs' = awbs \cup {Row(w).po}
        /\ UNCHANGED <<created, pickups, cancelled, abandoned>>
     \/ At(w, "pickup") /\ pickups' = pickups \cup {Row(w).po}
        /\ UNCHANGED <<created, awbs, cancelled, abandoned>>
  /\ UNCHANGED <<bookable, booking, shipments>>

LateOrder ==
  /\ abandoned > 0
  /\ abandoned' = abandoned - 1
  /\ Make
  /\ UNCHANGED <<bookable, booking, shipments, awbs, pickups, cancelled, faults, worker>>

\* The server stops.
Stop(w) ==
  /\ ~At(w, "idle")
  /\ Fault
  /\ Set(w, Idle)
  /\ UNCHANGED <<bookable, booking, shipments, courier>>

\* The order is shipped by hand, or refunded.
Leave ==
  /\ bookable
  /\ bookable' = FALSE
  /\ UNCHANGED <<booking, shipments, courier, faults, worker>>

Step(w) ==
  \/ Begin(w) \/ Insert(w) \/ CountAttempt(w) \/ FindOrder(w) \/ CreateOrder(w)
  \/ SaveOrder(w) \/ AssignAwb(w) \/ SaveAwb(w) \/ CreateShipment(w)
  \/ GetLabel(w) \/ SchedulePickup(w) \/ SaveReady(w)
  \/ SaveFailed(w) \/ SaveCancel(w)

Next ==
  \/ \E w \in Workers : Step(w) \/ Cancel(w) \/ CallFails(w) \/ Stop(w)
  \/ LateOrder \/ Leave

Spec == Init /\ [][Next]_vars

-----------------------------------------------------------------------------
(* Properties.                                                             *)

Places == {"idle", "insert", "count", "find", "create", "saveOrder", "awb", "saveAwb",
           "ship", "label", "pickup", "saveReady", "failed", "saveCancel"}
Rows == [status : {"NONE", "PENDING", "ORDER_CREATED", "AWB_ASSIGNED", "READY", "FAILED",
                   "CANCELLED"},
         po : 0..MaxOrders, awb : 0..MaxOrders, ship : 0..MaxOrders, label : BOOLEAN]

TypeOK ==
  /\ bookable \in BOOLEAN
  /\ booking \in Rows
  /\ \A x \in shipments : /\ {x.po, x.awb} \subseteq 1..MaxOrders
                          /\ x.status \in {"LABEL_CREATED", "CANCELLED"} /\ x.label \in BOOLEAN
  /\ created \in 0..MaxOrders
  /\ awbs \cup pickups \cup cancelled \subseteq 1..created
  /\ abandoned \in 0..MaxFaults /\ faults \in 0..MaxFaults
  /\ worker \in [Workers -> [at : Places, row : Rows, got : 0..MaxOrders]]

\* However often a booking fails and is resumed, the courier gets the order
\* once: twice only when two administrators book at the same time.
OneOrder == created <= Cardinality(Workers)

\* A booking that is answered as ready has a shipment with the AWB and label of
\* the courier's order, and a pickup that was asked for that order.
ReadyIsComplete ==
  booking.status = "READY" =>
    /\ booking.po \in pickups
    /\ \E x \in shipments : /\ x.po = booking.ship /\ x.label
                            /\ x.po = booking.po /\ x.awb = booking.awb
                            /\ booking.awb = booking.po

\* The courier is sent only for a parcel the shop has a shipment of.
PickupIsTracked == \A po \in pickups : \E x \in shipments : x.po = po
=============================================================================
