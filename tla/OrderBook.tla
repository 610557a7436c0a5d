------------------------------ MODULE OrderBook ------------------------------
(***************************************************************************)
(* What the shop promises about its orders, whichever of the customer, the *)
(* provider's webhooks and the jobs moves them and however often: every    *)
(* order is in one place of its life, the units and the coupon uses it     *)
(* stands on are its own until it gives them back once, and no order is    *)
(* paid without money the provider captured for it.  Every move is one     *)
(* step here; CheckoutPayment makes it of reads, locks and retries, with   *)
(* crashes in between.                                                     *)
(***************************************************************************)
EXTENDS Naturals

CONSTANTS
  Orders, Variants,
  Demand,        \* the units an order asks for
  InitStock,     \* the units on the shelf at the start
  CouponOrders,  \* the orders that use the coupon
  MaxUses        \* how often it can be used

VARIABLES
  order,     \* the place of each order in its life
  shelf,     \* the units of each variant nobody holds
  used,      \* the uses of the coupon
  captured   \* the orders the provider captured money for

book == <<order, shelf, used, captured>>

Init ==
  /\ order = [o \in Orders |-> "NONE"]
  /\ shelf = InitStock
  /\ used = 0
  /\ captured = {}

Move(o, to) == order' = [order EXCEPT ![o] = to]
TakesUnits(o) == shelf' = [v \in Variants |-> shelf[v] - Demand[o][v]]
ReturnsUnits(o) == shelf' = [v \in Variants |-> shelf[v] + Demand[o][v]]

Place(o) ==
  /\ order[o] = "NONE" /\ Move(o, "PENDING")
  /\ \A v \in Variants : shelf[v] >= Demand[o][v]
  /\ TakesUnits(o)
  /\ o \in CouponOrders => used < MaxUses
  /\ used' = IF o \in CouponOrders THEN used + 1 ELSE used
  /\ UNCHANGED captured

\* Cancelled by the customer or by time, or failed at the provider.
Abandon(o) ==
  /\ order[o] = "PENDING" /\ (Move(o, "CANCELLED") \/ Move(o, "FAILED"))
  /\ ReturnsUnits(o)
  /\ used' = IF o \in CouponOrders THEN used - 1 ELSE used
  /\ UNCHANGED captured

Capture(o) ==
  /\ order[o] # "NONE"
  /\ captured' = captured \cup {o}
  /\ UNCHANGED <<order, shelf, used>>

Pay(o) ==
  /\ order[o] = "PENDING" /\ o \in captured /\ Move(o, "PAID")
  /\ UNCHANGED <<shelf, used, captured>>

Ship(o) ==
  /\ order[o] = "PAID" /\ Move(o, "SHIPPED")
  /\ UNCHANGED <<shelf, used, captured>>

Deliver(o) ==
  /\ order[o] = "SHIPPED" /\ Move(o, "DELIVERED")
  /\ UNCHANGED <<shelf, used, captured>>

\* Units come back from an order that was not shipped; the coupon does not.
Refund(o) ==
  /\ Move(o, "REFUNDED")
  /\ \/ order[o] = "PAID" /\ ReturnsUnits(o)
     \/ order[o] = "DELIVERED" /\ UNCHANGED shelf
  /\ UNCHANGED <<used, captured>>

Next ==
  \E o \in Orders :
    Place(o) \/ Abandon(o) \/ Capture(o) \/ Pay(o) \/ Ship(o) \/ Deliver(o) \/ Refund(o)

Spec == Init /\ [][Next]_book
=============================================================================
