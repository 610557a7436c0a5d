-------------------------- MODULE OrderTransitions --------------------------
(***************************************************************************)
(* The order state machine of backend/src/modules/orders/stateMachine.ts: *)
(* the table of legal moves and the side effects transition() attaches to *)
(* a move.  Everything here is a constant operator; the modules that model *)
(* the callers of transition() extend it.                                  *)
(***************************************************************************)

\* NONE is not a stored status: it stands for an order row that does not exist.
NoOrder == "NONE"

OrderStatuses ==
  {"PENDING", "CONFIRMED", "PAID", "SHIPPED", "DELIVERED",
   "CANCELLED", "FAILED", "REFUNDED"}

Transitions ==
  [PENDING   |-> {"PAID", "CANCELLED", "FAILED"},
   CONFIRMED |-> {"SHIPPED", "CANCELLED"},
   PAID      |-> {"SHIPPED", "REFUNDED"},
   SHIPPED   |-> {"DELIVERED"},
   DELIVERED |-> {"REFUNDED"},
   FAILED    |-> {},
   CANCELLED |-> {},
   REFUNDED  |-> {}]

CanTransition(from, to) == to \in Transitions[from]

\* Stock goes back when an order that never shipped is abandoned or refunded.
ReleasesStock(from, to) ==
  /\ from \in {"PENDING", "CONFIRMED", "PAID"}
  /\ to \in {"CANCELLED", "FAILED", "REFUNDED"}

RestoresCouponOnRefund(from, to) == ReleasesStock(from, to)

\* Promotion usage goes back only when the order was never paid.
RestoresCoupon(from, to) ==
  /\ from \in {"PENDING", "CONFIRMED"}
  /\ to \in {"CANCELLED", "FAILED"}

=============================================================================
