----------------------------- MODULE LockOrder -----------------------------
(***************************************************************************)
(* The row locks the transactions of orders take, and the order in which   *)
(* they take them.                                                         *)
(*   checkout/checkout.service.ts   createPendingOrder: the variants of    *)
(*                                  the cart, sorted, then the coupon      *)
(*   orders/stateMachine.ts         transition: the order, the variants in *)
(*                                  the order its items are read back in,  *)
(*                                  the coupon and the payment             *)
(*   refunds/refund.service.ts      acquireRefundIntent, applyProvider-    *)
(*                                  Refund, finalizeFullyRefundedOrder     *)
(*   jobs/paymentEvents.ts          the transaction of an attempt          *)
(* A transaction locks its rows one after another, waits for a row another *)
(* one holds, and gives all of them up at its end.  Of transactions that   *)
(* wait in a circle PostgreSQL aborts one.                                 *)
(***************************************************************************)
EXTENDS Naturals, Sequences, FiniteSets

CONSTANTS
  Orders, Coupons,
  NumVariants, \* variants are numbered in the order of localeCompare
  Carts,       \* the sets of variants that carts have
  ItemOrders,  \* the sequences in which an order's items may be read back
  Workers,     \* requests and jobs at once
  MaxBegun     \* bound on the transactions begun

Variants == 1..NumVariants

ASSUME VariantsAssumption == NumVariants \in Nat
ASSUME CartsAssumption == Carts \subseteq SUBSET Variants
ASSUME ItemsAssumption ==
  \A s \in ItemOrders :
    /\ s \in Seq(Variants)
    /\ \A i, j \in 1..Len(s) : s[i] = s[j] => i = j
ASSUME BoundAssumption == MaxBegun \in Nat

VARIABLES
  tx,       \* each worker's transaction: its rows and how many it has locked
  waiting,  \* the workers that wait for a row, in the order they came
  begun

vars == <<tx, waiting, begun>>

Order(o) == <<"order", o>>
Payment(o) == <<"payment", o>>
Variant(v) == <<"variant", v>>
Coupon(c) == <<"coupon", c>>

Idle == [at |-> "idle", kind |-> "none", order |-> "none", rows |-> <<>>, got |-> 0]

Init == tx = [w \in Workers |-> Idle] /\ waiting = <<>> /\ begun = 0

Running(w) == tx[w].at = "run"
Holds(w, r) == \E i \in 1..tx[w].got : tx[w].rows[i] = r
More(w) == Running(w) /\ tx[w].got < Len(tx[w].rows)
Wanted(w) == tx[w].rows[tx[w].got + 1]
Free(r) == \A u \in Workers : ~Holds(u, r)

WaitsFor(w, u) == u # w /\ More(w) /\ Holds(u, Wanted(w))

-----------------------------------------------------------------------------
(* The transactions.                                                       *)

Ascending(s) == \A i, j \in 1..Len(s) : i < j => s[i] < s[j]

AnyOrder(s) == TRUE
\* createPendingOrder sorts the variants of the cart before it locks them.
Sorted(s) == Ascending(s)

Listings(set) ==
  {s \in [1..Cardinality(set) -> set] : \A v \in set : \E i \in 1..Cardinality(set) : s[i] = v}

VariantRows(s) == [i \in 1..Len(s) |-> Variant(s[i])]

Begin(w, kind, o, rows) ==
  /\ tx[w].at = "idle" /\ begun < MaxBegun /\ begun' = begun + 1
  /\ tx' = [tx EXCEPT ![w] = [at |-> "run", kind |-> kind, order |-> o, rows |-> rows, got |-> 0]]
  /\ UNCHANGED waiting

CouponRows == {<<>>} \cup {<<Coupon(c)>> : c \in Coupons}

Checkout(w) ==
  \E cart \in Carts, c \in CouponRows : \E s \in Listings(cart) :
    Sorted(s) /\ Begin(w, "checkout", "none", VariantRows(s) \o c)

\* transition() to CANCELLED or FAILED: it releases what was reserved.
Release(w, o) ==
  \E s \in ItemOrders, c \in CouponRows :
    Begin(w, "release", o, <<Order(o)>> \o VariantRows(s) \o c \o <<Payment(o)>>)

\* transition() to PAID, the transaction of an attempt, acquireRefundIntent.
PaymentOfOrder(w, o) == Begin(w, "payment", o, <<Order(o), Payment(o)>>)

\* applyProviderRefund: the payment alone.
RefundResult(w, o) == Begin(w, "result", o, <<Payment(o)>>)

\* finalizeFullyRefundedOrder: the payment is locked by its transactionWork,
\* before transition() releases the stock of an order that was not shipped.
RefundFinal(w, o) ==
  \E s \in ItemOrders :
    Begin(w, "final", o, <<Order(o), Payment(o)>> \o VariantRows(s))

Waits(w) == \E i \in 1..Len(waiting) : waiting[i] = w
Leave(w) == waiting' = SelectSeq(waiting, LAMBDA u : u # w)

Wait(w) ==
  /\ More(w) /\ ~Free(Wanted(w)) /\ ~Waits(w)
  /\ waiting' = Append(waiting, w)
  /\ UNCHANGED <<tx, begun>>

\* A row that is free goes to the one that has waited for it longest.
First(w) ==
  \A i \in 1..Len(waiting) :
    waiting[i] # w /\ Wanted(waiting[i]) = Wanted(w) =>
      \E j \in 1..i : waiting[j] = w

Lock(w) ==
  /\ More(w) /\ Free(Wanted(w)) /\ First(w)
  /\ tx' = [tx EXCEPT ![w].got = @ + 1]
  /\ Leave(w)
  /\ UNCHANGED begun

Commit(w) ==
  /\ Running(w) /\ tx[w].got = Len(tx[w].rows)
  /\ tx' = [tx EXCEPT ![w] = Idle]
  /\ UNCHANGED <<waiting, begun>>

-----------------------------------------------------------------------------
(* Deadlocks.                                                              *)

\* Each of these workers waits for a row that another of them holds.
Circle(set) == set # {} /\ \A w \in set : \E u \in set : WaitsFor(w, u)

\* The database aborts a transaction of the circle, not one that waits for it.
Abort(w) ==
  /\ \E set \in SUBSET Workers :
       /\ w \in set /\ Circle(set) /\ \A u \in set : Waits(u)
       /\ \A part \in SUBSET set : Circle(part) => part = set
  /\ tx' = [tx EXCEPT ![w].at = "aborted", ![w].got = 0]
  /\ Leave(w)
  /\ UNCHANGED begun

\* A job's transaction is begun again, by the queue or by the next scan.
MayRetry(w) == tx[w].at = "aborted"
Again(w) ==
  /\ MayRetry(w)
  /\ tx' = [tx EXCEPT ![w].at = "run"]
  /\ UNCHANGED <<waiting, begun>>

\* A checkout that failed is the customer's to try again.
GiveUp(w) ==
  /\ tx[w].at = "aborted" /\ tx[w].kind = "checkout"
  /\ tx' = [tx EXCEPT ![w] = Idle]
  /\ UNCHANGED <<waiting, begun>>

Next ==
  \E w \in Workers :
    \/ Checkout(w)
    \/ \E o \in Orders : \/ Release(w, o) \/ PaymentOfOrder(w, o)
                         \/ RefundResult(w, o) \/ RefundFinal(w, o)
    \/ Wait(w) \/ Lock(w) \/ Commit(w) \/ Abort(w) \/ Again(w) \/ GiveUp(w)

Spec == Init /\ [][Next]_vars

-----------------------------------------------------------------------------
(* Properties.                                                             *)

TypeOK ==
  /\ begun \in 0..MaxBegun
  /\ \A w \in Workers : /\ tx[w].at \in {"idle", "run", "aborted"}
                        /\ tx[w].got \in 0..Len(tx[w].rows)
  /\ \A i \in 1..Len(waiting) :
       More(waiting[i]) /\ \A j \in 1..Len(waiting) : waiting[i] = waiting[j] => i = j

\* No transactions ever wait for each other in a circle, as long as the items
\* of an order are read back in the order of their variants: checkout sorts
\* the variants of its cart "to prevent deadlocks between carts containing
\* the same SKUs in a different insertion order" (checkout.service.ts), and
\* the order, payment and coupon rows of the others do not add a circle.
NoDeadlock == \A set \in SUBSET Workers : ~Circle(set)
=============================================================================
