-------------------------- MODULE LockOrder_proofs --------------------------
(***************************************************************************)
(* Proof that the transactions of LockOrder never wait for each other in a *)
(* circle, when the items of orders are read back in the order of their    *)
(* variants: for every set of orders, carts and workers.                   *)
(***************************************************************************)
EXTENDS LockOrder, FiniteSetTheorems, WellFoundedInduction, TLAPS

\* The items of every order are read back in the order of their variants.
AscendingItems == \A s \in ItemOrders : Ascending(s)

Row == (({"order", "payment"} \X Orders) \cup ({"variant"} \X Variants))
         \cup ({"coupon"} \X Coupons)

Kinds == {"none", "checkout", "release", "payment", "result", "final"}

TxSet == [at : {"idle", "run", "aborted"}, kind : Kinds, order : Orders \cup {"none"},
          rows : Seq(Row), got : Nat]

\* Rows are locked from the order over the variants to the coupon.  Payments
\* have no place in this order: they are locked before or after variants.
Rank(r) == IF r[1] = "order" THEN 0
           ELSE IF r[1] = "variant" THEN r[2] ELSE NumVariants + 1

Ranked(rows) ==
  \A i, j \in 1..Len(rows) :
    i < j /\ rows[i][1] # "payment" /\ rows[j][1] # "payment" => Rank(rows[i]) < Rank(rows[j])

\* A payment is locked under its order, or alone.
Guarded(rows) ==
  \A i \in 1..Len(rows) :
    rows[i][1] = "payment" =>
      Len(rows) = 1 \/ (i > 1 /\ rows[1] = <<"order", rows[i][2]>>)

Good(rows) == rows \in Seq(Row) /\ Ranked(rows) /\ Guarded(rows)

ShapeInv ==
  /\ tx \in [Workers -> TxSet]
  /\ \A w \in Workers : tx[w].got <= Len(tx[w].rows) /\ Good(tx[w].rows)

\* A row is locked by one transaction at a time.
ExclusiveInv ==
  \A w, u \in Workers : \A i \in 1..tx[w].got, j \in 1..tx[u].got :
    tx[w].rows[i] = tx[u].rows[j] => w = u

IInv == ShapeInv /\ ExclusiveInv

-----------------------------------------------------------------------------
\* Nonempty sets of naturals have a least element.
LEMMA LeastNatural ==
  ASSUME NEW D, D \subseteq Nat, D # {}
  PROVE  \E d \in D : \A e \in D : d <= e
<1> DEFINE R == OpToRel(<, Nat)
<1>1. IsWellFoundedOn(R, Nat)
  BY NatLessThanWellFounded
<1>2. PICK x \in D : \A y \in D : ~ (<<y, x>> \in R)
  BY <1>1, WFMin
<1>3. \A m, n \in Nat : m < n => <<m, n>> \in R
  BY DEF OpToRel
<1> HIDE DEF R
<1>4. \A y \in D : ~(y < x)
  BY <1>2, <1>3
<1> QED
  BY <1>2, <1>4

\* The rows of variants in ascending order, and of a coupon.
LEMMA VariantRowsGood ==
  ASSUME NEW s \in Seq(Variants), Ascending(s)
  PROVE  /\ VariantRows(s) \in Seq(Row) /\ Len(VariantRows(s)) = Len(s)
         /\ \A i \in 1..Len(s) : VariantRows(s)[i] = <<"variant", s[i]>> /\ s[i] \in 1..NumVariants
         /\ \A i, j \in 1..Len(s) : i < j => s[i] < s[j]
<1>1. \A i \in 1..Len(s) : s[i] \in Variants /\ <<"variant", s[i]>> \in Row
  BY DEF Row
<1>2. VariantRows(s) = [i \in 1..Len(s) |-> <<"variant", s[i]>>]
  BY DEF VariantRows, Variant
<1>3. Len(s) \in Nat
  OBVIOUS
<1>4. VariantRows(s) \in Seq(Row) /\ Len(VariantRows(s)) = Len(s)
  BY <1>1, <1>2, <1>3
<1> QED
  BY <1>1, <1>2, <1>4 DEF Ascending, Variants

LEMMA CouponRowsGood ==
  ASSUME NEW c \in CouponRows
  PROVE  /\ c \in Seq(Row) /\ Len(c) \in {0, 1}
         /\ \A i \in 1..Len(c) : c[i][1] = "coupon"
<1>1. CASE c = <<>>
  BY <1>1
<1>2. CASE \E k \in Coupons : c = <<Coupon(k)>>
  <2>1. PICK k \in Coupons : c = <<Coupon(k)>>
    BY <1>2
  <2>2. Coupon(k) \in Row /\ Coupon(k)[1] = "coupon"
    BY DEF Row, Coupon
  <2> QED
    BY <2>1, <2>2
<1> QED
  BY <1>1, <1>2 DEF CouponRows

\* The rows of each kind of transaction.
LEMMA CheckoutGood ==
  ASSUME NEW s \in Seq(Variants), Ascending(s), NEW c \in CouponRows
  PROVE  Good(VariantRows(s) \o c)
<1> DEFINE rows == VariantRows(s) \o c
<1>1. rows \in Seq(Row) /\ Len(rows) = Len(s) + Len(c)
  BY VariantRowsGood, CouponRowsGood
<1>2. \A i \in 1..Len(s) : rows[i] = <<"variant", s[i]>>
  BY VariantRowsGood, CouponRowsGood
<1>3. \A k \in 1..Len(c) : rows[Len(s) + k] = c[k]
  BY VariantRowsGood, CouponRowsGood
<1> HIDE DEF rows
<1>4. \A i \in 1..Len(rows) : i > Len(s) => i = Len(s) + 1 /\ rows[i][1] = "coupon"
  <2>1. Len(s) \in Nat /\ Len(c) \in {0, 1}
    BY CouponRowsGood
  <2> QED
    BY <1>1, <1>3, <2>1, CouponRowsGood
<1>5. Ranked(rows)
  BY <1>1, <1>2, <1>4, VariantRowsGood, VariantsAssumption DEF Ranked, Rank
<1>6. Guarded(rows)
  BY <1>1, <1>2, <1>4 DEF Guarded
<1> QED
  BY <1>1, <1>5, <1>6 DEF Good, rows

LEMMA PaymentGood ==
  ASSUME NEW o \in Orders
  PROVE  Good(<<Order(o), Payment(o)>>) /\ Good(<<Payment(o)>>)
<1>1. Order(o) \in Row /\ Payment(o) \in Row
  BY DEF Order, Payment, Row
<1>2. Good(<<Order(o), Payment(o)>>)
  BY <1>1 DEF Good, Ranked, Guarded, Order, Payment
<1>3. Good(<<Payment(o)>>)
  BY <1>1 DEF Good, Ranked, Guarded, Payment
<1> QED
  BY <1>2, <1>3

LEMMA ReleaseGood ==
  ASSUME NEW s \in Seq(Variants), Ascending(s), NEW c \in CouponRows, NEW o \in Orders
  PROVE  Good(<<Order(o)>> \o VariantRows(s) \o c \o <<Payment(o)>>)
<1> DEFINE middle == VariantRows(s) \o c
           rows == <<Order(o)>> \o VariantRows(s) \o c \o <<Payment(o)>>
<1>1. Good(middle) /\ middle \in Seq(Row) /\ Len(middle) \in Nat
  BY CheckoutGood DEF Good
<1>2. Order(o) \in Row /\ Payment(o) \in Row
  BY DEF Order, Payment, Row
<1>3. rows = <<Order(o)>> \o middle \o <<Payment(o)>>
  BY <1>2, VariantRowsGood, CouponRowsGood
<1>4. rows \in Seq(Row) /\ Len(rows) = Len(middle) + 2
  BY <1>1, <1>2, <1>3
<1>5. rows[1] = Order(o) /\ rows[Len(rows)] = Payment(o)
  BY <1>1, <1>2, <1>3, <1>4
<1>6. \A i \in 1..Len(middle) : rows[i + 1] = middle[i]
  BY <1>1, <1>2, <1>3, <1>4
<1>7. \A i \in 1..Len(middle) :
        \/ middle[i][1] = "variant" /\ middle[i][2] > 0
        \/ middle[i][1] = "coupon"
  BY VariantRowsGood, CouponRowsGood
<1> HIDE DEF middle, rows
<1>8. \A i \in 1..Len(rows) :
        \/ i = 1 /\ rows[i] = Order(o)
        \/ i = Len(rows) /\ rows[i] = Payment(o)
        \/ i - 1 \in 1..Len(middle) /\ rows[i] = middle[i - 1]
  BY <1>1, <1>4, <1>5, <1>6
<1>9. Ranked(rows)
  <2> SUFFICES ASSUME NEW i \in 1..Len(rows), NEW j \in 1..Len(rows), i < j,
                      rows[i][1] # "payment", rows[j][1] # "payment"
               PROVE  Rank(rows[i]) < Rank(rows[j])
    BY DEF Ranked
  <2>1. j - 1 \in 1..Len(middle) /\ rows[j] = middle[j - 1]
    BY <1>4, <1>8 DEF Payment
  <2>2. CASE i = 1
    BY <2>1, <2>2, <1>5, <1>7, VariantsAssumption DEF Rank, Order
  <2>3. CASE i # 1
    <3>1. i - 1 \in 1..Len(middle) /\ rows[i] = middle[i - 1]
      BY <2>3, <1>4, <1>8 DEF Payment
    <3> QED
      BY <2>1, <3>1, <1>1, <1>7 DEF Good, Ranked
  <2> QED
    BY <2>2, <2>3
<1>10. Guarded(rows)
  <2> SUFFICES ASSUME NEW i \in 1..Len(rows), rows[i][1] = "payment"
               PROVE  i > 1 /\ rows[1] = <<"order", rows[i][2]>>
    BY DEF Guarded
  <2>1. i = Len(rows) /\ rows[i] = Payment(o)
    <3>1. Order(o)[1] = "order"
      BY DEF Order
    <3> QED
      BY <3>1, <1>7, <1>8
  <2> QED
    BY <2>1, <1>1, <1>4, <1>5 DEF Order, Payment
<1> QED
  BY <1>4, <1>9, <1>10 DEF Good, rows

LEMMA FinalGood ==
  ASSUME NEW s \in Seq(Variants), Ascending(s), NEW o \in Orders
  PROVE  Good(<<Order(o), Payment(o)>> \o VariantRows(s))
<1> DEFINE rows == <<Order(o), Payment(o)>> \o VariantRows(s)
<1>1. Order(o) \in Row /\ Payment(o) \in Row
  BY DEF Order, Payment, Row
<1>2. rows \in Seq(Row) /\ Len(rows) = Len(s) + 2 /\ Len(s) \in Nat
  BY <1>1, VariantRowsGood
<1>3. rows[1] = Order(o) /\ rows[2] = Payment(o)
  BY <1>1, <1>2, VariantRowsGood
<1>4. \A i \in 1..Len(rows) :
        \/ i = 1 /\ rows[i] = Order(o)
        \/ i = 2 /\ rows[i] = Payment(o)
        \/ i - 2 \in 1..Len(s) /\ rows[i] = <<"variant", s[i - 2]>> /\ s[i - 2] \in 1..NumVariants
  BY <1>1, <1>2, <1>3, VariantRowsGood
<1> HIDE DEF rows
<1>5. Ranked(rows)
  <2> SUFFICES ASSUME NEW i \in 1..Len(rows), NEW j \in 1..Len(rows), i < j,
                      rows[i][1] # "payment", rows[j][1] # "payment"
               PROVE  Rank(rows[i]) < Rank(rows[j])
    BY DEF Ranked
  <2>1. j - 2 \in 1..Len(s) /\ rows[j] = <<"variant", s[j - 2]>> /\ s[j - 2] \in 1..NumVariants
    BY <1>2, <1>4 DEF Payment
  <2>2. CASE i = 1
    BY <2>1, <2>2, <1>3 DEF Rank, Order
  <2>3. CASE i # 1
    <3>1. i - 2 \in 1..Len(s) /\ rows[i] = <<"variant", s[i - 2]>>
      BY <2>3, <1>4 DEF Payment
    <3>2. s[i - 2] < s[j - 2]
      BY <2>1, <3>1 DEF Ascending
    <3> QED
      BY <2>1, <3>1, <3>2 DEF Rank
  <2> QED
    BY <2>2, <2>3
<1>6. Guarded(rows)
  <2> SUFFICES ASSUME NEW i \in 1..Len(rows), rows[i][1] = "payment"
               PROVE  i > 1 /\ rows[1] = <<"order", rows[i][2]>>
    BY DEF Guarded
  <2>1. i = 2 /\ rows[i] = Payment(o)
    BY <1>4 DEF Order
  <2> QED
    BY <2>1, <1>3 DEF Order, Payment
<1> QED
  BY <1>2, <1>5, <1>6 DEF Good, rows

-----------------------------------------------------------------------------
(* The invariant.                                                          *)

\* A worker without a transaction.
LEMMA IdleGood == Idle \in TxSet /\ Idle.got = 0 /\ Good(Idle.rows) /\ Len(Idle.rows) = 0
<1>1. Idle.rows = <<>> /\ Idle.got = 0
  BY DEF Idle
<1>2. <<>> \in Seq(Row) /\ Len(<<>>) = 0
  OBVIOUS
<1>3. Good(<<>>)
  BY <1>2 DEF Good, Ranked, Guarded
<1>4. Idle \in TxSet
  BY <1>2 DEF Idle, TxSet, Kinds
<1> QED
  BY <1>1, <1>2, <1>3, <1>4

\* A transaction begins with good rows and without locks.
LEMMA BeginKeeps ==
  ASSUME IInv, NEW w \in Workers, NEW kind \in Kinds, NEW o \in Orders \cup {"none"},
         NEW rows, Good(rows), Begin(w, kind, o, rows)
  PROVE  IInv'
<1> DEFINE t == [at |-> "run", kind |-> kind, order |-> o, rows |-> rows, got |-> 0]
<1>1. t \in TxSet /\ tx' = [tx EXCEPT ![w] = t]
  BY DEF TxSet, Begin, Good
<1>2. t.got = 0 /\ t.rows = rows /\ Len(rows) \in Nat
  BY DEF Good
<1> HIDE DEF t
<1>3. ShapeInv'
  BY <1>1, <1>2 DEF IInv, ShapeInv
<1>4. ExclusiveInv'
  BY <1>1, <1>2 DEF IInv, ShapeInv, ExclusiveInv
<1> QED
  BY <1>3, <1>4 DEF IInv

\* The variants of a cart can be listed, and every list is one of variants.
LEMMA ListingsGood ==
  ASSUME NEW cart \in Carts, NEW s \in Listings(cart)
  PROVE  s \in Seq(Variants)
<1>1. IsFiniteSet(Variants)
  BY FS_Interval, VariantsAssumption DEF Variants
<1>2. Cardinality(cart) \in Nat
  BY <1>1, CartsAssumption, FS_Subset, FS_CardinalityType
<1>3. s \in [1..Cardinality(cart) -> cart] /\ cart \subseteq Variants
  BY CartsAssumption DEF Listings
<1>4. s \in [1..Cardinality(cart) -> Variants]
  BY <1>3
<1> QED
  BY <1>2, <1>4

LEMMA ContinueKeeps ==
  ASSUME IInv, NEW w \in Workers, Lock(w) \/ Commit(w) \/ Abort(w) \/ Again(w) \/ GiveUp(w)
  PROVE  IInv'
<1>1. CASE Lock(w)
  <2>1. tx' = [tx EXCEPT ![w].got = tx[w].got + 1]
    BY <1>1 DEF Lock
  <2>2. tx[w].got < Len(tx[w].rows) /\ Free(tx[w].rows[tx[w].got + 1])
    BY <1>1 DEF Lock, More, Wanted
  <2>3. tx[w].got \in Nat /\ Len(tx[w].rows) \in Nat /\ tx[w] \in TxSet
    BY DEF IInv, ShapeInv, TxSet, Good
  <2>4. \A u \in Workers \ {w} : tx'[u] = tx[u]
    BY <2>1 DEF IInv, ShapeInv
  <2>5. /\ tx'[w].got = tx[w].got + 1 /\ tx'[w].rows = tx[w].rows
        /\ tx' \in [Workers -> TxSet]
    <3>1. tx[w].got + 1 \in Nat
      BY <2>3
    <3>2. [tx[w] EXCEPT !.got = tx[w].got + 1] \in TxSet
      BY <2>3, <3>1 DEF TxSet
    <3> QED
      BY <2>1, <2>3, <3>2 DEF IInv, ShapeInv, TxSet
  <2>6. ShapeInv'
    BY <2>2, <2>3, <2>4, <2>5 DEF IInv, ShapeInv
  <2>7. \A u \in Workers : \A j \in 1..tx[u].got : tx[u].rows[j] # tx[w].rows[tx[w].got + 1]
    BY <2>2 DEF Free, Holds
  <2>8. ExclusiveInv'
    <3> SUFFICES ASSUME NEW a \in Workers, NEW b \in Workers, a # b,
                        NEW i \in 1..tx'[a].got, NEW j \in 1..tx'[b].got
                 PROVE  tx'[a].rows[i] # tx'[b].rows[j]
      BY DEF ExclusiveInv
    <3>1. CASE a = w
      <4>1. tx'[b] = tx[b] /\ j \in 1..tx[b].got
        BY <3>1, <2>4
      <4>2. i \in 1..tx[w].got \/ i = tx[w].got + 1
        BY <3>1, <2>3, <2>5
      <4> QED
        BY <3>1, <4>1, <4>2, <2>5, <2>7 DEF IInv, ExclusiveInv
    <3>2. CASE b = w
      <4>1. tx'[a] = tx[a] /\ i \in 1..tx[a].got
        BY <3>2, <2>4
      <4>2. j \in 1..tx[w].got \/ j = tx[w].got + 1
        BY <3>2, <2>3, <2>5
      <4> QED
        BY <3>2, <4>1, <4>2, <2>5, <2>7 DEF IInv, ExclusiveInv
    <3>3. CASE a # w /\ b # w
      BY <3>3, <2>4 DEF IInv, ExclusiveInv
    <3> QED
      BY <3>1, <3>2, <3>3
  <2> QED
    BY <2>6, <2>8 DEF IInv
<1>2. CASE Commit(w) \/ GiveUp(w)
  <2>1. tx' = [tx EXCEPT ![w] = Idle]
    BY <1>2 DEF Commit, GiveUp
  <2>2. Idle \in TxSet /\ Idle.got = 0 /\ Good(Idle.rows) /\ Len(Idle.rows) = 0
    BY IdleGood
  <2> QED
    BY <2>1, <2>2 DEF IInv, ShapeInv, ExclusiveInv
<1>3. CASE Abort(w)
  <2>1. tx' = [tx EXCEPT ![w].at = "aborted", ![w].got = 0]
    BY <1>3 DEF Abort
  <2>2. \A u \in Workers \ {w} : tx'[u] = tx[u]
    BY <2>1 DEF IInv, ShapeInv
  <2>3. tx'[w].got = 0 /\ tx'[w].rows = tx[w].rows /\ tx' \in [Workers -> TxSet]
    BY <2>1 DEF IInv, ShapeInv, TxSet
  <2>4. Len(tx[w].rows) \in Nat
    BY DEF IInv, ShapeInv, Good
  <2> QED
    BY <2>2, <2>3, <2>4 DEF IInv, ShapeInv, ExclusiveInv
<1>4. CASE Again(w)
  <2>1. tx' = [tx EXCEPT ![w].at = "run"]
    BY <1>4 DEF Again
  <2>2. tx' \in [Workers -> TxSet]
    BY <2>1 DEF IInv, ShapeInv, TxSet
  <2>3. \A u \in Workers : tx'[u].got = tx[u].got /\ tx'[u].rows = tx[u].rows
    BY <2>1 DEF IInv, ShapeInv, TxSet
  <2> QED
    BY <2>2, <2>3 DEF IInv, ShapeInv, ExclusiveInv
<1> QED
  BY <1>1, <1>2, <1>3, <1>4

LEMMA StepKeeps ==
  ASSUME AscendingItems, IInv, [Next]_vars
  PROVE  IInv'
<1>1. CASE UNCHANGED vars
  BY <1>1 DEF vars, IInv, ShapeInv, ExclusiveInv
<1>2. CASE Next
  <2>1. PICK w \in Workers :
          \/ Checkout(w)
          \/ \E o \in Orders : \/ Release(w, o) \/ PaymentOfOrder(w, o)
                               \/ RefundResult(w, o) \/ RefundFinal(w, o)
          \/ Wait(w) \/ Lock(w) \/ Commit(w) \/ Abort(w) \/ Again(w) \/ GiveUp(w)
    BY <1>2 DEF Next
  <2>2. CASE Checkout(w)
    <3>1. PICK cart \in Carts, c \in CouponRows : \E s \in Listings(cart) :
            Sorted(s) /\ Begin(w, "checkout", "none", VariantRows(s) \o c)
      BY <2>2 DEF Checkout
    <3>2. PICK s \in Listings(cart) :
            Sorted(s) /\ Begin(w, "checkout", "none", VariantRows(s) \o c)
      BY <3>1
    <3>3. s \in Seq(Variants) /\ Ascending(s)
      BY <3>2, ListingsGood DEF Sorted
    <3>4. Good(VariantRows(s) \o c)
      BY <3>3, CheckoutGood
    <3> QED
      BY <3>2, <3>4, BeginKeeps DEF Kinds
  <2>3. CASE \E o \in Orders : Release(w, o)
    <3>1. PICK o \in Orders, s \in ItemOrders, c \in CouponRows :
            Begin(w, "release", o, <<Order(o)>> \o VariantRows(s) \o c \o <<Payment(o)>>)
      BY <2>3 DEF Release
    <3>2. s \in Seq(Variants) /\ Ascending(s)
      BY ItemsAssumption DEF AscendingItems
    <3>3. Good(<<Order(o)>> \o VariantRows(s) \o c \o <<Payment(o)>>)
      BY <3>2, ReleaseGood
    <3> QED
      BY <3>1, <3>3, BeginKeeps DEF Kinds
  <2>4. CASE \E o \in Orders : PaymentOfOrder(w, o) \/ RefundResult(w, o)
    <3>1. PICK o \in Orders : PaymentOfOrder(w, o) \/ RefundResult(w, o)
      BY <2>4
    <3>2. Good(<<Order(o), Payment(o)>>) /\ Good(<<Payment(o)>>)
      BY PaymentGood
    <3>3. CASE Begin(w, "payment", o, <<Order(o), Payment(o)>>)
      BY <3>2, <3>3, BeginKeeps DEF Kinds
    <3>4. CASE Begin(w, "result", o, <<Payment(o)>>)
      BY <3>2, <3>4, BeginKeeps DEF Kinds
    <3> QED
      BY <3>1, <3>3, <3>4 DEF PaymentOfOrder, RefundResult
  <2>5. CASE \E o \in Orders : RefundFinal(w, o)
    <3>1. PICK o \in Orders, s \in ItemOrders :
            Begin(w, "final", o, <<Order(o), Payment(o)>> \o VariantRows(s))
      BY <2>5 DEF RefundFinal
    <3>2. s \in Seq(Variants) /\ Ascending(s)
      BY ItemsAssumption DEF AscendingItems
    <3>3. Good(<<Order(o), Payment(o)>> \o VariantRows(s))
      BY <3>2, FinalGood
    <3> QED
      BY <3>1, <3>3, BeginKeeps DEF Kinds
  <2>6. CASE Wait(w)
    BY <2>6 DEF Wait, IInv, ShapeInv, ExclusiveInv
  <2>7. CASE Lock(w) \/ Commit(w) \/ Abort(w) \/ Again(w) \/ GiveUp(w)
    BY <2>7, ContinueKeeps
  <2> QED
    BY <2>1, <2>2, <2>3, <2>4, <2>5, <2>6, <2>7
<1> QED
  BY <1>1, <1>2

-----------------------------------------------------------------------------
(* No circle.                                                              *)

\* Within a circle nobody who holds a row waits for a payment: its holder
\* would hold the same order's row.
LEMMA NoPaymentWaited ==
  ASSUME IInv, NEW w \in Workers, NEW u \in Workers, WaitsFor(w, u), More(u),
         tx[w].got > 0
  PROVE  Wanted(w)[1] # "payment"
<1> SUFFICES ASSUME Wanted(w)[1] = "payment" PROVE FALSE
  OBVIOUS
<1> DEFINE rw == tx[w].rows
           ru == tx[u].rows
<1>1. tx[w].got \in Nat /\ tx[u].got \in Nat /\ Len(rw) \in Nat /\ Len(ru) \in Nat
  BY DEF IInv, ShapeInv, TxSet, Good
<1>2. Guarded(rw) /\ Guarded(ru)
  BY DEF IInv, ShapeInv, Good
<1>3. PICK i \in 1..tx[u].got : ru[i] = rw[tx[w].got + 1]
  BY DEF WaitsFor, Holds, Wanted
<1>4. tx[w].got < Len(rw) /\ tx[u].got < Len(ru) /\ u # w
  BY DEF WaitsFor, More
<1>5. rw[tx[w].got + 1][1] = "payment" /\ ru[i][1] = "payment"
  BY <1>3 DEF Wanted
<1> HIDE DEF rw, ru
<1>51. tx[w].got + 1 \in 1..Len(rw) /\ Len(rw) # 1
  <2> DEFINE g == tx[w].got
             n == Len(rw)
  <2>1. g \in Nat /\ n \in Nat /\ g > 0 /\ g < n
    BY <1>1, <1>4
  <2> HIDE DEF g, n
  <2>2. g + 1 \in 1..n /\ n # 1
    BY <2>1
  <2> QED
    BY <2>2 DEF g, n
<1>52. i \in 1..Len(ru) /\ Len(ru) # 1
  <2> DEFINE g == tx[u].got
             n == Len(ru)
  <2>1. g \in Nat /\ n \in Nat /\ g < n /\ i \in 1..g
    BY <1>1, <1>3, <1>4
  <2> HIDE DEF g, n
  <2>2. i \in 1..n /\ n # 1
    BY <2>1
  <2> QED
    BY <2>2 DEF g, n
<1>6. rw[1] = <<"order", rw[tx[w].got + 1][2]>>
  BY <1>2, <1>5, <1>51 DEF Guarded
<1>7. i > 1 /\ ru[1] = <<"order", ru[i][2]>>
  BY <1>2, <1>5, <1>52 DEF Guarded
<1>8. rw[1] = ru[1] /\ 1 \in 1..tx[w].got /\ 1 \in 1..tx[u].got
  BY <1>1, <1>3, <1>6, <1>7
<1> QED
  BY <1>4, <1>8 DEF IInv, ExclusiveInv, rw, ru

\* A row that is waited for in a circle comes before the row its holder
\* waits for.
LEMMA HolderWantsMore ==
  ASSUME IInv, NEW w \in Workers, NEW u \in Workers, WaitsFor(w, u), More(u),
         Wanted(w)[1] # "payment", Wanted(u)[1] # "payment"
  PROVE  Rank(Wanted(w)) < Rank(Wanted(u))
<1>1. PICK i \in 1..tx[u].got : tx[u].rows[i] = Wanted(w)
  BY DEF WaitsFor, Holds
<1>2. tx[u].got \in Nat /\ Len(tx[u].rows) \in Nat /\ tx[u].got < Len(tx[u].rows)
  BY DEF IInv, ShapeInv, TxSet, Good, More
<1>3. Ranked(tx[u].rows)
  BY DEF IInv, ShapeInv, Good
<1>4. i \in 1..Len(tx[u].rows) /\ tx[u].got + 1 \in 1..Len(tx[u].rows) /\ i < tx[u].got + 1
  BY <1>1, <1>2
<1>5. Rank(tx[u].rows[i]) < Rank(tx[u].rows[tx[u].got + 1])
  BY <1>1, <1>3, <1>4 DEF Ranked, Wanted
<1> QED
  BY <1>1, <1>5 DEF Wanted

LEMMA RankBounded ==
  ASSUME IInv, NEW w \in Workers, More(w)
  PROVE  Rank(Wanted(w)) \in 0..(NumVariants + 1)
<1>1. Wanted(w) \in Row
  BY DEF IInv, ShapeInv, TxSet, Good, More, Wanted
<1> QED
  BY <1>1, VariantsAssumption DEF Row, Rank, Variants

LEMMA InvariantImplies ==
  ASSUME IInv
  PROVE  NoDeadlock
<1> SUFFICES ASSUME NEW set \in SUBSET Workers, Circle(set)
             PROVE  FALSE
  BY DEF NoDeadlock
<1> DEFINE T == {w \in set : tx[w].got > 0}
           far(w) == NumVariants + 1 - Rank(Wanted(w))
           D == {far(w) : w \in T}
<1>1. \A w \in set : More(w) /\ \E u \in T : WaitsFor(w, u)
  <2> SUFFICES ASSUME NEW w \in set
               PROVE  More(w) /\ \E u \in T : WaitsFor(w, u)
    OBVIOUS
  <2>1. PICK u \in set : WaitsFor(w, u)
    BY DEF Circle
  <2>2. tx[u].got > 0
    BY <2>1 DEF WaitsFor, Holds, IInv, ShapeInv, TxSet
  <2> QED
    BY <2>1, <2>2 DEF WaitsFor
<1>2. T # {}
  BY <1>1 DEF Circle
<1>3. \A w \in T : Wanted(w)[1] # "payment"
  BY <1>1, NoPaymentWaited
<1>4. \A w \in T : far(w) \in Nat
  BY <1>1, RankBounded, VariantsAssumption
<1>45. D \subseteq Nat /\ D # {}
  BY <1>2, <1>4
<1> HIDE DEF D
<1>5. PICK d \in D : \A e \in D : d <= e
  BY <1>45, LeastNatural
<1> USE DEF D
<1>6. PICK w \in T : d = far(w)
  BY <1>5
<1>7. PICK u \in T : WaitsFor(w, u)
  BY <1>1, <1>6
<1>8. Rank(Wanted(w)) < Rank(Wanted(u))
  BY <1>1, <1>3, <1>6, <1>7, HolderWantsMore
<1>9. Rank(Wanted(w)) \in Nat /\ Rank(Wanted(u)) \in Nat
  BY <1>1, <1>6, <1>7, RankBounded, VariantsAssumption
<1>10. far(w) <= far(u)
  BY <1>5, <1>6, <1>7
<1> QED
  BY <1>8, <1>9, <1>10, VariantsAssumption

\* No transactions wait for each other in a circle, whatever the carts, the
\* orders and the workers, when the items of orders are read back in the
\* order of their variants (checkout.service.ts sorts what it locks).
THEOREM NoDeadlockTheorem == AscendingItems => (Spec => []NoDeadlock)
<1> SUFFICES ASSUME AscendingItems PROVE Spec => []NoDeadlock
  OBVIOUS
<1>1. Init => IInv
  BY IdleGood DEF Init, IInv, ShapeInv, ExclusiveInv
<1>2. IInv /\ [Next]_vars => IInv'
  BY StepKeeps
<1>3. IInv => NoDeadlock
  BY InvariantImplies
<1> QED
  BY <1>1, <1>2, <1>3, PTL DEF Spec
=============================================================================
