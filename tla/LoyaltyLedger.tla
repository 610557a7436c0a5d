---------------------------- MODULE LoyaltyLedger ----------------------------
(***************************************************************************)
(* Reward points: earned by paid orders and referrals, spent on coupons,   *)
(* given back with abandoned orders, taken back with refunds.              *)
(*   loyalty/loyalty.service.ts   the ledger and everything that posts to  *)
(*                                it (handleLoyaltyTransition runs inside  *)
(*                                transition() of orders/stateMachine.ts)  *)
(*   loyalty/loyalty.routes.ts, loyalty/adminLoyalty.routes.ts  requests   *)
(*   checkout/coupon.service.ts   the coupons points are exchanged for     *)
(*   refunds/refund.service.ts    the partial refunds that take points     *)
(* Amounts are small: an order is refunded in Parts equal parts.           *)
(***************************************************************************)
EXTENDS Integers, FiniteSetsExt, OrderTransitions

CONSTANTS
  Users, Orders, Workers,
  Rewards,       \* coupons that points are redeemed for, unused ids at first
  Promos,        \* ordinary single-use coupons
  Owner,         \* the customer of each order
  Cod,           \* the orders paid on delivery
  EarnPoints,    \* the points each order earns at the configured rate
  Parts, Cost, ReferrerBonus, ReferredBonus,
  MaxAdjust,     \* bound on the adjustments of administrators
  Refundable,    \* whether payments are refunded
  None

Coupons == Rewards \cup Promos

ConstantsAssumption ==
  /\ Rewards \cap Promos = {} /\ Cod \subseteq Orders
  /\ Owner \in [Orders -> Users] /\ EarnPoints \in [Orders -> Nat]
  /\ Parts \in Nat \ {0} /\ Cost \in Nat \ {0}
  /\ ReferrerBonus \in Nat /\ ReferredBonus \in Nat /\ MaxAdjust \in Nat
  /\ Refundable \in BOOLEAN /\ None \notin Users \cup Orders \cup Coupons

VARIABLES
  order,      \* Order.status and Order.couponCode
  refunded,   \* parts of the payment whose refund is PROCESSED
  ledger,     \* LoyaltyEntry
  balance,    \* User.pointsBalance
  referral,   \* Referral of the referred user: status, referrerId, qualifyingOrderId
  coupon,     \* Coupon: assignedUserId, usedCount = 1
  enabled,    \* LoyaltyConfig.enabled
  adjusted,
  worker      \* the requests and transactions under way

vars == <<order, refunded, ledger, balance, referral, coupon, enabled, adjusted, worker>>

Idle == [at |-> "idle", order |-> None, user |-> None, points |-> 0, pending |-> FALSE]

Init ==
  /\ order = [o \in Orders |-> [status |-> NoOrder, coupon |-> None]]
  /\ refunded = [o \in Orders |-> 0]
  /\ ledger = {}
  /\ balance = [u \in Users |-> 0]
  /\ referral = [u \in Users |-> [status |-> "NONE", referrer |-> None, order |-> None]]
  /\ coupon = [c \in Coupons |-> [user |-> None, used |-> FALSE]]
  /\ enabled = TRUE /\ adjusted = 0
  /\ worker = [w \in Workers |-> Idle]

At(w, place) == worker[w].at = place
Set(w, t) == worker' = [worker EXCEPT ![w] = t]
Status(o) == order[o].status

\* The rows a rewarding transaction holds until it commits.
OrderLocked(o) == \E w \in Workers : At(w, "reward") /\ worker[w].order = o
LockedBy(ws, u) ==
  \E w \in ws : At(w, "reward") /\ worker[w].points > 0 /\ worker[w].user = u
UserLocked(u) == LockedBy(Workers, u)

-----------------------------------------------------------------------------
(* The ledger: an entry is posted once per idempotency key, and the balance *)
(* moves with it.                                                          *)

Entry(key, user, points, o) == [key |-> key, user |-> user, points |-> points, order |-> o]
Posted(key) == \E e \in ledger : e.key = key
PointsOf(entries) == MapThenSumSet(LAMBDA e : e.points, entries)
NewEntries(entries) == {e \in entries : e.points # 0 /\ ~Posted(e.key)}

Post(entries) ==
  LET new == NewEntries(entries) IN
  /\ ledger' = ledger \cup new
  /\ balance' = [u \in Users |-> balance[u] + PointsOf({e \in new : e.user = u})]

Entries(kinds, o) == {e \in ledger : e.order = o /\ e.key[1] \in kinds}
Reversals(o) == Entries({"partial", "refund"}, o)
Reversed(o) == -PointsOf(Reversals(o))
Earned(o) == PointsOf(Entries({"earn"}, o))

-----------------------------------------------------------------------------
(* Customers.                                                              *)

\* consumeCouponUsage at checkout; a reward coupon serves its owner only.
Consumable(c, u) ==
  /\ ~coupon[c].used
  /\ c \in Rewards => coupon[c].user = u

CreateOrder(o, c) ==
  /\ Status(o) = NoOrder
  /\ c # None => Consumable(c, Owner[o])
  /\ order' = [order EXCEPT ![o] =
       [status |-> IF o \in Cod THEN "CONFIRMED" ELSE "PENDING", coupon |-> c]]
  /\ coupon' = IF c = None THEN coupon ELSE [coupon EXCEPT ![c].used = TRUE]
  /\ UNCHANGED <<refunded, ledger, balance, referral, enabled, adjusted, worker>>

\* redeemPoints: the conditional decrement decides.
Redeemable(u) == balance[u] >= Cost

Redeem(u, c) ==
  /\ enabled
  /\ coupon[c].user = None
  /\ ~UserLocked(u) /\ Redeemable(u)
  /\ coupon' = [coupon EXCEPT ![c].user = u]
  /\ Post({Entry(<<"redeem", c>>, u, -Cost, None)})
  /\ UNCHANGED <<order, refunded, referral, enabled, adjusted, worker>>

\* applyReferralCode: five reads without a transaction, and an insert that is
\* unique per referred user.
PaidStatuses == {"PAID", "SHIPPED", "DELIVERED", "REFUNDED"}
PaidOrders(u) == {o \in Orders : Owner[o] = u /\ Status(o) \in PaidStatuses}

StartReferral(w, u, referrer) ==
  /\ At(w, "idle")
  /\ enabled /\ referrer # u
  /\ referral[u].status = "NONE" /\ PaidOrders(u) = {}
  /\ Set(w, [Idle EXCEPT !.at = "referral", !.user = u, !.order = referrer])
  /\ UNCHANGED <<order, refunded, ledger, balance, referral, coupon, enabled, adjusted>>

FinishReferral(w) ==
  LET u == worker[w].user IN
  /\ At(w, "referral")
  /\ referral' = IF referral[u].status # "NONE" THEN referral
       ELSE [referral EXCEPT ![u] =
              [status |-> "PENDING", referrer |-> worker[w].order, order |-> None]]
  /\ Set(w, Idle)
  /\ UNCHANGED <<order, refunded, ledger, balance, coupon, enabled, adjusted>>

-----------------------------------------------------------------------------
(* handleLoyaltyTransition, inside the transaction of a transition.        *)

EarnsAt(o) == IF o \in Cod THEN "DELIVERED" ELSE "PAID"

\* rewardOrder: the earned points are posted, which locks the customer's row,
\* and then the referral is read.
StartReward(w, o) ==
  LET points == IF enabled THEN EarnPoints[o] ELSE 0
      user == Owner[o] IN
  /\ At(w, "idle")
  /\ Status(o) # NoOrder /\ CanTransition(Status(o), EarnsAt(o)) /\ ~OrderLocked(o)
  /\ points > 0 => ~UserLocked(user)
  /\ Set(w, [at |-> "reward", order |-> o, user |-> user, points |-> points,
             pending |-> enabled /\ referral[user].status = "PENDING"])
  /\ UNCHANGED <<order, refunded, ledger, balance, referral, coupon, enabled, adjusted>>

ReferralBonus(o, u) ==
  {Entry(<<"referrer", u>>, referral[u].referrer, ReferrerBonus, o),
   Entry(<<"referred", u>>, u, ReferredBonus, o)}

FinishReward(w) ==
  LET t == worker[w]
      o == t.order
      u == t.user IN
  /\ At(w, "reward")
  /\ t.pending => \A v \in {u, referral[u].referrer} : ~LockedBy(Workers \ {w}, v)
  /\ order' = [order EXCEPT ![o].status = EarnsAt(o)]
  /\ Post({Entry(<<"earn", o>>, u, t.points, o)} \cup
          IF t.pending THEN ReferralBonus(o, u) ELSE {})
  /\ referral' = IF t.pending
                 THEN [referral EXCEPT ![u].status = "REWARDED", ![u].order = o]
                 ELSE referral
  /\ Set(w, Idle)
  /\ UNCHANGED <<refunded, coupon, enabled, adjusted>>

\* restoreRedemption gives the points of a reward coupon back.
Restored(o) ==
  LET c == order[o].coupon IN
  IF c = None THEN {}
  ELSE {Entry(<<"restore", o, c>>, Owner[o], -e.points, o) :
         e \in {e \in ledger : e.key = <<"redeem", c>> /\ e.user = Owner[o]}}

\* restoreCouponUsage leaves reward coupons consumed.
CouponRestored(c) == c \notin Rewards

Abandon(o, to) ==
  LET c == order[o].coupon IN
  /\ Status(o) \in {"PENDING", "CONFIRMED"} /\ to \in {"CANCELLED", "FAILED"}
  /\ CanTransition(Status(o), to) /\ ~OrderLocked(o) /\ ~UserLocked(Owner[o])
  /\ order' = [order EXCEPT ![o].status = to]
  /\ coupon' = IF c # None /\ CouponRestored(c) THEN [coupon EXCEPT ![c].used = FALSE]
                                                ELSE coupon
  /\ Post(Restored(o))
  /\ UNCHANGED <<refunded, referral, enabled, adjusted, worker>>

\* The steps of fulfilment that earn nothing.
Fulfil(o, to) ==
  /\ Status(o) # NoOrder /\ to \in {"SHIPPED", "DELIVERED"}
  /\ CanTransition(Status(o), to) /\ to # EarnsAt(o) /\ ~OrderLocked(o)
  /\ to = "SHIPPED" => refunded[o] = 0
  /\ order' = [order EXCEPT ![o].status = to]
  /\ UNCHANGED <<refunded, ledger, balance, referral, coupon, enabled, adjusted, worker>>

-----------------------------------------------------------------------------
(* Refunds.                                                                *)

\* handlePartialRefundLoyalty, in the transaction that records the refund.
TargetReversal(o, parts) == (Earned(o) * parts) \div Parts
PartialReversal(o, parts) == Max({0, TargetReversal(o, parts) - Reversed(o)})

PartsLeft(o) == refunded[o] < Parts

RefundPart(o) ==
  LET parts == refunded[o] + 1 IN
  /\ Refundable /\ o \notin Cod
  /\ Status(o) \in {"PAID", "DELIVERED"} /\ PartsLeft(o)
  /\ ~UserLocked(Owner[o])
  /\ refunded' = [refunded EXCEPT ![o] = parts]
  /\ Post(IF parts = Parts THEN {}
          ELSE {Entry(<<"partial", o, parts>>, Owner[o], -PartialReversal(o, parts), o)})
  /\ UNCHANGED <<order, referral, coupon, enabled, adjusted, worker>>

\* reverseOrderRewards: what is left of the order's points, and the referral
\* the order qualified.
RemainingAll(o) == Earned(o)
Remaining(o) == Max({0, Earned(o) - Reversed(o)})

QualifiedBy(o) == {u \in Users : referral[u].status = "REWARDED" /\ referral[u].order = o}

ReferralReversal(o) ==
  UNION {{Entry(<<"unreferrer", u>>, referral[u].referrer, -ReferrerBonus, o),
          Entry(<<"unreferred", u>>, u, -ReferredBonus, o)} : u \in QualifiedBy(o)}

FinishRefund(o) ==
  /\ refunded[o] = Parts
  /\ Status(o) # NoOrder /\ CanTransition(Status(o), "REFUNDED")
  /\ \A u \in Users : ~UserLocked(u)
  /\ order' = [order EXCEPT ![o].status = "REFUNDED"]
  /\ Post({Entry(<<"refund", o>>, Owner[o], -Remaining(o), o)} \cup
          ReferralReversal(o) \cup Restored(o))
  /\ referral' = [u \in Users |-> IF u \in QualifiedBy(o)
                    THEN [referral[u] EXCEPT !.status = "CANCELLED"] ELSE referral[u]]
  /\ UNCHANGED <<refunded, coupon, enabled, adjusted, worker>>

-----------------------------------------------------------------------------
(* Administrators, and what a database does.                               *)

\* adjustUserPoints: the balance is checked and then incremented.
StartAdjust(w, u, points) ==
  /\ At(w, "idle")
  /\ adjusted < MaxAdjust
  /\ points < 0 => balance[u] >= -points
  /\ adjusted' = adjusted + 1
  /\ Set(w, [Idle EXCEPT !.at = "adjust", !.user = u, !.points = points])
  /\ UNCHANGED <<order, refunded, ledger, balance, referral, coupon, enabled>>

FinishAdjust(w) ==
  LET u == worker[w].user IN
  /\ At(w, "adjust")
  /\ ~UserLocked(u)
  /\ Post({Entry(<<"admin", Cardinality({e \in ledger : e.key[1] = "admin"})>>,
                 u, worker[w].points, None)})
  /\ Set(w, Idle)
  /\ UNCHANGED <<order, refunded, referral, coupon, enabled, adjusted>>

\* updateLoyaltyConfig pauses and resumes the programme.
Toggle ==
  /\ enabled' = ~enabled
  /\ UNCHANGED <<order, refunded, ledger, balance, referral, coupon, adjusted, worker>>

\* A transaction rolls back: an error, a deadlock of two user rows, a crash.
Abort(w) ==
  /\ ~At(w, "idle")
  /\ Set(w, Idle)
  /\ UNCHANGED <<order, refunded, ledger, balance, referral, coupon, enabled, adjusted>>

Next ==
  \/ \E o \in Orders, c \in Coupons \cup {None} : CreateOrder(o, c)
  \/ \E u \in Users, c \in Rewards : Redeem(u, c)
  \/ \E w \in Workers, u, r \in Users : StartReferral(w, u, r)
  \/ \E w \in Workers, o \in Orders : StartReward(w, o)
  \/ \E w \in Workers, u \in Users, p \in {-Cost, Cost} : StartAdjust(w, u, p)
  \/ \E w \in Workers : FinishReferral(w) \/ FinishReward(w) \/ FinishAdjust(w) \/ Abort(w)
  \/ \E o \in Orders, to \in OrderStatuses : Abandon(o, to) \/ Fulfil(o, to)
  \/ \E o \in Orders : RefundPart(o) \/ FinishRefund(o)
  \/ Toggle

Spec == Init /\ [][Next]_vars

-----------------------------------------------------------------------------
(* Properties.                                                             *)

TypeOK ==
  /\ order \in [Orders -> [status : OrderStatuses \cup {NoOrder}, coupon : Coupons \cup {None}]]
  /\ refunded \in [Orders -> 0..Parts]
  /\ balance \in [Users -> Int]
  /\ referral \in [Users -> [status : {"NONE", "PENDING", "REWARDED", "CANCELLED"},
                             referrer : Users \cup {None}, order : Orders \cup {None}]]
  /\ coupon \in [Coupons -> [user : Users \cup {None}, used : BOOLEAN]]
  /\ enabled \in BOOLEAN /\ adjusted \in 0..MaxAdjust
  /\ \A e, f \in ledger : e.key = f.key => e = f

\* However an order is refunded, in parts or at once and around pauses of the
\* programme, the points taken back are the refunded share of those it earned,
\* and all of them once it is REFUNDED.
ReversedWithRefund ==
  \A o \in Orders :
    Reversed(o) = IF Status(o) = "REFUNDED" THEN Earned(o)
                  ELSE TargetReversal(o, IF refunded[o] = Parts THEN Parts - 1
                                                                ELSE refunded[o])

\* The value of redeemed points exists once: as points, as a coupon that can
\* be used, or in an order that stands.
PointsOrCoupon ==
  \A c \in Rewards :
    LET back == \E e \in ledger : e.key[1] = "restore" /\ e.key[3] = c
        spent == \E o \in Orders : order[o].coupon = c
                   /\ Status(o) \notin {"CANCELLED", "FAILED", "REFUNDED"} IN
    /\ back => coupon[c].used /\ ~spent
    /\ Cardinality({e \in ledger : e.key[1] = "restore" /\ e.key[3] = c}) <= 1

\* A referral bonus stands exactly as long as the order that is recorded as
\* having earned it: it was posted for that order, and goes with its refund.
BonusFollowsOrder ==
  \A u \in Users :
    LET bonus == {e \in ledger : e.key \in {<<"referrer", u>>, <<"referred", u>>}} IN
    /\ \A e \in bonus : e.order = referral[u].order
    /\ referral[u].status = "REWARDED" => Status(referral[u].order) # "REFUNDED"
    /\ referral[u].status = "CANCELLED" =>
         PointsOf(bonus \cup {e \in ledger : e.key \in {<<"unreferrer", u>>, <<"unreferred", u>>}}) = 0

\* No balance is negative.
NonNegative == \A u \in Users : balance[u] >= 0

=============================================================================
