---------------------------- MODULE MCFulfilment ----------------------------
(* Small instances for TLC of what follows an order and runs beside it:      *)
(* parcels and their booking, points, accounts, emails, stock alerts,        *)
(* subscriptions, cached answers and ratings, and the limit on requests.     *)
EXTENDS EmailOutbox, Stage, TLC

CONSTANTS
  None, Short, dear,
  w1, w2, w3, w4, i1, i2,  \* processes, and what they work at
  s1, s2, r1, r2, r3, q1,  \* subscriptions, reviews or rewards, a coupon
  u1, u2, e1, e2, e3       \* users and their addresses

-----------------------------------------------------------------------------
(* The scenes. *)

CourierStatuses ==
  {"PICKED_UP", "IN_TRANSIT", "OUT_FOR_DELIVERY", "DELIVERED",
   "DELIVERY_FAILED", "RTO_IN_TRANSIT", "RETURNED", "CANCELLED"}

Parcels == INSTANCE ShipmentTracking WITH
  Courier <- {i1}, Manual <- {i2}, Workers <- {w1, w2}, Reported <- CourierStatuses,
  MaxScans <- 2, Operations <- {"track", "dispatch", "refund"},
  order <- x1, status <- x2, setBy <- x3, scans <- x4, journey <- x5, refund <- x6, lock <- x7,
  worker <- x8
ASSUME Parcels!ConstantsAssumption

Handoffs == INSTANCE ShipmentTracking WITH
  Courier <- {i1}, Manual <- {i2}, Workers <- {w1, w2}, Reported <- {"PICKED_UP", "DELIVERED"},
  MaxScans <- 2, Operations <- {"track", "dispatch", "deliver", "cancel", "refund"},
  order <- x1, status <- x2, setBy <- x3, scans <- x4, journey <- x5, refund <- x6, lock <- x7,
  worker <- x8
ASSUME Handoffs!ConstantsAssumption

Booking == INSTANCE CourierBooking WITH
  Workers <- {w1}, MaxOrders <- 2, MaxFaults <- 3, SlowCalls <- FALSE, Cancels <- FALSE,
  bookable <- x1, booking <- x2, shipments <- x3, created <- x4, awbs <- x5, pickups <- x6,
  cancelled <- x7, abandoned <- x8, faults <- x9, worker <- x10
ASSUME Booking!ConstantsAssumption

TwoBookings == INSTANCE CourierBooking WITH
  Workers <- {w1, w2}, MaxOrders <- 3, MaxFaults <- 2, SlowCalls <- FALSE, Cancels <- TRUE,
  bookable <- x1, booking <- x2, shipments <- x3, created <- x4, awbs <- x5, pickups <- x6,
  cancelled <- x7, abandoned <- x8, faults <- x9, worker <- x10
ASSUME TwoBookings!ConstantsAssumption

SlowBooking == INSTANCE CourierBooking WITH
  Workers <- {w1}, MaxOrders <- 3, MaxFaults <- 4, SlowCalls <- TRUE, Cancels <- TRUE,
  bookable <- x1, booking <- x2, shipments <- x3, created <- x4, awbs <- x5, pickups <- x6,
  cancelled <- x7, abandoned <- x8, faults <- x9, worker <- x10
ASSUME SlowBooking!ConstantsAssumption

Points == INSTANCE LoyaltyLedger WITH
  Users <- {u1, u2}, Orders <- {i1, i2}, Workers <- {w1, w2}, Rewards <- {r1}, Promos <- {q1},
  Owner <- [o \in {i1, i2} |-> u2], Cod <- {}, EarnPoints <- [o \in {i1, i2} |-> 2],
  Parts <- 3, Cost <- 2, ReferrerBonus <- 1, ReferredBonus <- 2, MaxAdjust <- 0,
  Refundable <- TRUE,
  order <- x1, refunded <- x2, ledger <- x3, balance <- x4, referral <- x5, coupon <- x6,
  enabled <- x7, adjusted <- x8, worker <- x9
ASSUME Points!ConstantsAssumption

Spending == INSTANCE LoyaltyLedger WITH
  Users <- {u1, u2}, Orders <- {i1, i2}, Workers <- {w1, w2}, Rewards <- {r1}, Promos <- {q1},
  Owner <- [o \in {i1, i2} |-> u2], Cod <- {i2}, EarnPoints <- [o \in {i1, i2} |-> 2],
  Parts <- 3, Cost <- 2, ReferrerBonus <- 1, ReferredBonus <- 2, MaxAdjust <- 0,
  Refundable <- FALSE,
  order <- x1, refunded <- x2, ledger <- x3, balance <- x4, referral <- x5, coupon <- x6,
  enabled <- x7, adjusted <- x8, worker <- x9
ASSUME Spending!ConstantsAssumption

Adjusting == INSTANCE LoyaltyLedger WITH
  Users <- {u1, u2}, Orders <- {i1, i2}, Workers <- {w1}, Rewards <- {r1}, Promos <- {q1},
  Owner <- [o \in {i1, i2} |-> u2], Cod <- {i2}, EarnPoints <- [o \in {i1, i2} |-> 2],
  Parts <- 3, Cost <- 2, ReferrerBonus <- 1, ReferredBonus <- 2, MaxAdjust <- 1,
  Refundable <- TRUE,
  order <- x1, refunded <- x2, ledger <- x3, balance <- x4, referral <- x5, coupon <- x6,
  enabled <- x7, adjusted <- x8, worker <- x9
ASSUME Adjusting!ConstantsAssumption

Accounts == INSTANCE AccountLifecycle WITH
  Users <- {u1}, Emails <- {e1, e2}, Orders <- {i1, i2}, Workers <- {w1, w2},
  FirstEmail <- [u \in {u1} |-> e1], MaxFaults <- 2, MaxRestores <- 2, SlowRestores <- FALSE,
  SlowCheckouts <- FALSE, Changes <- FALSE,
  status <- x1, due <- x2, email <- x3, pending <- x4, expired <- x5, identity <- x6,
  links <- x7, order <- x8, faults <- x9, restores <- x10, worker <- x11
ASSUME Accounts!ConstantsAssumption

SlowAccounts == INSTANCE AccountLifecycle WITH
  Users <- {u1}, Emails <- {e1, e2}, Orders <- {i1, i2}, Workers <- {w1, w2},
  FirstEmail <- [u \in {u1} |-> e1], MaxFaults <- 0, MaxRestores <- 2, SlowRestores <- TRUE,
  SlowCheckouts <- TRUE, Changes <- FALSE,
  status <- x1, due <- x2, email <- x3, pending <- x4, expired <- x5, identity <- x6,
  links <- x7, order <- x8, faults <- x9, restores <- x10, worker <- x11
ASSUME SlowAccounts!ConstantsAssumption

Addresses == INSTANCE AccountLifecycle WITH
  Users <- {u1, u2}, Emails <- {e1, e2, e3}, Orders <- {}, Workers <- {w1},
  FirstEmail <- [u \in {u1, u2} |-> IF u = u1 THEN e1 ELSE e2], MaxFaults <- 0,
  MaxRestores <- 0, SlowRestores <- FALSE, SlowCheckouts <- FALSE, Changes <- TRUE,
  status <- x1, due <- x2, email <- x3, pending <- x4, expired <- x5, identity <- x6,
  links <- x7, order <- x8, faults <- x9, restores <- x10, worker <- x11
ASSUME Addresses!ConstantsAssumption

Alerts == INSTANCE StockAlerts WITH
  Customers <- {i1, i2}, Admins <- {w1}, MaxStock <- 2, MaxVersions <- 2, Releases <- FALSE,
  Overlapping <- FALSE,
  stock <- x1, alert <- x2, queued <- x3, delivered <- x4, asking <- x5, editing <- x6
ASSUME Alerts!ConstantsAssumption

AllAlerts == INSTANCE StockAlerts WITH
  Customers <- {i1, i2}, Admins <- {w1, w2}, MaxStock <- 2, MaxVersions <- 2, Releases <- TRUE,
  Overlapping <- TRUE,
  stock <- x1, alert <- x2, queued <- x3, delivered <- x4, asking <- x5, editing <- x6
ASSUME AllAlerts!ConstantsAssumption

Renewals == INSTANCE Subscriptions WITH
  Subs <- {s1}, Workers <- {w1, w2, w3}, Offers <- {dear, Short}, MaxPeriods <- 2,
  MaxChains <- 2, MaxControls <- 4, MaxOffers <- 1, SlowControls <- FALSE, SlowEnroll <- FALSE,
  plan <- x1, offer <- x2, status <- x3, next <- x4, chains <- x5, passed <- x6, renewal <- x7,
  email <- x8, notified <- x9, controls <- x10, offers <- x11, worker <- x12
ASSUME Renewals!ConstantsAssumption

SlowRenewals == INSTANCE Subscriptions WITH
  Subs <- {s1}, Workers <- {w1, w2, w3}, Offers <- {Short}, MaxPeriods <- 2, MaxChains <- 2,
  MaxControls <- 4, MaxOffers <- 0, SlowControls <- TRUE, SlowEnroll <- FALSE,
  plan <- x1, offer <- x2, status <- x3, next <- x4, chains <- x5, passed <- x6, renewal <- x7,
  email <- x8, notified <- x9, controls <- x10, offers <- x11, worker <- x12
ASSUME SlowRenewals!ConstantsAssumption

Enrolments == INSTANCE Subscriptions WITH
  Subs <- {s1, s2}, Workers <- {w1, w2}, Offers <- {Short}, MaxPeriods <- 1, MaxChains <- 1,
  MaxControls <- 5, MaxOffers <- 0, SlowControls <- FALSE, SlowEnroll <- FALSE,
  plan <- x1, offer <- x2, status <- x3, next <- x4, chains <- x5, passed <- x6, renewal <- x7,
  email <- x8, notified <- x9, controls <- x10, offers <- x11, worker <- x12
ASSUME Enrolments!ConstantsAssumption

Cache == INSTANCE TaggedCache WITH
  Keys <- {i1, i2}, Ttl <- [k \in {i1, i2} |-> 2], Grace <- 1, Readers <- {w1, w2},
  Writers <- {w3, w4}, MaxWrites <- 3, MaxFaults <- 2, SlowLoads <- TRUE, SlowClears <- FALSE,
  data <- x1, cache <- x2, tag <- x3, faults <- x4, worker <- x5
ASSUME Cache!ConstantsAssumption

FreshCache == INSTANCE TaggedCache WITH
  Keys <- {i1, i2}, Ttl <- [k \in {i1, i2} |-> 2], Grace <- 1, Readers <- {w1, w2},
  Writers <- {w3, w4}, MaxWrites <- 3, MaxFaults <- 0, SlowLoads <- FALSE, SlowClears <- FALSE,
  data <- x1, cache <- x2, tag <- x3, faults <- x4, worker <- x5
ASSUME FreshCache!ConstantsAssumption

Reviewing == INSTANCE Reviews WITH
  Customers <- {i1, i2}, Reviews <- {r1, r2}, Requests <- {w1, w2}, Moderators <- {w3, w4},
  SlowTx <- TRUE,
  order <- x1, account <- x2, review <- x3, counted <- x4, worker <- x5
ASSUME Reviewing!ConstantsAssumption

Ratings == INSTANCE Reviews WITH
  Customers <- {i1, i2}, Reviews <- {r1, r2, r3}, Requests <- {w1, w2}, Moderators <- {w3, w4},
  SlowTx <- FALSE,
  order <- x1, account <- x2, review <- x3, counted <- x4, worker <- x5
ASSUME Ratings!ConstantsAssumption

Limits == INSTANCE RateLimit WITH
  Requests <- {w1, w2, w3}, Limit <- 2, Window <- 3, Base <- 1, BackoffMax <- 1,
  MaxFaults <- 1,
  count <- x1, violations <- x2, blocked <- x3, at <- x4, seen <- x5, served <- x6,
  faults <- x7
ASSUME Limits!ConstantsAssumption

Opening ==
  \/ Opens("parcels", 8) /\ Parcels!Init
  \/ Opens("handoffs", 8) /\ Handoffs!Init
  \/ Opens("booking", 10) /\ Booking!Init
  \/ Opens("twoBookings", 10) /\ TwoBookings!Init
  \/ Opens("slowBooking", 10) /\ SlowBooking!Init
  \/ Opens("points", 9) /\ Points!Init
  \/ Opens("spending", 9) /\ Spending!Init
  \/ Opens("adjusting", 9) /\ Adjusting!Init
  \/ Opens("accounts", 11) /\ Accounts!Init
  \/ Opens("slowAccounts", 11) /\ SlowAccounts!Init
  \/ Opens("addresses", 11) /\ Addresses!Init
  \/ Opens("alerts", 6) /\ Alerts!Init
  \/ Opens("allAlerts", 6) /\ AllAlerts!Init
  \/ Opens("renewals", 12) /\ Renewals!Init
  \/ Opens("slowRenewals", 12) /\ SlowRenewals!Init
  \/ Opens("enrolments", 12) /\ Enrolments!Init
  \/ Opens("cache", 5) /\ Cache!Init
  \/ Opens("freshCache", 5) /\ FreshCache!Init
  \/ Opens("reviewing", 5) /\ Reviewing!Init
  \/ Opens("ratings", 5) /\ Ratings!Init
  \/ Opens("limits", 7) /\ Limits!Init

Playing ==
  \/ Plays("parcels", 8) /\ Parcels!Next
  \/ Plays("handoffs", 8) /\ Handoffs!Next
  \/ Plays("booking", 10) /\ Booking!Next
  \/ Plays("twoBookings", 10) /\ TwoBookings!Next
  \/ Plays("slowBooking", 10) /\ SlowBooking!Next
  \/ Plays("points", 9) /\ Points!Next
  \/ Plays("spending", 9) /\ Spending!Next
  \/ Plays("adjusting", 9) /\ Adjusting!Next
  \/ Plays("accounts", 11) /\ Accounts!Next
  \/ Plays("slowAccounts", 11) /\ SlowAccounts!Next
  \/ Plays("addresses", 11) /\ Addresses!Next
  \/ Plays("alerts", 6) /\ Alerts!Next
  \/ Plays("allAlerts", 6) /\ AllAlerts!Next
  \/ Plays("renewals", 12) /\ Renewals!Next
  \/ Plays("slowRenewals", 12) /\ SlowRenewals!Next
  \/ Plays("enrolments", 12) /\ Enrolments!Next
  \/ Plays("cache", 5) /\ Cache!Next
  \/ Plays("freshCache", 5) /\ FreshCache!Next
  \/ Plays("reviewing", 5) /\ Reviewing!Next
  \/ Plays("ratings", 5) /\ Ratings!Next
  \/ Plays("limits", 7) /\ Limits!Next

\* The outbox has variables of its own, which rest in the other scenes.
SceneInit ==
  /\ Init
  /\ Opening \/ Opens("outbox", 0)

SceneNext ==
  \/ Playing /\ UNCHANGED vars
  \/ scene = "outbox" /\ Next /\ UNCHANGED stage

SceneSpec == SceneInit /\ [][SceneNext]_<<vars, stage>>

Symmetry == Permutations({w1, w2})

-----------------------------------------------------------------------------
(* Properties *)

\* An order follows its parcels: once all are delivered it does not stay
\* SHIPPED, a parcel the courier has means the order was shipped, and reports
\* applied by several workers at once move a parcel only along the transition
\* table (courierTracking.ts, shipments.service.ts).
OrderFollowsParcels ==
  /\ [](/\ scene = "parcels" => Parcels!TypeOK /\ Parcels!DeliveryCompletes
        /\ scene = "handoffs" => Handoffs!TypeOK /\ Handoffs!HandoffMeansShipped)
  /\ [][scene = "parcels" => Parcels!OnlyAdvances]_stage

\* A booking that fails anywhere is resumed and not repeated: the courier gets
\* its order once for each administrator who books at the same time, is sent
\* only for parcels the shop has a shipment of, and what is answered as ready
\* has its AWB, label and pickup (courierBooking.service.ts).
BookedOnce ==
  /\ scene = "booking" => Booking!TypeOK /\ Booking!ReadyIsComplete
  /\ scene = "twoBookings" => TwoBookings!OneOrder
  /\ scene = "slowBooking" => SlowBooking!PickupIsTracked /\ SlowBooking!ReadyIsComplete

\* The value of loyalty points is conserved: what a refund takes back is the
\* refunded share of what the order earned, redeemed points exist once, as a
\* coupon, in a standing order or given back, and a referral's bonus stands as
\* long as the order that earned it; and without refunds and adjustments
\* nobody spends points they do not have (loyalty.service.ts).
PointsConserved ==
  /\ scene = "points" =>
       /\ Points!TypeOK /\ Points!ReversedWithRefund
       /\ Points!PointsOrCoupon /\ Points!BonusFollowsOrder
  /\ scene = "spending" => Spending!NonNegative
  /\ scene = "adjusting" => Adjusting!TypeOK /\ Adjusting!PointsOrCoupon

\* A deletion and what goes on around it exclude each other: no account is on
\* its way out with an active order, the orders left behind are redacted, and
\* one that was recovered, even by a restore that waited past the grace, can
\* sign in (account.service.ts).
DeletionExcludes ==
  /\ scene = "accounts" => /\ Accounts!TypeOK /\ Accounts!NoActiveOrder
                           /\ Accounts!DeletedIsRedacted
  /\ scene = "addresses" => Addresses!TypeOK
  /\ scene = "slowAccounts" => SlowAccounts!TypeOK /\ SlowAccounts!ActiveHasIdentity

\* Nobody who waits for a variant is forgotten when an administrator restocks
\* it, unless the restock overlaps the request; and a wish ends only by the
\* customer or by an email that was delivered, however requests, releases and
\* deliveries overlap (stockAlerts.service.ts).
WishesAnswered ==
  /\ scene = "alerts" => Alerts!NoneForgotten
  /\ scene = "allAlerts" => AllAlerts!TypeOK /\ AllAlerts!EndedByEmail

\* No renewal is passed over in silence, also when the customer's requests
\* overlap the scan; and when they do not overlap each other or the scan, a
\* skipped one is not announced, a customer has one live subscription to a
\* plan and a cancelled one stays cancelled (subscription.service.ts).
RenewalsKept ==
  /\ [](/\ scene = "renewals" => Renewals!TypeOK /\ Renewals!SkippedNotAnnounced
        /\ scene = "slowRenewals" => SlowRenewals!NoneMissed
        /\ scene = "enrolments" => Enrolments!OneSubscription)
  /\ [][scene = "renewals" => Renewals!CancelledStays]_stage

\* What is derived from the rows follows them: an invalidation reaches every
\* cached answer, also one whose load overlaps it, and when none does what is
\* cached is fresh once the writers have invalidated (cache.ts); reviews are
\* those of deliveries, and the rating that transactions compute one after the
\* other is that of the approved ones (reviews.service.ts).
DerivedMatches ==
  /\ scene = "cache" => Cache!TypeOK /\ Cache!Tracked
  /\ scene = "freshCache" => FreshCache!FreshAtRest
  /\ scene = "reviewing" => Reviewing!TypeOK /\ Reviewing!VerifiedOnly
  /\ scene = "ratings" => Ratings!RatingMatches

\* However the commands of concurrent requests interleave, a window's counter
\* lets at most its limit through (rateLimit.ts, checkBucket decides by what
\* its own INCR answered).
LimitKept == scene = "limits" => Limits!TypeOK /\ Limits!LimitKept
=============================================================================
