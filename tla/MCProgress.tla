----------------------------- MODULE MCProgress ------------------------------
(* Small instances for TLC of what comes to an end: refunds, stored events,   *)
(* emails, renewals, deletions, old data, what people wait for on a page, and *)
(* transactions that wait for each other's locks.                             *)
EXTENDS LockOrder, Stage, TLC

CONSTANTS
  None, Absent, NoUser, Short,
  w1, w2,                  \* processes, people, requests
  k1, k2, p1, i1, i2, s1, v1, v2, u1, e1, e2

InOrder == {<<1, 2>>, <<1, 2, 3>>, <<3>>}

-----------------------------------------------------------------------------
(* The scenes. *)

PartRefunds == INSTANCE RefundLedger WITH
  Keys <- {k1, k2}, Workers <- {w1}, Paid <- 2, MaxAttempts <- 2,
  Operations <- {"request", "scan"}, MaxCrashes <- 0,
  status <- x1, payment <- x2, intent <- x3, provider <- x4, worker <- x5, crashes <- x6

Delivery == INSTANCE WebhookDelivery WITH
  PaymentEvents <- {p1}, CourierEvents <- {}, Workers <- {w1}, MaxAttempts <- 2, Batch <- 1,
  MaxFaults <- 2,
  row <- x1, job <- x2, listener <- x3, spent <- x4, worker <- x5, faults <- x6
ASSUME Delivery!ConstantsAssumption

Outbox == INSTANCE EmailOutbox WITH
  Emails <- {i1}, Alerted <- {i1}, Workers <- {w1, w2}, MaxAttempts <- 2, MaxFaults <- 1,
  MaxVersions <- 2, MaxRetries <- 0,
  status <- x1, attempts <- x2, due <- x3, reference <- x4, alert <- x5, delivered <- x6,
  faults <- x7, retries <- x8, late <- x9, worker <- x10

Renewals == INSTANCE Subscriptions WITH
  Subs <- {s1}, Workers <- {w1, w2}, Offers <- {Short}, MaxPeriods <- 2, MaxChains <- 2,
  MaxControls <- 3, MaxOffers <- 0, SlowControls <- TRUE, SlowEnroll <- FALSE,
  plan <- x1, offer <- x2, status <- x3, next <- x4, chains <- x5, passed <- x6, renewal <- x7,
  email <- x8, notified <- x9, controls <- x10, offers <- x11, worker <- x12
ASSUME Renewals!ConstantsAssumption

Accounts == INSTANCE AccountLifecycle WITH
  Users <- {u1}, Emails <- {e1, e2}, Orders <- {i1, i2}, Workers <- {w1, w2},
  FirstEmail <- [u \in {u1} |-> e1], MaxFaults <- 2, MaxRestores <- 2, SlowRestores <- TRUE,
  SlowCheckouts <- FALSE, Changes <- FALSE,
  status <- x1, due <- x2, email <- x3, pending <- x4, expired <- x5, identity <- x6,
  links <- x7, order <- x8, faults <- x9, restores <- x10, worker <- x11
ASSUME Accounts!ConstantsAssumption

Buyer == INSTANCE CheckoutPage WITH
  MaxContent <- 1, MaxVisits <- 1, MaxKeys <- 1, MaxOrders <- 1, MaxEdits <- 0, MaxFaults <- 1,
  Calls <- {w1, w2},
  place <- x1, visit <- x2, page <- x3, cart <- x4, view <- x5, row <- x6, order <- x7,
  call <- x8, told <- x9, tokens <- x10, moved <- x11, drawn <- x12, edits <- x13,
  faults <- x14
ASSUME Buyer!ConstantsAssumption

Desk == INSTANCE OrderDesk WITH
  Admins <- {w1}, Numbers <- {i1}, Paid <- 2, Offered <- {"refund", "check"},
  Starts <- {"DELIVERED"}, Slots <- {w1, w2}, MaxKeys <- 1, MaxLost <- 1,
  status <- x1, method <- x2, payment <- x3, ledger <- x4, shipment <- x5, page <- x6,
  job <- x7, lost <- x8

Cache == INSTANCE TaggedCache WITH
  Keys <- {v1, v2}, Ttl <- (v1 :> 3 @@ v2 :> 1), Grace <- 1, Readers <- {w1},
  Writers <- {k1, k2}, MaxWrites <- 2, MaxFaults <- 1, SlowLoads <- TRUE, SlowClears <- FALSE,
  data <- x1, cache <- x2, tag <- x3, faults <- x4, worker <- x5
ASSUME Cache!ConstantsAssumption

Limits == INSTANCE RateLimit WITH
  Requests <- {w1, w2}, Limit <- 1, Window <- 2, Base <- 1, BackoffMax <- 2, MaxFaults <- 0,
  count <- x1, violations <- x2, blocked <- x3, at <- x4, seen <- x5, served <- x6,
  faults <- x7
ASSUME Limits!ConstantsAssumption

Calls == INSTANCE ProviderClient WITH
  Callers <- {w1}, MaxAttempts <- 2, MaxCalls <- 2, MaxBusy <- 1, Busy <- {409, 503},
  refuses <- x1, orders <- x2, refunds <- x3, call <- x4, late <- x5, calls <- x6, busy <- x7
ASSUME Calls!ConstantsAssumption

Expiry == INSTANCE CatalogueAdmin WITH
  Admins <- {w1}, Variants <- {v1, v2}, Stocked <- {v1, v2}, Orders <- {1, 2},
  VariantOf <- <<v1, v2>>, Pinned <- {v2}, Prices <- {1}, Units <- [v \in {v1, v2} |-> 1],
  Names <- {"n1"}, MaxEdits <- 1, MaxSaves <- 1, BatchSize <- 2, Overlapping <- TRUE,
  Deleting <- TRUE,
  product <- x1, option <- x2, deleted <- x3, order <- x4, page <- x5, handler <- x6,
  scan <- x7, edits <- x8, saves <- x9
ASSUME Expiry!ConstantsAssumption

Editor == INSTANCE HomepageEditor WITH
  Admins <- {w1}, Cards <- {"announcement", "support"}, Sections <- {"support"},
  CardFields <- [announcement |-> {"text"}, support |-> {"title"}], Lists <- {},
  Texts <- {"old", "new"}, Trim <- [t \in {"old", "new"} |-> t], MaxItems <- 2,
  Default <- [f \in {"text", "title"} |-> "old"], MaxRequests <- 2, MaxEdits <- 2,
  MaxFaults <- 1, Overlapping <- TRUE, Leaving <- TRUE,
  row <- x1, lock <- x2, store <- x3, page <- x4, request <- x5, edits <- x6, faults <- x7
ASSUME Editor!ConstantsAssumption

Gallery == INSTANCE ProductImages WITH
  Admins <- {w1}, Images <- {v1, v2}, External <- {}, MaxImages <- 2, MaxFaults <- 1,
  MaxOrders <- 1, MaxDeletes <- 1, Dropping <- FALSE, Pinned <- BOOLEAN, Retrying <- TRUE,
  product <- x1, rows <- x2, hosted <- x3, lock <- x4, attach <- x5, cleanup <- x6,
  deletion <- x7, ordering <- x8, drop <- x9, browser <- x10, seen <- x11, failed <- x12,
  doomed <- x13, orders <- x14, deletes <- x15, faults <- x16
ASSUME Gallery!ConstantsAssumption

Browser == INSTANCE CartClient WITH
  Variants <- {v1}, Bundles <- {v2}, FirstStock <- [v \in {v1} |-> 2], Levels <- {1},
  MaxPacks <- 1, PackSize <- 2, Slots <- {w1}, ReadsOverlap <- TRUE, MaxClicks <- 1,
  MaxFaults <- 1, MaxElsewhere <- 1,
  server <- x1, stock <- x2, shown <- x3, request <- x4, reader <- x5, stale <- x6,
  unseen <- x7, clicks <- x8, faults <- x9, elsewhere <- x10
ASSUME Browser!ConstantsAssumption

Bridge == INSTANCE SignIn WITH
  Users <- {u1}, Handlers <- {1, 2, 3}, Admins <- {}, MaxNames <- 1, MaxTold <- 2,
  MaxFaults <- 1, SlowHandlers <- FALSE, Changing <- {"delete"},
  fb <- x1, token <- x2, valid <- x3, claim <- x4, display <- x5, name <- x6, state <- x7,
  handler <- x8, ref <- x9, store <- x10, job <- x11, place <- x12, next <- x13, told <- x14,
  faults <- x15, syncs <- x16, drops <- x17
ASSUME Bridge!ConstantsAssumption

Opening ==
  \/ Opens("partRefunds", 6) /\ PartRefunds!Init
  \/ Opens("delivery", 6) /\ Delivery!Init
  \/ Opens("outbox", 10) /\ Outbox!Init
  \/ Opens("renewals", 12) /\ Renewals!Init
  \/ Opens("accounts", 11) /\ Accounts!Init
  \/ Opens("buyer", 14) /\ Buyer!Init
  \/ Opens("desk", 8) /\ Desk!Init
  \/ Opens("cache", 5) /\ Cache!Init
  \/ Opens("limits", 7) /\ Limits!Init
  \/ Opens("calls", 7) /\ Calls!Init
  \/ Opens("expiry", 9) /\ Expiry!Init
  \/ Opens("editor", 7) /\ Editor!Init
  \/ Opens("gallery", 16) /\ Gallery!Init
  \/ Opens("browser", 10) /\ Browser!Init
  \/ Opens("bridge", 17) /\ Bridge!Init

Playing ==
  \/ Plays("partRefunds", 6) /\ PartRefunds!Next
  \/ Plays("delivery", 6) /\ Delivery!Next
  \/ Plays("outbox", 10) /\ Outbox!Next
  \/ Plays("renewals", 12) /\ Renewals!Next
  \/ Plays("accounts", 11) /\ Accounts!Next
  \/ Plays("buyer", 14) /\ Buyer!Next
  \/ Plays("desk", 8) /\ Desk!Next
  \/ Plays("cache", 5) /\ Cache!Next
  \/ Plays("limits", 7) /\ Limits!Next
  \/ Plays("calls", 7) /\ Calls!Next
  \/ Plays("expiry", 9) /\ Expiry!Next
  \/ Plays("editor", 7) /\ Editor!Next
  \/ Plays("gallery", 16) /\ Gallery!Next
  \/ Plays("browser", 10) /\ Browser!Next
  \/ Plays("bridge", 17) /\ Bridge!Next

-----------------------------------------------------------------------------
(* Fairness.  A behaviour plays one scene, so that a fairness condition on a  *)
(* choice of scenes is the condition of the scene it plays.                   *)

Processes == {w1, w2}
Keys == {k1, k2}

\* What a process has begun goes on: the event loop, the queue, a request.
Continues(w) ==
  \/ Plays("partRefunds", 6) /\ w = w1 /\ PartRefunds!Continue(w)
  \/ Plays("delivery", 6) /\ w = w1 /\ Delivery!Continue(w)
  \/ Plays("outbox", 10) /\ Outbox!Step(w)
  \/ Plays("renewals", 12) /\ (Renewals!Scanning(w) \/ Renewals!FinishControl(w))
  \/ Plays("accounts", 11) /\ Accounts!Step(w)
  \/ Plays("buyer", 14) /\ Buyer!Session(w)
  \/ Plays("desk", 8) /\ (Desk!Serve(w) \/ Desk!Answer(w))
  \/ Plays("limits", 7) /\ (Limits!Handle(w) \/ Limits!Arrive(w))
  \/ Plays("calls", 7) /\ w = w1 /\ (Calls!Receive(w) \/ Calls!TimeOut(w) \/ Calls!Resend(w))
  \/ Plays("expiry", 9) /\ w = w1 /\ Expiry!Expire
  \/ /\ Plays("browser", 10) /\ w = w1
     /\ \/ Browser!Serve(w) \/ Browser!Browser(w)
        \/ Browser!OutOfStock(x4[w]) /\ Browser!Refuse(w)

\* So does what has a number: a request, a handler, an image's removal.
Proceeds(n) ==
  \/ Plays("editor", 7) /\ n < 3 /\ (Editor!Server(n) \/ Editor!Browser(n))
  \/ Plays("bridge", 17) /\ Bridge!Bridge(n)
  \/ Plays("gallery", 16) /\ n < 3 /\ Gallery!Server(<<v1, v2>>[n])

\* Time passes: a lease, a delay or a grace ends, a job is taken from the
\* queue, a page is drawn or fetches again.
TimePasses(k) ==
  \/ Plays("partRefunds", 6) /\ PartRefunds!LeaseExpires(k)
  \/ Plays("delivery", 6) /\ k = k1 /\ Delivery!QueueStep(p1)
  \/ Plays("outbox", 10) /\ k = k1 /\ Outbox!TimePasses(i1)
  \/ Plays("accounts", 11) /\ k = k1 /\ Accounts!GraceEnds(u1)
  \/ Plays("cache", 5) /\ k = k1 /\ Cache!Tick
  \/ Plays("limits", 7) /\ k = k1 /\ Limits!Tick
  \/ Plays("expiry", 9) /\ k = k1 /\ Expiry!StartScan
  \/ Plays("buyer", 14) /\ k = k1 /\ Buyer!Render
  \/ Plays("desk", 8) /\ k = k1 /\ Desk!Refetch(w1)
  \/ Plays("browser", 10) /\ k = k1 /\ Browser!Refetch
  \/ Plays("browser", 10) /\ k = k2 /\ Browser!Focus

\* Others answer: the queue tells of a job that failed, the provider captures
\* and its webhook arrives, a read returns, and a person who was told of a
\* failure presses the button again.
Answers ==
  \/ Plays("delivery", 6) /\ Delivery!OnFailed(p1)
  \/ Plays("buyer", 14) /\ Buyer!Settle(1)
  \/ Plays("desk", 8) /\ Desk!Press(w1)
  \/ Plays("browser", 10) /\ Browser!ReadAnswer
  \/ Plays("gallery", 16) /\ (Gallery!ReadForOrder(w1) \/ Gallery!WriteOrder(w1))
Polls ==
  \/ Plays("buyer", 14) /\ Buyer!Poll
  \/ Plays("browser", 10) /\ Browser!ServeRead
  \/ Plays("gallery", 16) /\ \/ Gallery!Upload(w1) \/ Gallery!Attached(w1)
                             \/ Gallery!CleanUp(w1) \/ Gallery!Reported(w1)
Pays == Plays("buyer", 14) /\ \E v \in Buyer!Visits, c \in Processes : Buyer!Pay(v, c)

\* The scans of the jobs come by again and again, also when what they look for
\* is held by another process now and then; so does the administrator who asks
\* again for the removal of an image.
Scans(k) ==
  \/ Plays("partRefunds", 6) /\ PartRefunds!StartScan(w1, k)
  \/ Plays("delivery", 6) /\ k = k1 /\ Delivery!Scan(w1, p1)
  \/ Plays("outbox", 10) /\ k = k1 /\ \E w \in Processes : Outbox!Take(w, i1)
  \/ Plays("renewals", 12) /\ k = k1 /\ \E w \in Processes : Renewals!StartScan(w)
  \/ Plays("accounts", 11) /\ k = k1 /\ \E w \in Processes : Accounts!StartFinalize(w, u1)
  \/ Plays("gallery", 16) /\ k = k1 /\ Gallery!Fetch(w1) /\ x11' # x11
  \/ Plays("gallery", 16) /\ k = k2 /\ Gallery!AskDelete(w1, v1) /\ Gallery!Doomed(v1)

Fairness ==
  /\ \A w \in Processes : WF_stage(Continues(w))
  /\ \A n \in 1..3 : WF_stage(Proceeds(n))
  /\ \A k \in Keys : WF_stage(TimePasses(k)) /\ SF_stage(Scans(k))
  /\ WF_stage(Answers) /\ WF_stage(Polls) /\ WF_stage(Pays)

\* The locks have variables of their own, which rest in the other scenes.
SceneInit ==
  /\ Init
  /\ Opening \/ Opens("locks", 0)

SceneNext ==
  \/ Playing /\ UNCHANGED vars
  \/ scene = "locks" /\ Next /\ UNCHANGED stage

SceneSpec == SceneInit /\ [][SceneNext]_<<vars, stage>> /\ Fairness

-----------------------------------------------------------------------------
(* Properties *)

In(s, P) == scene = s /\ P

Unsettled(d) ==
  \/ In("partRefunds", PartRefunds!Sum(PartRefunds!PaidBackKeys) = 2)
  \/ In("delivery", Delivery!Stored(p1))
  \/ In("outbox", Outbox!Asked(i1))
  \/ In("renewals", Renewals!DueOn(s1, d))
  \/ In("accounts", Accounts!Leaving(u1))
  \/ In("cache", Cache!IsStale(v1))
  \/ In("limits", TRUE)
  \/ In("calls", Calls!Calling(w1))
  \/ In("expiry", Expiry!Holds(2))
Settled(d) ==
  \/ In("partRefunds", x1 = "REFUNDED" \/ \E k \in Keys : x3[k].attempts = 2)
  \/ In("delivery", Delivery!Settled(p1))
  \/ In("outbox", Outbox!Ended(i1))
  \/ In("renewals", ~Renewals!Overdue(s1, d))
  \/ In("accounts", ~Accounts!Leaving(u1))
  \/ In("cache", ~Cache!IsStale(v1))
  \/ In("limits", Limits!Serves)
  \/ In("calls", Calls!HasEnded(w1))
  \/ In("expiry", ~Expiry!Holds(2))

\* What was stored to be done later is done, handed to an administrator or
\* called off, whatever crashes, times out or is lost on the way: a payment
\* paid back in parts (refund.service.ts), a payment event
\* (paymentEventDelivery.service.ts), an email (emailOutbox.service.ts), a
\* renewal that is due (subscription.service.ts) and a deletion whose grace ran
\* out (account.service.ts). A stale entry of the cache goes, a limited client is
\* served again, a call to the provider ends and what an order holds is let go.
StoredWorkSettles ==
  \A d \in [chain : 1..2, k : 1..2] : Unsettled(d) ~> Settled(d)

\* A customer whose answer got lost comes to a payment window by pressing
\* again, and one who paid comes to see that the order moved on: "This page
\* updates automatically." (success/page.tsx:88).
BuyerIsNotStranded ==
  /\ In("buyer", Buyer!Waits(1)) ~> In("buyer", ~Buyer!Waits(1))
  /\ In("buyer", Buyer!HasPaid) ~> In("buyer", Buyer!PaymentShown)

Asked ==
  \/ In("desk", Desk!Asks(w1, 1))
  \/ In("editor", Editor!Saving(w1))
  \/ In("gallery", Gallery!Doomed(v1))
  \/ In("browser", TRUE)
  \/ In("bridge", Bridge!HasSignedIn(u1))
Answered ==
  \/ In("desk", Desk!MadeOrClosed(w1, 1))
  \/ In("editor", ~Editor!Saving(w1))
  \/ In("gallery", Gallery!Removed(v1))
  \/ In("browser", Browser!Agrees)
  \/ In("bridge", Bridge!KnownOrOut(u1))

\* What was asked for on a page ends in what the page shows, however many
\* requests and answers are lost: a refund that is asked for until it is
\* answered is made (handleRefund, acquireRefundIntent), a card is saved or
\* fails, an image that is removed again and again goes, the cart that is shown
\* becomes the cart again, and who signed in is known or signed out.
AskedIsAnswered == Asked ~> Answered
=============================================================================
