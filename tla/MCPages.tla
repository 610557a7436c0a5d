------------------------------ MODULE MCPages -------------------------------
(* Small instances for TLC of the pages of the customer and of the           *)
(* administrators, each with the part of the server it talks to.             *)
EXTENDS OrderDesk, Stage, TLC

CONSTANTS
  None, Absent, NoUser,
  w1, w2,              \* components of a page, calls, administrators
  v1, v2, v3, b1,      \* what they work at
  s1, s2, u1, u2

-----------------------------------------------------------------------------
(* The scenes. *)

\* The homepage's cards and texts.
FieldsOf ==
  [announcement |-> {"text", "code"}, rewards |-> {"tiers"},
   support |-> {"title", "body"}, featured |-> {"heading"}]
HomeTexts == {"old", "new ", "new"}
Trimmed == [t \in HomeTexts |-> IF t = "new " THEN "new" ELSE t]
FirstTexts ==
  [f \in {"text", "code", "tiers", "title", "body", "heading"} |->
     IF f = "tiers" THEN <<>> ELSE "old"]

Browser == INSTANCE CartClient WITH
  Variants <- {v1, v2}, Bundles <- {b1}, FirstStock <- v1 :> 2 @@ v2 :> 1, Levels <- {0, 1},
  MaxPacks <- 1, PackSize <- 2, Slots <- {w1}, ReadsOverlap <- FALSE, MaxClicks <- 4,
  MaxFaults <- 2, MaxElsewhere <- 1,
  server <- x1, stock <- x2, shown <- x3, request <- x4, reader <- x5, stale <- x6,
  unseen <- x7, clicks <- x8, faults <- x9, elsewhere <- x10
ASSUME Browser!ConstantsAssumption

Hearts == INSTANCE WishlistClient WITH
  Products <- {v1, v2, v3}, Places <- {w1, w2}, Overlap <- TRUE, Remounts <- FALSE,
  Failures <- {}, MaxClicks <- 5, MaxFaults <- 0,
  saved <- x1, shown <- x2, heart <- x3, call <- x4, faults <- x5
ASSUME Hearts!ConstantsAssumption

RefusedHearts == INSTANCE WishlistClient WITH
  Products <- {v1, v2}, Places <- {w1, w2}, Overlap <- FALSE, Remounts <- TRUE,
  Failures <- {"refused"}, MaxClicks <- 4, MaxFaults <- 2,
  saved <- x1, shown <- x2, heart <- x3, call <- x4, faults <- x5
ASSUME RefusedHearts!ConstantsAssumption

Bridge == INSTANCE SignIn WITH
  Users <- {u1, u2}, Handlers <- {1, 2, 3}, Admins <- {u2}, MaxNames <- 1, MaxTold <- 1,
  MaxFaults <- 0, SlowHandlers <- FALSE, Changing <- {"signup", "delete", "logout"},
  fb <- x1, token <- x2, valid <- x3, claim <- x4, display <- x5, name <- x6, state <- x7,
  handler <- x8, ref <- x9, store <- x10, job <- x11, place <- x12, next <- x13, told <- x14,
  faults <- x15, syncs <- x16, drops <- x17
ASSUME Bridge!ConstantsAssumption

Form == INSTANCE CheckoutForm WITH
  Pins <- {v1, v2}, UnitPrice <- 5, BundlePrice <- 7, MaxUnits <- 1, MaxBundles <- 1,
  Percent <- 30, MinSubtotal <- 5, FirstCart <- [units |-> 1, bundles |-> 0], MaxTyped <- 1,
  MaxMoves <- 1, MaxLost <- 1,
  step <- x1, pin <- x2, service <- x3, checks <- x4, cart <- x5, view <- x6, coupon <- x7,
  applying <- x8, order <- x9, typed <- x10, refusal <- x11, count <- x12
ASSUME Form!ConstantsAssumption

Window == INSTANCE CheckoutPage WITH
  MaxContent <- 2, MaxVisits <- 1, MaxKeys <- 2, MaxOrders <- 2, MaxEdits <- 1, MaxFaults <- 1,
  Calls <- {w1, w2},
  place <- x1, visit <- x2, page <- x3, cart <- x4, view <- x5, row <- x6, order <- x7,
  call <- x8, told <- x9, tokens <- x10, moved <- x11, drawn <- x12, edits <- x13,
  faults <- x14
ASSUME Window!ConstantsAssumption

RefundDesk == INSTANCE OrderDesk WITH
  Admins <- {w1}, Numbers <- {v1}, Paid <- 2, Offered <- {"refund", "check"},
  Starts <- {"DELIVERED"}, Slots <- {s1, s2}, MaxKeys <- 2, MaxLost <- 1,
  status <- x1, method <- x2, payment <- x3, ledger <- x4, shipment <- x5, page <- x6,
  job <- x7, lost <- x8

Homepage == INSTANCE HomepageEditor WITH
  Admins <- {w1}, Cards <- {"announcement", "rewards", "support"}, Sections <- {"support"},
  CardFields <- FieldsOf, Lists <- {"tiers"}, Texts <- HomeTexts, Trim <- Trimmed,
  MaxItems <- 2, Default <- FirstTexts, MaxRequests <- 2, MaxEdits <- 3, MaxFaults <- 1,
  Overlapping <- FALSE, Leaving <- FALSE,
  row <- x1, lock <- x2, store <- x3, page <- x4, request <- x5, edits <- x6, faults <- x7
ASSUME Homepage!ConstantsAssumption

TwoEditors == INSTANCE HomepageEditor WITH
  Admins <- {w1, w2}, Cards <- {"announcement", "support", "featured"},
  Sections <- {"support", "featured"}, CardFields <- FieldsOf, Lists <- {},
  Texts <- {"old", "new"}, Trim <- [t \in {"old", "new"} |-> t], MaxItems <- 2,
  Default <- FirstTexts, MaxRequests <- 2, MaxEdits <- 3, MaxFaults <- 1, Overlapping <- TRUE,
  Leaving <- FALSE,
  row <- x1, lock <- x2, store <- x3, page <- x4, request <- x5, edits <- x6, faults <- x7
ASSUME TwoEditors!ConstantsAssumption

Catalogue == INSTANCE CatalogueAdmin WITH
  Admins <- {w1}, Variants <- {v1, v2, v3}, Stocked <- {v1, v2}, Orders <- {1},
  VariantOf <- <<v1>>, Pinned <- {}, Prices <- {1, 2}, Units <- [v \in {v1, v2, v3} |-> 1],
  Names <- {"n1", "n2"}, MaxEdits <- 2, MaxSaves <- 2, BatchSize <- 1, Overlapping <- TRUE,
  Deleting <- TRUE,
  product <- x1, option <- x2, deleted <- x3, order <- x4, page <- x5, handler <- x6,
  scan <- x7, edits <- x8, saves <- x9
ASSUME Catalogue!ConstantsAssumption

TwoAdmins == INSTANCE CatalogueAdmin WITH
  Admins <- {w1, w2}, Variants <- {v1, v2, v3}, Stocked <- {v1, v2}, Orders <- {},
  VariantOf <- <<>>, Pinned <- {v2}, Prices <- {1, 2}, Units <- [v \in {v1, v2, v3} |-> 1],
  Names <- {"n1", "n2"}, MaxEdits <- 2, MaxSaves <- 2, BatchSize <- 1, Overlapping <- TRUE,
  Deleting <- FALSE,
  product <- x1, option <- x2, deleted <- x3, order <- x4, page <- x5, handler <- x6,
  scan <- x7, edits <- x8, saves <- x9
ASSUME TwoAdmins!ConstantsAssumption

Gallery == INSTANCE ProductImages WITH
  Admins <- {w1, w2}, Images <- {v1, v2, v3}, External <- {v3}, MaxImages <- 2, MaxFaults <- 1,
  MaxOrders <- 1, MaxDeletes <- 1, Dropping <- FALSE, Pinned <- BOOLEAN, Retrying <- FALSE,
  product <- x1, rows <- x2, hosted <- x3, lock <- x4, attach <- x5, cleanup <- x6,
  deletion <- x7, ordering <- x8, drop <- x9, browser <- x10, seen <- x11, failed <- x12,
  doomed <- x13, orders <- x14, deletes <- x15, faults <- x16
ASSUME Gallery!ConstantsAssumption

ImageOrder == INSTANCE ProductImages WITH
  Admins <- {w1, w2}, Images <- {v1, v2, v3}, External <- {v1, v2, v3}, MaxImages <- 3,
  MaxFaults <- 0, MaxOrders <- 2, MaxDeletes <- 1, Dropping <- FALSE, Pinned <- BOOLEAN,
  Retrying <- FALSE,
  product <- x1, rows <- x2, hosted <- x3, lock <- x4, attach <- x5, cleanup <- x6,
  deletion <- x7, ordering <- x8, drop <- x9, browser <- x10, seen <- x11, failed <- x12,
  doomed <- x13, orders <- x14, deletes <- x15, faults <- x16
ASSUME ImageOrder!ConstantsAssumption

Dropped == INSTANCE ProductImages WITH
  Admins <- {w1}, Images <- {v1, v2}, External <- {}, MaxImages <- 2, MaxFaults <- 1,
  MaxOrders <- 1, MaxDeletes <- 1, Dropping <- TRUE, Pinned <- BOOLEAN, Retrying <- FALSE,
  product <- x1, rows <- x2, hosted <- x3, lock <- x4, attach <- x5, cleanup <- x6,
  deletion <- x7, ordering <- x8, drop <- x9, browser <- x10, seen <- x11, failed <- x12,
  doomed <- x13, orders <- x14, deletes <- x15, faults <- x16
ASSUME Dropped!ConstantsAssumption

\* A bundle of two variants for ten rupees, from the first moment to the last.
FirstBundle ==
  [id |-> 0, active |-> TRUE, type |-> "FIXED_PRICE", value |-> 1000, start |-> 0, end |-> 2,
   items |-> v1 :> 1 @@ v2 :> 1]

Bundle == INSTANCE BundleAdmin WITH
  Admins <- {w1}, Variants <- {v1, v2}, Prices <- {400, 900}, TypedValues <- {1000},
  MaxQuantity <- 1, Stocks <- {1, 2}, MaxTime <- 1, FirstRow <- FirstBundle,
  Edited <- {"active", "start", "end"}, MaxEdits <- 1, MaxRequests <- 1,
  MaxMoves <- 1, MaxLost <- 1, Overlapping <- FALSE,
  row <- x1, variant <- x2, now <- x3, page <- x4, call <- x5, edits <- x6, requests <- x7,
  moves <- x8, lost <- x9
ASSUME Bundle!ConstantsAssumption

NewBundle == INSTANCE BundleAdmin WITH
  Admins <- {w1}, Variants <- {v1, v2}, Prices <- {900}, TypedValues <- {1000},
  MaxQuantity <- 2, Stocks <- {2}, MaxTime <- 1, FirstRow <- FirstBundle,
  Edited <- {"items"}, MaxEdits <- 2, MaxRequests <- 2,
  MaxMoves <- 1, MaxLost <- 0, Overlapping <- FALSE,
  row <- x1, variant <- x2, now <- x3, page <- x4, call <- x5, edits <- x6, requests <- x7,
  moves <- x8, lost <- x9
ASSUME NewBundle!ConstantsAssumption

TwoMerchants == INSTANCE BundleAdmin WITH
  Admins <- {w1, w2}, Variants <- {v1, v2}, Prices <- {900}, TypedValues <- {1000, 1500},
  MaxQuantity <- 1, Stocks <- {1}, MaxTime <- 1, FirstRow <- FirstBundle,
  Edited <- {"type", "value"}, MaxEdits <- 2, MaxRequests <- 2,
  MaxMoves <- 0, MaxLost <- 0, Overlapping <- FALSE,
  row <- x1, variant <- x2, now <- x3, page <- x4, call <- x5, edits <- x6, requests <- x7,
  moves <- x8, lost <- x9
ASSUME TwoMerchants!ConstantsAssumption

OverlappingSaves == INSTANCE BundleAdmin WITH
  Admins <- {w1, w2}, Variants <- {v1, v2}, Prices <- {900}, TypedValues <- {1500},
  MaxQuantity <- 1, Stocks <- {1}, MaxTime <- 1, FirstRow <- FirstBundle,
  Edited <- {"type", "value"}, MaxEdits <- 2, MaxRequests <- 2,
  MaxMoves <- 0, MaxLost <- 0, Overlapping <- TRUE,
  row <- x1, variant <- x2, now <- x3, page <- x4, call <- x5, edits <- x6, requests <- x7,
  moves <- x8, lost <- x9
ASSUME OverlappingSaves!ConstantsAssumption

Opening ==
  \/ Opens("browser", 10) /\ Browser!Init
  \/ Opens("hearts", 5) /\ Hearts!Init
  \/ Opens("refusedHearts", 5) /\ RefusedHearts!Init
  \/ Opens("bridge", 17) /\ Bridge!Init
  \/ Opens("form", 12) /\ Form!Init
  \/ Opens("window", 14) /\ Window!Init
  \/ Opens("refundDesk", 8) /\ RefundDesk!Init
  \/ Opens("homepage", 7) /\ Homepage!Init
  \/ Opens("twoEditors", 7) /\ TwoEditors!Init
  \/ Opens("catalogue", 9) /\ Catalogue!Init
  \/ Opens("twoAdmins", 9) /\ TwoAdmins!Init
  \/ Opens("gallery", 16) /\ Gallery!Init
  \/ Opens("imageOrder", 16) /\ ImageOrder!Init
  \/ Opens("dropped", 16) /\ Dropped!Init
  \/ Opens("bundle", 9) /\ Bundle!Init
  \/ Opens("newBundle", 9) /\ NewBundle!Init
  \/ Opens("twoMerchants", 9) /\ TwoMerchants!Init
  \/ Opens("overlappingSaves", 9) /\ OverlappingSaves!Init

Playing ==
  \/ Plays("browser", 10) /\ Browser!Next
  \/ Plays("hearts", 5) /\ Hearts!Next
  \/ Plays("refusedHearts", 5) /\ RefusedHearts!Next
  \/ Plays("bridge", 17) /\ Bridge!Next
  \/ Plays("form", 12) /\ Form!Next
  \/ Plays("window", 14) /\ Window!Next
  \/ Plays("refundDesk", 8) /\ RefundDesk!Next
  \/ Plays("homepage", 7) /\ Homepage!Next
  \/ Plays("twoEditors", 7) /\ TwoEditors!Next
  \/ Plays("catalogue", 9) /\ Catalogue!Next
  \/ Plays("twoAdmins", 9) /\ TwoAdmins!Next
  \/ Plays("gallery", 16) /\ Gallery!Next
  \/ Plays("imageOrder", 16) /\ ImageOrder!Next
  \/ Plays("dropped", 16) /\ Dropped!Next
  \/ Plays("bundle", 9) /\ Bundle!Next
  \/ Plays("newBundle", 9) /\ NewBundle!Next
  \/ Plays("twoMerchants", 9) /\ TwoMerchants!Next
  \/ Plays("overlappingSaves", 9) /\ OverlappingSaves!Next

\* The desk has variables of its own, which rest in the other scenes.
SceneInit ==
  \/ Init /\ Opens("desk", 0)
  \/ Init /\ status = "PAID" /\ Opening

SceneNext ==
  \/ Playing /\ UNCHANGED vars
  \/ scene = "desk" /\ Next /\ UNCHANGED stage

SceneSpec == SceneInit /\ [][SceneNext]_<<vars, stage>>

Symmetry == Permutations({w1, w2}) \cup Permutations({s1, s2})

-----------------------------------------------------------------------------
(* Properties *)

\* What a page shows at rest is what the server holds, after any guesses,
\* refusals, sign-ins and sign-outs: the cart and its count (cartApi.ts), the
\* saved hearts and their list (wishlistApi.ts), and the user with name and
\* state, for whom no more sessions are asked than events call for
\* (AuthBridge.tsx).
ShownIsHeld ==
  /\ scene = "browser" => Browser!TypeOK /\ Browser!ShownIsCart
  /\ scene = "hearts" => Hearts!TypeOK /\ Hearts!ShownIsSaved /\ Hearts!ListedIsShown
  /\ scene = "refusedHearts" => RefusedHearts!ShownIsSaved /\ RefusedHearts!ListedIsShown
  /\ scene = "bridge" => /\ Bridge!TypeOK /\ Bridge!StatusAtRest /\ Bridge!OwnRefreshNoSync
                         /\ Bridge!NameShown /\ Bridge!StateShown

\* An order goes to the PIN code whose coverage the page showed, in whatever
\* order the checks were answered, and the page's arithmetic is the server's:
\* the total read is the total charged, for the cart as shown and the coupon
\* validated for it (checkout/page.tsx).
FormIsKept ==
  scene = "form" => Form!TypeOK /\ Form!OrderIsCovered /\ Form!TotalAgrees

\* However fast the pay button is pressed a page has one request or window at
\* a time (payingRef), and the window asks for the money of an order of what
\* the page listed, unless the cart changed under the request itself. So does
\* the refund button of an administrator's page: one wish, one refund.
WindowIsRight ==
  /\ scene = "window" => Window!TypeOK /\ Window!OnePerPage /\ Window!WindowIsForCart
  /\ scene = "refundDesk" => RefundDesk!TypeOK /\ RefundDesk!OneRefundPerAction

\* A save of an administrator changes what that administrator edited, also
\* when another one saves at the same time. For one administrator, and cards
\* whose saves do not overlap, what the page says was published is, and no
\* published product loses its last option or its compare-at price its sense
\* (admin/homepage, admin/products). Partial saves of a bundle that do not
\* overlap leave one that the server's check lets pass: its dates are in order
\* and it is sold for no less than a paisa (admin/bundles).
SavesOnlyItsOwn ==
  /\ [](/\ scene = "homepage" => Homepage!TypeOK /\ Homepage!SavedIsPublished
        /\ scene = "catalogue" => /\ Catalogue!TypeOK /\ Catalogue!PublishedHasOption
                                  /\ Catalogue!MrpAboveBase
        /\ scene = "bundle" => Bundle!TypeOK /\ Bundle!NeverFree /\ Bundle!OfferIsCovered
        /\ scene = "newBundle" => NewBundle!StoredIsValid
        /\ scene = "twoMerchants" => TwoMerchants!StoredIsValid /\ TwoMerchants!NeverFree)
  /\ [][/\ scene = "twoEditors" => TwoEditors!OnlyItsCard
        /\ scene = "twoAdmins" => TwoAdmins!OnlyChangedFields
        /\ scene = "newBundle" => NewBundle!PreviewIsPrice
        /\ scene = "overlappingSaves" => OverlappingSaves!OnlyItsFields]_stage

\* The rows of a product's images and the files at the host agree: no image is
\* shown that the host lost, no file is kept that belongs to nothing, and with
\* any number of administrators a product has at most its limit, at positions
\* of their own (cloudinary.service.ts).
ImagesAgree ==
  /\ scene = "gallery" => Gallery!ImageLimit /\ Gallery!RowIsHosted /\ Gallery!NoOrphan
  /\ scene = "imageOrder" => ImageOrder!PositionsDistinct
  /\ scene = "dropped" => Dropped!TypeOK /\ Dropped!RowIsHosted
=============================================================================
