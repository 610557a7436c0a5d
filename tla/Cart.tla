-------------------------------- MODULE Cart --------------------------------
(***************************************************************************)
(* The cart of a visitor and of the customer the visitor becomes: two      *)
(* Redis hashes for each of them, changed and read by requests that share  *)
(* no lock, and the revision a checkout compares before and after it reads *)
(* the cart.                                                               *)
(*   cart/cart.service.ts          getCart, hydrate, addItem, setItemQty,  *)
(*                                 removeItem, clearCart,                  *)
(*                                 mergeGuestIntoUser                      *)
(*   cart/cartRevision.service.ts  getCartRevision, appendCartRevision     *)
(*   bundles/bundleCart.service.ts the same operations for bundles         *)
(*   bundles/bundlePolicy.ts       calculateBundleAvailability             *)
(*   cart/cart.routes.ts           the requests                            *)
(*   checkout/checkout.service.ts  the cart a checkout orders and clears   *)
(* A MULTI is one step and every other call of Redis or of the database is *)
(* one.  An inactive product is one without stock.  A revision is compared *)
(* for equality only, so it is the set of checkouts whose reading of it is *)
(* still current; the keys' 30 days do not end.                            *)
(***************************************************************************)
EXTENDS Naturals, FiniteSets, FiniteSetsExt

CONSTANTS
  Variants, Bundles,
  Needs,         \* the variants a bundle is made of, and how many of each
  FirstStock,    \* the stock of each variant
  Levels,        \* the stock a variant may be given
  Amounts,       \* the quantities of a request
  Requests,      \* the kinds of requests made
  Workers,       \* requests in flight at once
  MaxRequests,   \* bound on the requests that change a cart
  MaxMoves,      \* bound on the changes of stock from outside
  FreeMoves,     \* whether the stock changes while requests run
  SlowClamps,    \* whether another request runs between addItem's two writes
  None

Owners == {"guest", "user"}
Items == Variants \cup Bundles

ConstantsAssumption ==
  /\ Needs \in [Bundles -> [Variants -> Nat]]
  /\ \A b \in Bundles : \E v \in Variants : Needs[b][v] > 0
  /\ FirstStock \in [Variants -> Nat] /\ Levels \subseteq Nat /\ Amounts \subseteq Nat \ {0}
  /\ Requests \subseteq {"get", "add", "set", "remove", "clear", "merge", "checkout"}
  /\ MaxRequests \in Nat /\ MaxMoves \in Nat
  /\ FreeMoves \in BOOLEAN /\ SlowClamps \in BOOLEAN
  /\ Variants \cap Bundles = {} /\ None \notin Items

VARIABLES
  cart,      \* cart:<owner>:<id> and cart:<owner>:<id>:bundles: quantities
  current,   \* the checkouts that read the revision their owner's cart has
  stock,     \* ProductVariant.stock
  wanted,    \* what the requests so far ask for, applied one after another
  settled,   \* the owners whose cart was read since the stock last changed
  requests, moves,
  worker

vars == <<cart, current, stock, wanted, settled, requests, moves, worker>>

Lesser(m, n) == IF m < n THEN m ELSE n
Nothing == [i \in Items |-> 0]

\* calculateBundleAvailability for a bundle.
AvailableIn(level, i) ==
  IF i \in Variants THEN level[i]
  ELSE Min({level[v] \div Needs[i][v] : v \in {u \in Variants : Needs[i][u] > 0}})
Available(i) == AvailableIn(stock, i)

Idle == [at |-> "idle", checkout |-> FALSE, owner |-> None, item |-> None,
         qty |-> 0, cap |-> 0, raw |-> Nothing, fixes |-> {}]

Init ==
  /\ cart = [o \in Owners |-> Nothing]
  /\ current = {}
  /\ stock = FirstStock
  /\ wanted = [o \in Owners |-> Nothing]
  /\ settled = {}
  /\ requests = 0 /\ moves = 0
  /\ worker = [w \in Workers |-> Idle]

At(w, place) == worker[w].at = place
Set(w, t) == worker' = [worker EXCEPT ![w] = t]
Goto(w, place) == worker' = [worker EXCEPT ![w].at = place]
Owner(w) == worker[w].owner
Quiet == \A w \in Workers : At(w, "idle")
MayRun(w) == SlowClamps \/ \A u \in Workers \ {w} : ~At(u, "clamp")

\* appendCartRevision: no checkout of these owners holds the revision now.
Bump(owners) == current' = {w \in current : Owner(w) \notin owners}

Asked(kind) == kind \in Requests /\ requests < MaxRequests /\ requests' = requests + 1
rest == <<stock, settled, requests, moves>>

-----------------------------------------------------------------------------
(* Reading a cart: getCart, which corrects what it finds.                  *)

StartGet(w, o) ==
  /\ At(w, "idle") /\ "get" \in Requests
  /\ Set(w, [Idle EXCEPT !.at = "read", !.owner = o])
  /\ UNCHANGED <<cart, current, wanted, rest>>

\* Both hashes, asked for together.
ReadCart(w) ==
  /\ At(w, "read")
  /\ Set(w, [worker[w] EXCEPT !.at = "bundles", !.raw = cart[Owner(w)]])
  /\ UNCHANGED <<cart, current, wanted, rest>>

Part(w) == IF worker[w].at \in {"bundles", "healBundles"} THEN Bundles ELSE Variants
AfterPart(w) ==
  IF Part(w) = Bundles THEN "lines"
  ELSE IF worker[w].checkout THEN "check" ELSE "idle"
Finish(w, t) == IF t.at = "idle" THEN Set(w, Idle) ELSE Set(w, t)

\* What a reading corrects: the quantities above what there is.
Fixes(w) == {i \in Part(w) : worker[w].raw[i] > Available(i)}

\* hydrateBundleCart, then hydrate: the stock of what was read.
Hydrate(w) ==
  LET shown == [worker[w] EXCEPT
        !.raw = [i \in Items |-> IF i \in Part(w) THEN Lesser(@[i], Available(i)) ELSE @[i]]] IN
  /\ worker[w].at \in {"bundles", "lines"}
  /\ IF Fixes(w) = {}
     THEN Finish(w, [shown EXCEPT !.at = AfterPart(w)])
     ELSE Set(w, [shown EXCEPT !.at = IF At(w, "bundles") THEN "healBundles" ELSE "healLines",
                               !.fixes = Fixes(w)])
  /\ wanted' = [wanted EXCEPT ![Owner(w)] =
        [i \in Items |-> IF i \in Part(w) THEN Lesser(@[i], Available(i)) ELSE @[i]]]
  /\ settled' = IF At(w, "lines") THEN settled \cup {Owner(w)} ELSE settled
  /\ UNCHANGED <<cart, current, stock, requests, moves>>

BumpNone(owners) == UNCHANGED current
BumpOnHeal(owners) == Bump(owners)

\* The correcting write, with the quantities read before.
Heal(w) ==
  LET t == worker[w] IN
  /\ t.at \in {"healBundles", "healLines"}
  /\ cart' = [cart EXCEPT ![t.owner] =
        [i \in Items |-> IF i \in t.fixes THEN t.raw[i] ELSE @[i]]]
  /\ BumpOnHeal({t.owner})
  /\ Finish(w, [t EXCEPT !.at = AfterPart(w), !.fixes = {}])
  /\ UNCHANGED <<wanted, rest>>

-----------------------------------------------------------------------------
(* Changing a cart.  Every request ends by reading it.                     *)

Looking(w, kind, o, i, q) ==
  Set(w, [Idle EXCEPT !.at = kind, !.owner = o, !.item = i, !.qty = q, !.cap = Available(i)])

\* The stock is read first: what is gone cannot be added or set.
StartAdd(w, o, i, q) ==
  /\ At(w, "idle") /\ Available(i) > 0
  /\ Asked("add")
  /\ Looking(w, IF i \in Variants THEN "add" ELSE "current", o, i, q)
  /\ UNCHANGED <<cart, current, stock, wanted, settled, moves>>

StartSet(w, o, i, q) ==
  /\ At(w, "idle") /\ Available(i) > 0
  /\ Asked("set")
  /\ Looking(w, "put", o, i, q)
  /\ UNCHANGED <<cart, current, stock, wanted, settled, moves>>

Want(o, i, n) == wanted' = [wanted EXCEPT ![o][i] = n]

Incremented(t) == cart[t.owner][t.item] + t.qty

\* addItem: HINCRBY, and a second write when it went above the stock.
AddItem(w) ==
  LET t == worker[w]
      sum == Incremented(t) IN
  /\ t.at = "add"
  /\ cart' = [cart EXCEPT ![t.owner][t.item] = sum]
  /\ Want(t.owner, t.item, Lesser(wanted[t.owner][t.item] + t.qty, t.cap))
  /\ Bump({t.owner})
  /\ Goto(w, IF sum > t.cap THEN "clamp" ELSE "read")
  /\ UNCHANGED rest

\* ... which does not change the revision.
ClampItem(w) ==
  LET t == worker[w] IN
  /\ t.at = "clamp"
  /\ cart' = [cart EXCEPT ![t.owner][t.item] = t.cap]
  /\ Goto(w, "read")
  /\ UNCHANGED <<current, wanted, rest>>

\* addBundle: HGET, the sum, HSET.
ReadBundle(w) ==
  LET t == worker[w] IN
  /\ t.at = "current"
  /\ Set(w, [t EXCEPT !.at = "addBundle", !.raw[t.item] = cart[t.owner][t.item]])
  /\ UNCHANGED <<cart, current, wanted, rest>>

AddBundle(w) ==
  LET t == worker[w] IN
  /\ t.at = "addBundle"
  /\ cart' = [cart EXCEPT ![t.owner][t.item] = Lesser(t.raw[t.item] + t.qty, t.cap)]
  /\ Want(t.owner, t.item, Lesser(wanted[t.owner][t.item] + t.qty, t.cap))
  /\ Bump({t.owner})
  /\ Goto(w, "read")
  /\ UNCHANGED rest

\* setItemQty and setBundleQuantity.
PutItem(w) ==
  LET t == worker[w] IN
  /\ t.at = "put"
  /\ cart' = [cart EXCEPT ![t.owner][t.item] = Lesser(t.qty, t.cap)]
  /\ Want(t.owner, t.item, Lesser(t.qty, t.cap))
  /\ Bump({t.owner})
  /\ Goto(w, "read")
  /\ UNCHANGED rest

\* removeItem, removeBundle, and the quantity set to 0.
Remove(w, o, i) ==
  /\ At(w, "idle") /\ Asked("remove")
  /\ cart' = [cart EXCEPT ![o][i] = 0]
  /\ Want(o, i, 0)
  /\ Bump({o})
  /\ Set(w, [Idle EXCEPT !.at = "read", !.owner = o])
  /\ UNCHANGED <<stock, settled, moves>>

ClearCart(w, o) ==
  /\ At(w, "idle") /\ Asked("clear")
  /\ cart' = [cart EXCEPT ![o] = Nothing]
  /\ wanted' = [wanted EXCEPT ![o] = Nothing]
  /\ Bump({o})
  /\ UNCHANGED <<stock, settled, moves, worker>>

-----------------------------------------------------------------------------
(* mergeGuestIntoUser, then mergeGuestBundles.                             *)

LinesOf(c) == [i \in Items |-> IF i \in Variants THEN c[i] ELSE 0]
BundlesOf(c) == [i \in Items |-> IF i \in Bundles THEN c[i] ELSE 0]
Sum2(c, d) == [i \in Items |-> c[i] + d[i]]
Capped(c) == [i \in Items |-> Lesser(c[i], Available(i))]
Replaced(c, part, d) == [i \in Items |-> IF i \in part THEN d[i] ELSE c[i]]

StartMerge(w) ==
  LET lines == LinesOf(cart["guest"]) IN
  /\ At(w, "idle") /\ Asked("merge")
  /\ Set(w, [Idle EXCEPT !.at = IF lines = Nothing THEN "noLines" ELSE "userLines",
                         !.owner = "user", !.raw = lines])
  /\ UNCHANGED <<cart, current, stock, wanted, settled, moves>>

\* A guest hash found empty is deleted all the same.
DeleteGuest(w) ==
  /\ At(w, "noLines")
  /\ cart' = [cart EXCEPT !["guest"] = Replaced(@, Variants, Nothing)]
  /\ Goto(w, "bothBundles")
  /\ UNCHANGED <<current, wanted, rest>>

GuestOnly(guest, user) == guest
Together(guest, user) == Sum2(guest, user)

ReadUser(w) ==
  /\ At(w, "userLines")
  /\ Set(w, [worker[w] EXCEPT !.at = "capLines", !.raw = Together(@, LinesOf(cart["user"]))])
  /\ UNCHANGED <<cart, current, wanted, rest>>

ReadBundles(w) ==
  /\ At(w, "bothBundles")
  /\ Set(w, [worker[w] EXCEPT !.at = "capBundles",
               !.raw = Sum2(BundlesOf(cart["guest"]), BundlesOf(cart["user"]))])
  /\ UNCHANGED <<cart, current, wanted, rest>>

CapMerged(w) ==
  /\ worker[w].at \in {"capLines", "capBundles"}
  /\ Set(w, [worker[w] EXCEPT !.raw = Capped(@),
               !.at = IF At(w, "capLines") THEN "writeLines" ELSE "writeBundles"])
  /\ UNCHANGED <<cart, current, wanted, rest>>

\* One MULTI: the guest's hash goes, the user's is written anew.
WriteMerged(w) ==
  LET t == worker[w]
      part == IF t.at = "writeLines" THEN Variants ELSE Bundles
      total == Capped(Sum2(wanted["guest"], wanted["user"])) IN
  /\ t.at \in {"writeLines", "writeBundles"}
  /\ cart' = [guest |-> Replaced(cart["guest"], part, Nothing),
              user |-> Replaced(cart["user"], part, t.raw)]
  /\ wanted' = [guest |-> Replaced(wanted["guest"], part, Nothing),
                user |-> Replaced(wanted["user"], part, total)]
  /\ Bump(Owners)
  /\ Goto(w, IF t.at = "writeLines" THEN "bothBundles" ELSE "read")
  /\ UNCHANGED rest

-----------------------------------------------------------------------------
(* createFreshCheckoutSession, as far as the cart goes.                    *)

\* The revision, read and found unchanged once the attempt is claimed.
StartCheckout(w, o) ==
  /\ At(w, "idle") /\ Asked("checkout")
  /\ current' = current \cup {w}
  /\ Set(w, [Idle EXCEPT !.at = "read", !.owner = o, !.checkout = TRUE])
  /\ UNCHANGED <<cart, stock, wanted, settled, moves>>

\* The second comparison; a cart that changed or is empty is refused.
CheckRevision(w) ==
  /\ At(w, "check")
  /\ IF w \in current /\ worker[w].raw # Nothing
     THEN Goto(w, "order")
     ELSE Set(w, Idle)
  /\ current' = current \ {w}
  /\ UNCHANGED <<cart, wanted, rest>>

\* The transaction: the variants of lines and bundles together.
Needed(c, v) == c[v] + MapThenSumSet(LAMBDA b : c[b] * Needs[b][v], Bundles)

Enough(c) == \A v \in Variants : Needed(c, v) <= stock[v]

Reserve(w) ==
  LET c == worker[w].raw IN
  /\ At(w, "order")
  /\ IF Enough(c)
     THEN /\ stock' = [v \in Variants |-> stock[v] - Needed(c, v)]
          /\ settled' = {}
          /\ Goto(w, "placed")
     ELSE /\ Set(w, Idle)
          /\ UNCHANGED <<stock, settled>>
  /\ UNCHANGED <<cart, current, wanted, requests, moves>>

\* The provider refused the payment order: the stock is released.
PaymentRefused(w) ==
  /\ At(w, "placed")
  /\ stock' = [v \in Variants |-> stock[v] + Needed(worker[w].raw, v)]
  /\ settled' = {}
  /\ Set(w, Idle)
  /\ UNCHANGED <<cart, current, wanted, requests, moves>>

\* clearCommittedCart, which may fail.
ClearCommitted(w) ==
  /\ At(w, "placed")
  /\ \/ /\ cart' = [cart EXCEPT ![Owner(w)] = Nothing]
        /\ wanted' = [wanted EXCEPT ![Owner(w)] = Nothing]
        /\ Bump({Owner(w)})
     \/ UNCHANGED <<cart, wanted, current>>
  /\ Set(w, Idle)
  /\ UNCHANGED rest

-----------------------------------------------------------------------------
\* An administrator, another customer or an expired reservation.
MoveStock(v, n) ==
  /\ moves < MaxMoves /\ n # stock[v]
  /\ FreeMoves \/ Quiet
  /\ stock' = [stock EXCEPT ![v] = n]
  /\ settled' = {}
  /\ moves' = moves + 1
  /\ UNCHANGED <<cart, current, wanted, requests, worker>>

Start(w) ==
  \/ \E o \in Owners :
       \/ StartGet(w, o) \/ ClearCart(w, o) \/ StartCheckout(w, o)
       \/ \E i \in Items : Remove(w, o, i)
       \/ \E i \in Items, q \in Amounts : StartAdd(w, o, i, q) \/ StartSet(w, o, i, q)
  \/ StartMerge(w)

Continue(w) ==
  \/ ReadCart(w) \/ Hydrate(w) \/ Heal(w)
  \/ AddItem(w) \/ ClampItem(w) \/ ReadBundle(w) \/ AddBundle(w) \/ PutItem(w)
  \/ DeleteGuest(w) \/ ReadUser(w) \/ ReadBundles(w) \/ CapMerged(w) \/ WriteMerged(w)
  \/ CheckRevision(w) \/ Reserve(w) \/ PaymentRefused(w) \/ ClearCommitted(w)

Next ==
  \/ \E w \in Workers : MayRun(w) /\ (Start(w) \/ Continue(w))
  \/ \E v \in Variants, n \in Levels : MoveStock(v, n)

Spec == Init /\ [][Next]_vars

-----------------------------------------------------------------------------
\* Types: the quantities are numbers, a request waits at one of its calls.
TypeOK ==
  /\ cart \in [Owners -> [Items -> Nat]] /\ wanted \in [Owners -> [Items -> Nat]]
  /\ stock \in [Variants -> Nat] /\ settled \subseteq Owners
  /\ current \subseteq {w \in Workers : worker[w].checkout}
  /\ \A w \in Workers : worker[w].raw \in [Items -> Nat] /\ worker[w].fixes \subseteq Items

\* Once every request has ended the cart holds what the requests asked for,
\* applied one after the other and capped at the stock: no two of them undo
\* each other (cart.service.ts addItem, setItemQty, mergeGuestIntoUser).
AsRequested == Quiet => cart = wanted

\* A cart that was read since the stock last changed holds nothing there is
\* too little of, whichever requests ran at once (addItem's clamp, hydrate).
WithinStock ==
  Quiet => \A o \in settled, i \in Items : cart[o][i] <= Available(i)

\* The cart a checkout goes on to order is the customer's cart at the moment
\* the revision was compared again (createFreshCheckoutSession).
SnapshotIsCart ==
  \A w \in Workers : At(w, "check") /\ worker'[w].at = "order" => worker[w].raw = cart[Owner(w)]

=============================================================================
