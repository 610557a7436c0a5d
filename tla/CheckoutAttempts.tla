-------------------------- MODULE CheckoutAttempts --------------------------
(***************************************************************************)
(* Idempotent checkout of one cart owner.  The checkout page (Tabs) sends  *)
(* its request under a key it keeps until it is refused; the handler       *)
(* (Workers) claims the attempt row of that key and of that revision of    *)
(* the cart, makes or resumes the order, links it to the provider and      *)
(* empties the cart.  Answers are lost, processes crash, calls fail,       *)
(* leases run out and the cart is edited between any two steps.            *)
(*                                                                         *)
(*   handlePay              frontend app/(shop)/checkout/page.tsx          *)
(*   acquireCheckoutAttempt, markCheckoutAttemptFailed                     *)
(*                          modules/checkout/checkoutIdempotency.service   *)
(*   createCheckoutSession, createFreshCheckoutSession,                    *)
(*   finalizePrepaidCheckout, replayCheckoutSession,                       *)
(*   resumeCheckoutSession  modules/checkout/checkout.service.ts           *)
(*   createOrder            lib/razorpay.ts                                *)
(*   clearCart, bumpCartRevision   modules/cart                            *)
(*                                                                         *)
(* A row is identified with the revision of the cart it was created for:   *)
(* (ownerHash, cartRevision) is unique and the column is never updated.    *)
(* A request's details (address, e-mail, coupon) stand for its hash.       *)
(***************************************************************************)
EXTENDS Naturals, FiniteSets

CONSTANTS
  Tabs,          \* checkout pages the owner has open
  Workers,       \* request handlers
  Details,       \* what a customer may type into the form
  Guest,         \* TRUE: the owner is a guest, FALSE: a signed-in user
  MaxKeys,       \* bound on the keys drawn
  MaxRevisions,  \* bound on the revisions of the cart
  MaxOrders,     \* bound on the orders made
  MaxFaults      \* bound on crashes, hung handlers, failed calls and lost answers

ASSUME ConstantsAssumption ==
  /\ Guest \in BOOLEAN
  /\ {MaxKeys, MaxRevisions, MaxOrders, MaxFaults} \subseteq Nat
  /\ MaxRevisions > 0

Keys == 1..MaxKeys
Revisions == 1..MaxRevisions
OrderIds == 1..MaxOrders
Nil == 0

VARIABLES
  cart,     \* the owner's cart in Redis: its revision, whether it holds items
  attempt,  \* CheckoutAttempt rows, by cartRevision
  order,    \* Order rows, in the order of their creation
  tab,      \* the checkout page: checkoutAttempt.current and the call it awaits
  worker,   \* local state of each handler
  granted,  \* sessions answered: <<key, details, order>>
  drawn,    \* keys drawn so far
  faults,
  late      \* a handler has outlived its lease

vars == <<cart, attempt, order, tab, worker, granted, drawn, faults, late>>

NoRow == [key |-> Nil, details |-> Nil, status |-> "NONE", order |-> Nil,
          live |-> FALSE]
RowForgetful(k, d, o) == [key |-> k, details |-> d, status |-> "PROCESSING",
                          order |-> Nil, live |-> TRUE]
Row(k, d, o) == [key |-> k, details |-> d, status |-> "PROCESSING",
                 order |-> o, live |-> TRUE]
NoOrder == [status |-> "NONE", linked |-> FALSE, expired |-> FALSE,
            key |-> Nil, details |-> Nil, by |-> Nil]
Blank == [key |-> Nil, details |-> Nil, rev |-> Nil, on |-> Nil,
          session |-> Nil]
Idle == [at |-> "idle", tab |-> Nil, key |-> Nil, details |-> Nil,
         rev |-> Nil, row |-> Nil, order |-> Nil]

Init ==
  /\ cart = [rev |-> 1, full |-> TRUE]
  /\ attempt = [a \in Revisions |-> NoRow]
  /\ order = [o \in OrderIds |-> NoOrder]
  /\ tab = [t \in Tabs |-> Blank]
  /\ worker = [w \in Workers |-> Idle]
  /\ granted = {}
  /\ drawn = 0
  /\ faults = 0
  /\ late = FALSE

Exists(a) == attempt[a].status # "NONE"
Made(o) == order[o].status # "NONE"
Places == {"idle", "revision", "insert", "byKey", "byCart", "recycle",
           "reclaim", "execute", "fresh", "reserve", "resume", "provider",
           "refuse", "link", "clear", "replay", "mark"}
\* Where a handler runs the attempt it claimed.
Executing == {"execute", "fresh", "reserve", "resume", "provider", "refuse",
              "link", "mark"}

At(w, place) == worker[w].at = place
Goto(w, place) == worker' = [worker EXCEPT ![w].at = place]

\* The page takes the answer of the call it awaits: a session opens the payment
\* window, "retry" (no answer, or checkout_in_progress) keeps the key, any
\* other refusal drops it.
Told(page, answer, o) ==
  [page EXCEPT !.on = Nil,
               !.key = IF answer = "refused" THEN Nil ELSE @,
               !.session = IF answer = "session" THEN o ELSE @]
Heard(w, answer, o) ==
  LET t == worker[w].tab IN
  IF tab[t].on # w THEN tab ELSE [tab EXCEPT ![t] = Told(@, answer, o)]

Reply(w, answer, o) ==
  /\ worker' = [worker EXCEPT ![w] = Idle]
  /\ tab' = Heard(w, answer, o)
  /\ granted' = IF answer = "session"
                THEN granted \cup {<<worker[w].key, worker[w].details, o>>}
                ELSE granted

Silent == UNCHANGED <<tab, granted>>
Fault == faults < MaxFaults /\ faults' = faults + 1

-----------------------------------------------------------------------------
(* The checkout page.                                                      *)

\* A key stays with the page while the fingerprint of form and items does.  An
\* edit of the cart may leave the items shown as they were, so a page whose
\* cart has moved on may keep its key or draw a new one.
PressPay(t, w, d) ==
  /\ tab[t].on = Nil /\ At(w, "idle")
  /\ \/ /\ tab[t].key # Nil /\ tab[t].details = d
        /\ tab' = [tab EXCEPT ![t].on = w]
        /\ UNCHANGED drawn
     \/ /\ tab[t].key = Nil \/ tab[t].details # d \/ tab[t].rev # cart.rev
        /\ drawn < MaxKeys
        /\ drawn' = drawn + 1
        /\ tab' = [tab EXCEPT ![t] = [key |-> drawn', details |-> d,
                     rev |-> cart.rev, on |-> w, session |-> Nil]]
  /\ worker' = [worker EXCEPT ![w] = [Idle EXCEPT !.at = "revision",
                  !.tab = t, !.key = tab'[t].key, !.details = d]]
  /\ UNCHANGED <<cart, attempt, order, granted, faults, late>>

\* FETCH_ERROR or TIMEOUT_ERROR: the handler may still be running.
LoseAnswer(t) ==
  /\ tab[t].on # Nil
  /\ Fault
  /\ tab' = [tab EXCEPT ![t].on = Nil]
  /\ UNCHANGED <<cart, attempt, order, worker, granted, drawn, late>>

\* The page is left: the payment window was dismissed, or the tab closed.
Leave(t) ==
  /\ tab[t] # Blank
  /\ tab' = [tab EXCEPT ![t] = Blank]
  /\ UNCHANGED <<cart, attempt, order, worker, granted, drawn, faults, late>>

\* The payment made in the window is captured.
Pay(t) ==
  LET o == tab[t].session IN
  /\ o # Nil
  /\ order[o].status = "PENDING"
  /\ order' = [order EXCEPT ![o].status = "PAID"]
  /\ tab' = [tab EXCEPT ![t] = Blank]
  /\ UNCHANGED <<cart, attempt, worker, granted, drawn, faults, late>>

-----------------------------------------------------------------------------
(* acquireCheckoutAttempt.                                                 *)

ReadRevision(w) ==
  /\ At(w, "revision")
  /\ worker' = [worker EXCEPT ![w].at = "insert", ![w].rev = cart.rev]
  /\ Silent
  /\ UNCHANGED <<cart, attempt, order, drawn, faults, late>>

\* The insert violates a unique index when the key or the revision is taken.
InsertAttempt(w) ==
  LET t == worker[w]
      taken == Exists(t.rev) \/ \E a \in Revisions : attempt[a].key = t.key
  IN
  /\ At(w, "insert")
  /\ IF taken
     THEN Goto(w, "byKey") /\ UNCHANGED attempt
     ELSE /\ attempt' = [attempt EXCEPT ![t.rev] = Row(t.key, t.details, Nil)]
          /\ worker' = [worker EXCEPT ![w].at = "execute", ![w].row = t.rev]
  /\ Silent
  /\ UNCHANGED <<cart, order, drawn, faults, late>>

\* assertSameRequest.
SameRequest(a, d) == attempt[a].details = d

\* The row of the key decides.  Its own revision is hashed, so only the
\* details can differ.
FindByKey(w) ==
  LET t == worker[w]
      found == {a \in Revisions : attempt[a].key = t.key}
      a == CHOOSE x \in found : TRUE
      go(place) == worker' = [worker EXCEPT ![w].at = place, ![w].row = a] /\ Silent
  IN
  /\ At(w, "byKey")
  /\ \/ found = {} /\ Goto(w, "byCart") /\ Silent
     \/ /\ found # {}
        /\ \/ /\ ~SameRequest(a, t.details) \/ attempt[a].status = "FAILED"
              /\ Reply(w, "refused", Nil)
           \/ /\ SameRequest(a, t.details)
              /\ \/ attempt[a].status = "COMPLETED" /\ go("replay")
                 \/ /\ attempt[a].status = "PROCESSING"
                    /\ \/ attempt[a].live /\ Reply(w, "retry", Nil)
                       \/ ~attempt[a].live /\ go("reclaim")
  /\ UNCHANGED <<cart, attempt, order, drawn, faults, late>>

\* No row has the key: the cart was submitted under another one, and a failed
\* attempt of it may be recycled unless it holds an order for other details.
FindByCart(w) ==
  LET t == worker[w]
      same == attempt[t.rev]
      recyclable == /\ same.status = "FAILED"
                    /\ same.order = Nil \/ SameRequest(t.rev, t.details)
  IN
  /\ At(w, "byCart")
  /\ \/ recyclable /\ Goto(w, "recycle") /\ Silent
     \/ ~recyclable /\ Reply(w, "refused", Nil)
  /\ UNCHANGED <<cart, attempt, order, drawn, faults, late>>

\* updateMany where status = FAILED; the order of the row stays.  A key that
\* another row has meanwhile violates the unique index.
Recycle(w) ==
  LET t == worker[w]
      held == \E a \in Revisions \ {t.rev} : attempt[a].key = t.key
  IN
  /\ At(w, "recycle")
  /\ \/ /\ attempt[t.rev].status = "FAILED" /\ ~held
        /\ attempt' = [attempt EXCEPT ![t.rev] = Row(t.key, t.details, @.order)]
        /\ worker' = [worker EXCEPT ![w].at = "execute", ![w].row = t.rev]
        /\ Silent
     \/ /\ attempt[t.rev].status # "FAILED" \/ held
        /\ Reply(w, "refused", Nil)
        /\ UNCHANGED attempt
  /\ UNCHANGED <<cart, order, drawn, faults, late>>

\* updateMany where status = PROCESSING and the lease has run out.
Reclaimable(a) == attempt[a].status = "PROCESSING" /\ ~attempt[a].live

Reclaim(w) ==
  LET a == worker[w].row IN
  /\ At(w, "reclaim")
  /\ \/ /\ Reclaimable(a)
        /\ attempt' = [attempt EXCEPT ![a].live = TRUE]
        /\ Goto(w, "execute")
        /\ Silent
     \/ ~Reclaimable(a) /\ Reply(w, "retry", Nil) /\ UNCHANGED attempt
  /\ UNCHANGED <<cart, order, drawn, faults, late>>

\* The claimed row is read back; its order decides between resuming and
\* starting afresh.
Execute(w) ==
  LET o == attempt[worker[w].row].order IN
  /\ At(w, "execute")
  /\ worker' = [worker EXCEPT ![w].at = IF o = Nil THEN "fresh" ELSE "resume",
                              ![w].order = o]
  /\ Silent
  /\ UNCHANGED <<cart, attempt, order, drawn, faults, late>>

-----------------------------------------------------------------------------
(* createCheckoutSession.                                                  *)

\* The cart is read between two reads of its revision: the snapshot is that of
\* the revision the request started from, or the request fails.
Snapshot(w) ==
  /\ At(w, "fresh")
  /\ Goto(w, IF cart.rev = worker[w].rev /\ cart.full THEN "reserve" ELSE "mark")
  /\ Silent
  /\ UNCHANGED <<cart, attempt, order, drawn, faults, late>>

\* guestAccessTokenHash is unique: a guest makes one order per key.
TokenTaken(k) == Guest /\ \E o \in OrderIds : order[o].key = k

\* The row of the attempt points to its order.
Pointed(a, o) == [attempt EXCEPT ![a].order = o]

\* One transaction: the stock and the coupon are taken, the order is made and
\* the row points to it.  It rolls back when anything runs out.
Reserve(w) ==
  LET t == worker[w] IN
  /\ At(w, "reserve")
  /\ \/ /\ ~TokenTaken(t.key)
        /\ \E o \in OrderIds :
             /\ ~Made(o) /\ \A p \in 1..(o - 1) : Made(p)
             /\ order' = [order EXCEPT ![o] =
                  [NoOrder EXCEPT !.status = "PENDING", !.key = t.key,
                                  !.details = t.details, !.by = t.row]]
             /\ attempt' = Pointed(t.row, o)
             /\ worker' = [worker EXCEPT ![w].at = "provider", ![w].order = o]
        /\ UNCHANGED faults
     \/ /\ \/ TokenTaken(t.key) /\ UNCHANGED faults
           \/ Fault
        /\ Goto(w, "mark")
        /\ UNCHANGED <<order, attempt>>
  /\ Silent
  /\ UNCHANGED <<cart, drawn, late>>

\* resumeCheckoutSession: a linked order is simply completed, one that is no
\* longer pending ends the attempt, any other is finalized.
Resume(w) ==
  LET t == worker[w]  o == order[t.order] IN
  /\ At(w, "resume")
  /\ \/ /\ o.linked
        /\ attempt' = [attempt EXCEPT ![t.row].status = "COMPLETED"]
        /\ Reply(w, "session", t.order)
     \/ /\ ~o.linked
        /\ Goto(w, IF o.status = "PENDING" THEN "provider" ELSE "mark")
        /\ Silent
        /\ UNCHANGED attempt
  /\ UNCHANGED <<cart, order, drawn, faults, late>>

\* createRazorpayOrder, found again by its receipt when the answer is lost.
CreateProviderOrder(w) ==
  /\ At(w, "provider")
  /\ \/ Goto(w, "link") /\ UNCHANGED faults
     \/ Goto(w, "refuse") /\ Fault
  /\ Silent
  /\ UNCHANGED <<cart, attempt, order, drawn, late>>

\* The order of a failed provider call becomes FAILED if it is still pending;
\* the transition may fail itself and leave the order as it is.
RefuseOrder(w) ==
  LET o == worker[w].order IN
  /\ At(w, "refuse")
  /\ Goto(w, "mark")
  /\ \/ /\ order' = [order EXCEPT ![o].status = IF @ = "PENDING" THEN "FAILED" ELSE @]
        /\ UNCHANGED faults
     \/ UNCHANGED order /\ Fault
  /\ Silent
  /\ UNCHANGED <<cart, attempt, drawn, late>>

\* One transaction: the order is linked, its payment row made, the row closed.
Link(w) ==
  LET t == worker[w] IN
  /\ At(w, "link")
  /\ \/ /\ order' = [order EXCEPT ![t.order].linked = TRUE]
        /\ attempt' = [attempt EXCEPT ![t.row].status = "COMPLETED"]
        /\ Goto(w, "clear")
        /\ UNCHANGED faults
     \/ Goto(w, "mark") /\ Fault /\ UNCHANGED <<order, attempt>>
  /\ Silent
  /\ UNCHANGED <<cart, drawn, late>>

\* The cart is deleted whatever it holds by now; an error is only logged.
ClearCart(w) ==
  /\ At(w, "clear")
  /\ \/ /\ cart.rev < MaxRevisions
        /\ cart' = [rev |-> cart.rev + 1, full |-> FALSE]
        /\ UNCHANGED faults
     \/ Fault /\ UNCHANGED cart
  /\ Reply(w, "session", worker[w].order)
  /\ UNCHANGED <<attempt, order, drawn, late>>

\* replayCheckoutSession: refused once the reservation expired, and for a row
\* whose order is missing or not linked.
Replay(w) ==
  LET o == attempt[worker[w].row].order IN
  /\ At(w, "replay")
  /\ IF o # Nil /\ ~order[o].expired /\ order[o].linked
     THEN Reply(w, "session", o)
     ELSE Reply(w, "refused", Nil)
  /\ UNCHANGED <<cart, attempt, order, drawn, faults, late>>

\* markCheckoutAttemptFailed: updateMany where status = PROCESSING; an error is
\* only logged.
Mark(w) ==
  LET a == worker[w].row IN
  /\ At(w, "mark")
  /\ \/ /\ attempt' = [attempt EXCEPT ![a].status =
                         IF @ = "PROCESSING" THEN "FAILED" ELSE @]
        /\ UNCHANGED faults
     \/ Fault /\ UNCHANGED attempt
  /\ Reply(w, "refused", Nil)
  /\ UNCHANGED <<cart, order, drawn, late>>

-----------------------------------------------------------------------------
(* The rest of the world.                                                  *)

\* The process dies: its page sees a network error and keeps the key.
Crash(w) ==
  /\ ~At(w, "idle")
  /\ Fault
  /\ Reply(w, "retry", Nil)
  /\ UNCHANGED <<cart, attempt, order, drawn, late>>

\* The two minutes of a lease pass.  To a handler that found the lease run out
\* and is about to reclaim it, a lease renewed since is live: it compares with
\* the time of its own start.
Runs(w, a) == worker[w].at \in Executing /\ worker[w].row = a
LeaseEnds(a) ==
  /\ attempt[a].live
  /\ \A w \in Workers : ~(At(w, "reclaim") /\ worker[w].row = a)
  /\ attempt' = [attempt EXCEPT ![a].live = FALSE]
  /\ UNCHANGED <<cart, order, tab, worker, granted, drawn>>

LeaseRunsOut(a) ==
  /\ \A w \in Workers : ~Runs(w, a)
  /\ LeaseEnds(a)
  /\ UNCHANGED <<faults, late>>

\* A handler hangs and outlives its lease.
Outlive(a) ==
  /\ \E w \in Workers : Runs(w, a)
  /\ Fault
  /\ LeaseEnds(a)
  /\ late' = TRUE

\* Any change of the cart by its owner, in any tab.
EditCart(full) ==
  /\ cart.rev < MaxRevisions
  /\ cart' = [rev |-> cart.rev + 1, full |-> full]
  /\ UNCHANGED <<attempt, order, tab, worker, granted, drawn, faults, late>>

\* cancelCheckout or the expiry job.
EndOrder(o, expires) ==
  /\ order[o].status = "PENDING"
  /\ order' = [order EXCEPT ![o].status = "CANCELLED", ![o].expired = expires]
  /\ UNCHANGED <<cart, attempt, tab, worker, granted, drawn, faults, late>>

Handle(w) ==
  \/ ReadRevision(w) \/ InsertAttempt(w) \/ FindByKey(w) \/ FindByCart(w)
  \/ Recycle(w) \/ Reclaim(w) \/ Execute(w)
  \/ Snapshot(w) \/ Reserve(w) \/ Resume(w) \/ CreateProviderOrder(w)
  \/ RefuseOrder(w) \/ Link(w) \/ ClearCart(w) \/ Replay(w) \/ Mark(w)

Page(t) ==
  \/ \E w \in Workers, d \in Details : PressPay(t, w, d)
  \/ LoseAnswer(t) \/ Leave(t) \/ Pay(t)

Next ==
  \/ \E t \in Tabs : Page(t)
  \/ \E w \in Workers : Handle(w) \/ Crash(w)
  \/ \E a \in Revisions : LeaseRunsOut(a) \/ Outlive(a)
  \/ \E full \in BOOLEAN : EditCart(full)
  \/ \E o \in OrderIds, expires \in BOOLEAN : EndOrder(o, expires)

Spec == Init /\ [][Next]_vars

-----------------------------------------------------------------------------
(* Properties.                                                             *)

TypeOK ==
  /\ cart \in [rev : Revisions, full : BOOLEAN]
  /\ attempt \in [Revisions ->
       [key : Keys \cup {Nil}, details : Details \cup {Nil},
        status : {"NONE", "PROCESSING", "COMPLETED", "FAILED"},
        order : OrderIds \cup {Nil}, live : BOOLEAN]]
  /\ order \in [OrderIds ->
       [status : {"NONE", "PENDING", "PAID", "FAILED", "CANCELLED"},
        linked : BOOLEAN, expired : BOOLEAN, key : Keys \cup {Nil},
        details : Details \cup {Nil}, by : Revisions \cup {Nil}]]
  /\ tab \in [Tabs ->
       [key : Keys \cup {Nil}, details : Details \cup {Nil},
        rev : Revisions \cup {Nil}, on : Workers \cup {Nil},
        session : OrderIds \cup {Nil}]]
  /\ worker \in [Workers ->
       [at : Places, tab : Tabs \cup {Nil}, key : Keys \cup {Nil},
        details : Details \cup {Nil}, rev : Revisions \cup {Nil},
        row : Revisions \cup {Nil}, order : OrderIds \cup {Nil}]]
  /\ granted \subseteq Keys \X Details \X OrderIds
  /\ drawn \in 0..MaxKeys
  /\ faults \in 0..MaxFaults
  /\ late \in BOOLEAN

\* No two handlers execute the same attempt at the same time: the lease keeps
\* retries out while its holder runs, and lets one in after a crash.
OneExecutor ==
  \A v, w \in Workers : \A a \in Revisions : Runs(v, a) /\ Runs(w, a) => v = w

\* However often an attempt is retried, reclaimed or recycled, stock is
\* reserved for it once: it makes at most one order.
OneOrderPerAttempt ==
  \A o, p \in OrderIds : Made(o) /\ Made(p) /\ order[o].by = order[p].by => o = p

\* A completed attempt can be replayed: it has an order with a provider order.
CompletedIsLinked ==
  \A a \in Revisions : attempt[a].status = "COMPLETED" =>
    attempt[a].order # Nil /\ order[attempt[a].order].linked

\* A session that was answered can be replayed: the row of its key is completed,
\* for the details that were sent and with the order that was answered, so that
\* no two answers under one key open two payments.
SessionIsRecorded ==
  \A s \in granted : \E a \in Revisions :
    /\ attempt[a].key = s[1] /\ attempt[a].details = s[2]
    /\ attempt[a].status = "COMPLETED" /\ attempt[a].order = s[3]

\* The payment window is opened for an order the provider knows.
SessionIsLinked == \A s \in granted : order[s[3]].linked

\* One press of the pay button reserves stock once and opens one payment,
\* however often it is retried, reclaimed or recycled, as long as no handler
\* outlives the lease of its attempt (checkoutIdempotency.service.ts).
OnePaymentPerAttempt ==
  /\ SessionIsLinked
  /\ ~late => /\ OneExecutor /\ OneOrderPerAttempt
              /\ CompletedIsLinked /\ SessionIsRecorded

\* "The browser-generated key is high-entropy and lets a guest recover the same
\* access token after a lost response" (checkout.service.ts): the key a guest's
\* session is answered under is the token its order was made with, without
\* which the guest can neither verify, cancel nor see it.
TokenOpensOrder == Guest => \A s \in granted : order[s[3]].key = s[1]

=============================================================================
