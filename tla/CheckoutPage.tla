---------------------------- MODULE CheckoutPage ----------------------------
(***************************************************************************)
(* Paying, as one browser tab lives it: the button and its lock, the key   *)
(* kept for a repeated request, the payment window, the two pages the      *)
(* customer is sent to, and what reaches them from the server and from the *)
(* payment provider.                                                       *)
(*   frontend app/(shop)/checkout/page.tsx   handlePay                     *)
(*   app/(shop)/checkout/success, .../failure                              *)
(*   lib/ordersApi.ts        createCheckoutSession, verifyCheckoutPayment, *)
(*                           cancelCheckout, getOrder                      *)
(*   backend modules/checkout  checkout.routes.ts, createCheckoutSession,  *)
(*                           verifyCheckoutPayment, cancelCheckout         *)
(* A visit is one mounted checkout page; its functions go on after the     *)
(* customer has left it.  Making an order is two steps here, its claim and *)
(* its end (CheckoutAttempts has all of them), and money moves in single   *)
(* steps (CheckoutPayment).  The details typed do not change (CheckoutForm)*)
(* so the fingerprint is the content of the cart.  The simulated payment   *)
(* of development builds is left out.                                      *)
(***************************************************************************)
EXTENDS Naturals, Sequences, FiniteSets

CONSTANTS
  MaxContent,    \* contents of a cart: 1..MaxContent, 0 is an empty one
  MaxVisits, MaxKeys, MaxOrders, MaxEdits, MaxFaults,   \* bounds
  Calls          \* requests that can be on their way at once

ConstantsAssumption ==
  {MaxContent, MaxVisits, MaxKeys, MaxOrders, MaxEdits, MaxFaults} \subseteq Nat

Visits == 1..MaxVisits
Keys == 1..MaxKeys
Nil == 0

VARIABLES
  place,    \* the page of the tab: checkout, cart, success or failure
  visit,    \* the last checkout page opened
  page,     \* its state, and that of those before it
  cart,     \* the server's cart: [content, rev]
  view,     \* the content of the cart as the tab shows it
  row,      \* CheckoutAttempt by key: [status, rev, order]
  order,    \* the orders: [content, visit, status, paid, expired]
  call,     \* POST /checkout/session requests
  told,     \* success and failure page: [order, shown]
  tokens,   \* orders with a guest token in sessionStorage
  moved,    \* history: keys whose request the cart changed under
  drawn, edits, faults

vars == <<place, visit, page, cart, view, row, order, call, told, tokens,
          moved, drawn, edits, faults>>

NoAttempt == [content |-> Nil, key |-> Nil]
FreshPage(from) ==
  [at |-> "idle", locked |-> FALSE, disabled |-> FALSE, attempt |-> NoAttempt,
   order |-> Nil, asked |-> Nil, from |-> from, turnedAway |-> FALSE]
NoCall == [at |-> "none", visit |-> Nil, key |-> Nil, reply |-> "", order |-> Nil]
NoRow == [status |-> "NONE", rev |-> Nil, order |-> Nil]
NotTold == [order |-> Nil, shown |-> "nothing"]

Init ==
  /\ place = "checkout" /\ visit = 1
  /\ page = [v \in Visits |-> FreshPage(Nil)]
  /\ cart = [content |-> 1, rev |-> 1] /\ view = 1
  /\ row = [k \in Keys |-> NoRow]
  /\ order = <<>>
  /\ call = [c \in Calls |-> NoCall]
  /\ told = NotTold /\ tokens = {} /\ moved = {}
  /\ drawn = 0 /\ edits = 0 /\ faults = 0

Fault == faults < MaxFaults /\ faults' = faults + 1
Mounted(v) == place = "checkout" /\ visit = v

----------------------------------------------------------------------------
(* The cart and the way around the pages. *)

\* The cart drawer shows what it did, another tab's change is not seen.
Edit(content, here) ==
  /\ edits < MaxEdits /\ content # cart.content
  /\ edits' = edits + 1
  /\ cart' = [content |-> content, rev |-> cart.rev + 1]
  /\ view' = IF here THEN content ELSE view
  /\ moved' = moved \union {call[c].key : c \in Calls}
  /\ UNCHANGED <<place, visit, page, row, order, call, told, tokens, drawn,
                 faults>>

\* The window gets the focus, or the success page invalidates the cart.
Refetch ==
  /\ view # cart.content
  /\ view' = cart.content
  /\ UNCHANGED <<place, visit, page, cart, row, order, call, told, tokens,
                 moved, drawn, edits, faults>>

LeaveEmpty ==
  /\ place = "checkout" /\ view = 0
  /\ place' = "cart"
  /\ page' = [page EXCEPT ![visit].turnedAway = TRUE]
  /\ UNCHANGED <<visit, cart, view, row, order, call, told, tokens, moved,
                 drawn, edits, faults>>

\* "Return to cart", which no lock disables.
Leave ==
  /\ place = "checkout"
  /\ place' = "cart"
  /\ UNCHANGED <<visit, page, cart, view, row, order, call, told, tokens,
                 moved, drawn, edits, faults>>

\* The checkout page again, from the cart or from "Try checkout again".
Open ==
  /\ place \in {"cart", "failure"} /\ visit < MaxVisits
  /\ visit' = visit + 1 /\ place' = "checkout"
  /\ page' = [page EXCEPT ![visit'] =
                FreshPage(IF place = "failure" THEN told.order ELSE Nil)]
  /\ UNCHANGED <<cart, view, row, order, call, told, tokens, moved, drawn,
                 edits, faults>>

----------------------------------------------------------------------------
(* handlePay. *)

\* React draws the button anew some time after the state changed.
Render ==
  /\ place = "checkout"
  /\ page[visit].disabled # (page[visit].at # "idle")
  /\ page' = [page EXCEPT ![visit].disabled = page[visit].at # "idle"]
  /\ UNCHANGED <<place, visit, cart, view, row, order, call, told, tokens,
                 moved, drawn, edits, faults>>

\* checkoutAttempt: kept for the same fingerprint, else drawn anew.
SameAttempt(attempt, content) == attempt.content = content

\* payingRef, which no rendering delays.
Unrendered(v) == TRUE
Unlocked(v) == ~page[v].locked

Pay(v, c) ==
  /\ Mounted(v) /\ view # 0
  /\ Unlocked(v) /\ ~page[v].disabled
  /\ call[c] = NoCall
  /\ LET same == SameAttempt(page[v].attempt, view)
         key  == IF same THEN page[v].attempt.key ELSE drawn + 1 IN
     /\ key \in Keys
     /\ drawn' = IF same THEN drawn ELSE key
     /\ page' = [page EXCEPT ![v].locked = TRUE, ![v].at = "waiting",
                             ![v].attempt = [content |-> view, key |-> key],
                             ![v].asked = view]
     /\ call' = [call EXCEPT ![c] = [NoCall EXCEPT !.at = "sent", !.visit = v,
                                                   !.key = key]]
     /\ moved' = IF view # cart.content THEN moved \union {key} ELSE moved
  /\ UNCHANGED <<place, visit, cart, view, row, order, told, tokens, edits,
                 faults>>

----------------------------------------------------------------------------
(* POST /checkout/session. *)

Replied(c, reply, o) ==
  [call EXCEPT ![c].at = "answered", ![c].reply = reply, ![c].order = o]

SameCart == {k \in Keys : row[k].status # "NONE" /\ row[k].rev = cart.rev}

\* acquireCheckoutAttempt with a key it does not know: the cart is claimed,
\* unless another key has; a failed claim without an order is taken over.
Claim(c) ==
  /\ call[c].at = "sent" /\ row[call[c].key] = NoRow
  /\ IF \E k \in SameCart : row[k].status # "FAILED"
     THEN /\ call' = Replied(c, "refused", Nil)
          /\ UNCHANGED row
     ELSE /\ call' = [call EXCEPT ![c].at = "claimed"]
          /\ row' = [k \in Keys |->
                       IF k = call[c].key
                       THEN [status |-> "PROCESSING", rev |-> cart.rev,
                             order |-> Nil]
                       ELSE IF k \in SameCart THEN NoRow ELSE row[k]]
  /\ UNCHANGED <<place, visit, page, cart, view, order, told, tokens, moved,
                 drawn, edits, faults>>

\* ... and with one it knows: the stored failure, the running claim, or the
\* order again, whatever has become of it, unless it expired.
Repeat(c) ==
  /\ call[c].at = "sent" /\ row[call[c].key] # NoRow
  /\ LET r == row[call[c].key] IN
     call' = CASE r.status = "FAILED" -> Replied(c, "refused", Nil)
               [] r.status = "PROCESSING" -> Replied(c, "in progress", Nil)
               [] r.status = "COMPLETED" ->
                    IF order[r.order].expired THEN Replied(c, "refused", Nil)
                    ELSE Replied(c, "session", r.order)
  /\ UNCHANGED <<place, visit, page, cart, view, row, order, told, tokens,
                 moved, drawn, edits, faults>>

\* createFreshCheckoutSession ends: the order exists, is linked to the
\* provider, and the cart is emptied.
MakeOrder(c) ==
  /\ call[c].at = "claimed" /\ Len(order) < MaxOrders
  /\ row[call[c].key].rev = cart.rev /\ cart.content # 0
  /\ order' = Append(order, [content |-> cart.content, visit |-> call[c].visit,
                             status |-> "PENDING", paid |-> "no",
                             expired |-> FALSE])
  /\ row' = [row EXCEPT ![call[c].key].status = "COMPLETED",
                        ![call[c].key].order = Len(order')]
  /\ cart' = [content |-> 0, rev |-> cart.rev + 1]
  /\ call' = Replied(c, "session", Len(order'))
  /\ UNCHANGED <<place, visit, page, view, told, tokens, moved, drawn, edits,
                 faults>>

\* The cart is empty or has changed, or a part of it is refused.
FailAttempt(c) ==
  /\ call[c].at = "claimed"
  /\ row[call[c].key].rev # cart.rev \/ cart.content = 0
  /\ row' = [row EXCEPT ![call[c].key].status = "FAILED"]
  /\ call' = Replied(c, "refused", Nil)
  /\ UNCHANGED <<place, visit, page, cart, view, order, told, tokens, moved,
                 drawn, edits, faults>>

----------------------------------------------------------------------------
(* The answer, in the closure of the visit that asked. *)

Awaited(c) == call[c].at = "answered" /\ call[c].visit # Nil

\* storeGuestOrderToken
Stored(o) == tokens \union {o}

\* The token is kept and the payment window opens, over whatever page.
OpenWindow(c) ==
  /\ Awaited(c) /\ call[c].reply = "session"
  /\ tokens' = Stored(call[c].order)
  /\ page' = [page EXCEPT ![call[c].visit].at = "window",
                          ![call[c].visit].order = call[c].order]
  /\ call' = [call EXCEPT ![c] = NoCall]
  /\ UNCHANGED <<place, visit, cart, view, row, order, told, moved, drawn,
                 edits, faults>>

\* The provider's script is not there: "The payment provider is not
\* configured."
NoProvider(c) ==
  /\ Awaited(c) /\ call[c].reply = "session" /\ Fault
  /\ tokens' = Stored(call[c].order)
  /\ page' = [page EXCEPT ![call[c].visit].at = "idle",
                          ![call[c].visit].locked = FALSE]
  /\ call' = [call EXCEPT ![c] = NoCall]
  /\ UNCHANGED <<place, visit, cart, view, row, order, told, moved, drawn, edits>>

\* The attempt is kept while its order may still be on the way.
Refusal(c) ==
  /\ Awaited(c) /\ call[c].reply # "session"
  /\ LET v == call[c].visit IN
     page' = [page EXCEPT ![v].at = "idle", ![v].locked = FALSE,
                          ![v].turnedAway = @ \/ call[c].reply = "refused",
                          ![v].attempt = IF call[c].reply = "in progress"
                                         THEN @ ELSE NoAttempt]
  /\ call' = [call EXCEPT ![c] = NoCall]
  /\ UNCHANGED <<place, visit, cart, view, row, order, told, tokens, moved,
                 drawn, edits, faults>>

\* FETCH_ERROR or TIMEOUT_ERROR: the same attempt is kept.  The request may
\* have been served, be served later, or never have arrived.
AfterLoss(v, attempt) == attempt

Lose(c) ==
  /\ call[c].at # "none" /\ call[c].visit # Nil /\ Fault
  /\ LET v == call[c].visit IN
     page' = [page EXCEPT ![v].at = "idle", ![v].locked = FALSE,
                          ![v].attempt = AfterLoss(v, @)]
  /\ \/ call[c].at \in {"sent", "answered"} /\ call' = [call EXCEPT ![c] = NoCall]
     \/ call[c].at \in {"sent", "claimed"} /\ call' = [call EXCEPT ![c].visit = Nil]
  /\ UNCHANGED <<place, visit, cart, view, row, order, told, tokens, moved,
                 drawn, edits>>

\* Nobody waits for this answer any more.
DropAnswer(c) ==
  /\ call[c].at = "answered" /\ call[c].visit = Nil
  /\ call' = [call EXCEPT ![c] = NoCall]
  /\ UNCHANGED <<place, visit, page, cart, view, row, order, told, tokens,
                 moved, drawn, edits, faults>>

----------------------------------------------------------------------------
(* The payment window. *)

WithPayment(o, how) == [order EXCEPT ![o].paid = how]
\* What the server does on learning what the provider has.
Settled(o) ==
  IF order[o].status = "PENDING" /\ order[o].paid = "captured"
  THEN [order EXCEPT ![o].status = "PAID"] ELSE order

CustomerPays(v) ==
  /\ page[v].at = "window" /\ order[page[v].order].paid = "no"
  /\ \E how \in {"authorized", "captured"} : order' = WithPayment(page[v].order, how)
  /\ UNCHANGED <<place, visit, page, cart, view, row, call, told, tokens,
                 moved, drawn, edits, faults>>

\* The window calls handler, which asks the server to verify.
Handler(v) ==
  /\ page[v].at = "window" /\ order[page[v].order].paid # "no"
  /\ page' = [page EXCEPT ![v].at = "verifying"]
  /\ UNCHANGED <<place, visit, cart, view, row, order, call, told, tokens,
                 moved, drawn, edits, faults>>

Dismiss(v) ==
  /\ page[v].at = "window"
  /\ page' = [page EXCEPT ![v].at = "idle", ![v].locked = FALSE]
  /\ place' = "failure" /\ told' = [NotTold EXCEPT !.order = page[v].order]
  /\ UNCHANGED <<visit, cart, view, row, order, call, tokens, moved, drawn,
                 edits, faults>>

\* verifyCheckoutPayment finds the order paid, or the payment authorized.
Verified(v) ==
  /\ page[v].at = "verifying"
  /\ LET o == page[v].order IN
     /\ Settled(o)[o].status = "PAID" \/ order[o].paid = "authorized"
     /\ order' = Settled(o)
     /\ place' = "success" /\ told' = [NotTold EXCEPT !.order = o]
  /\ page' = [page EXCEPT ![v].at = "left"]
  /\ UNCHANGED <<visit, cart, view, row, call, tokens, moved, drawn, edits,
                 faults>>

\* It finds the order closed, or its answer does not arrive.
VerifyFails(v) ==
  /\ page[v].at = "verifying"
  /\ \/ /\ Settled(page[v].order)[page[v].order].status # "PAID"
        /\ order[page[v].order].paid = "captured"
        /\ UNCHANGED <<order, faults>>
     \/ Fault /\ order' \in {order, Settled(page[v].order)}
  /\ page' = [page EXCEPT ![v].at = "idle", ![v].locked = FALSE]
  /\ UNCHANGED <<place, visit, cart, view, row, call, told, tokens, moved,
                 drawn, edits>>

----------------------------------------------------------------------------
(* The two pages after it. *)

\* getOrder, every two and a half seconds; a guest needs the token.
Readable(o) == o \in tokens
ReadOnce ==
  /\ place = "success" /\ told.shown = "nothing" /\ Readable(told.order)
  /\ told' = [told EXCEPT !.shown = order[told.order].status]
  /\ UNCHANGED <<place, visit, page, cart, view, row, order, call, tokens,
                 moved, drawn, edits, faults>>
Poll ==
  /\ place = "success" /\ Readable(told.order)
  /\ told' = [told EXCEPT !.shown = order[told.order].status]
  /\ UNCHANGED <<place, visit, page, cart, view, row, order, call, tokens,
                 moved, drawn, edits, faults>>

\* "Cancel pending order": the provider is asked before.
Cancel ==
  /\ place = "failure" /\ order[told.order].status = "PENDING"
  /\ order' = CASE order[told.order].paid = "captured" -> Settled(told.order)
                [] order[told.order].paid = "authorized" -> order
                [] order[told.order].paid = "no" ->
                     [order EXCEPT ![told.order].status = "CANCELLED"]
  /\ UNCHANGED <<place, visit, page, cart, view, row, call, told, tokens,
                 moved, drawn, edits, faults>>

----------------------------------------------------------------------------
(* What happens to an order meanwhile. *)

Capture(o) ==
  /\ order[o].paid = "authorized"
  /\ order' = WithPayment(o, "captured")
  /\ UNCHANGED <<place, visit, page, cart, view, row, call, told, tokens,
                 moved, drawn, edits, faults>>
Webhook(o) ==
  /\ Settled(o) # order
  /\ order' = Settled(o)
  /\ UNCHANGED <<place, visit, page, cart, view, row, call, told, tokens,
                 moved, drawn, edits, faults>>
Expire(o) ==
  /\ order[o].status = "PENDING" /\ order[o].paid = "no"
  /\ order' = [order EXCEPT ![o].status = "CANCELLED", ![o].expired = TRUE]
  /\ UNCHANGED <<place, visit, page, cart, view, row, call, told, tokens,
                 moved, drawn, edits, faults>>
Ship(o) ==
  /\ order[o].status = "PAID"
  /\ order' = [order EXCEPT ![o].status = "SHIPPED"]
  /\ UNCHANGED <<place, visit, page, cart, view, row, call, told, tokens,
                 moved, drawn, edits, faults>>

Tab == LeaveEmpty \/ Leave \/ Open \/ Refetch \/ Render \/ Poll \/ Cancel
Session(c) ==
  \/ Claim(c) \/ Repeat(c) \/ MakeOrder(c) \/ FailAttempt(c)
  \/ OpenWindow(c) \/ Refusal(c) \/ DropAnswer(c)
Failure(c) == Lose(c) \/ NoProvider(c)
Window(v) ==
  \/ CustomerPays(v) \/ Handler(v) \/ Dismiss(v) \/ Verified(v) \/ VerifyFails(v)
Outside(o) == Capture(o) \/ Webhook(o) \/ Expire(o) \/ Ship(o)

Next ==
  \/ Tab
  \/ \E content \in 0..MaxContent, here \in BOOLEAN : Edit(content, here)
  \/ \E v \in Visits, c \in Calls : Pay(v, c)
  \/ \E c \in Calls : Session(c) \/ Failure(c)
  \/ \E v \in Visits : Window(v)
  \/ \E o \in 1..Len(order) : Outside(o)

Spec == Init /\ [][Next]_vars

\* An order that is being paid is captured by the provider and recorded.
Settle(o) == o <= Len(order) /\ (Capture(o) \/ Webhook(o))

----------------------------------------------------------------------------
(* Properties. *)

Statuses == {"PENDING", "PAID", "SHIPPED", "CANCELLED"}
OrderNames == 0..Len(order)

TypeOK ==
  /\ place \in {"checkout", "cart", "success", "failure"}
  /\ visit \in Visits
  /\ page \in [Visits ->
       [at: {"idle", "waiting", "window", "verifying", "left"},
        locked: BOOLEAN, disabled: BOOLEAN,
        attempt: [content: 0..MaxContent, key: 0..MaxKeys],
        order: OrderNames, asked: 0..MaxContent, from: OrderNames,
        turnedAway: BOOLEAN]]
  /\ cart.content \in 0..MaxContent /\ view \in 0..MaxContent
  /\ \A k \in Keys :
       /\ row[k].status \in {"NONE", "PROCESSING", "COMPLETED", "FAILED"}
       /\ row[k].order \in OrderNames
       /\ (row[k].order # Nil) <=> (row[k].status = "COMPLETED")
  /\ \A o \in 1..Len(order) :
       /\ order[o].status \in Statuses
       /\ order[o].paid \in {"no", "authorized", "captured"}
       /\ order[o].status \in {"PAID", "SHIPPED"} => order[o].paid = "captured"
  /\ \A c \in Calls :
       /\ call[c].at \in {"none", "sent", "claimed", "answered"}
       /\ call[c].visit \in 0..MaxVisits /\ call[c].order \in OrderNames
  /\ told.order \in OrderNames /\ told.shown \in Statuses \union {"nothing"}
  /\ tokens \subseteq 1..Len(order)

\* A page has one request or one payment window at a time, however fast the
\* button is pressed before React has disabled it (payingRef).
OnePerPage ==
  \A v \in Visits :
    LET mine == {c \in Calls : call[c].visit = v} IN
    /\ Cardinality(mine) <= 1
    /\ mine # {} => page[v].at = "waiting"

\* The window asks for the money of an order of what the page listed when the
\* button was pressed, also when an earlier request of the page had made
\* another one: unless the cart changed under the request itself.
WindowIsForCart ==
  \A v \in Visits :
    page[v].at = "window" /\ page[v].attempt.key \notin moved
      => order[page[v].order].content = page[v].asked

\* A customer who goes on pressing the button after an answer got lost comes
\* to a payment window, while the page still lists what was ordered.
Waits(v) ==
  /\ Mounted(v) /\ page[v].at \in {"idle", "waiting"}
  /\ \E o \in 1..Len(order) : /\ order[o].visit = v /\ order[o].status = "PENDING"
                              /\ order[o].content = view

\* The success page is open on an order whose payment is captured, and it shows
\* that the order has moved on, or is left.
HasPaid == place = "success" /\ order[told.order].paid = "captured"
PaymentShown == place # "success" \/ told.shown \notin {"nothing", "PENDING"}

=============================================================================
