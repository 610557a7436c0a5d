----------------------------- MODULE CartClient -----------------------------
(***************************************************************************)
(* The cart one browser tab shows: a cached answer of GET /cart that each  *)
(* click changes at once, that the answer to the click replaces, and that  *)
(* goes back by inverse patches when the click failed.                     *)
(*   frontend lib/cartApi.ts        getCart, addItem, setItemQty,          *)
(*                                  removeItem, addBundle, setBundleQty,   *)
(*                                  removeBundle, clearCart,               *)
(*                                  recalculateCart                        *)
(*   components/CartDrawer.tsx, app/(shop)/cart, app/(shop)/shop/[slug],   *)
(*   app/(shop)/bundles             the buttons                            *)
(*   app/(shop)/checkout/success    the cart after an order                *)
(* A request of the server is one step here (module Cart has its parts).   *)
(* The count stands for the totals, which are computed with it.  A patch   *)
(* addresses a line by its index, as immer does, and undoing one whose     *)
(* path is gone throws and changes nothing.                                *)
(***************************************************************************)
EXTENDS Naturals, Sequences, SequencesExt

CONSTANTS
  Variants, Bundles,
  FirstStock,    \* [Variants -> Nat]
  Levels,        \* what a variant's stock may become
  MaxPacks,      \* the units of each bundle that can be had
  PackSize,      \* the items one unit of a bundle counts for
  Slots,         \* mounted components: each has one request in flight
  ReadsOverlap,  \* whether the cart is read while requests are in flight
  MaxClicks, MaxFaults, MaxElsewhere, \* bounds
  None

ConstantsAssumption ==
  /\ FirstStock \in [Variants -> Nat \ {0}] /\ Levels \subseteq Nat
  /\ MaxPacks \in Nat /\ PackSize \in Nat \ {0} /\ ReadsOverlap \in BOOLEAN
  /\ MaxClicks \in Nat /\ MaxFaults \in Nat /\ MaxElsewhere \in Nat

VARIABLES
  server,    \* the cart the server has: lines in the order they were added
  stock,     \* ProductVariant.stock
  shown,     \* the cached cart, or None before the first answer
  request,   \* each component's request
  reader,    \* the request of GET /cart
  stale,     \* the tag "Cart" is invalidated and its refetch still waits
  unseen,    \* the server's cart changed after it was last read for this tab
  clicks, faults, elsewhere

vars == <<server, stock, shown, request, reader, stale, unseen, clicks, faults, elsewhere>>

Lesser(m, n) == IF m < n THEN m ELSE n
Line(v, q, s) == [variant |-> v, qty |-> q, stock |-> s]
NoPacks == [b \in Bundles |-> 0]
Empty == [items |-> <<>>, packs |-> NoPacks]

\* The index of a variant's line, 0 when it has none.
At(items, v) == SelectInSeq(items, LAMBDA l : l.variant = v)
Without(items, v) == SelectSeq(items, LAMBDA l : l.variant # v)

\* recalculateCart; the server counts alike.
Count(items, packs) ==
  FoldLeft(LAMBDA n, l : n + l.qty, 0, items)
    + PackSize * FoldLeft(LAMBDA n, b : n + packs[b], 0, SetToSeq(Bundles))
Recalculated(c) == [items |-> c.items, packs |-> c.packs, count |-> Count(c.items, c.packs)]

\* getCart: what is no longer in stock is clamped or pruned, and written back.
Clamped(c, level) ==
  [c EXCEPT !.items =
     [i \in DOMAIN @ |-> Line(@[i].variant, Lesser(@[i].qty, level[@[i].variant]),
                              level[@[i].variant])]]
Hydrated(c, level) ==
  [Clamped(c, level) EXCEPT !.items = SelectSeq(@, LAMBDA l : l.qty > 0)]
Cart == Recalculated(Hydrated(server, stock))

NoUndo == [line |-> None, items |-> None, count |-> None]
Idle == [at |-> "idle", kind |-> None, item |-> None, qty |-> 0, undo |-> NoUndo, answer |-> None]

Init ==
  /\ server = Empty
  /\ stock = FirstStock
  /\ shown = None
  /\ request = [s \in Slots |-> Idle]
  /\ reader = [at |-> "sent", answer |-> None]
  /\ stale = FALSE
  /\ unseen = TRUE
  /\ clicks = 0 /\ faults = 0 /\ elsewhere = 0

NoneInFlight == \A s \in Slots : request[s].at = "idle"
Quiet == NoneInFlight /\ reader.at = "idle" /\ ~stale

-----------------------------------------------------------------------------
(* Clicks: the optimistic patch and its inverse.                           *)

Fault == faults < MaxFaults /\ faults' = faults + 1

Sent(s, kind, i, q, undo) ==
  /\ request[s].at = "idle" /\ clicks < MaxClicks
  /\ ReadsOverlap \/ (reader.at = "idle" /\ ~stale)
  /\ clicks' = clicks + 1
  /\ request' = [request EXCEPT ![s] =
       [at |-> "sent", kind |-> kind, item |-> i, qty |-> q, undo |-> undo, answer |-> None]]
  /\ UNCHANGED <<server, stock, reader, stale, unseen, faults, elsewhere>>

Changed(old, new) == IF old = new THEN None ELSE old

\* A patch of the quantity of line i, and the values it replaced.
Patched(i, q) == Recalculated([shown EXCEPT !.items[i].qty = q])
UndoLine(i, q) ==
  [line |-> IF shown.items[i].qty = q THEN None ELSE <<i, shown.items[i].qty>>,
   items |-> None, count |-> Changed(shown.count, Patched(i, q).count)]

\* The plus and minus buttons of a line, in the drawer and on the page.
ClickQty(s) ==
  /\ shown # None
  /\ \E i \in DOMAIN shown.items : LET l == shown.items[i] IN
       \E q \in (IF l.qty > 1 THEN {l.qty - 1} ELSE {})
                 \cup (IF l.qty < l.stock THEN {l.qty + 1} ELSE {}) :
         /\ shown' = Patched(i, Lesser(q, l.stock))
         /\ Sent(s, "set", l.variant, q, UndoLine(i, Lesser(q, l.stock)))

ClickRemove(s) ==
  /\ shown # None
  /\ \E i \in DOMAIN shown.items : LET
       v == shown.items[i].variant
       left == Recalculated([shown EXCEPT !.items = Without(@, v)])
     IN /\ shown' = left
        /\ Sent(s, "remove", v, 0,
                [line |-> None, items |-> shown.items, count |-> Changed(shown.count, left.count)])

\* The product page: nothing is patched for a variant without a line.
ClickAdd(s, v) ==
  IF shown = None \/ At(shown.items, v) = 0
  THEN shown' = shown /\ Sent(s, "add", v, 1, NoUndo)
  ELSE LET i == At(shown.items, v)
           q == Lesser(shown.items[i].qty + 1, shown.items[i].stock)
       IN shown' = Patched(i, q) /\ Sent(s, "add", v, 1, UndoLine(i, q))

\* Bundles and the whole cart: nothing is patched.
ClickBundle(s) ==
  /\ \E b \in Bundles :
       \/ Sent(s, "addBundle", b, 1, NoUndo)
       \/ /\ shown # None /\ shown.packs[b] > 0
          /\ \/ shown.packs[b] > 1 /\ Sent(s, "setBundle", b, shown.packs[b] - 1, NoUndo)
             \/ shown.packs[b] < MaxPacks /\ Sent(s, "setBundle", b, shown.packs[b] + 1, NoUndo)
             \/ Sent(s, "removeBundle", b, 0, NoUndo)
  /\ UNCHANGED shown

ClickClear(s) ==
  /\ shown # None /\ shown.count > 0
  /\ Sent(s, "clear", None, 0, NoUndo)
  /\ UNCHANGED shown

-----------------------------------------------------------------------------
(* The server.                                                             *)

Written(items, v, q) ==
  IF At(items, v) = 0 THEN Append(items, Line(v, q, 0))
  ELSE [items EXCEPT ![At(items, v)].qty = q]
Has(items, v) == IF At(items, v) = 0 THEN 0 ELSE items[At(items, v)].qty

\* What a request makes of the cart c, when it is not refused.
Result(r, c) ==
  CASE r.kind = "add" -> [c EXCEPT !.items =
         Written(@, r.item, Lesser(Has(@, r.item) + r.qty, stock[r.item]))]
    [] r.kind = "set" -> [c EXCEPT !.items = Written(@, r.item, Lesser(r.qty, stock[r.item]))]
    [] r.kind = "remove" -> [c EXCEPT !.items = Without(@, r.item)]
    [] r.kind = "addBundle" -> [c EXCEPT !.packs[r.item] = Lesser(@ + r.qty, MaxPacks)]
    [] r.kind = "setBundle" -> [c EXCEPT !.packs[r.item] = Lesser(r.qty, MaxPacks)]
    [] r.kind = "removeBundle" -> [c EXCEPT !.packs[r.item] = 0]
    [] r.kind = "clear" -> Empty

OutOfStock(r) ==
  \/ r.kind \in {"add", "set"} /\ stock[r.item] = 0
  \/ r.kind \in {"addBundle", "setBundle"} /\ MaxPacks = 0

Serve(s) ==
  LET r == request[s]
      cart == Hydrated(Result(r, server), stock)
  IN /\ r.at = "sent" /\ ~OutOfStock(r)
     /\ server' = cart
     /\ request' = [request EXCEPT ![s].at = "served", ![s].answer = Recalculated(cart)]
     /\ unseen' = (unseen /\ r.kind = "clear")
     /\ UNCHANGED <<stock, shown, reader, stale, clicks, faults, elsewhere>>

\* A refusal; any request may be refused by the rate limit or lost on its way.
Refuse(s) ==
  /\ request[s].at = "sent"
  /\ IF OutOfStock(request[s]) THEN UNCHANGED faults ELSE Fault
  /\ request' = [request EXCEPT ![s].at = "failed"]
  /\ UNCHANGED <<server, stock, shown, reader, stale, unseen, clicks, elsewhere>>

\* The answer of a request the server has carried out is lost.
LoseAnswer(s) ==
  /\ request[s].at = "served" /\ Fault
  /\ request' = [request EXCEPT ![s].at = "failed"]
  /\ unseen' = TRUE
  /\ UNCHANGED <<server, stock, shown, reader, stale, clicks, elsewhere>>

-----------------------------------------------------------------------------
(* Answers.                                                                *)

Done(s) == request' = [request EXCEPT ![s] = Idle]
Invalidates(r) == r.kind = "clear"

\* The cart of the answer takes the place of whatever is shown now.
Answer(s) ==
  LET r == request[s] IN
  /\ r.at = "served"
  /\ shown' = IF shown = None \/ Invalidates(r) THEN shown ELSE r.answer
  /\ stale' = (stale \/ Invalidates(r))
  /\ Done(s)
  /\ UNCHANGED <<server, stock, reader, unseen, clicks, faults, elsewhere>>

\* patch.undo(): the inverse patches, written to the cart shown now.
UndoneLines(u, c) == [c EXCEPT
    !.items = IF u.items # None THEN u.items
              ELSE IF u.line # None THEN [@ EXCEPT ![u.line[1]].qty = u.line[2]] ELSE @]
Undone(u, c) ==
  IF u.line # None /\ u.line[1] > Len(c.items) THEN c
  ELSE [c EXCEPT
    !.items = IF u.items # None THEN u.items
              ELSE IF u.line # None THEN [@ EXCEPT ![u.line[1]].qty = u.line[2]] ELSE @,
    !.count = IF u.count # None THEN u.count ELSE @]

Fail(s) ==
  LET r == request[s] IN
  /\ r.at = "failed"
  /\ shown' = IF r.undo = NoUndo THEN shown ELSE Undone(r.undo, shown)
  /\ stale' = (stale \/ Invalidates(r))
  /\ Done(s)
  /\ UNCHANGED <<server, stock, reader, unseen, clicks, faults, elsewhere>>

-----------------------------------------------------------------------------
(* Reading the cart: the first time, when the tab has the focus again or   *)
(* is online again, and after an invalidation, once nothing is in flight.  *)

Reads == /\ reader.at = "idle"
         /\ reader' = [reader EXCEPT !.at = "sent"]
         /\ UNCHANGED <<server, stock, shown, request, unseen, clicks, faults, elsewhere>>

MayFocus == ReadsOverlap \/ NoneInFlight
Focus == MayFocus /\ Reads /\ UNCHANGED stale
Refetch == stale /\ NoneInFlight /\ Reads /\ stale' = FALSE

ServeRead ==
  /\ reader.at = "sent"
  /\ server' = Hydrated(server, stock)
  /\ reader' = [at |-> "served", answer |-> Cart]
  /\ unseen' = FALSE
  /\ UNCHANGED <<stock, shown, request, stale, clicks, faults, elsewhere>>

ReadAnswer ==
  /\ reader.at = "served"
  /\ shown' = reader.answer
  /\ reader' = [at |-> "idle", answer |-> None]
  /\ UNCHANGED <<server, stock, request, stale, unseen, clicks, faults, elsewhere>>

\* A read that failed leaves the cached cart as it is.
ReadFails ==
  /\ reader.at # "idle" /\ Fault
  /\ reader' = [at |-> "idle", answer |-> None]
  /\ unseen' = TRUE
  /\ UNCHANGED <<server, stock, shown, request, stale, clicks, elsewhere>>

-----------------------------------------------------------------------------
(* What happens elsewhere: another tab, other customers, an order.         *)

Elsewhere ==
  /\ elsewhere < MaxElsewhere /\ elsewhere' = elsewhere + 1
  /\ unseen' = TRUE
  /\ UNCHANGED <<shown, request, reader, clicks, faults>>

OtherTab ==
  /\ Elsewhere
  /\ \E v \in Variants, q \in 1..2 :
       server' = [server EXCEPT !.items = Written(@, v, Lesser(q, stock[v]))]
  /\ server' # server
  /\ UNCHANGED <<stock, stale>>

StockMoves ==
  /\ Elsewhere
  /\ \E v \in Variants, n \in Levels : n # stock[v] /\ stock' = [stock EXCEPT ![v] = n]
  /\ UNCHANGED <<server, stale>>

\* An order empties the cart, and its page invalidates the tag.
OrderPlaced ==
  /\ Elsewhere
  /\ server # Empty /\ server' = Empty
  /\ stale' = TRUE
  /\ UNCHANGED stock

-----------------------------------------------------------------------------
Click(s) == ClickQty(s) \/ ClickRemove(s) \/ ClickBundle(s) \/ ClickClear(s)
              \/ \E v \in Variants : ClickAdd(s, v)
Server(s) == Serve(s) \/ Refuse(s) \/ LoseAnswer(s)
Browser(s) == Answer(s) \/ Fail(s)

Next == \/ \E s \in Slots : Click(s) \/ Server(s) \/ Browser(s)
        \/ Focus \/ Refetch \/ ServeRead \/ ReadAnswer \/ ReadFails
        \/ OtherTab \/ StockMoves \/ OrderPlaced

Spec == Init /\ [][Next]_vars

-----------------------------------------------------------------------------
(* Properties.                                                             *)

TypeOK ==
  /\ shown # None => shown.count \in Nat /\ \A i \in DOMAIN shown.items : shown.items[i].qty > 0
  /\ \A s \in Slots : request[s].at \in {"idle", "sent", "served", "failed"}
  /\ reader.at \in {"idle", "sent", "served"}
  /\ stale \in BOOLEAN /\ unseen \in BOOLEAN
  /\ clicks \in 0..MaxClicks /\ faults \in 0..MaxFaults /\ elsewhere \in 0..MaxElsewhere

\* Once a first reading succeeded and nothing is in flight, the tab shows the
\* cart the server has, with its count, unless that cart changed without this
\* tab having been answered: an answer replaces the guess of its click, and a
\* click that failed is undone (cartApi.ts).
ShownIsCart == Quiet /\ ~unseen /\ shown # None => shown = Cart

\* The customer sees the cart; after a loss or a change elsewhere that takes
\* coming back to the tab (refetchOnFocus).
Agrees == shown = Cart

=============================================================================
