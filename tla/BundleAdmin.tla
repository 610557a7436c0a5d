---------------------------- MODULE BundleAdmin -----------------------------
(***************************************************************************)
(* One bundle of product variants: what administrators save, what the      *)
(* server checks of it, and what customers are then asked for it while     *)
(* prices, stock and time move on                                          *)
(*   backend modules/bundles/  bundle.service.ts, bundlePolicy.ts,         *)
(*                             adminBundles.routes.ts                      *)
(*   frontend admin/bundles/page.tsx, features/bundles/bundlesApi.ts,      *)
(*            lib/changedFields.ts                                         *)
(*                                                                         *)
(* A save sends the fields in which the form differs from the bundle that  *)
(* was opened.  The server merges them with the row it reads, checks the   *)
(* merged bundle, and writes the fields alone: two saves at a time are     *)
(* each checked against a row that the other one is about to change.       *)
(*                                                                         *)
(* Left out: name, texts and picture, which constrain nothing, the order   *)
(* of the components, and the carts (Cart).                                *)
(***************************************************************************)
EXTENDS Naturals, FiniteSets, FiniteSetsExt

CONSTANTS
  Admins,
  Variants,      \* the variants a bundle can be made of
  Prices,        \* what one costs, in paise
  TypedValues,   \* numbers typed as price or percentage, in hundredths
  MaxQuantity,   \* units of a variant in a bundle
  Stocks,        \* how many units there can be
  MaxTime,       \* bound: the last time a date can name
  FirstRow,      \* the bundle there is at the start, or None
  Edited,        \* bound: the fields of the form that are edited
  MaxEdits, MaxRequests, MaxMoves, MaxLost,  \* bounds
  Overlapping,   \* saves of two administrators run at the same time
  None

Types == {"FIXED_PRICE", "PERCENTAGE_OFF"}
Fields == {"active", "type", "value", "start", "end", "items"}

\* No start date is the time 0, no end date the time after all others.
Never == MaxTime + 1
Rows ==
  [id : Nat, active : BOOLEAN, type : Types, value : Nat, start : 0..MaxTime, end : 1..Never,
   items : [Variants -> 0..MaxQuantity]]

Components(bundle) == {v \in Variants : bundle.items[v] > 0}

\* The first three conditions of validateWrite, and those of the body.
ValidFields(bundle) ==
  /\ \E v, w \in Components(bundle) : v # w
  /\ bundle.start < bundle.end
  /\ bundle.type = "PERCENTAGE_OFF" => bundle.value <= 90
  /\ bundle.value > 0

ConstantsAssumption ==
  /\ Prices \subseteq Nat /\ TypedValues \subseteq Nat /\ Stocks \subseteq Nat
  /\ MaxQuantity \in Nat \ {0} /\ MaxTime \in Nat \ {0}
  /\ {MaxEdits, MaxRequests, MaxMoves, MaxLost} \subseteq Nat
  /\ Edited \subseteq Fields /\ Overlapping \in BOOLEAN /\ None \notin Rows
  /\ FirstRow # None => FirstRow \in Rows /\ ValidFields(FirstRow)

VARIABLES
  row,      \* the Bundle row with its items, or None
  variant,  \* price, stock and product.active of each variant
  now,
  page,     \* each administrator's page
  call,     \* the save and the removal each page has running
  edits, requests, moves, lost

vars == <<row, variant, now, page, call, edits, requests, moves, lost>>

Requests == Admins \X {"save", "delete"}
Blank ==
  [active |-> TRUE, type |-> "PERCENTAGE_OFF", typed |-> 1000, start |-> 0, end |-> Never,
   items |-> [v \in Variants |-> 0]]
Idle == [at |-> "idle", op |-> "none", changed |-> {}, body |-> None, current |-> None,
         resets |-> FALSE]

Init ==
  /\ row = FirstRow
  /\ variant \in [Variants -> [price : Prices, stock : Stocks, live : {TRUE}]]
  /\ now = 1
  /\ page = [a \in Admins |->
       [listed |-> row, stale |-> FALSE, editing |-> None, form |-> Blank,
        option |-> [v \in Variants |-> variant[v].price]]]
  /\ call = [r \in Requests |-> Idle]
  /\ edits = 0 /\ requests = 0 /\ moves = 0 /\ lost = 0

-----------------------------------------------------------------------------
(* Prices and availability. *)

\* calculateBundlePrice.
AtMost(m, n) == IF m <= n THEN m ELSE n
Requested(total, type, value) ==
  IF type = "FIXED_PRICE" THEN value ELSE total - (total * AtMost(value, 100)) \div 100
UnitPrice(total, type, value) ==
  IF total = 0 \/ value = 0 THEN total ELSE AtMost(total, Requested(total, type, value))
Saves(total, type, value) == UnitPrice(total, type, value) < total

Total(price, items) == MapThenSumSet(LAMBDA v : price[v] * items[v], DOMAIN items)
PriceNow == [v \in Variants |-> variant[v].price]
TotalNow(bundle) == Total(PriceNow, bundle.items)
PriceOf(bundle) == UnitPrice(TotalNow(bundle), bundle.type, bundle.value)
HasSaving(bundle) == Saves(TotalNow(bundle), bundle.type, bundle.value)

\* calculateBundleAvailability: the component that there is least of.
UnitsOf(bundle, v) == IF variant[v].live THEN variant[v].stock \div bundle.items[v] ELSE 0
Available(bundle) ==
  IF Cardinality(Components(bundle)) < 2 THEN 0
  ELSE CHOOSE n \in {UnitsOf(bundle, v) : v \in Components(bundle)} :
         \A v \in Components(bundle) : n <= UnitsOf(bundle, v)

\* presentBundle.
IsScheduled(bundle) == bundle.start <= now /\ now <= bundle.end
Configured(bundle) == Cardinality(Components(bundle)) >= 2 /\ HasSaving(bundle)
Sellable(bundle) ==
  bundle.active /\ IsScheduled(bundle) /\ Configured(bundle) /\ Available(bundle) > 0

\* What the public list shows, and what getBundleForCart lets into a cart.
Listed == row # None /\ row.active /\ IsScheduled(row)
ForCart == Listed /\ HasSaving(row)

-----------------------------------------------------------------------------
(* The world around the bundle: catalogue, orders, clock. *)

Move(v) ==
  /\ moves < MaxMoves
  /\ \E price \in Prices, stock \in Stocks, live \in BOOLEAN :
       variant' = [variant EXCEPT ![v] = [price |-> price, stock |-> stock, live |-> live]]
  /\ moves' = moves + 1
  /\ UNCHANGED <<row, now, page, call, edits, requests, lost>>

Tick ==
  /\ now < Never
  /\ now' = now + 1
  /\ UNCHANGED <<row, variant, page, call, edits, requests, moves, lost>>

-----------------------------------------------------------------------------
(* The page. *)

Save(a) == <<a, "save">>
Delete(a) == <<a, "delete">>
Running(r) == call[r].at # "idle"

\* bundleBody: rupees become paise, a percentage is rounded.
Submitted(form) ==
  IF form.type = "FIXED_PRICE" THEN form.typed ELSE (form.typed + 50) \div 100
Body(form, id) ==
  [id |-> id, active |-> form.active, type |-> form.type, value |-> Submitted(form),
   start |-> form.start, end |-> form.end, items |-> form.items]
FormOf(bundle) ==
  [active |-> bundle.active, type |-> bundle.type,
   typed |-> IF bundle.type = "FIXED_PRICE" THEN bundle.value ELSE 100 * bundle.value,
   start |-> bundle.start, end |-> bundle.end, items |-> bundle.items]

\* buildChangedFields; a bundle that is created sends every field.
Changed(a) ==
  LET editing == page[a].editing IN
  IF editing = None THEN Fields
  ELSE {f \in Fields : Body(page[a].form, editing.id)[f] # editing[f]}

\* previewPrice, with the prices the page fetched when it was opened.
Preview(total, type, value) ==
  IF type = "FIXED_PRICE" THEN value ELSE total - (total * value) \div 100

\* Opening the bundle that is already open leaves the form as it is.
Edit(a) ==
  /\ page[a].listed # None /\ page[a].listed # page[a].editing /\ ~Running(Delete(a))
  /\ page' = [page EXCEPT ![a].editing = page[a].listed, ![a].form = FormOf(page[a].listed)]
  /\ UNCHANGED <<row, variant, now, call, edits, requests, moves, lost>>

Reset(shown) == [shown EXCEPT !.editing = None, !.form = Blank]

Cancel(a) ==
  /\ page[a].editing # None
  /\ page' = [page EXCEPT ![a] = Reset(@)]
  /\ UNCHANGED <<row, variant, now, call, edits, requests, moves, lost>>

Type(a, field, form) ==
  /\ field \in Edited /\ edits < MaxEdits /\ form # page[a].form
  /\ page' = [page EXCEPT ![a].form = form]
  /\ edits' = edits + 1
  /\ UNCHANGED <<row, variant, now, call, requests, moves, lost>>

TypeField(a) ==
  \/ \E active \in BOOLEAN : Type(a, "active", [page[a].form EXCEPT !.active = active])
  \/ \E type \in Types : Type(a, "type", [page[a].form EXCEPT !.type = type])
  \/ \E typed \in TypedValues : Type(a, "value", [page[a].form EXCEPT !.typed = typed])
  \/ \E start \in 0..MaxTime : Type(a, "start", [page[a].form EXCEPT !.start = start])
  \/ \E end \in 1..Never : Type(a, "end", [page[a].form EXCEPT !.end = end])

\* A component is added once, with one unit; its units are changed, or it goes.
TypeComponent(a) ==
  \E v \in Variants, n \in 0..MaxQuantity :
    /\ page[a].form.items[v] = 0 => n = 1
    /\ Type(a, "items", [page[a].form EXCEPT !.items[v] = n])

Asks(r, request) ==
  /\ ~Running(r) /\ requests < MaxRequests
  /\ call' = [call EXCEPT ![r] = request]
  /\ requests' = requests + 1
  /\ UNCHANGED <<row, variant, now, page, edits, moves, lost>>

\* The limits of the form's number input; a created bundle takes its id from
\* the number of its request.
InputValid(form) ==
  /\ form.typed >= 100
  /\ form.type = "PERCENTAGE_OFF" => form.typed <= 9000 /\ form.typed % 100 = 0

Submit(a) ==
  LET editing == page[a].editing
      id == IF editing = None THEN requests + 1 ELSE editing.id
  IN
  /\ InputValid(page[a].form)
  /\ Cardinality(Components(page[a].form)) >= 2 /\ Changed(a) # {}
  /\ Asks(Save(a), [Idle EXCEPT !.at = "sent", !.changed = Changed(a),
                                !.op = IF editing = None THEN "create" ELSE "update",
                                !.body = Body(page[a].form, id)])

\* The deletion remembers whether the bundle was open when it was confirmed.
AskDelete(a) ==
  LET bundle == page[a].listed IN
  /\ bundle # None
  /\ Asks(Delete(a), [Idle EXCEPT !.at = "sent", !.op = "delete", !.body = bundle,
                        !.resets = page[a].editing # None /\ page[a].editing.id = bundle.id])

\* Lists are fetched again after a request, whatever became of it.
Refetch(a) ==
  /\ page[a].stale
  /\ page' = [page EXCEPT ![a].listed = row, ![a].stale = FALSE]
  /\ UNCHANGED <<row, variant, now, call, edits, requests, moves, lost>>

Ended(r) == call[r].at \in {"ok", "refused"}

Answer(r) ==
  /\ Ended(r)
  /\ call' = [call EXCEPT ![r] = Idle]
  /\ page' = [page EXCEPT ![r[1]] =
       LET shown == [@ EXCEPT !.stale = TRUE] IN
       IF call[r].at = "ok" /\ (call[r].op = "delete" => call[r].resets)
       THEN Reset(shown) ELSE shown]
  /\ UNCHANGED <<row, variant, now, edits, requests, moves, lost>>

\* The request or its answer is lost: the page shows an error and keeps the form.
Lose(r) ==
  /\ Ended(r) \/ call[r].at = "sent"
  /\ lost < MaxLost
  /\ call' = [call EXCEPT ![r] = Idle]
  /\ page' = [page EXCEPT ![r[1]].stale = TRUE]
  /\ lost' = lost + 1
  /\ UNCHANGED <<row, variant, now, edits, requests, moves>>

-----------------------------------------------------------------------------
(* The server. *)

UnderWay(r) == call[r].at \in {"read", "valid"}
MayRun(r) == Overlapping \/ \A q \in Requests \ {r} : ~UnderWay(q)

\* createBody and patchBody.
WellFormed(r) == "value" \in call[r].changed => call[r].body.value > 0

Goes(r, at) == call' = [call EXCEPT ![r].at = at]
ServerOnly == UNCHANGED <<variant, now, page, edits, requests, moves, lost>>

Merged(request, current) ==
  LET Given(f) == IF f \in request.changed THEN request.body[f] ELSE current[f] IN
  [id |-> current.id, active |-> Given("active"), type |-> Given("type"),
   value |-> Given("value"), start |-> Given("start"), end |-> Given("end"),
   items |-> Given("items")]

Found(r) == row # None /\ row.id = call[r].body.id

Read(r) ==
  /\ call[r].at = "sent" /\ call[r].op = "update" /\ MayRun(r)
  /\ IF WellFormed(r) /\ Found(r)
     THEN call' = [call EXCEPT ![r].at = "read", ![r].current = row]
     ELSE Goes(r, "refused")
  /\ UNCHANGED row /\ ServerOnly

\* validateWrite, with the prices of now.
Passes(bundle) ==
  /\ ValidFields(bundle)
  /\ HasSaving(bundle) /\ PriceOf(bundle) > 0

Candidate(request) ==
  IF request.op = "create" THEN request.body ELSE Merged(request, request.current)

Validate(r) ==
  /\ \/ call[r].at = "sent" /\ call[r].op = "create" /\ MayRun(r)
     \/ call[r].at = "read"
  /\ Goes(r, IF Passes(Candidate(call[r])) THEN "valid" ELSE "refused")
  /\ UNCHANGED row /\ ServerOnly

\* A second bundle of the name fails on its slug, a bundle that went on its id.
Write(r) ==
  /\ call[r].at = "valid"
  /\ IF call[r].op = "create" /\ row = None
     THEN row' = call[r].body /\ Goes(r, "ok")
     ELSE IF call[r].op = "update" /\ Found(r)
     THEN row' = Merged(call[r], row) /\ Goes(r, "ok")
     ELSE UNCHANGED row /\ Goes(r, "refused")
  /\ ServerOnly

Remove(r) ==
  /\ call[r].at = "sent" /\ call[r].op = "delete" /\ MayRun(r)
  /\ IF Found(r) THEN row' = None /\ Goes(r, "ok") ELSE UNCHANGED row /\ Goes(r, "refused")
  /\ ServerOnly

-----------------------------------------------------------------------------
World == Tick \/ \E v \in Variants : Move(v)
Press(a) ==
  \/ Edit(a) \/ Cancel(a) \/ TypeField(a) \/ TypeComponent(a)
  \/ Submit(a) \/ AskDelete(a) \/ Refetch(a)
Handle(r) == Read(r) \/ Validate(r) \/ Write(r) \/ Remove(r)

Next ==
  \/ World
  \/ \E a \in Admins : Press(a)
  \/ \E r \in Requests : Handle(r) \/ Answer(r) \/ Lose(r)

Spec == Init /\ [][Next]_vars

-----------------------------------------------------------------------------
(* Properties *)

TypeOK ==
  /\ row \in Rows \cup {None}
  /\ now \in 1..Never
  /\ \A r \in Requests :
       /\ call[r].at \in {"idle", "sent", "read", "valid", "ok", "refused"}
       /\ call[r].body \in Rows \cup {None} /\ call[r].current \in Rows \cup {None}
       /\ call[r].changed \subseteq Fields
  /\ \A a \in Admins : page[a].listed \in Rows \cup {None} /\ Body(page[a].form, 0) \in Rows

\* As long as saves do not overlap, the bundle that is stored is one that
\* validateWrite lets pass, however many partial saves made it.
StoredIsValid == ~Overlapping /\ row # None => ValidFields(row)

\* Nor is a bundle sold for nothing, at whatever prices of its components: a
\* percentage above 90 is refused, and a fixed price is not taken for one.
NeverFree == ~Overlapping /\ ForCart => PriceOf(row) > 0

\* A bundle the shop offers can be put in a cart, and there are the units of
\* every component for each of the bundles it says there are.
OfferIsCovered ==
  row # None /\ Sellable(row) =>
    /\ ForCart
    /\ \A v \in Components(row) :
         variant[v].live /\ Available(row) * row.items[v] <= variant[v].stock

\* A save changes no field that its administrator did not change.
OnlyItsFields ==
  \A f \in Fields :
    row # None /\ row' # None /\ row'.id = row.id /\ row'[f] # row[f] =>
    \E r \in Requests : call[r].at = "valid" /\ call'[r].at = "ok" /\ f \in call[r].changed

\* What passes the check at the prices the page had fetched costs what the
\* page's preview said: page and server compute alike.
PreviewIsPrice ==
  \A a \in Admins :
    LET r == Save(a) IN
    /\ call[r].at \in {"sent", "read"} /\ call'[r].at = "valid"
    /\ Candidate(call[r]) = call[r].body /\ page[a].option = PriceNow
    => Preview(Total(page[a].option, call[r].body.items), call[r].body.type, call[r].body.value)
         = PriceOf(call[r].body)
=============================================================================
