--------------------------- MODULE CatalogueAdmin ---------------------------
(***************************************************************************)
(* One product, its options and their stock under the hands of the admins, *)
(* while customers' orders take units and give them back                   *)
(* (adminCatalog.routes.ts, admin/products/[id]/page.tsx, catalogApi.ts,   *)
(* and, for the orders, checkout.service.ts, stateMachine.ts and           *)
(* checkoutExpiry.service.ts).                                             *)
(*                                                                         *)
(* A page keeps its forms apart from the product it fetched: cards of the  *)
(* core fields send what differs from the baseline, the row of an option   *)
(* sends what differs from the option as it was fetched last.  Every saved *)
(* change makes the page fetch the product again; the forms keep their     *)
(* texts.                                                                  *)
(*                                                                         *)
(* Left out: texts that do not constrain each other, images                *)
(* (ProductImages), the alerts of customers waiting for stock              *)
(* (StockAlerts) and the payment of the orders (CheckoutPayment).          *)
(***************************************************************************)
EXTENDS Naturals, Sequences, FiniteSets

CONSTANTS
  Admins,
  Variants,      \* options by their id, which no two options ever share
  Stocked,       \* the options there are at the start
  Orders,        \* orders by the time their reservation ends: 1..n
  VariantOf,     \* the option each order holds a unit of
  Pinned,        \* the options a bundle or a subscription plan refers to
  Prices,        \* prices; 0 as a compare-at price is none
  Units,         \* the units of each option in the warehouse at the start
  Names,
  MaxEdits, MaxSaves,
  BatchSize,     \* reservations one expiry scan takes
  Overlapping,   \* two requests of the admins run at the same time
  Deleting,      \* admins delete options and the product
  None

ConstantsAssumption ==
  /\ Orders = 1..Cardinality(Orders)
  /\ VariantOf \in [Orders -> Variants] /\ Pinned \subseteq Stocked /\ Stocked \subseteq Variants
  /\ Units \in [Variants -> Nat] /\ Prices \subseteq Nat
  /\ BatchSize \in Nat \ {0}

VARIABLES
  product,   \* the Product row, or None once it is deleted
  option,    \* the ProductVariant rows; None where there is none
  deleted,   \* the ids of the options that were deleted
  order,     \* what each order does with its unit
  page,      \* each admin's page
  handler,   \* the request each admin has running
  scan,      \* the reservations the expiry scan has still to try
  edits, saves

vars == <<product, option, deleted, order, page, handler, scan, edits, saves>>

Core == {"name", "base", "mrp", "active"}
Cards == {{"name"}, {"base", "mrp"}, {"active"}}
FirstPrice == CHOOSE p \in Prices : \A q \in Prices : p <= q
NewProduct == [name |-> CHOOSE n \in Names : TRUE, base |-> FirstPrice, mrp |-> 0, active |-> TRUE]
NewOption(v) == [price |-> FirstPrice, stock |-> Units[v]]
Closed == [open |-> FALSE, seen |-> None, form |-> None, baseline |-> None,
           rows |-> None, entered |-> {}, refetch |-> FALSE]
Idle == [at |-> "IDLE"]

Init ==
  /\ product = NewProduct
  /\ option = [v \in Variants |-> IF v \in Stocked THEN NewOption(v) ELSE None]
  /\ deleted = {}
  /\ order = [o \in Orders |-> "NONE"]
  /\ page = [a \in Admins |-> Closed]
  /\ handler = [a \in Admins |-> Idle]
  /\ scan = <<>>
  /\ edits = 0 /\ saves = 0

There(v) == option[v] # None
Options == {v \in Variants : There(v)}

-----------------------------------------------------------------------------
(* Customers and the expiry of their orders. *)

Reserve(o) ==
  LET v == VariantOf[o] IN
  /\ order[o] = "NONE"
  /\ product # None /\ product.active /\ There(v) /\ option[v].stock > 0
  /\ option' = [option EXCEPT ![v].stock = @ - 1]
  /\ order' = [order EXCEPT ![o] = "HELD"]
  /\ UNCHANGED <<product, deleted, page, handler, scan, edits, saves>>

\* Paid and shipped: the unit leaves the warehouse; no option row is touched.
Ship(o) ==
  /\ order[o] = "HELD"
  /\ order' = [order EXCEPT ![o] = "SHIPPED"]
  /\ UNCHANGED <<product, option, deleted, page, handler, scan, edits, saves>>

HeldBefore(o) == {p \in Orders : p < o /\ order[p] = "HELD"}
Batch == SelectSeq([i \in 1..Cardinality(Orders) |-> i],
                   LAMBDA o : order[o] = "HELD" /\ Cardinality(HeldBefore(o)) < BatchSize)

StartScan ==
  /\ scan = <<>> /\ Batch # <<>>
  /\ scan' = Batch
  /\ UNCHANGED <<product, option, deleted, order, page, handler, edits, saves>>

\* transition() gives the unit back to the row of its option; without the row
\* the whole transition fails and the order stays as it is.
GivesBack(o) == order[o] = "HELD" /\ There(VariantOf[o])

Expire ==
  /\ scan # <<>>
  /\ scan' = Tail(scan)
  /\ IF GivesBack(Head(scan))
     THEN /\ order' = [order EXCEPT ![Head(scan)] = "CANCELLED"]
          /\ option' = [option EXCEPT ![VariantOf[Head(scan)]].stock = @ + 1]
     ELSE UNCHANGED <<order, option>>
  /\ UNCHANGED <<product, deleted, page, handler, edits, saves>>

-----------------------------------------------------------------------------
(* The page. *)

Fetched == [product |-> product, option |-> option]

Open(a) ==
  /\ ~page[a].open /\ product # None
  /\ page' = [page EXCEPT ![a] =
       [open |-> TRUE, seen |-> Fetched, form |-> product, baseline |-> product,
        rows |-> option, entered |-> {}, refetch |-> FALSE]]
  /\ UNCHANGED <<product, option, deleted, order, handler, scan, edits, saves>>

\* A row that is still there keeps what its inputs say; a new one starts from
\* the option.
KeptRow(a, v) == IF page[a].rows[v] # None THEN page[a].rows[v] ELSE option[v]

Refetch(a) ==
  /\ page[a].open /\ page[a].refetch
  /\ page' = [page EXCEPT ![a] =
       IF product = None THEN Closed
       ELSE [@ EXCEPT !.seen = Fetched, !.refetch = FALSE,
                      !.rows = [v \in Variants |-> IF There(v) THEN KeptRow(a, v) ELSE None],
                      !.entered = {e \in @ : There(e[1])}]]
  /\ UNCHANGED <<product, option, deleted, order, handler, scan, edits, saves>>

EditCore(a) ==
  \E f \in Core :
    \E x \in IF f = "name" THEN Names
             ELSE IF f = "active" THEN BOOLEAN
             ELSE IF f = "mrp" THEN Prices \cup {0} ELSE Prices :
      /\ page[a].open /\ edits < MaxEdits /\ page[a].form[f] # x
      /\ page' = [page EXCEPT ![a].form[f] = x]
      /\ edits' = edits + 1
      /\ UNCHANGED <<product, option, deleted, order, handler, scan, saves>>

\* The stock an admin enters is a new count of the warehouse; none is entered
\* here that differs from what is there, so `edits` of stock are left out.
EditPrice(a) ==
  \E v \in Variants, p \in Prices :
    /\ page[a].open /\ edits < MaxEdits
    /\ page[a].rows[v] # None /\ page[a].rows[v].price # p
    /\ page' = [page EXCEPT ![a].rows[v].price = p, ![a].entered = @ \cup {<<v, "price">>}]
    /\ edits' = edits + 1
    /\ UNCHANGED <<product, option, deleted, order, handler, scan, saves>>

Differing(current, original) ==
  {f \in DOMAIN current : current[f] # original[f]}
Only(current, fields) == [f \in fields |-> current[f]]

CorePatch(a, card) ==
  LET form == page[a].form IN Only(form, card \cap Differing(form, page[a].baseline))
RowChanges(a, v) ==
  IF page[a].rows[v] = None \/ page[a].seen.option[v] = None THEN {}
  ELSE Differing(page[a].rows[v], page[a].seen.option[v])

PricesMakeSense(a, card) ==
  card = {"base", "mrp"} =>
    page[a].form.mrp = 0 \/ page[a].form.mrp > page[a].form.base

MayStart(a) == page[a].open /\ handler[a].at = "IDLE" /\ saves < MaxSaves

Start(a, h) ==
  /\ handler' = [handler EXCEPT ![a] = h]
  /\ saves' = saves + 1
  /\ UNCHANGED <<product, option, deleted, order, page, scan, edits>>

SaveCard(a) ==
  \E card \in Cards :
    /\ MayStart(a) /\ PricesMakeSense(a, card)
    /\ DOMAIN CorePatch(a, card) # {}
    /\ Start(a, [at |-> IF "active" \in card /\ page[a].form.active THEN "COUNT" ELSE "WRITE",
                 op |-> "CORE", patch |-> CorePatch(a, card),
                 changed |-> card \cap Differing(page[a].form, page[a].baseline)])

SaveRow(a) ==
  \E v \in Variants :
    /\ MayStart(a) /\ RowChanges(a, v) # {}
    /\ Start(a, [at |-> "WRITE", op |-> "OPTION", variant |-> v,
                 patch |-> Only(page[a].rows[v], RowChanges(a, v))])

AddOption(a) ==
  \E v \in Variants :
    /\ MayStart(a) /\ ~There(v) /\ v \notin deleted
    /\ Start(a, [at |-> "WRITE", op |-> "ADD", variant |-> v])

DeleteOption(a) ==
  \E v \in Variants :
    /\ Deleting /\ MayStart(a) /\ page[a].seen.option[v] # None
    /\ \/ ~page[a].seen.product.active
       \/ Cardinality({w \in Variants : page[a].seen.option[w] # None}) > 1
    /\ Start(a, [at |-> "COUNT", op |-> "REMOVE", variant |-> v])

DeleteProduct(a) ==
  /\ Deleting /\ MayStart(a)
  /\ Start(a, [at |-> "WRITE", op |-> "DELETE"])

-----------------------------------------------------------------------------
(* The handlers.  Every one ends with the page fetching the product again. *)

Op(a, op, at) == handler[a].at = at /\ handler[a].op = op
MayRun(a) == Overlapping \/ \A b \in Admins \ {a} : handler[b].at # "CHECKED"

Ends(a) == handler' = [handler EXCEPT ![a] = Idle]
Refetches(a) == page' = [page EXCEPT ![a].refetch = TRUE]

\* PATCH /products/:id with active, and DELETE /variants/:id: the check reads
\* the number of options before the write, and nothing keeps it true.
CanPublish == product # None /\ Options # {}
CanRemove(v) == There(v) /\ (product.active => Cardinality(Options) > 1)

Count(a) ==
  /\ handler[a].at = "COUNT" /\ MayRun(a)
  /\ IF handler[a].op = "CORE" THEN CanPublish ELSE CanRemove(handler[a].variant)
  /\ handler' = [handler EXCEPT ![a].at = "CHECKED"]
  /\ UNCHANGED <<product, option, deleted, order, page, scan, edits, saves>>

CountRefuses(a) ==
  /\ handler[a].at = "COUNT" /\ MayRun(a)
  /\ ~(IF handler[a].op = "CORE" THEN CanPublish ELSE CanRemove(handler[a].variant))
  /\ Ends(a) /\ Refetches(a)
  /\ UNCHANGED <<product, option, deleted, order, scan, edits, saves>>

WriteCore(a) ==
  /\ (Op(a, "CORE", "WRITE") /\ MayRun(a)) \/ Op(a, "CORE", "CHECKED")
  /\ IF product = None
     THEN UNCHANGED product /\ Refetches(a)
     ELSE /\ product' = [f \in Core |-> IF f \in DOMAIN handler[a].patch
                                        THEN handler[a].patch[f] ELSE product[f]]
          /\ page' = [page EXCEPT ![a].refetch = TRUE,
               ![a].baseline = [f \in Core |-> IF f \in DOMAIN handler[a].patch
                                               THEN handler[a].patch[f] ELSE @[f]]]
  /\ Ends(a)
  /\ UNCHANGED <<option, deleted, order, scan, edits, saves>>

WriteOption(a) ==
  LET v == handler[a].variant IN
  /\ Op(a, "OPTION", "WRITE") /\ MayRun(a)
  /\ option' = IF There(v) THEN [option EXCEPT ![v] =
                   [f \in {"price", "stock"} |-> IF f \in DOMAIN handler[a].patch
                                                 THEN handler[a].patch[f] ELSE @[f]]]
               ELSE option
  /\ Ends(a) /\ Refetches(a)
  /\ UNCHANGED <<product, deleted, order, scan, edits, saves>>

CreateOption(a) ==
  LET v == handler[a].variant IN
  /\ Op(a, "ADD", "WRITE") /\ MayRun(a)
  /\ option' = IF product # None /\ ~There(v) THEN [option EXCEPT ![v] = NewOption(v)]
               ELSE option
  /\ Ends(a) /\ Refetches(a)
  /\ UNCHANGED <<product, deleted, order, scan, edits, saves>>

\* The foreign keys of bundles and plans refuse to lose their option.
RemoveOption(a) ==
  LET v == handler[a].variant IN
  /\ Op(a, "REMOVE", "CHECKED")
  /\ IF v \in Pinned \/ ~There(v) THEN UNCHANGED <<option, deleted>>
     ELSE option' = [option EXCEPT ![v] = None] /\ deleted' = deleted \cup {v}
  /\ Ends(a) /\ Refetches(a)
  /\ UNCHANGED <<product, order, scan, edits, saves>>

Cascade == [v \in Variants |-> None]
RemoveProduct(a) ==
  /\ Op(a, "DELETE", "WRITE") /\ MayRun(a)
  /\ IF product = None \/ Options \cap Pinned # {}
     THEN UNCHANGED <<product, option, deleted>>
     ELSE /\ product' = None /\ option' = Cascade
          /\ deleted' = deleted \cup Options
  /\ Ends(a) /\ Refetches(a)
  /\ UNCHANGED <<order, scan, edits, saves>>

-----------------------------------------------------------------------------
Handle(a) ==
  \/ Count(a) \/ CountRefuses(a) \/ WriteCore(a) \/ WriteOption(a)
  \/ CreateOption(a) \/ RemoveOption(a) \/ RemoveProduct(a)
Admin(a) ==
  \/ Open(a) \/ Refetch(a) \/ EditCore(a) \/ EditPrice(a) \/ SaveCard(a) \/ SaveRow(a)
  \/ AddOption(a) \/ DeleteOption(a) \/ DeleteProduct(a)

Next ==
  \/ \E o \in Orders : Reserve(o) \/ Ship(o)
  \/ StartScan \/ Expire
  \/ \E a \in Admins : Admin(a) \/ Handle(a)

Spec == Init /\ [][Next]_vars

-----------------------------------------------------------------------------
OptionRow == [price : Prices, stock : Nat]
TypeOK ==
  /\ product # None => product \in [name : Names, base : Prices, mrp : Prices \cup {0}, active : BOOLEAN]
  /\ \A v \in Variants : There(v) => option[v] \in OptionRow /\ v \notin deleted
  /\ order \in [Orders -> {"NONE", "HELD", "SHIPPED", "CANCELLED"}]
  /\ \A a \in Admins : handler[a].at \in {"IDLE", "COUNT", "CHECKED", "WRITE"}
  /\ scan \in Seq(Orders)
  /\ product = None => Options = {}

\* A product that customers see has an option they can buy.
PublishedHasOption == product # None /\ product.active => Options # {}

\* The compare-at price the storefront strikes through is above the price.
MrpAboveBase == product # None => product.mrp = 0 \/ product.mrp > product.base

\* A save changes the core fields its admin changed, so that two admins' edits
\* of different fields are both kept.
OnlyChangedFields ==
  \A f \in Core : product # None /\ product' # None /\ product'[f] # product[f] =>
    \E a \in Admins : /\ handler[a].at \in {"WRITE", "CHECKED"} /\ handler[a].op = "CORE"
                      /\ f \in handler[a].changed

\* An order holds a unit of an option that is still there.
Holds(o) == order[o] = "HELD" /\ There(VariantOf[o])

=============================================================================
