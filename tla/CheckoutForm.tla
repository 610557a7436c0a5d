---------------------------- MODULE CheckoutForm ----------------------------
(***************************************************************************)
(* What the customer fills in and reads on the checkout page before paying:*)
(* the PIN code and the answers of the coverage check, the two steps of    *)
(* the page, the coupon and the total it shows, while the cart can change  *)
(* in the drawer over the page and elsewhere.                              *)
(*   frontend app/(shop)/checkout/page.tsx   CheckoutPage, DetailsForm,    *)
(*                                           ReviewPanel, OrderSummary     *)
(*   features/serviceability/PincodeChecker.tsx                            *)
(*   backend modules/checkout/checkout.routes.ts  coupon/validate, session *)
(*   modules/checkout/coupon.service.ts                                    *)
(*   modules/serviceability  getServiceability, requireServiceArea: every  *)
(*                           valid PIN code is served, prepaid             *)
(* The rest of the address and the e-mail only have to be there.  Paying   *)
(* is one step here (CheckoutPage and CheckoutAttempts have its parts).    *)
(***************************************************************************)
EXTENDS Naturals

CONSTANTS
  Pins,           \* valid PIN codes the customer may type
  UnitPrice, BundlePrice,
  MaxUnits, MaxBundles,
  Percent, MinSubtotal,   \* the coupon
  FirstCart,
  MaxTyped, MaxMoves, MaxLost,   \* bounds
  None

ConstantsAssumption ==
  /\ None \notin Pins
  /\ {UnitPrice, BundlePrice, MaxUnits, MaxBundles, MinSubtotal} \subseteq Nat
  /\ Percent \in 1..100
  /\ FirstCart \in [units: 0..MaxUnits, bundles: 0..MaxBundles]
  /\ {MaxTyped, MaxMoves, MaxLost} \subseteq Nat

VARIABLES
  step,     \* "details", "review", or "gone" to the cart page
  pin,      \* address.pincode
  service,  \* PIN code of the coverage answer the page holds, or None
  checks,   \* PIN codes whose coverage check is not answered yet
  cart,     \* the cart the server has
  view,     \* the cart the page shows
  coupon,   \* the applied coupon as validated: [subtotal, total], or None
  applying, \* the validation on its way and, once answered, its result
  order,    \* the order made: see Pay
  typed,    \* history: the PIN code the customer typed last
  refusal,  \* history: the cart that "Cart is empty" was answered for
  count     \* steps taken: [typed, moves, lost]

vars == <<step, pin, service, checks, cart, view, coupon, applying, order,
          typed, refusal, count>>

Carts == [units: 0..MaxUnits, bundles: 0..MaxBundles]
Empty == [units |-> 0, bundles |-> 0]
Subtotal(c) == UnitPrice * c.units + BundlePrice * c.bundles

\* calculateCouponDiscount: rounded down, never more than the cart is worth,
\* and refused below the coupon's minimum or when it comes to nothing.
Discount(s) == (s * Percent) \div 100
Discounts(s) == s >= MinSubtotal /\ Discount(s) > 0
Validated(s) == [subtotal |-> s, total |-> s - Discount(s)]

\* OrderSummary: the coupon's own total, as it was when it was validated.
Total == IF coupon = None THEN Subtotal(view) ELSE coupon.total

\* getServiceability and requireServiceArea: whatever the rows of ServiceArea
\* say, a valid code is covered, prepaid and without a fee.
Coverage(p) == p

\* DetailsForm and ReviewPanel: their buttons ask for an answer of coverage.
Covered == service # None

NotApplying == [at |-> "no", coupon |-> None]

Init ==
  /\ step = "details" /\ checks = {} /\ service = None
  /\ pin \in {None} \union Pins          \* localStorage "delivery-pincode"
  /\ typed = pin
  /\ cart = FirstCart /\ view = FirstCart
  /\ coupon = None /\ applying = NotApplying
  /\ order = None /\ refusal = None
  /\ count = [typed |-> 0, moves |-> 0, lost |-> 0]

----------------------------------------------------------------------------
(* The PIN code and the steps. *)

\* PincodeChecker.updateValue: what was known about another code is dropped.
Type(p) ==
  /\ step = "details" /\ count.typed < MaxTyped
  /\ pin' = p /\ typed' = p
  /\ service' = None
  /\ count' = [count EXCEPT !.typed = @ + 1]
  /\ UNCHANGED <<step, checks, cart, view, coupon, applying, order, refusal>>

\* handleCheck: the button waits for the answer, the Enter key does not.
Check ==
  /\ step = "details" /\ pin # None
  /\ checks' = checks \union {pin}
  /\ UNCHANGED <<step, pin, service, cart, view, coupon, applying, order,
                 typed, refusal, count>>

\* An answer comes, whatever was typed, sent or opened since, and puts its code
\* into the address.
CheckedKeepsPin(p) ==
  /\ p \in checks /\ step # "gone"
  /\ checks' = checks \ {p}
  /\ service' = Coverage(p)
  /\ UNCHANGED <<step, pin, cart, view, coupon, applying, order, typed, refusal,
                 count>>
Checked(p) ==
  /\ p \in checks /\ step # "gone"
  /\ checks' = checks \ {p}
  /\ service' = Coverage(p) /\ pin' = p
  /\ UNCHANGED <<step, cart, view, coupon, applying, order, typed, refusal,
                 count>>

CheckFails(p) ==
  /\ p \in checks /\ step # "gone" /\ count.lost < MaxLost
  /\ checks' = checks \ {p}
  /\ service' = None
  /\ count' = [count EXCEPT !.lost = @ + 1]
  /\ UNCHANGED <<step, pin, cart, view, coupon, applying, order, typed, refusal>>

\* handleDetailsSubmit, behind a button disabled without coverage.
Submit ==
  /\ step = "details" /\ Covered
  /\ service = pin
  /\ step' = "review"
  /\ UNCHANGED <<pin, service, checks, cart, view, coupon, applying, order,
                 typed, refusal, count>>

EditDetails ==
  /\ step = "review"
  /\ step' = "details"
  /\ UNCHANGED <<pin, service, checks, cart, view, coupon, applying, order,
                 typed, refusal, count>>

----------------------------------------------------------------------------
(* The cart and the coupon. *)

\* The cart drawer, another tab or another device.
CartMoves(c) ==
  /\ c # cart /\ count.moves < MaxMoves
  /\ cart' = c
  /\ count' = [count EXCEPT !.moves = @ + 1]
  /\ UNCHANGED <<step, pin, service, checks, view, coupon, applying, order,
                 typed, refusal>>

\* The drawer's answer, or the window getting the focus.
CartShown ==
  /\ view # cart
  /\ view' = cart
  /\ UNCHANGED <<step, pin, service, checks, cart, coupon, applying, order,
                 typed, refusal, count>>

\* The effect that replaces the page when nothing is left to pay for.
LeaveEmpty ==
  /\ step # "gone" /\ view = Empty
  /\ step' = "gone"
  /\ UNCHANGED <<pin, service, checks, cart, view, coupon, applying, order,
                 typed, refusal, count>>

ApplyCoupon ==
  /\ step # "gone" /\ applying = NotApplying
  /\ applying' = [NotApplying EXCEPT !.at = "sent"]
  /\ UNCHANGED <<step, pin, service, checks, cart, view, coupon, order, typed,
                 refusal, count>>

\* POST /coupon/validate, which counts the lines but not the bundles.
ServeCoupon ==
  /\ applying.at = "sent"
  /\ applying' = [at |-> "answered",
                  coupon |-> IF cart.units > 0 /\ Discounts(Subtotal(cart))
                             THEN Validated(Subtotal(cart)) ELSE None]
  /\ refusal' = IF cart.units = 0 THEN cart ELSE refusal
  /\ UNCHANGED <<step, pin, service, checks, cart, view, coupon, order, typed,
                 count>>

CouponAnswered ==
  /\ applying.at = "answered"
  /\ coupon' = applying.coupon
  /\ applying' = NotApplying
  /\ UNCHANGED <<step, pin, service, checks, cart, view, order, typed, refusal,
                 count>>

CouponLost ==
  /\ applying # NotApplying /\ count.lost < MaxLost
  /\ coupon' = None /\ applying' = NotApplying
  /\ count' = [count EXCEPT !.lost = @ + 1]
  /\ UNCHANGED <<step, pin, service, checks, cart, view, order, typed, refusal>>

RemoveCoupon ==
  /\ coupon # None /\ step # "gone"
  /\ coupon' = None
  /\ UNCHANGED <<step, pin, service, checks, cart, view, applying, order, typed,
                 refusal, count>>

----------------------------------------------------------------------------
(* The button under the review, enabled for a covered PIN code.  The server   *)
(* looks at its own cart and recomputes the coupon; an empty cart and a coupon *)
(* below its minimum are refused.                                              *)

Refused ==
  \/ cart = Empty
  \/ coupon # None /\ ~Discounts(Subtotal(cart))

Charged ==
  IF coupon = None THEN Subtotal(cart) ELSE Validated(Subtotal(cart)).total

Pay ==
  /\ step = "review" /\ Covered /\ order = None
  /\ ~Refused
  /\ order' = [pin |-> pin, checked |-> service,
               shown |-> Total, charged |-> Charged,
               seen |-> view = cart,
               validated |-> coupon # None => coupon.subtotal = Subtotal(view)]
  /\ cart' = Empty
  /\ UNCHANGED <<step, pin, service, checks, view, coupon, applying, typed,
                 refusal, count>>

Next ==
  \/ \E p \in Pins : Type(p) \/ Checked(p) \/ CheckFails(p)
  \/ Check \/ Submit \/ EditDetails
  \/ \E c \in Carts : CartMoves(c)
  \/ CartShown \/ LeaveEmpty
  \/ ApplyCoupon \/ ServeCoupon \/ CouponAnswered \/ CouponLost \/ RemoveCoupon
  \/ Pay

Spec == Init /\ [][Next]_vars

----------------------------------------------------------------------------
(* Properties. *)

Validation == [subtotal: Nat, total: Nat]

TypeOK ==
  /\ step \in {"details", "review", "gone"}
  /\ pin \in Pins \union {None} /\ typed \in Pins \union {None}
  /\ service \in Pins \union {None}
  /\ checks \subseteq Pins
  /\ cart \in Carts /\ view \in Carts
  /\ coupon \in Validation \union {None}
  /\ applying \in [at: {"no", "sent", "answered"},
                   coupon: Validation \union {None}]
  /\ order \in [pin: Pins, checked: Pins, shown: Nat, charged: Nat,
                seen: BOOLEAN, validated: BOOLEAN] \union {None}
  /\ refusal \in Carts \union {None}

\* An order is delivered to the PIN code whose coverage the page showed, in
\* whatever order the answers of the checks came and however often the
\* customer went back to edit (handleDetailsSubmit and PincodeChecker).
OrderIsCovered == order # None => order.pin = order.checked

\* The page's own arithmetic agrees with the server's: with the cart as shown
\* and the coupon validated for it, the total read is the total charged.
TotalAgrees ==
  order # None /\ order.seen /\ order.validated => order.shown = order.charged

=============================================================================
