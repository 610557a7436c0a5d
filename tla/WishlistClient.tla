--------------------------- MODULE WishlistClient ---------------------------
(***************************************************************************)
(* The wishlist one browser tab shows: a cached answer of GET /wishlist    *)
(* that each press of a heart changes at once and that goes back by        *)
(* inverse patches when the request failed.  Nothing invalidates it.       *)
(*                                                                         *)
(*   WishlistButton            features/wishlist/WishlistButton.tsx        *)
(*   addWishlistItem, removeWishlistItem  features/wishlist/wishlistApi.ts *)
(*   addWishlistItem, removeWishlistItem                                   *)
(*                             modules/wishlist/wishlist.service.ts        *)
(*                                                                         *)
(* A request of the server is one step.  The customer stays signed in, the *)
(* list has been loaded, and no other tab changes it.                      *)
(***************************************************************************)
EXTENDS Naturals, Sequences, SequencesExt

CONSTANTS
  Products,
  Places,     \* places on the page where a heart is mounted
  Overlap,    \* whether a heart is pressed while another's request is on its way
  Remounts,   \* whether the customer moves on to other pages meanwhile
  Failures,   \* ways a request may fail, of "refused" and "lost"
  MaxClicks,  \* bound on presses
  MaxFaults,  \* bound on failures
  None

ConstantsAssumption ==
  /\ Overlap \in BOOLEAN /\ Remounts \in BOOLEAN
  /\ Failures \subseteq {"refused", "lost"}
  /\ MaxClicks \in Nat /\ MaxFaults \in Nat

VARIABLES
  saved,    \* WishlistItem rows of the account
  shown,    \* the cached list: the ids the hearts look at, the items listed
  heart,    \* the heart at each place: its product and the request it waits for
  call,     \* the requests, in the order of the presses
  faults

vars == <<saved, shown, heart, call, faults>>

Heart(p) == [product |-> p, wait |-> 0]
NoUndo == [kind |-> "none"]

\* Hearts of different products; the list as loaded, newest first.
Init ==
  /\ saved \in SUBSET Products
  /\ LET order == SetToSeq(saved) IN shown = [ids |-> order, items |-> order]
  /\ heart \in {h \in [Places -> {Heart(p) : p \in Products}] :
                  \A x, y \in Places : h[x].product = h[y].product => x = y}
  /\ call = <<>>
  /\ faults = 0

IsShown(p) == p \in ToSet(shown.ids)
Running(i) == call[i].at # "ended"
Rest == \A i \in DOMAIN call : ~Running(i)

-----------------------------------------------------------------------------
(* The patches of a press and what undoes them.                            *)

\* A push is undone by the array's old length, whatever it holds by then.
WithAdded(p) ==
  IF IsShown(p) THEN shown ELSE [shown EXCEPT !.ids = Append(@, p)]

AddUndo(p) == IF IsShown(p) THEN NoUndo ELSE [kind |-> "length", n |-> Len(shown.ids)]

Without(seq, p) == SelectSeq(seq, LAMBDA q : q # p)

\* Both arrays are replaced, and undone by the arrays they were.
WithRemoved(p) == [ids |-> Without(shown.ids, p), items |-> Without(shown.items, p)]
RemoveUndo(p) == [kind |-> "arrays", ids |-> shown.ids, items |-> shown.items]

\* Setting an array's length cuts it or leaves holes.
Resized(seq, n) ==
  [i \in 1..n |-> IF i <= Len(seq) THEN seq[i] ELSE None]

Undone(undo) ==
  CASE undo.kind = "length" -> [shown EXCEPT !.ids = Resized(@, undo.n)]
    [] undo.kind = "arrays" -> [ids |-> undo.ids, items |-> undo.items]
    [] OTHER -> shown

-----------------------------------------------------------------------------
(* The hearts.                                                             *)

\* ~busy: the heart's own mutations are not loading.
IdleHeart(x) == heart[x].wait = 0

Press(x, kind, undo) ==
  /\ Len(call) < MaxClicks
  /\ Overlap \/ Rest
  /\ call' = Append(call, [at |-> "sent", kind |-> kind, product |-> heart[x].product,
                           undo |-> undo])
  /\ heart' = [heart EXCEPT ![x].wait = Len(call) + 1]
  /\ UNCHANGED <<saved, faults>>

\* toggle
Toggle(x) ==
  LET p == heart[x].product IN
  /\ IdleHeart(x)
  /\ IF IsShown(p)
     THEN shown' = WithRemoved(p) /\ Press(x, "remove", RemoveUndo(p))
     ELSE shown' = WithAdded(p) /\ Press(x, "add", AddUndo(p))

\* Another page: a heart of another product, or a fresh one of the same.
Remount(x, p) ==
  /\ Remounts
  /\ \A y \in Places \ {x} : heart[y].product # p
  /\ heart' = [heart EXCEPT ![x] = Heart(p)]
  /\ UNCHANGED <<saved, shown, call, faults>>

-----------------------------------------------------------------------------
(* The requests.                                                           *)

\* The upsert or the delete; what is so already stays so.
Serve(i) ==
  /\ call[i].at = "sent"
  /\ saved' = IF call[i].kind = "add" THEN saved \cup {call[i].product}
              ELSE saved \ {call[i].product}
  /\ call' = [call EXCEPT ![i].at = "served"]
  /\ UNCHANGED <<shown, heart, faults>>

Ended(i) ==
  /\ call' = [call EXCEPT ![i].at = "ended", ![i].undo = NoUndo]
  /\ heart' = [x \in Places |-> IF heart[x].wait = i THEN [heart[x] EXCEPT !.wait = 0]
                                ELSE heart[x]]

\* The item that came with the answer heads the list.
Listed(p) == IF p \in ToSet(shown.items) THEN shown.items ELSE <<p>> \o shown.items

Answer(i) ==
  /\ call[i].at = "served"
  /\ shown' = IF call[i].kind = "add"
              THEN [shown EXCEPT !.items = Listed(call[i].product)] ELSE shown
  /\ Ended(i)
  /\ UNCHANGED <<saved, faults>>

\* A refused request changed nothing; one whose answer is lost may have.
Fail(i) ==
  /\ Running(i)
  /\ faults < MaxFaults
  /\ IF call[i].at = "sent" THEN "refused" \in Failures ELSE "lost" \in Failures
  /\ faults' = faults + 1
  /\ shown' = Undone(call[i].undo)
  /\ Ended(i)
  /\ UNCHANGED saved

Next ==
  \/ \E x \in Places : Toggle(x) \/ (\E p \in Products : Remount(x, p))
  \/ \E i \in DOMAIN call : Serve(i) \/ Answer(i) \/ Fail(i)

Spec == Init /\ [][Next]_vars

-----------------------------------------------------------------------------

\* Types of the lists, in which nothing is twice whatever the order of presses,
\* answers and undone patches.
TypeOK ==
  /\ saved \in SUBSET Products
  /\ ToSet(shown.ids) \subseteq Products \cup {None}
  /\ ToSet(shown.items) \subseteq Products
  /\ \A p \in Products : \A i, k \in DOMAIN shown.ids :
       shown.ids[i] = p /\ shown.ids[k] = p => i = k
  /\ IsInjective(shown.items)
  /\ faults \in 0..MaxFaults

\* When nothing is on its way the filled hearts are what the account has saved
\* ("Saved products sync securely with your account").
ShownIsSaved == Rest => ToSet(shown.ids) = saved

\* When nothing is on its way the wishlist page lists what the hearts say.
ListedIsShown == Rest => ToSet(shown.items) = ToSet(shown.ids)

=============================================================================
