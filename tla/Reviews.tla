------------------------------- MODULE Reviews -------------------------------
(***************************************************************************)
(* The reviews of one product and the rating kept on the product's row.    *)
(*   reviews/reviewPolicy.ts       decideReviewEligibility                 *)
(*   reviews/reviews.service.ts    getReviewEligibility, createReview,     *)
(*                                 listProductReviews, moderateReview      *)
(*   account/account.service.ts    the end of an account, which deletes    *)
(*                                 its reviews and recomputes the rating   *)
(* ratingAvg and ratingCount are modelled by the set of reviews they were  *)
(* computed from.  A transaction reads what is committed (READ COMMITTED); *)
(* its own changes are seen by others when it commits.                     *)
(***************************************************************************)
EXTENDS Naturals, FiniteSets

CONSTANTS
  Customers, Reviews,
  Requests,       \* the browser tabs of the customers
  Moderators,     \* moderation requests and the deletion of accounts
  SlowTx,         \* whether two of those transactions overlap
  None

ConstantsAssumption ==
  /\ SlowTx \in BOOLEAN
  /\ None \notin Customers \cup Reviews /\ Requests \cap Moderators = {}

VARIABLES
  order,     \* the status of each customer's order of the product
  account,   \* User.accountStatus, or "GONE"
  review,    \* the rows: userId and status, or None
  counted,   \* the reviews in Product.ratingAvg and ratingCount
  worker

vars == <<order, account, review, counted, worker>>

Handlers == Requests \cup Moderators
Statuses == {"PENDING", "APPROVED", "REJECTED"}
Idle == [at |-> "idle", user |-> None, mine |-> {}, becomes |-> None, aggregate |-> {}]

Init ==
  /\ order = [c \in Customers |-> "SHIPPED"]
  /\ account = [c \in Customers |-> "ACTIVE"]
  /\ review = [r \in Reviews |-> None]
  /\ counted = {}
  /\ worker = [w \in Handlers |-> Idle]

At(w, place) == worker[w].at = place
Set(w, t) == worker' = [worker EXCEPT ![w] = t]
Rows == {r \in Reviews : review[r] # None}
By(c) == {r \in Rows : review[r].user = c}
Approved == {r \in Rows : review[r].status = "APPROVED"}
Locked == UNION {worker[w].mine : w \in Handlers}
\* Deleting an account holds its row, for which a new review waits.
Held(c) == \E w \in Moderators : worker[w].user = c

-----------------------------------------------------------------------------
\* The order is delivered, and may be refunded afterwards.
Deliver(c) ==
  /\ order[c] = "SHIPPED"
  /\ order' = [order EXCEPT ![c] = "DELIVERED"]
  /\ UNCHANGED <<account, review, counted, worker>>

Refund(c) ==
  /\ order[c] = "DELIVERED"
  /\ order' = [order EXCEPT ![c] = "REFUNDED"]
  /\ UNCHANGED <<account, review, counted, worker>>

\* A customer asks for the deletion of the account, and may restore it.
ChangeAccount(c) ==
  /\ account[c] # "GONE" /\ ~Held(c)
  /\ account' = [account EXCEPT ![c] =
       IF @ = "ACTIVE" THEN "DELETION_PENDING" ELSE "ACTIVE"]
  /\ UNCHANGED <<order, review, counted, worker>>

-----------------------------------------------------------------------------
Eligible(c) == By(c) = {} /\ order[c] = "DELIVERED"

\* createReview's two reads and the decision.
Ask(w, c) ==
  /\ At(w, "idle") /\ account[c] = "ACTIVE" /\ Eligible(c)
  /\ Set(w, [Idle EXCEPT !.at = "create", !.user = c])
  /\ UNCHANGED <<order, account, review, counted>>

\* The unique index [productId, userId] and the foreign key of the user.
Insertable(c) == By(c) = {} /\ account[c] # "GONE"

Create(w, r) ==
  LET c == worker[w].user IN
  /\ At(w, "create") /\ r \notin Rows /\ ~Held(c)
  /\ IF Insertable(c)
     THEN review' = [review EXCEPT ![r] = [user |-> c, status |-> "PENDING"]]
     ELSE UNCHANGED review
  /\ Set(w, Idle)
  /\ UNCHANGED <<order, account, counted>>

-----------------------------------------------------------------------------
MayStart == SlowTx \/ \A w \in Moderators : At(w, "idle")

AggregateWith(mine, status) ==
  IF status = "APPROVED" THEN Approved \cup mine ELSE Approved \ mine

\* moderateReview: the row is updated and the approved ones are aggregated.
Moderate(w, r, status) ==
  /\ At(w, "idle") /\ MayStart /\ r \in Rows \ Locked
  /\ Set(w, [Idle EXCEPT !.at = "rate", !.mine = {r}, !.becomes = status,
                         !.aggregate = AggregateWith({r}, status)])
  /\ UNCHANGED <<order, account, review, counted>>

\* The end of an account: the cascade removes its reviews before the rating
\* of each of their products is aggregated.
Finalize(w, c) ==
  /\ At(w, "idle") /\ MayStart
  /\ account[c] = "DELETION_PENDING" /\ By(c) \cap Locked = {}
  /\ ~Held(c)
  /\ Set(w, [Idle EXCEPT !.at = "rate", !.user = c, !.mine = By(c), !.becomes = "deleted",
                         !.aggregate = AggregateWith(By(c), "deleted")])
  /\ UNCHANGED <<order, account, review, counted>>

After(r, status) == IF status = "deleted" THEN None ELSE [review[r] EXCEPT !.status = status]

\* The product's row is written and the transaction commits.
Rate(w) ==
  LET t == worker[w] IN
  /\ At(w, "rate")
  /\ review' = [r \in Reviews |-> IF r \in t.mine THEN After(r, t.becomes) ELSE review[r]]
  /\ counted' = IF t.mine = {} THEN counted ELSE t.aggregate
  /\ account' = IF t.user = None THEN account ELSE [account EXCEPT ![t.user] = "GONE"]
  /\ Set(w, Idle)
  /\ UNCHANGED order

\* The transaction rolls back, or the process ends.
RollBack(w) ==
  /\ ~At(w, "idle")
  /\ Set(w, Idle)
  /\ UNCHANGED <<order, account, review, counted>>

Next ==
  \/ \E c \in Customers : Deliver(c) \/ Refund(c) \/ ChangeAccount(c)
  \/ \E w \in Requests, c \in Customers : Ask(w, c)
  \/ \E w \in Requests, r \in Reviews : Create(w, r)
  \/ \E w \in Moderators, r \in Reviews, s \in {"APPROVED", "REJECTED"} : Moderate(w, r, s)
  \/ \E w \in Moderators, c \in Customers : Finalize(w, c)
  \/ \E w \in Moderators : Rate(w)
  \/ \E w \in Handlers : RollBack(w)

Spec == Init /\ [][Next]_vars

-----------------------------------------------------------------------------
\* Types: rows have an author and a status, and no two have one author, though
\* two tabs were both told that the customer may write one
\* (decideReviewEligibility, Review's unique index).
TypeOK ==
  /\ \A r \in Rows : review[r].user \in Customers /\ review[r].status \in Statuses
  /\ \A r, s \in Rows : review[r].user = review[s].user => r = s
  /\ counted \subseteq Reviews

\* A review was written after a delivery and goes with its account, whatever
\* was moderated, refunded or deleted between the check and the insertion
\* (createReview, the account's cascade).
VerifiedOnly ==
  \A r \in Rows : order[review[r].user] # "SHIPPED" /\ account[review[r].user] # "GONE"

\* The product's rating is computed from the approved reviews, after any
\* sequence of moderations and deletions (moderateReview, account.service).
RatingMatches == counted = Approved

=============================================================================
