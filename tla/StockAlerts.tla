----------------------------- MODULE StockAlerts -----------------------------
(***************************************************************************)
(* "Notify me when available": customers ask to be told when a variant     *)
(* that is sold out comes back.  An administrator's stock change that      *)
(* brings it back queues an email to everybody waiting, in the same        *)
(* transaction; the outbox sends it later and answers the alert.           *)
(*                                                                         *)
(*   subscribeStockAlert, unsubscribeStockAlert                            *)
(*                              modules/wishlist/stockAlerts.service.ts    *)
(*   queueBackInStockNotifications                                         *)
(*                              modules/wishlist/stockAlertEmail.service.ts*)
(*   shouldSendBackInStock      modules/wishlist/stockAlertPolicy.ts       *)
(*   PATCH /variants/:variantId modules/admin/adminCatalog.routes.ts       *)
(*                                                                         *)
(* Checkout takes stock and an abandoned order gives it back (order state  *)
(* machine).  The outbox is modelled by its promise: an email is sent, or  *)
(* dropped when the alert has changed (EmailOutbox).                       *)
(***************************************************************************)
EXTENDS Integers

CONSTANTS
  Customers,   \* customers who may wait for the variant
  Admins,      \* requests that change its stock
  MaxStock,    \* bound on the stock
  MaxVersions, \* bound on the versions of an alert
  Releases,    \* abandoned orders give stock back
  Overlapping  \* the requests run at the same time

ConstantsAssumption ==
  {MaxStock, MaxVersions} \subseteq Nat /\ {Releases, Overlapping} \subseteq BOOLEAN

VARIABLES
  stock,       \* ProductVariant.stock
  alert,       \* StockAlert of each customer: is there a row, active, its updatedAt
  queued,      \* outbox: the emails queued, as customer and version of the alert
  delivered,   \* those delivered
  asking,      \* customers who were told the variant is sold out
  editing      \* the stock each administrator's request has read, -1 if none

vars == <<stock, alert, queued, delivered, asking, editing>>

Init ==
  /\ stock = 0
  /\ alert = [c \in Customers |-> [exists |-> FALSE, active |-> FALSE, version |-> 0]]
  /\ queued = {} /\ delivered = {}
  /\ asking = {}
  /\ editing = [a \in Admins |-> -1]

Quiet == asking = {} /\ \A a \in Admins : editing[a] = -1
MayStart == Overlapping \/ Quiet
Wants(c) == alert[c].exists /\ alert[c].active

\* subscribeStockAlert: refused while there is stock; then the alert is made,
\* or made active again.
StartSubscribe(c) ==
  /\ MayStart
  /\ stock <= 0 /\ c \notin asking
  /\ alert[c].version < MaxVersions
  /\ asking' = asking \cup {c}
  /\ UNCHANGED <<stock, alert, queued, delivered, editing>>

FinishSubscribe(c) ==
  /\ c \in asking
  /\ alert' = [alert EXCEPT ![c] = [exists |-> TRUE, active |-> TRUE, version |-> @.version + 1]]
  /\ asking' = asking \ {c}
  /\ UNCHANGED <<stock, queued, delivered, editing>>

Unsubscribe(c) ==
  /\ MayStart
  /\ alert[c].exists
  /\ alert' = [alert EXCEPT ![c].exists = FALSE]
  /\ UNCHANGED <<stock, queued, delivered, asking, editing>>

\* PATCH /variants: one transaction, whose read may be outdated when its update
\* takes the row lock.
StartEdit(a) ==
  /\ MayStart
  /\ editing[a] = -1
  /\ editing' = [editing EXCEPT ![a] = stock]
  /\ UNCHANGED <<stock, alert, queued, delivered, asking>>

ShouldSendRefill(previous, next) == previous < next /\ previous > 0
ShouldSend(previous, next) == previous <= 0 /\ next > 0

\* One email for each active alert and version: the key makes a second one the
\* first.
Waiting == {<<c, alert[c].version>> : c \in {x \in Customers : Wants(x)}}
AlertsQueued(previous, next) == alert

FinishEdit(a, next) ==
  /\ editing[a] >= 0
  /\ stock' = next
  /\ queued' = IF ShouldSend(editing[a], next) THEN queued \cup Waiting ELSE queued
  /\ alert' = AlertsQueued(editing[a], next)
  /\ editing' = [editing EXCEPT ![a] = -1]
  /\ UNCHANGED <<delivered, asking>>

\* The outbox sends an email whose alert is as it was, and answers the alert.
Deliver(c, v) ==
  /\ MayStart
  /\ <<c, v>> \in queued \ delivered
  /\ Wants(c) /\ alert[c].version = v
  /\ delivered' = delivered \cup {<<c, v>>}
  /\ alert' = [alert EXCEPT ![c].active = FALSE]
  /\ UNCHANGED <<stock, queued, asking, editing>>

Sell ==
  /\ MayStart
  /\ stock > 0
  /\ stock' = stock - 1
  /\ UNCHANGED <<alert, queued, delivered, asking, editing>>

Release ==
  /\ MayStart /\ Releases
  /\ stock < MaxStock
  /\ stock' = stock + 1
  /\ UNCHANGED <<alert, queued, delivered, asking, editing>>

Next ==
  \/ \E c \in Customers : StartSubscribe(c) \/ FinishSubscribe(c) \/ Unsubscribe(c)
  \/ \E a \in Admins : StartEdit(a) \/ \E next \in 0..MaxStock : FinishEdit(a, next)
  \/ \E c \in Customers, v \in 1..MaxVersions : Deliver(c, v)
  \/ Sell \/ Release

Spec == Init /\ [][Next]_vars

-----------------------------------------------------------------------------
(* Properties.                                                             *)

TypeOK ==
  /\ stock \in 0..MaxStock
  /\ alert \in [Customers -> [exists : BOOLEAN, active : BOOLEAN, version : 0..MaxVersions]]
  /\ delivered \subseteq queued /\ queued \subseteq Customers \X (1..MaxVersions)
  /\ asking \subseteq Customers
  /\ editing \in [Admins -> -1..MaxStock]

\* Nobody is forgotten: once the variant is back, everybody who waits for it
\* has an email under way.
NoneForgotten ==
  Quiet /\ stock > 0 =>
    \A c \in Customers : Wants(c) => <<c, alert[c].version>> \in queued

\* A customer's wish ends only by the customer or by an email that was
\* delivered.
EndedByEmail ==
  \A c \in Customers :
    alert[c].exists /\ ~alert[c].active => <<c, alert[c].version>> \in delivered
=============================================================================
