--------------------------- MODULE AccountLifecycle ---------------------------
(***************************************************************************)
(* A customer's account: the change of its address, its deletion with a    *)
(* period of grace, and the orders that outlive it.                        *)
(*   account/account.service.ts    requestEmailChange,                     *)
(*                                 applyVerifiedEmailChange,               *)
(*                                 requestAccountDeletion, restoreAccount, *)
(*                                 finalizeAccountDeletion                 *)
(*   account/account.routes.ts     the requests                            *)
(*   auth/auth.service.ts          syncSession                             *)
(*   jobs/accountDeletion.ts       the scan for due deletions              *)
(* The identity provider (Firebase) and the checkout are their effects on  *)
(* the account.  An order is active or done; open refunds count like       *)
(* active orders.                                                          *)
(***************************************************************************)
EXTENDS Naturals

CONSTANTS
  Users, Emails, Orders, Workers,
  FirstEmail,    \* the address each account was made with
  MaxFaults,     \* bound on rolled back requests
  MaxRestores,   \* bound on the requests to restore
  SlowRestores,  \* whether a restore may wait past the end of the grace
  SlowCheckouts, \* whether a deletion may be requested during a checkout
  Changes,       \* whether addresses are changed
  None

ConstantsAssumption ==
  /\ FirstEmail \in [Users -> Emails] /\ MaxFaults \in Nat /\ MaxRestores \in Nat
  /\ SlowRestores \in BOOLEAN /\ SlowCheckouts \in BOOLEAN /\ Changes \in BOOLEAN
  /\ None \notin Users \cup Emails

VARIABLES
  status,     \* User.accountStatus; "GONE" when the row is deleted
  due,        \* User.deletionScheduledFor has passed
  email, pending,   \* User.email, User.pendingEmail
  expired,    \* User.emailChangeExpiresAt has passed
  identity,   \* the provider's account: its address, or None
  links,      \* confirmation links sent
  order,      \* Order: state, userId, whether its personal data is there
  faults, restores,
  worker

vars == <<status, due, email, pending, expired, identity, links, order, faults, restores, worker>>

Idle == [at |-> "idle", user |-> None, email |-> None, late |-> FALSE, orders |-> {}]

Init ==
  /\ status = [u \in Users |-> "ACTIVE"] /\ due = [u \in Users |-> FALSE]
  /\ email = FirstEmail /\ identity = FirstEmail
  /\ pending = [u \in Users |-> None] /\ expired = [u \in Users |-> FALSE]
  /\ links = {}
  /\ order = [o \in Orders |-> [state |-> "NONE", user |-> None, personal |-> FALSE]]
  /\ faults = 0 /\ restores = 0
  /\ worker = [w \in Workers |-> Idle]

At(w, place) == worker[w].at = place
Set(w, t) == worker' = [worker EXCEPT ![w] = t]
Goto(w, place) == worker' = [worker EXCEPT ![w].at = place]
User(w) == worker[w].user

\* lockUser: held from the first read of the transaction to its end.
Locked(u) ==
  \E w \in Workers : User(w) = u /\ worker[w].at \in {"delete", "identity", "redact", "erase"}
OrdersOf(u) == {o \in Orders : order[o].user = u}

account == <<status, due>>
address == <<email, pending, expired, links>>
outside == <<faults, restores>>

-----------------------------------------------------------------------------
(* The change of an address.                                               *)

\* requestEmailChange gives up expired requests, then checks.
Released(u, e) ==
  [v \in Users |-> IF expired[v] /\ (v = u \/ pending[v] = e) THEN None ELSE pending[v]]

DatesOf(waiting) == [v \in Users |-> expired[v] /\ waiting[v] # None]

MayRequest(u, waiting) == waiting[u] = None

StartEmailChange(w, u, e) ==
  LET waiting == Released(u, e) IN
  /\ Changes /\ At(w, "idle")
  /\ status[u] = "ACTIVE" /\ identity[u] # None
  /\ e # email[u] /\ MayRequest(u, waiting)
  /\ \A v \in Users \ {u} : e # email[v] /\ e # waiting[v]
  /\ pending' = waiting
  /\ expired' = DatesOf(waiting)
  /\ Set(w, [Idle EXCEPT !.at = "email", !.user = u, !.email = e])
  /\ UNCHANGED <<account, email, links, identity, order, outside>>

\* Its transaction, after the provider made the link; pendingEmail is unique.
FinishEmailChange(w) ==
  LET u == User(w)
      e == worker[w].email IN
  /\ At(w, "email") /\ ~Locked(u)
  /\ IF status[u] = "ACTIVE" /\ \A v \in Users \ {u} : pending[v] # e
     THEN /\ pending' = [pending EXCEPT ![u] = e]
          /\ expired' = [expired EXCEPT ![u] = FALSE]
          /\ links' = links \cup {<<u, e>>}
     ELSE UNCHANGED <<pending, expired, links>>
  /\ Set(w, Idle)
  /\ UNCHANGED <<account, email, identity, order, outside>>

\* The customer opens a link: the provider changes its address.
Confirm(u, e) ==
  /\ <<u, e>> \in links
  /\ identity[u] # None /\ \A v \in Users : identity[v] # e
  /\ identity' = [identity EXCEPT ![u] = e]
  /\ links' = links \ {<<u, e>>}
  /\ UNCHANGED <<account, email, pending, expired, order, outside, worker>>

\* syncSession of a customer whose provider address is new
\* (applyVerifiedEmailChange).
SignIn(u) ==
  LET e == identity[u] IN
  /\ status[u] = "ACTIVE" /\ ~Locked(u)
  /\ e # None /\ e # email[u]
  /\ pending[u] = e /\ ~expired[u]
  /\ \A v \in Users : email[v] # e
  /\ email' = [email EXCEPT ![u] = e]
  /\ pending' = [pending EXCEPT ![u] = None]
  /\ UNCHANGED <<account, expired, links, identity, order, outside, worker>>

Expire(u) ==
  /\ pending[u] # None /\ ~expired[u]
  /\ expired' = [expired EXCEPT ![u] = TRUE]
  /\ UNCHANGED <<account, email, pending, links, identity, order, outside, worker>>

-----------------------------------------------------------------------------
(* Orders.                                                                 *)

\* A checkout of a signed-in customer, and its transaction; the order's row
\* names the customer's, which must still be there.
StartCheckout(w, u) ==
  /\ At(w, "idle")
  /\ status[u] = "ACTIVE" /\ identity[u] # None
  /\ SlowCheckouts \/ ~Locked(u)
  /\ Set(w, [Idle EXCEPT !.at = "checkout", !.user = u])
  /\ UNCHANGED <<account, address, identity, order, outside>>

FinishCheckout(w, o) ==
  LET u == User(w) IN
  /\ At(w, "checkout")
  /\ order[o].state = "NONE"
  /\ order' = IF status[u] = "GONE" THEN order
              ELSE [order EXCEPT ![o] = [state |-> "ACTIVE", user |-> u, personal |-> TRUE]]
  /\ Set(w, Idle)
  /\ UNCHANGED <<account, address, identity, outside>>

EndOrder(o) ==
  /\ order[o].state = "ACTIVE"
  /\ order' = [order EXCEPT ![o].state = "DONE"]
  /\ UNCHANGED <<account, address, identity, outside, worker>>

-----------------------------------------------------------------------------
(* Deletion and recovery.                                                  *)

\* requestAccountDeletion counts what is active ...
HasActiveNever(u) == FALSE
HasActive(u) == \E o \in OrdersOf(u) : order[o].state = "ACTIVE"

StartDelete(w, u) ==
  /\ At(w, "idle") /\ ~Locked(u)
  /\ status[u] = "ACTIVE" /\ identity[u] # None /\ ~HasActive(u)
  /\ ~SlowCheckouts => \A v \in Workers : ~(At(v, "checkout") /\ User(v) = u)
  /\ Set(w, [Idle EXCEPT !.at = "delete", !.user = u])
  /\ UNCHANGED <<account, address, identity, order, outside>>

\* ... and schedules the deletion.
FinishDelete(w) ==
  LET u == User(w) IN
  /\ At(w, "delete")
  /\ status' = [status EXCEPT ![u] = "DELETION_PENDING"]
  /\ due' = [due EXCEPT ![u] = FALSE]
  /\ pending' = [pending EXCEPT ![u] = None] /\ expired' = [expired EXCEPT ![u] = FALSE]
  /\ Set(w, Idle)
  /\ UNCHANGED <<email, links, identity, order, outside>>

\* restoreAccount takes the time before it waits for the lock.
StartRestore(w, u) ==
  /\ At(w, "idle")
  /\ restores < MaxRestores
  /\ status[u] = "DELETION_PENDING" /\ identity[u] # None
  /\ restores' = restores + 1
  /\ Set(w, [Idle EXCEPT !.at = "restore", !.user = u, !.late = due[u]])
  /\ UNCHANGED <<account, address, identity, order, faults>>

FinishRestore(w) ==
  LET u == User(w) IN
  /\ At(w, "restore") /\ ~Locked(u)
  /\ IF status[u] = "DELETION_PENDING" /\ ~worker[w].late
     THEN /\ status' = [status EXCEPT ![u] = "ACTIVE"]
          /\ due' = [due EXCEPT ![u] = FALSE]
     ELSE UNCHANGED account
  /\ Set(w, Idle)
  /\ UNCHANGED <<address, identity, order, outside>>

\* The grace ends.
GraceEnds(u) ==
  /\ status[u] = "DELETION_PENDING" /\ ~due[u]
  /\ ~SlowRestores => \A w \in Workers : ~(At(w, "restore") /\ User(w) = u)
  /\ due' = [due EXCEPT ![u] = TRUE]
  /\ UNCHANGED <<status, address, identity, order, outside, worker>>

\* finalizeAccountDeletion: the candidate, again under the lock, ...
Candidate(u) == status[u] = "DELETION_PENDING" /\ due[u]

StartFinalize(w, u) ==
  /\ At(w, "idle")
  /\ Candidate(u)
  /\ Set(w, [Idle EXCEPT !.at = "lock", !.user = u])
  /\ UNCHANGED <<account, address, identity, order, outside>>

StillDue(u) == Candidate(u)

Lock(w) ==
  /\ At(w, "lock") /\ ~Locked(User(w))
  /\ IF StillDue(User(w)) THEN Goto(w, "identity") ELSE Set(w, Idle)
  /\ UNCHANGED <<account, address, identity, order, outside>>

\* ... the identity, whose absence is no error, ...
MayBeAbsent(u) == TRUE

DeleteIdentity(w) ==
  /\ At(w, "identity")
  /\ MayBeAbsent(User(w))
  /\ identity' = [identity EXCEPT ![User(w)] = None]
  /\ Goto(w, "redact")
  /\ UNCHANGED <<account, address, order, outside>>

\* ... the orders it finds, and the row, which is cut from the orders left.
ToRedact(u) == OrdersOf(u)

ReadOrders(w) ==
  /\ At(w, "redact")
  /\ Set(w, [worker[w] EXCEPT !.at = "erase", !.orders = ToRedact(User(w))])
  /\ UNCHANGED <<account, address, identity, order, outside>>

Erase(w) ==
  LET u == User(w) IN
  /\ At(w, "erase")
  /\ order' = [o \in Orders |->
       [order[o] EXCEPT !.user = IF @ = u THEN None ELSE @,
                        !.personal = @ /\ o \notin worker[w].orders]]
  /\ status' = [status EXCEPT ![u] = "GONE"] /\ due' = [due EXCEPT ![u] = FALSE]
  /\ email' = [email EXCEPT ![u] = None] /\ pending' = [pending EXCEPT ![u] = None]
  /\ expired' = [expired EXCEPT ![u] = FALSE]
  /\ Set(w, Idle)
  /\ UNCHANGED <<links, identity, outside>>

\* A request fails: its transaction rolls back, the provider does not.
Stop(w) ==
  /\ ~At(w, "idle")
  /\ faults < MaxFaults /\ faults' = faults + 1
  /\ Set(w, Idle)
  /\ UNCHANGED <<account, address, identity, order, restores>>

Step(w) ==
  \/ FinishEmailChange(w) \/ FinishDelete(w) \/ FinishRestore(w)
  \/ Lock(w) \/ DeleteIdentity(w) \/ ReadOrders(w) \/ Erase(w)
  \/ \E o \in Orders : FinishCheckout(w, o)

Next ==
  \/ \E w \in Workers : Step(w) \/ Stop(w)
  \/ \E w \in Workers, u \in Users :
       \/ StartCheckout(w, u) \/ StartDelete(w, u) \/ StartRestore(w, u) \/ StartFinalize(w, u)
       \/ \E e \in Emails : StartEmailChange(w, u, e)
  \/ \E u \in Users : SignIn(u) \/ Expire(u) \/ GraceEnds(u) \/ \E e \in Emails : Confirm(u, e)
  \/ \E o \in Orders : EndOrder(o)

Spec == Init /\ [][Next]_vars

-----------------------------------------------------------------------------
(* Properties.                                                             *)

TypeOK ==
  /\ status \in [Users -> {"ACTIVE", "DELETION_PENDING", "GONE"}]
  /\ due \in [Users -> BOOLEAN] /\ expired \in [Users -> BOOLEAN]
  /\ \A f \in {email, pending, identity} : f \in [Users -> Emails \cup {None}]
  /\ links \subseteq Users \X Emails
  /\ order \in [Orders -> [state : {"NONE", "ACTIVE", "DONE"}, user : Users \cup {None},
                           personal : BOOLEAN]]
  /\ faults \in 0..MaxFaults /\ restores \in 0..MaxRestores
  /\ \A u \in Users : /\ status[u] = "GONE" <=> email[u] = None
                      /\ expired[u] => pending[u] # None

\* Recovery and final deletion exclude each other: a customer whose account is
\* active can sign in.
ActiveHasIdentity == \A u \in Users : status[u] = "ACTIVE" => identity[u] # None

\* No account is on its way out while an order of it is active.
NoActiveOrder ==
  \A u \in Users : status[u] # "ACTIVE" => ~\E o \in OrdersOf(u) : order[o].state = "ACTIVE"

\* The orders a deleted account leaves behind hold no personal data.
DeletedIsRedacted == \A o \in Orders : order[o].personal => order[o].user # None

\* An account is on its way out until it is gone or its owner comes back.
Leaving(u) == status[u] = "DELETION_PENDING"
=============================================================================
