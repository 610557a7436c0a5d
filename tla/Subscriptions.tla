---------------------------- MODULE Subscriptions ----------------------------
(***************************************************************************)
(* Subscriptions of one customer to one plan: the enrolment, the           *)
(* customer's control of them, and the scan that turns a due date into a   *)
(* renewal and its email.                                                  *)
(*   subscriptions/subscription.service.ts  enrollSubscription,            *)
(*       controlSubscription, processDueSubscriptions,                     *)
(*       deleteSubscriptionPlan                                            *)
(*   subscriptions/subscriptionPolicy.ts    addFrequencyDays               *)
(*   subscriptions/subscriptionEmail.service.ts                            *)
(*   notifications/emailOutbox.service.ts   enqueueEmail                   *)
(*   jobs/subscriptionRenewals.ts           the hourly scan                *)
(* A date is the number of periods since a chain of dates began: an        *)
(* enrolment or a late resumption begins one, and no two chains share a    *)
(* date, their times being exact to the millisecond.                       *)
(***************************************************************************)
EXTENDS Naturals

CONSTANTS
  Subs,          \* rows a subscription may take
  Workers,       \* requests and scans under way
  Offers,        \* what an email may say: a price, or that stock is short
  Short,
  MaxPeriods,    \* bound on the dates of a chain
  MaxChains,     \* bound on the chains of a subscription
  MaxControls,   \* bound on the customer's requests
  MaxOffers,     \* bound on the changes of price and stock
  SlowControls,  \* whether others run between a customer's read and write
  SlowEnroll,    \* ... and the enrolments
  None

ConstantsAssumption ==
  /\ Short \in Offers /\ None \notin Subs \cup Offers
  /\ MaxPeriods \in Nat /\ MaxChains \in Nat /\ MaxControls \in Nat /\ MaxOffers \in Nat
  /\ SlowControls \in BOOLEAN /\ SlowEnroll \in BOOLEAN

Dates == [chain : 1 .. MaxChains, k : 1 .. MaxPeriods + 1]
Actions == {"pause", "resume", "skip", "cancel"}

VARIABLES
  plan,      \* whether the SubscriptionPlan row is there
  offer,     \* what the plan and its variant offer now: plan, price, stock
  status,    \* UserSubscription.status, "NONE" before
  next,      \* UserSubscription.nextOrderAt
  chains,    \* how many chains of dates each subscription had
  passed,    \* how many dates of each chain are past
  renewal,   \* SubscriptionRenewal.status by date, or "NONE"
  email,     \* the renewal's EmailOutbox row: what it says, or None
  notified,  \* SubscriptionRenewal.notifiedAt is set
  controls, offers,
  worker

vars == <<plan, offer, status, next, chains, passed, renewal, email, notified, controls, offers, worker>>

Nowhere == [chain |-> 0, k |-> 0]
Idle == [at |-> "idle", sub |-> None, action |-> None, date |-> Nowhere, due |-> FALSE, todo |-> {}]

Init ==
  /\ plan = TRUE
  /\ offer \in Offers
  /\ status = [s \in Subs |-> "NONE"]
  /\ next = [s \in Subs |-> Nowhere]
  /\ chains = [s \in Subs |-> 0]
  /\ passed = [s \in Subs |-> [c \in 1 .. MaxChains |-> 0]]
  /\ renewal = [s \in Subs |-> [d \in Dates |-> "NONE"]]
  /\ email = [s \in Subs |-> [d \in Dates |-> None]]
  /\ notified = [s \in Subs |-> {}]
  /\ controls = 0 /\ offers = 0
  /\ worker = [w \in Workers |-> Idle]

At(w, place) == worker[w].at = place
Set(w, t) == worker' = [worker EXCEPT ![w] = t]
Live(s) == status[s] \in {"ACTIVE", "PAUSED"}
IsPast(s, d) == d.k <= passed[s][d.chain]
Due(s) == status[s] = "ACTIVE" /\ IsPast(s, next[s])
Following(d) == [d EXCEPT !.k = @ + 1]
MayRun(w) ==
  /\ SlowControls \/ \A u \in Workers \ {w} : ~At(u, "control")
  /\ SlowEnroll \/ \A u \in Workers \ {w} : ~At(u, "enroll")

subscription == <<status, next, chains, passed>>
renewals == <<renewal, email, notified>>
outside == <<plan, offer, offers>>

-----------------------------------------------------------------------------
(* enrollSubscription: three reads, then the row.                          *)

Existing == {s \in Subs : Live(s)}

StartEnroll(w) ==
  /\ At(w, "idle") /\ controls < MaxControls
  /\ plan /\ Existing = {}
  /\ controls' = controls + 1
  /\ Set(w, [Idle EXCEPT !.at = "enroll"])
  /\ UNCHANGED <<subscription, renewals, outside>>

FirstDate(s) == [chain |-> chains[s] + 1, k |-> 1]

\* A new chain: its first date is a period from now.
BeginChain(s) ==
  /\ chains[s] < MaxChains
  /\ chains' = [chains EXCEPT ![s] = @ + 1]
  /\ next' = [next EXCEPT ![s] = FirstDate(s)]

\* The plan's row may be gone by now: the foreign key refuses the insert.
FinishEnroll(w) ==
  /\ At(w, "enroll")
  /\ \/ /\ plan
        /\ \E s \in Subs :
             /\ status[s] = "NONE"
             /\ status' = [status EXCEPT ![s] = "ACTIVE"]
             /\ BeginChain(s)
     \/ ~plan /\ UNCHANGED <<status, chains, next>>
  /\ Set(w, Idle)
  /\ UNCHANGED <<passed, renewals, controls, outside>>

-----------------------------------------------------------------------------
(* controlSubscription: the row is read, then written by its id alone.     *)

AllowedUnlessActive(action, st) ==
  IF action \in {"resume", "cancel"} THEN st \in {"PAUSED", "CANCELLED"} ELSE st = "ACTIVE"
Allowed(action, st) ==
  CASE action = "pause"  -> st = "ACTIVE"
    [] action = "resume" -> st = "PAUSED"
    [] action = "skip"   -> st = "ACTIVE"
    [] action = "cancel" -> st \in {"ACTIVE", "PAUSED"}

StartControl(w, s, action) ==
  /\ At(w, "idle") /\ controls < MaxControls
  /\ Allowed(action, status[s])
  /\ action = "skip" => next[s].k <= MaxPeriods
  /\ action = "resume" => chains[s] < MaxChains
  /\ controls' = controls + 1
  /\ Set(w, [Idle EXCEPT !.at = "control", !.sub = s, !.action = action,
                         !.date = next[s], !.due = IsPast(s, next[s])])
  /\ UNCHANGED <<subscription, renewals, outside>>

Pause(s) ==
  /\ status' = [status EXCEPT ![s] = "PAUSED"]
  /\ UNCHANGED <<next, chains, renewal>>

Cancel(s) ==
  /\ status' = [status EXCEPT ![s] = "CANCELLED"]
  /\ UNCHANGED <<next, chains, renewal>>

\* A date that is past is not caught up with: the schedule begins anew.
Resume(s, d, due) ==
  /\ status' = [status EXCEPT ![s] = "ACTIVE"]
  /\ \/ due /\ BeginChain(s)
     \/ ~due /\ next' = [next EXCEPT ![s] = d] /\ UNCHANGED chains
  /\ UNCHANGED renewal

Skipped(s, d) == [renewal EXCEPT ![s][d] = "SKIPPED"]

Skip(s, d) ==
  /\ d.k <= MaxPeriods
  /\ renewal' = Skipped(s, d)
  /\ next' = [next EXCEPT ![s] = Following(d)]
  /\ UNCHANGED <<status, chains>>

FinishControl(w) ==
  LET s == worker[w].sub
      d == worker[w].date IN
  /\ At(w, "control")
  /\ \/ worker[w].action = "pause" /\ Pause(s)
     \/ worker[w].action = "resume" /\ Resume(s, d, worker[w].due)
     \/ worker[w].action = "cancel" /\ Cancel(s)
     \/ worker[w].action = "skip" /\ Skip(s, d)
  /\ Set(w, Idle)
  /\ UNCHANGED <<passed, email, notified, controls, outside>>

-----------------------------------------------------------------------------
(* processDueSubscriptions, run by the hour and by an administrator.       *)

StartScan(w) ==
  /\ At(w, "idle") /\ \E s \in Subs : Due(s)
  /\ Set(w, [Idle EXCEPT !.at = "scan",
               !.todo = {[sub |-> s, date |-> next[s], offer |-> offer] : s \in {r \in Subs : Due(r)}}])
  /\ UNCHANGED <<subscription, renewals, controls, outside>>

StillDue(x) == next[x.sub] = x.date /\ status[x.sub] = "ACTIVE"

\* enqueueEmail refuses another text under the renewal's key.
Conflicts(x) ==
  /\ x.date \notin notified[x.sub]
  /\ email[x.sub][x.date] \notin {None, x.offer}

Rest(w, x) ==
  LET left == worker[w].todo \ {x} IN
  IF left = {} THEN Idle ELSE [worker[w] EXCEPT !.todo = left]

\* One transaction: the date moves on, its renewal is there, and its email.
Renew(w, x) ==
  /\ At(w, "scan") /\ x \in worker[w].todo
  /\ StillDue(x) /\ ~Conflicts(x)
  /\ x.date.k <= MaxPeriods
  /\ next' = [next EXCEPT ![x.sub] = Following(x.date)]
  /\ renewal' = [renewal EXCEPT ![x.sub][x.date] =
        IF @ # "NONE" THEN @ ELSE IF x.offer = Short THEN "STOCK_BLOCKED" ELSE "READY"]
  /\ email' = [email EXCEPT ![x.sub][x.date] =
        IF x.date \in notified[x.sub] \/ @ # None THEN @ ELSE x.offer]
  /\ Set(w, Rest(w, x))
  /\ UNCHANGED <<status, chains, passed, notified, controls, outside>>

\* Another scan or the customer was first.
PassOver(w, x) ==
  /\ At(w, "scan") /\ x \in worker[w].todo
  /\ ~StillDue(x)
  /\ Set(w, Rest(w, x))
  /\ UNCHANGED <<subscription, renewals, controls, outside>>

\* An error ends the scan, the subscriptions after this one included.
ScanFails(w, x) ==
  /\ At(w, "scan") /\ x \in worker[w].todo
  /\ StillDue(x) /\ Conflicts(x)
  /\ Set(w, Idle)
  /\ UNCHANGED <<subscription, renewals, controls, outside>>

-----------------------------------------------------------------------------
\* The outbox sends the email and stamps the renewal (EmailOutbox).
Send(s, d) ==
  /\ email[s][d] # None /\ d \notin notified[s]
  /\ notified' = [notified EXCEPT ![s] = @ \cup {d}]
  /\ UNCHANGED <<subscription, renewal, email, controls, outside, worker>>

\* The next date of a chain comes.
Tick(s) ==
  LET c == next[s].chain IN
  /\ c > 0 /\ passed[s][c] < MaxPeriods
  /\ passed' = [passed EXCEPT ![s][c] = @ + 1]
  /\ UNCHANGED <<status, next, chains, renewals, controls, outside, worker>>

\* An administrator changes the plan, the price or the stock.
ChangeOffer(o) ==
  /\ offers < MaxOffers /\ o # offer
  /\ offer' = o /\ offers' = offers + 1
  /\ UNCHANGED <<plan, subscription, renewals, controls, worker>>

DeletePlan ==
  /\ plan /\ \A s \in Subs : status[s] = "NONE"
  /\ plan' = FALSE
  /\ UNCHANGED <<offer, offers, subscription, renewals, controls, worker>>

\* A scan goes through what was due when it started, in any order.
Scanning(w) == \E x \in worker[w].todo : Renew(w, x) \/ PassOver(w, x) \/ ScanFails(w, x)
Scans(w) == StartScan(w) \/ Scanning(w)

Next ==
  \/ \E w \in Workers :
       /\ MayRun(w)
       /\ \/ StartEnroll(w) \/ FinishEnroll(w) \/ FinishControl(w) \/ Scans(w)
          \/ \E s \in Subs, action \in Actions : StartControl(w, s, action)
  \/ \E s \in Subs : Tick(s) \/ \E d \in Dates : Send(s, d)
  \/ \E o \in Offers : ChangeOffer(o)
  \/ DeletePlan

Spec == Init /\ [][Next]_vars

-----------------------------------------------------------------------------
\* Types: a subscription's next date belongs to one of its chains.
TypeOK ==
  /\ status \in [Subs -> {"NONE", "ACTIVE", "PAUSED", "CANCELLED"}]
  /\ \A s \in Subs :
       /\ (status[s] = "NONE") = (next[s] = Nowhere)
       /\ next[s] # Nowhere => next[s] \in Dates /\ next[s].chain <= chains[s]
       /\ \A d \in Dates : renewal[s][d] \in {"NONE", "READY", "STOCK_BLOCKED", "SKIPPED"}

\* Every date the schedule has moved past has its renewal: nothing is passed
\* over in silence, whoever moved the schedule (skip, processDueSubscriptions).
NoneMissed ==
  \A s \in Subs, d \in Dates :
    d.chain = next[s].chain /\ d.k < next[s].k => renewal[s][d] # "NONE"

\* A skipped renewal is not announced (controlSubscription "skip").
SkippedNotAnnounced ==
  \A s \in Subs, d \in Dates : renewal[s][d] = "SKIPPED" => email[s][d] = None

\* A customer has one live subscription to a plan (enrollSubscription).
OneSubscription == \A s, r \in Subs : Live(s) /\ Live(r) => s = r

\* A cancelled subscription stays cancelled (controlSubscription "cancel").
CancelledStays ==
  \A s \in Subs : status[s] = "CANCELLED" => status'[s] = "CANCELLED"

\* A renewal is due on the date d; it stays so until it is made or the
\* subscription is no longer due (processDueSubscriptions).
DueOn(s, d) == Due(s) /\ next[s] = d
Overdue(s, d) == Due(s) /\ renewal[s][d] = "NONE"
=============================================================================
