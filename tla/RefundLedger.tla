---------------------------- MODULE RefundLedger ----------------------------
(***************************************************************************)
(* The refund ledger of one captured payment: refund intents, their        *)
(* submission to the payment provider under an idempotency key, leases,    *)
(* webhooks and reconciliation, and the order's moves to SHIPPED,          *)
(* DELIVERED and REFUNDED that compete with them.                          *)
(*                                                                         *)
(*   requestRefund, processRefundIntent, applyProviderRefundOutcome,       *)
(*   finalizeFullyRefundedOrder, reconcileDueRefunds                       *)
(*                             modules/refunds/refund.service.ts           *)
(*   refund events             jobs/paymentEvents.ts                       *)
(*   transition                modules/orders/stateMachine.ts              *)
(*                                                                         *)
(* One action is one database transaction, one read outside of one, or one *)
(* call of the provider.  An intent is named by its request key, which is  *)
(* unique per order.  Amounts, currencies and provider ids always match.   *)
(***************************************************************************)
EXTENDS OrderTransitions, Naturals, FiniteSets

CONSTANTS
  Keys,         \* idempotency keys of refund requests
  Workers,      \* request handlers and job workers
  Paid,         \* Payment.amount, in the smallest refundable unit
  MaxAttempts,  \* nextRefundReconcileAt plans no retry after this many (10)
  Operations,   \* the operations workers may start
  MaxCrashes    \* bound on process crashes

ASSUME ConstantsAssumption ==
  /\ IsFiniteSet(Keys)
  /\ Paid \in Nat \ {0}
  /\ MaxAttempts \in Nat \ {0}
  /\ MaxCrashes \in Nat

VARIABLES
  status,    \* Order.status
  payment,   \* Payment.status
  intent,    \* RefundIntent row per key
  provider,  \* the provider's refund per idempotency key
  worker,    \* local state of each worker
  crashes

vars == <<status, payment, intent, provider, worker, crashes>>

IntentStatuses ==
  {"REQUESTED", "PROCESSING", "PENDING", "PROCESSED", "FAILED",
   "RECONCILIATION_REQUIRED"}

\* A row: leased is a leaseExpiresAt in the future, scheduled a nextReconcileAt
\* that is set.  "NONE": no row yet.  Looking a refund up by its id and repeating
\* its submission get the same answer, so providerRefundId is left out.
Intents ==
  [status : IntentStatuses \cup {"NONE"}, amount : 0..Paid,
   attempts : 0..MaxAttempts, leased : BOOLEAN, scheduled : BOOLEAN]
NoIntent ==
  [status |-> "NONE", amount |-> 0, attempts |-> 0, leased |-> FALSE,
   scheduled |-> FALSE]

\* The provider has heard nothing of a key, refused it, or made a refund of it.
Refunds == {"pending", "processed", "failed"}
ProviderStatuses == {"none", "rejected"} \cup Refunds

(* Local state of a worker.  op and at: what it runs and where it is; k: its *)
(* intent; resp: the provider's answer in hand; attempts: the count it read   *)
(* of the intent; to, before: target and first read of transition().         *)
NoOp == "idle"
NoKey == "no key"
Idle == [op |-> NoOp, at |-> NoOp, k |-> NoKey, resp |-> "none",
         attempts |-> 0, to |-> NoOrder, before |-> NoOrder]

WorkerStates ==
  [op : {NoOp, "api", "webhook", "admin"},
   at : {NoOp, "process", "claim", "call", "reply", "failure", "initial",
         "apply", "recover", "finalize", "total", "settle", "read", "commit"},
   k : Keys \cup {NoKey}, resp : ProviderStatuses \cup {"unknown"},
   attempts : 0..MaxAttempts, to : OrderStatuses \cup {NoOrder},
   before : OrderStatuses \cup {NoOrder}]

Begin(op, at, k) == [Idle EXCEPT !.op = op, !.at = at, !.k = k]
Set(w, t) == worker' = [worker EXCEPT ![w] = t]
Goto(w, place) == Set(w, [worker[w] EXCEPT !.at = place])
At(w, place) == worker[w].at = place

\* A captured payment before any refund was asked for; its order may have been
\* delivered by then.
Init ==
  /\ status \in {"PAID", "DELIVERED"}
  /\ payment = "CAPTURED"
  /\ intent = [k \in Keys |-> NoIntent]
  /\ provider = [k \in Keys |-> "none"]
  /\ worker = [w \in Workers |-> Idle]
  /\ crashes = 0

CanStart(w, op) == op \in Operations /\ At(w, NoOp)

-----------------------------------------------------------------------------
(* Amounts.  Units(S) holds one element per unit of money of the intents in *)
(* S, so that its cardinality is the sum of their amounts.                  *)

Units(S) == {u \in Keys \X (1..Paid) : u[1] \in S /\ u[2] <= intent[u[1]].amount}
Sum(S) == Cardinality(Units(S))

ReservedNoReconciliation == {"REQUESTED", "PROCESSING", "PENDING", "PROCESSED"}

\* The statuses that hold money back from other refunds, and hold a shipment.
Reserved ==
  {"REQUESTED", "PROCESSING", "PENDING", "PROCESSED", "RECONCILIATION_REQUIRED"}

ReservedKeys == {k \in Keys : intent[k].status \in Reserved}

ProcessedKeysLoose == {k \in Keys : intent[k].status \in {"PENDING", "PROCESSED"}}
ProcessedKeys == {k \in Keys : intent[k].status = "PROCESSED"}

\* nextRefundReconcileAt: a retry is planned until the attempts run out.
RetryPlanned(attempts) == attempts < MaxAttempts

-----------------------------------------------------------------------------
(* Asking for a refund.                                                    *)

\* acquireRefundIntent, under the order's and the payment's row locks.  A
\* replayed key finds its row and changes nothing: see StartProcess.
Acquire(w, k, amount) ==
  /\ CanStart(w, "request")
  /\ intent[k].status = "NONE"
  /\ status \in {"PAID", "DELIVERED"}
  /\ payment = "CAPTURED"
  /\ amount > 0
  /\ Sum(ReservedKeys) + amount <= Paid
  /\ amount # Paid => status = "DELIVERED"
  /\ intent' = [intent EXCEPT ![k] =
                 [NoIntent EXCEPT !.status = "REQUESTED", !.amount = amount]]
  /\ Set(w, Begin("api", "process", k))
  /\ UNCHANGED <<status, payment, provider, crashes>>

\* A repeated request with a known key, or POST /refunds/:id/reconcile.
StartProcess(w, k) ==
  /\ CanStart(w, "retry")
  /\ intent[k].status # "NONE"
  /\ Set(w, Begin("api", "process", k))
  /\ UNCHANGED <<status, payment, intent, provider, crashes>>

DueNoProcessed(i) ==
  \/ i.status \in {"PENDING", "RECONCILIATION_REQUIRED"} /\ i.scheduled
  \/ i.status = "PROCESSING" /\ ~i.leased

\* What the scan of reconcileDueRefunds selects, once its time has come.
Due(i) ==
  \/ /\ i.status \in {"PENDING", "RECONCILIATION_REQUIRED", "PROCESSED"}
     /\ i.scheduled
  \/ i.status = "PROCESSING" /\ ~i.leased

StartScan(w, k) ==
  /\ CanStart(w, "scan")
  /\ Due(intent[k])
  /\ Set(w, Begin("api", "process", k))
  /\ UNCHANGED <<status, payment, intent, provider, crashes>>

\* Two minutes pass after a claim.
LeaseExpires(k) ==
  /\ intent[k].leased
  /\ intent' = [intent EXCEPT ![k].leased = FALSE]
  /\ UNCHANGED <<status, payment, provider, worker, crashes>>

-----------------------------------------------------------------------------
(* processRefundIntent.                                                    *)

\* The first read: settled intents are only finalized, claimed ones left alone.
ProcessRead(w) ==
  LET i == intent[worker[w].k] IN
  /\ At(w, "process")
  /\ \/ i.status = "PROCESSED" /\ Goto(w, "finalize")
     \/ i.status = "FAILED" /\ Set(w, Idle)
     \/ i.status = "PROCESSING" /\ i.leased /\ Set(w, Idle)
     \/ /\ i.status \notin {"PROCESSED", "FAILED"}
        /\ ~(i.status = "PROCESSING" /\ i.leased)
        /\ Goto(w, "claim")
  /\ UNCHANGED <<status, payment, intent, provider, crashes>>

Claimable(i) ==
  \/ i.status \in {"REQUESTED", "PENDING", "RECONCILIATION_REQUIRED"}
  \/ i.status = "PROCESSING" /\ ~i.leased

NextAttempt(n) == IF n < MaxAttempts THEN n + 1 ELSE n

\* markProcessing: a conditional update; who comes too late gives up.  Counting
\* stops at MaxAttempts, beyond which the code only compares.
Claim(w) ==
  LET k == worker[w].k
      n == NextAttempt(intent[k].attempts)
  IN /\ At(w, "claim")
     /\ Claimable(intent[k])
     /\ intent' = [intent EXCEPT ![k] =
          [@ EXCEPT !.status = "PROCESSING", !.attempts = n,
                    !.leased = TRUE, !.scheduled = FALSE]]
     /\ Set(w, [worker[w] EXCEPT !.at = "call", !.attempts = n])
     /\ UNCHANGED <<status, payment, provider, crashes>>

ClaimLost(w) ==
  /\ At(w, "claim")
  /\ ~Claimable(intent[worker[w].k])
  /\ Set(w, Idle)
  /\ UNCHANGED <<status, payment, intent, provider, crashes>>

\* The provider (external) handles a submission or a lookup.  It answers every
\* submission of one idempotency key with the refund, or the refusal, the
\* first one led to, and it knows a refund it has made.
ProviderHandles(w, s) ==
  LET k == worker[w].k IN
  /\ At(w, "call")
  /\ IF provider[k] = "none" THEN s \in {"rejected"} \cup Refunds
                             ELSE s = provider[k]
  /\ provider' = [provider EXCEPT ![k] = s]
  /\ Set(w, [worker[w] EXCEPT !.at = "reply", !.resp = s])
  /\ UNCHANGED <<status, payment, intent, crashes>>

\* The answer arrives: a refund to apply, or a refusal to record.
ReplyArrives(w) ==
  /\ At(w, "reply")
  /\ Goto(w, IF worker[w].resp = "rejected" THEN "failure" ELSE "initial")
  /\ UNCHANGED <<status, payment, intent, provider, crashes>>

\* The request or its answer is lost, or times out.
CallFails(w) ==
  /\ At(w, "call") \/ At(w, "reply")
  /\ Set(w, [worker[w] EXCEPT !.at = "failure", !.resp = "unknown"])
  /\ UNCHANGED <<status, payment, intent, provider, crashes>>

DefinitiveAny(resp) == resp \in {"rejected", "unknown"}
Definitive(resp) == resp = "rejected"

\* recordProviderFailure updates the row by its id, whatever it holds by now.
RecordFailure(w) ==
  LET t == worker[w] IN
  /\ At(w, "failure")
  /\ intent' = [intent EXCEPT ![t.k] =
       [@ EXCEPT
          !.status = IF Definitive(t.resp) THEN "FAILED"
                                           ELSE "RECONCILIATION_REQUIRED",
          !.leased = FALSE,
          !.scheduled = ~Definitive(t.resp) /\ RetryPlanned(t.attempts)]]
  /\ Set(w, Idle)
  /\ UNCHANGED <<status, payment, provider, crashes>>

\* What a worker does when a step after the provider's answer throws: the
\* catch block of processRefundIntent reads the row again; a webhook worker,
\* and a finalization started from the first read, just end.
Thrown(t) ==
  IF t.op = "api" /\ t.resp # "none" THEN [t EXCEPT !.at = "recover"] ELSE Idle

RecoverRead(w) ==
  LET i == intent[worker[w].k] IN
  /\ At(w, "recover")
  /\ Set(w, IF i.status = "PROCESSING"
              THEN [worker[w] EXCEPT !.at = "failure", !.resp = "unknown",
                                     !.attempts = i.attempts]
              ELSE Idle)
  /\ UNCHANGED <<status, payment, intent, provider, crashes>>

-----------------------------------------------------------------------------
(* applyProviderRefundOutcome, for an API answer or a webhook.             *)

\* A refund event is processed: refund.created may come late and still say
\* pending.  Deliveries may be repeated.
StartWebhook(w, k, s) ==
  /\ CanStart(w, "webhook")
  /\ provider[k] \in Refunds
  /\ s \in {"pending", provider[k]}
  /\ Set(w, [Begin("webhook", "initial", k) EXCEPT !.resp = s])
  /\ UNCHANGED <<status, payment, intent, provider, crashes>>

MapStatusRaw ==
  [pending |-> "pending", processed |-> "PROCESSED", failed |-> "FAILED"]
\* mapProviderRefundStatus
MapStatus ==
  [pending |-> "PENDING", processed |-> "PROCESSED", failed |-> "FAILED"]

Terminal(i) == i.status \in {"PROCESSED", "FAILED"}

\* The read before the transaction: a settled intent is left as it is, and a
\* different outcome for it is an error.
InitialRead(w) ==
  LET t == worker[w]
      i == intent[t.k]
  IN /\ At(w, "initial")
     /\ Set(w, IF ~Terminal(i) THEN [t EXCEPT !.at = "apply"]
               ELSE IF i.status = MapStatus[t.resp] THEN Idle
               ELSE Thrown(t))
     /\ UNCHANGED <<status, payment, intent, provider, crashes>>

CumulativeBefore(k, target) == Sum(ProcessedKeys \ {k})

\* The processed money once the outcome of k is in.
Cumulative(k, target) ==
  Sum(IF target = "PROCESSED" THEN ProcessedKeys \cup {k} ELSE ProcessedKeys \ {k})

\* The transaction: lock the payment, read the row again, record the outcome.
\* The intent that completes the refund is scheduled for finalization.
Apply(w) ==
  LET t == worker[w]
      target == MapStatus[t.resp]
      cumulative == Cumulative(t.k, target)
      completes == target = "PROCESSED" /\ cumulative = Paid
  IN /\ At(w, "apply")
     /\ ~Terminal(intent[t.k])
     /\ cumulative <= Paid
     /\ intent' = [intent EXCEPT ![t.k] =
          [@ EXCEPT !.status = target, !.leased = FALSE,
                    !.scheduled = \/ target = "PENDING" /\ RetryPlanned(intent[t.k].attempts)
                                  \/ completes]]
     /\ IF target = "PROCESSED" THEN Goto(w, "finalize") ELSE Set(w, Idle)
     /\ UNCHANGED <<status, payment, provider, crashes>>

\* Someone settled the intent since the first read: nothing is written.
ApplyTooLate(w) ==
  LET t == worker[w] IN
  /\ At(w, "apply")
  /\ Terminal(intent[t.k])
  /\ IF MapStatus[t.resp] = "PROCESSED" THEN Goto(w, "finalize") ELSE Set(w, Idle)
  /\ UNCHANGED <<status, payment, intent, provider, crashes>>

\* The transaction rolls back: the ledger would overflow, or the database fails.
ApplyAborted(w) ==
  /\ At(w, "apply")
  /\ Set(w, Thrown(worker[w]))
  /\ UNCHANGED <<status, payment, intent, provider, crashes>>

-----------------------------------------------------------------------------
(* finalizeFullyRefundedOrder.                                             *)

\* Read the intent with its order, then the processed total.
FinalizeLoad(w) ==
  LET t == worker[w] IN
  /\ At(w, "finalize")
  /\ Set(w, [t EXCEPT !.at = "total", !.before = status,
                      !.attempts = intent[t.k].attempts])
  /\ UNCHANGED <<status, payment, intent, provider, crashes>>

FinalizeTotal(w) ==
  LET t == worker[w] IN
  /\ At(w, "total")
  /\ Set(w, IF Sum(ProcessedKeys) # Paid THEN Idle
            ELSE IF t.before \in {"PAID", "DELIVERED"}
              THEN [t EXCEPT !.at = "read", !.to = "REFUNDED"]
            ELSE [t EXCEPT !.at = "settle"])
  /\ UNCHANGED <<status, payment, intent, provider, crashes>>

\* The order is refunded already, or in a status it cannot be refunded from.
Settle(w) ==
  LET t == worker[w] IN
  /\ At(w, "settle")
  /\ intent' = [intent EXCEPT ![t.k].scheduled =
                  t.before # "REFUNDED" /\ RetryPlanned(t.attempts)]
  /\ Set(w, Idle)
  /\ UNCHANGED <<status, payment, provider, crashes>>

-----------------------------------------------------------------------------
(* transition(), as far as it meets refunds: a first read, then a           *)
(* transaction under the order's row lock.                                  *)

\* The admin routes ship and deliver.
StartDirect(w, to) ==
  /\ CanStart(w, "ship")
  /\ Set(w, [Begin("admin", "read", NoKey) EXCEPT !.to = to])
  /\ UNCHANGED <<status, payment, intent, provider, crashes>>

NoActiveRefund == ReservedKeys = {}

HasWork(t) == t.to \in {"DELIVERED", "REFUNDED"}

TransitionRead(w) ==
  LET t == worker[w]
      proceed == /\ t.to = "SHIPPED" => NoActiveRefund
                 /\ IF status = t.to THEN HasWork(t)
                                     ELSE CanTransition(status, t.to)
  IN /\ At(w, "read")
     /\ Set(w, IF proceed THEN [t EXCEPT !.at = "commit", !.before = status]
                          ELSE Thrown(t))
     /\ UNCHANGED <<status, payment, intent, provider, crashes>>

CommitAllowedUnchecked(t) ==
  /\ status \in {t.before, t.to}
  /\ t.to = "REFUNDED" => Sum(ProcessedKeys) = Paid

\* The locked row is the first read or the target, no refund holds a shipment,
\* and the refunds still add up when the order is finalized.
CommitAllowed(t) ==
  /\ status \in {t.before, t.to}
  /\ t.to = "SHIPPED" => NoActiveRefund
  /\ t.to = "REFUNDED" => Sum(ProcessedKeys) = Paid

TransitionRefused(w) ==
  /\ At(w, "commit")
  /\ ~CommitAllowed(worker[w])
  /\ Set(w, Thrown(worker[w]))
  /\ UNCHANGED <<status, payment, intent, provider, crashes>>

\* The move, or nothing if someone else made it; the finalized intent needs no
\* further reconciliation in either case.
TransitionCommit(w) ==
  LET t == worker[w]
      refunded == t.to = "REFUNDED"
  IN /\ At(w, "commit")
     /\ CommitAllowed(t)
     /\ status' = t.to
     /\ payment' = IF refunded THEN "REFUNDED" ELSE payment
     /\ intent' = IF refunded
                    THEN [intent EXCEPT ![t.k].scheduled = FALSE] ELSE intent
     /\ Set(w, Idle)
     /\ UNCHANGED <<provider, crashes>>

-----------------------------------------------------------------------------
\* The provider settles a pending refund.
ProviderSettles(k) ==
  /\ provider[k] = "pending"
  /\ \E s \in {"processed", "failed"} : provider' = [provider EXCEPT ![k] = s]
  /\ UNCHANGED <<status, payment, intent, worker, crashes>>

\* The process that runs w dies: its local state is gone, the database stays.
Crash(w) ==
  /\ ~At(w, NoOp)
  /\ crashes < MaxCrashes
  /\ crashes' = crashes + 1
  /\ Set(w, Idle)
  /\ UNCHANGED <<status, payment, intent, provider>>

Process(w) ==
  \/ ProcessRead(w)
  \/ Claim(w)
  \/ ClaimLost(w)
  \/ \E s \in ProviderStatuses : ProviderHandles(w, s)
  \/ ReplyArrives(w)
  \/ CallFails(w)
  \/ RecordFailure(w)
  \/ RecoverRead(w)

ApplyOutcome(w) ==
  \/ InitialRead(w)
  \/ Apply(w)
  \/ ApplyTooLate(w)
  \/ ApplyAborted(w)

Finalize(w) == FinalizeLoad(w) \/ FinalizeTotal(w) \/ Settle(w)

Transition(w) == TransitionRead(w) \/ TransitionRefused(w) \/ TransitionCommit(w)

Continue(w) == Process(w) \/ ApplyOutcome(w) \/ Finalize(w) \/ Transition(w)

Start(w) ==
  \/ \E k \in Keys :
       \/ \E amount \in 1..Paid : Acquire(w, k, amount)
       \/ StartProcess(w, k)
       \/ StartScan(w, k)
       \/ \E s \in Refunds : StartWebhook(w, k, s)
  \/ \E to \in {"SHIPPED", "DELIVERED"} : StartDirect(w, to)

Environment == \E k \in Keys : LeaseExpires(k) \/ ProviderSettles(k)

Next ==
  \/ \E w \in Workers : Start(w) \/ Continue(w) \/ Crash(w)
  \/ Environment

Spec == Init /\ [][Next]_vars

(* A running handler goes on, leases run out and the repeatable scan comes *)
(* back to every due intent.  Nothing is assumed of the provider: attempts *)
(* may be used up by calls that fail.                                      *)
Fairness ==
  /\ \A w \in Workers : WF_vars(Continue(w))
  /\ \A k \in Keys : /\ WF_vars(LeaseExpires(k))
                     /\ SF_vars(\E w \in Workers : StartScan(w, k))

FairSpec == Spec /\ Fairness

-----------------------------------------------------------------------------
(* Properties                                                              *)

\* Shape of the state: the order, the rows and the workers' local state.
TypeOK ==
  /\ status \in {"PAID", "SHIPPED", "DELIVERED", "REFUNDED"}
  /\ payment \in {"CAPTURED", "REFUNDED"}
  /\ intent \in [Keys -> Intents]
  /\ provider \in [Keys -> ProviderStatuses]
  /\ worker \in [Workers -> WorkerStates]
  /\ crashes \in Nat

\* Money that is, or may still be, paid back for an intent.
LiveKeys ==
  {k \in Keys : intent[k].status # "NONE" /\ provider[k] \notin {"rejected", "failed"}}

\* However requests, retries, timeouts and webhooks interleave, the refunds the
\* provider has made or may still make never exceed the captured payment.
NeverOverRefunded == Sum(LiveKeys) <= Paid

PaidBackKeys == {k \in Keys : provider[k] = "processed"}

\* An order is REFUNDED only when the provider has paid back the whole payment,
\* and the Payment row says so at the same moment.
RefundedIsPaidBack ==
  /\ status = "REFUNDED" <=> payment = "REFUNDED"
  /\ status = "REFUNDED" => Sum(PaidBackKeys) = Paid

\* Goods are not sent out for money that was, or may still be, paid back: the
\* refusal to ship under a refund holds against every race with a request.
ShippedKeepsMoney == status = "SHIPPED" => LiveKeys = {}

\* The ledger's final outcomes are the provider's: a timeout or a late answer
\* never settles an intent as something the provider did not say.
LedgerTruth ==
  \A k \in Keys :
    /\ intent[k].status = "PROCESSED" => provider[k] = "processed"
    /\ intent[k].status = "FAILED" => provider[k] \in {"rejected", "failed"}

\* "must never downgrade money that the provider already confirmed as
\* refunded" (refund.service.ts): PROCESSED is a final status.
MoneyNotDowngraded ==
  [][\A k \in Keys : intent[k].status = "PROCESSED" =>
                       intent'[k].status = "PROCESSED"]_vars

\* Once the provider has paid everything back the order becomes REFUNDED, unless
\* the attempts of some intent are used up; a crash or a timeout only delays it.
FullRefundSettles ==
  Sum(PaidBackKeys) = Paid ~>
    \/ status = "REFUNDED"
    \/ \E k \in Keys : intent[k].attempts = MaxAttempts

=============================================================================
