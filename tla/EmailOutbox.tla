----------------------------- MODULE EmailOutbox -----------------------------
(***************************************************************************)
(* The durable email outbox.  A row is committed with the change it tells  *)
(* of; scans claim due rows under a two-minute lease, send them through    *)
(* the provider and record the outcome.  An email about restocked goods is *)
(* dropped when the customer's alert is gone, and answers the alert when   *)
(* it was sent.                                                            *)
(*                                                                         *)
(*   enqueueEmail, claimEmail, cancelIfSourceChanged, recordSent,          *)
(*   recordFailure, processEmailOutbox, processDueEmails, retryEmailOutbox *)
(*                            modules/notifications/emailOutbox.service.ts *)
(*   nextEmailAttemptAt       modules/notifications/emailOutbox.policy.ts  *)
(*   createResendProvider     modules/notifications/resend.provider.ts     *)
(*   scheduleEmailOutbox      jobs/emailOutbox.ts                          *)
(*   subscribeStockAlert, unsubscribeStockAlert                            *)
(*                            modules/wishlist/stockAlerts.service.ts      *)
(*                                                                         *)
(* The provider delivers an email once however often it is sent: the       *)
(* requests carry the row's own key.  A row's transaction is split where   *)
(* another one may commit between its read and its update.  An alert's     *)
(* updatedAt is its version; an alert deleted and made anew has another.   *)
(***************************************************************************)
EXTENDS Naturals, FiniteSets

CONSTANTS
  Emails,      \* rows of the outbox
  Alerted,     \* those that tell of restocked goods
  Workers,     \* scans, and administrators who retry
  MaxAttempts, \* EmailOutbox.maxAttempts
  MaxFaults,   \* bound on the stops and on the leases that end early
  MaxVersions, \* bound on the versions of an alert
  MaxRetries   \* bound on the retries of administrators

ASSUME ConstantsAssumption ==
  /\ Alerted \subseteq Emails
  /\ {MaxAttempts, MaxFaults, MaxVersions, MaxRetries} \subseteq Nat

VARIABLES
  status,      \* EmailOutbox.status, "NONE" before the row is committed
  attempts,    \* attemptCount
  due,         \* nextAttemptAt has passed, or leaseExpiresAt while PROCESSING
  reference,   \* referenceVersion
  alert,       \* the StockAlert row of the email: is it active, its version
  delivered,   \* provider: the email was accepted
  faults, retries,
  late,        \* history: a row came due again while a worker was sending it
  worker       \* local state of each worker

vars == <<status, attempts, due, reference, alert, delivered, faults, retries, late, worker>>

NoEmail == "no email"
\* e: the row in hand; tries: attemptCount of the claimed copy.
Idle == [at |-> "idle", e |-> NoEmail, tries |-> 0]

Init ==
  /\ status = [e \in Emails |-> "NONE"]
  /\ attempts = [e \in Emails |-> 0]
  /\ due = [e \in Emails |-> TRUE]
  /\ reference = [e \in Emails |-> 0]
  /\ alert = [e \in Emails |-> [active |-> TRUE, version |-> 1]]
  /\ delivered = {}
  /\ faults = 0 /\ retries = 0 /\ late = FALSE
  /\ worker = [w \in Workers |-> Idle]

At(w, place) == worker[w].at = place
Set(w, t) == worker' = [worker EXCEPT ![w] = t]
Goto(w, place) == worker' = [worker EXCEPT ![w].at = place]
Email(w) == worker[w].e
Fault == faults < MaxFaults /\ faults' = faults + 1
outside == <<faults, retries, late>>
rows == <<status, attempts, due, reference>>

-----------------------------------------------------------------------------
(* Producers.                                                              *)

\* enqueueEmail, in the transaction of the change it tells of.
Enqueue(e) ==
  /\ status[e] = "NONE"
  /\ e \in Alerted => alert[e].active
  /\ status' = [status EXCEPT ![e] = "PENDING"]
  /\ reference' = [reference EXCEPT ![e] = alert[e].version]
  /\ UNCHANGED <<attempts, due, alert, delivered, outside, worker>>

\* The customer takes the alert back, or subscribes anew.
Touch(e, active) ==
  /\ e \in Alerted
  /\ alert[e].version < MaxVersions /\ (alert[e].active \/ active)
  /\ alert' = [alert EXCEPT ![e] = [active |-> active, version |-> @.version + 1]]
  /\ UNCHANGED <<rows, delivered, outside, worker>>

-----------------------------------------------------------------------------
(* The scan.                                                               *)

CandidatePending(e) == status[e] = "PENDING" /\ due[e]
Candidate(e) == status[e] \in {"PENDING", "PROCESSING"} /\ due[e]

Take(w, e) ==
  /\ At(w, "idle")
  /\ Candidate(e)
  /\ Set(w, [Idle EXCEPT !.at = "read", !.e = e])
  /\ UNCHANGED <<rows, alert, delivered, outside>>

\* claimEmail: its reads, of the row and of the alert.
SourceChanged(e) ==
  e \in Alerted /\ ~(alert[e].active /\ alert[e].version = reference[e])

Read(w) ==
  /\ At(w, "read")
  /\ IF status[Email(w)] \in {"SENT", "DEAD_LETTER", "CANCELLED"}
     THEN Set(w, Idle)
     ELSE Goto(w, IF SourceChanged(Email(w)) THEN "cancel" ELSE "claim")
  /\ UNCHANGED <<rows, alert, delivered, outside>>

\* cancelIfSourceChanged updates by id alone.
Cancel(w) ==
  /\ At(w, "cancel")
  /\ status' = [status EXCEPT ![Email(w)] = "CANCELLED"]
  /\ Set(w, Idle)
  /\ UNCHANGED <<attempts, due, reference, alert, delivered, outside>>

ClaimableAny(e) == TRUE
Claimable(e) == Candidate(e)

Claim(w) ==
  LET e == Email(w) IN
  /\ At(w, "claim")
  /\ IF Claimable(e)
     THEN /\ status' = [status EXCEPT ![e] = "PROCESSING"]
          /\ attempts' = [attempts EXCEPT ![e] = @ + 1]
          /\ due' = [due EXCEPT ![e] = FALSE]
          /\ Set(w, [worker[w] EXCEPT !.at = "send", !.tries = attempts[e] + 1])
     ELSE UNCHANGED <<status, attempts, due>> /\ Set(w, Idle)
  /\ UNCHANGED <<reference, alert, delivered, outside>>

\* The provider accepts the email; refuses it for good; or there is no answer,
\* with the email accepted or not.
Answer(ok) == IF ok THEN "sent" ELSE "failed"

Send(w) ==
  /\ At(w, "send")
  /\ \/ delivered' = delivered \cup {Email(w)} /\ Goto(w, Answer(TRUE))
     \/ delivered' = delivered \cup {Email(w)} /\ Goto(w, "failed")
     \/ UNCHANGED delivered /\ Goto(w, Answer(FALSE))
     \/ UNCHANGED delivered /\ Goto(w, "refused")
  /\ UNCHANGED <<rows, alert, outside>>

\* recordSent: only while the row is PROCESSING; the alert the email was
\* written for is answered in the same transaction.
Answered(e) ==
  IF e \in Alerted /\ alert[e].active /\ alert[e].version = reference[e]
  THEN [active |-> FALSE, version |-> alert[e].version + 1] ELSE alert[e]

RecordSent(w) ==
  LET e == Email(w) IN
  /\ At(w, "sent")
  /\ IF status[e] = "PROCESSING"
     THEN /\ status' = [status EXCEPT ![e] = "SENT"]
          /\ alert' = [alert EXCEPT ![e] = Answered(e)]
     ELSE UNCHANGED <<status, alert>>
  /\ Set(w, Idle)
  /\ UNCHANGED <<attempts, due, reference, delivered, outside>>

\* nextEmailAttemptAt.
AttemptsLeft(tries) == tries < MaxAttempts

\* recordFailure, by id alone; also when recordSent cannot commit.
RecordFailure(w) ==
  LET e == Email(w) IN
  /\ worker[w].at \in {"failed", "refused"}
  /\ status' = [status EXCEPT ![e] =
       IF At(w, "failed") /\ AttemptsLeft(worker[w].tries) THEN "PENDING" ELSE "DEAD_LETTER"]
  /\ due' = [due EXCEPT ![e] = FALSE]
  /\ Set(w, Idle)
  /\ UNCHANGED <<attempts, reference, alert, delivered, outside>>

SentNotRecorded(w) ==
  /\ At(w, "sent")
  /\ Fault
  /\ Goto(w, "failed")
  /\ UNCHANGED <<rows, alert, delivered, retries, late>>

-----------------------------------------------------------------------------
(* Administrators, time and stops.                                         *)

Sending(w) == worker[w].at \in {"send", "sent", "failed", "refused"}
Working(e) == \E w \in Workers : Email(w) = e /\ Sending(w)

\* retryEmailOutbox: a read, and an update by id.
StartRetry(w, e) ==
  /\ At(w, "idle")
  /\ retries < MaxRetries
  /\ status[e] \in {"PENDING", "DEAD_LETTER"}
  /\ retries' = retries + 1
  /\ Set(w, [Idle EXCEPT !.at = "retry", !.e = e])
  /\ UNCHANGED <<rows, alert, delivered, faults, late>>

FinishRetry(w) ==
  /\ At(w, "retry")
  /\ status' = [status EXCEPT ![Email(w)] = "PENDING"]
  /\ attempts' = [attempts EXCEPT ![Email(w)] = 0]
  /\ due' = [due EXCEPT ![Email(w)] = TRUE]
  /\ late' = (late \/ Working(Email(w)))
  /\ Set(w, Idle)
  /\ UNCHANGED <<reference, alert, delivered, faults, retries>>

\* The delay before the next attempt passes, or the lease of a worker that
\* stopped; that of a slow one ends early.
TimePasses(e) ==
  /\ ~due[e]
  /\ \/ status[e] = "PENDING" /\ UNCHANGED faults
     \/ status[e] = "PROCESSING" /\ ~Working(e) /\ UNCHANGED faults
     \/ status[e] = "PROCESSING" /\ Working(e) /\ Fault
  /\ due' = [due EXCEPT ![e] = TRUE]
  /\ late' = (late \/ Working(e))
  /\ UNCHANGED <<status, attempts, reference, alert, delivered, retries, worker>>

Stop(w) ==
  /\ ~At(w, "idle")
  /\ Fault
  /\ Set(w, Idle)
  /\ UNCHANGED <<rows, alert, delivered, retries, late>>

Step(w) ==
  \/ Read(w) \/ Cancel(w) \/ Claim(w) \/ Send(w) \/ RecordSent(w)
  \/ RecordFailure(w) \/ FinishRetry(w)

Next ==
  \/ \E w \in Workers : Step(w) \/ SentNotRecorded(w) \/ Stop(w)
  \/ \E w \in Workers, e \in Emails : Take(w, e) \/ StartRetry(w, e)
  \/ \E e \in Emails : Enqueue(e) \/ TimePasses(e)
  \/ \E e \in Emails, active \in BOOLEAN : Touch(e, active)

Spec == Init /\ [][Next]_vars

-----------------------------------------------------------------------------
(* Properties.                                                             *)

TypeOK ==
  /\ status \in [Emails -> {"NONE", "PENDING", "PROCESSING", "SENT", "DEAD_LETTER", "CANCELLED"}]
  /\ attempts \in [Emails -> Nat]
  /\ due \in [Emails -> BOOLEAN]
  /\ reference \in [Emails -> Nat]
  /\ alert \in [Emails -> [active : BOOLEAN, version : Nat]]
  /\ delivered \subseteq Emails
  /\ faults \in 0..MaxFaults /\ retries \in 0..MaxRetries /\ late \in BOOLEAN
  /\ worker \in [Workers -> [at : {"idle", "read", "cancel", "claim", "send", "sent",
                                   "failed", "refused", "retry"},
                             e : Emails \cup {NoEmail}, tries : Nat]]

\* What is recorded as sent was accepted by the provider, whichever worker
\* recorded it.
SentIsDelivered == \A e \in Emails : status[e] = "SENT" => e \in delivered

\* An email that was sent has answered the alert it was written for: the same
\* wish is not answered by another email.
SentAnswersAlert ==
  \A e \in Alerted : status[e] = "SENT" =>
    ~(alert[e].active /\ alert[e].version = reference[e])

\* What was sent is not sent again, unless an administrator's retry read the
\* row before, or a row came due again under the worker that was sending it.
Retried(e) == \E w \in Workers : At(w, "retry") /\ Email(w) = e

NotResent ==
  \A e \in Emails :
    status[e] = "SENT" => status'[e] \in {"SENT", "CANCELLED"} \/ Retried(e) \/ late

\* What the outbox records as sent was accepted by the provider and answered
\* the alert it was written for, whichever worker recorded it, and it is not
\* sent again (claimEmail, recordSent, recordFailure).
SentOnce ==
  /\ [](TypeOK /\ SentIsDelivered /\ SentAnswersAlert)
  /\ [][NotResent]_vars

\* An email was asked for; it is sent, called off, or on the list of those an
\* administrator has to look at.
Asked(e) == status[e] # "NONE"
Ended(e) == status[e] \in {"SENT", "DEAD_LETTER", "CANCELLED"}
=============================================================================
