--------------------------- MODULE WebhookDelivery ---------------------------
(***************************************************************************)
(* From a provider's webhook to a processed or dead-lettered event: the    *)
(* endpoint stores the event and queues a job for it, a queue worker runs  *)
(* the job, and a periodic scan queues again what got lost in between.     *)
(* Payment events take the careful way through enqueuePaymentEvent and the *)
(* scan; courier events are only added to their queue.                     *)
(*                                                                         *)
(*   POST /razorpay, POST /fulfillment  modules/webhooks/webhooks.routes   *)
(*   enqueuePaymentEvent, recoverStalledPaymentEvents                      *)
(*                           modules/webhooks/paymentEventDelivery.service *)
(*   startPaymentEventsWorker           jobs/paymentEvents.ts              *)
(*   startCourierEventsWorker           jobs/courierEvents.ts              *)
(*   paymentEventsQueue, courierEventsQueue      lib/queue.ts              *)
(*                                                                         *)
(* What the handlers of an event do to orders and shipments is the subject *)
(* of other modules; here an event is processed or it is not.  Jobs live   *)
(* in Redis under BullMQ, modelled from how the code uses it: an add with  *)
(* the id of an existing job is ignored, finished jobs are kept for a      *)
(* while, and a job whose process died is run once more and then failed.   *)
(***************************************************************************)
EXTENDS Naturals, FiniteSets

CONSTANTS
  PaymentEvents,  \* events of the payment provider
  CourierEvents,  \* events of the courier
  Workers,        \* endpoint handlers and the scan
  MaxAttempts,    \* attempts of a job before it counts as failed
  Batch,          \* WEBHOOK_RECOVERY_BATCH_SIZE
  MaxFaults       \* bound on failed calls, crashes and lost jobs

ConstantsAssumption ==
  /\ PaymentEvents \cap CourierEvents = {}
  /\ MaxAttempts \in Nat \ {0}
  /\ Batch \in Nat \ {0}
  /\ MaxFaults \in Nat

Events == PaymentEvents \cup CourierEvents

VARIABLES
  row,      \* WebhookEvent: seq (creation order, 0 when absent), processed, dead
  job,      \* the BullMQ job of the event
  listener, \* events whose job just failed and whose failed-listener is to run
  spent,    \* events one of whose jobs used up its attempts
  worker,   \* local state of handlers and scan
  faults

vars == <<row, job, listener, spent, worker, faults>>

NoRow == [seq |-> 0, processed |-> FALSE, dead |-> FALSE]
NoJob == [state |-> "none", made |-> 0, stalls |-> 0]
NewJob == [NoJob EXCEPT !.state = "waiting"]
NoEvent == "no event"
Idle == [at |-> "idle", e |-> NoEvent, made |-> 0]

Init ==
  /\ row = [e \in Events |-> NoRow]
  /\ job = [e \in Events |-> NoJob]
  /\ listener = {}
  /\ spent = {}
  /\ worker = [w \in Workers |-> Idle]
  /\ faults = 0

At(w, place) == worker[w].at = place
Goto(w, place) == worker' = [worker EXCEPT ![w].at = place]
Done(w) == worker' = [worker EXCEPT ![w] = Idle]
Fault == faults < MaxFaults /\ faults' = faults + 1
Stored(e) == row[e].seq > 0
Settled(e) == row[e].processed \/ row[e].dead
NoFault == UNCHANGED faults

-----------------------------------------------------------------------------
(* The endpoints.  A delivery that fails is answered 5xx and repeated.     *)

\* createMany skipDuplicates, or create and the unique violation: the row is
\* there after it.  A processed duplicate is acknowledged at once.
Deliver(w, e) ==
  /\ At(w, "idle")
  /\ row' = [row EXCEPT ![e].seq =
       IF @ = 0 THEN 1 + Cardinality({x \in Events : Stored(x)}) ELSE @]
  /\ \/ row[e].processed /\ UNCHANGED worker
     \/ /\ ~row[e].processed
        /\ worker' = [worker EXCEPT ![w] =
             [at |-> IF e \in PaymentEvents THEN "event" ELSE "addCourier",
              e |-> e, made |-> 0]]
  /\ UNCHANGED <<job, listener, spent, faults>>

\* courierEventsQueue.add: a job of that id that still exists, even a failed
\* one, makes the add a no-op.  The duplicate is answered as requeued.
Readded(e) == IF job[e].state = "none" THEN NewJob ELSE job[e]

AddCourierJob(w) ==
  LET e == worker[w].e IN
  /\ At(w, "addCourier")
  /\ \/ /\ job' = [job EXCEPT ![e] = Readded(e)]
        /\ NoFault
     \/ Fault /\ UNCHANGED job
  /\ Done(w)
  /\ UNCHANGED <<row, listener, spent>>

-----------------------------------------------------------------------------
(* enqueuePaymentEvent, called by the endpoint and by the scan.            *)

CheckEvent(w) ==
  LET e == worker[w].e IN
  /\ At(w, "event")
  /\ IF Settled(e) THEN Done(w) ELSE Goto(w, "job")
  /\ UNCHANGED <<row, job, listener, spent, faults>>

\* getJob: the copy in hand keeps the attemptsMade it was read with.
GetJob(w) ==
  LET e == worker[w].e IN
  /\ At(w, "job")
  /\ worker' = [worker EXCEPT ![w].at = IF job[e].state = "none" THEN "add" ELSE "state",
                              ![w].made = job[e].made]
  /\ UNCHANGED <<row, job, listener, spent, faults>>

\* getState: a queued job is left alone (so is one evicted just now), an
\* exhausted one ends in the dead letters, any other finished one is removed.
Exhausted(made) == made >= MaxAttempts

GetState(w) ==
  LET s == job[worker[w].e].state IN
  /\ At(w, "state")
  /\ \/ s \in {"waiting", "active", "none"} /\ Done(w)
     \/ s = "failed" /\ Exhausted(worker[w].made) /\ Goto(w, "deadLetter")
     \/ s = "failed" /\ ~Exhausted(worker[w].made) /\ Goto(w, "remove")
     \/ s = "completed" /\ Goto(w, "remove")
  /\ UNCHANGED <<row, job, listener, spent, faults>>

\* updateMany where processedAt and deadLetteredAt are null.
BuriedAnyway(e) == [row EXCEPT ![e].dead = TRUE]
Buried(e) == [row EXCEPT ![e].dead = @ \/ ~row[e].processed]

DeadLetter(w) ==
  /\ At(w, "deadLetter")
  /\ \/ row' = Buried(worker[w].e) /\ NoFault
     \/ Fault /\ UNCHANGED row
  /\ Done(w)
  /\ UNCHANGED <<job, listener, spent>>

\* job.remove() throws for a job that is being run.
RemoveJob(w) ==
  LET e == worker[w].e IN
  /\ At(w, "remove")
  /\ \/ job[e].state = "active" /\ Done(w) /\ UNCHANGED job
     \/ /\ job[e].state # "active"
        /\ job' = [job EXCEPT ![e] = NoJob]
        /\ Goto(w, "add")
  /\ UNCHANGED <<row, listener, spent, faults>>

AddPaymentJob(w) ==
  LET e == worker[w].e IN
  /\ At(w, "add")
  /\ \/ job' = [job EXCEPT ![e] = Readded(e)] /\ NoFault
     \/ Fault /\ UNCHANGED job
  /\ Done(w)
  /\ UNCHANGED <<row, listener, spent>>

-----------------------------------------------------------------------------
(* recoverStalledPaymentEvents: the oldest events that are not settled.    *)

Unsettled == {e \in PaymentEvents : Stored(e) /\ ~Settled(e)}
Candidate(e) ==
  /\ e \in Unsettled
  /\ Cardinality({x \in Unsettled : row[x].seq < row[e].seq}) < Batch

Scan(w, e) ==
  /\ At(w, "idle")
  /\ Candidate(e)
  /\ worker' = [worker EXCEPT ![w] = [Idle EXCEPT !.at = "event", !.e = e]]
  /\ UNCHANGED <<row, job, listener, spent, faults>>

-----------------------------------------------------------------------------
(* The queue workers.                                                      *)

TakeJob(e) ==
  /\ job[e].state = "waiting"
  /\ job' = [job EXCEPT ![e].state = "active"]
  /\ UNCHANGED <<row, listener, spent, worker, faults>>

\* The event is applied and stamped; the job is completed after it.
Process(e) ==
  /\ job[e].state = "active"
  /\ ~row[e].processed
  /\ row' = [row EXCEPT ![e].processed = TRUE]
  /\ UNCHANGED <<job, listener, spent, worker, faults>>

CompleteJob(e) ==
  /\ job[e].state = "active"
  /\ row[e].processed
  /\ job' = [job EXCEPT ![e].state = "completed"]
  /\ UNCHANGED <<row, listener, spent, worker, faults>>

\* opts.attempts of the queue.
LastAttempt(made) == made >= MaxAttempts

\* The processor throws: the job is delayed for another attempt, or failed
\* when it has none left; the listener of failed jobs is told.
FailJob(e) ==
  LET made == job[e].made + 1 IN
  /\ job[e].state = "active"
  /\ Fault
  /\ job' = [job EXCEPT ![e].made = made,
                        ![e].state = IF LastAttempt(made) THEN "failed" ELSE "waiting"]
  /\ listener' = listener \cup {e}
  /\ spent' = IF LastAttempt(made) THEN spent \cup {e} ELSE spent
  /\ UNCHANGED <<row, worker>>

\* The process dies in the middle: the job is run again, the second time it is
\* failed whatever attempts it has left.
StallJob(e) ==
  /\ job[e].state = "active"
  /\ Fault
  /\ job' = [job EXCEPT ![e].stalls = @ + 1,
                        ![e].state = IF job[e].stalls = 0 THEN "waiting" ELSE "failed"]
  /\ listener' = IF job[e].stalls = 0 THEN listener ELSE listener \cup {e}
  /\ UNCHANGED <<row, spent, worker>>

\* worker.on("failed"): only the payment queue has one that writes, and only
\* once the attempts are used up.  The write may be lost.
OnFailed(e) ==
  /\ e \in listener
  /\ listener' = listener \ {e}
  /\ \/ /\ e \in PaymentEvents /\ Exhausted(job[e].made)
        /\ row' = Buried(e)
        /\ NoFault
     \/ /\ e \in CourierEvents \/ ~Exhausted(job[e].made)
        /\ NoFault /\ UNCHANGED row
     \/ Fault /\ UNCHANGED row
  /\ UNCHANGED <<job, spent, worker>>

\* Finished jobs beyond the newest few are dropped; Redis may lose any.
DropJob(e) ==
  /\ job[e].state # "none"
  /\ e \notin listener
  /\ \/ job[e].state \in {"completed", "failed"} /\ NoFault
     \/ job[e].state \notin {"completed", "failed"} /\ Fault
  /\ job' = [job EXCEPT ![e] = NoJob]
  /\ UNCHANGED <<row, listener, spent, worker>>

\* The endpoint or the scan dies.
Crash(w) ==
  /\ ~At(w, "idle")
  /\ Fault
  /\ Done(w)
  /\ UNCHANGED <<row, job, listener, spent>>

Continue(w) ==
  \/ CheckEvent(w) \/ GetJob(w) \/ GetState(w) \/ DeadLetter(w)
  \/ RemoveJob(w) \/ AddPaymentJob(w) \/ AddCourierJob(w)

QueueStep(e) == TakeJob(e) \/ Process(e) \/ CompleteJob(e)

Next ==
  \/ \E w \in Workers, e \in Events : Deliver(w, e)
  \/ \E w \in Workers, e \in PaymentEvents : Scan(w, e)
  \/ \E w \in Workers : Continue(w) \/ Crash(w)
  \/ \E e \in Events :
       QueueStep(e) \/ FailJob(e) \/ StallJob(e) \/ OnFailed(e) \/ DropJob(e)

Spec == Init /\ [][Next]_vars

-----------------------------------------------------------------------------
(* Properties.                                                             *)

TypeOK ==
  /\ row \in [Events -> [seq : 0..Cardinality(Events), processed : BOOLEAN,
                         dead : BOOLEAN]]
  /\ job \in [Events -> [state : {"none", "waiting", "active", "completed", "failed"},
                         made : 0..MaxAttempts, stalls : 0..2]]
  /\ listener \subseteq Events
  /\ spent \subseteq Events
  /\ worker \in [Workers -> [at : {"idle", "event", "job", "state", "deadLetter",
                                   "remove", "add", "addCourier"},
                             e : Events \cup {NoEvent}, made : 0..MaxAttempts]]
  /\ faults \in 0..MaxFaults

\* No payment event is given up for manual review before some job of it has
\* used up all its attempts: a stalled, lost or evicted job is not enough.
DeadIsExhausted == \A e \in Events : row[e].dead => e \in spent

\* A processed event is never moved to the dead letters afterwards, whoever
\* still holds an old view of its job.
ProcessedNotBuried == \A e \in Events : row[e].processed => row'[e].dead = row[e].dead

=============================================================================
