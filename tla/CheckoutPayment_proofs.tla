----------------------- MODULE CheckoutPayment_proofs -----------------------
(***************************************************************************)
(* Proofs about CheckoutPayment for every set of orders, variants and      *)
(* workers and every bound.                                                *)
(***************************************************************************)
EXTENDS CheckoutPayment, FiniteSetTheorems, TLAPS

(* What a worker's local variables hold at each place of its program.  The *)
(* type invariant alone is not inductive: a transition appends its target  *)
(* to the audit trail, so the target has to be a stored status by then.    *)
LocalOK(t) ==
  /\ t.at # NoOp => t.o \in Orders
  /\ t.at \in {"load", "decide", "finalize", "record"} => t.e \in EventIds
  /\ t.at \in {"read", "commit"} =>
       /\ t.to \in OrderStatuses
       /\ t.to = "PAID" => t.e \in EventIds
  /\ t.at = "commit" =>
       /\ t.before \in OrderStatuses
       /\ t.before = t.to \/ CanTransition(t.before, t.to)

WorkerInv == \A w \in Workers : LocalOK(worker[w])

TypeInv == TypeOK /\ WorkerInv

-----------------------------------------------------------------------------
(* The constructors of local states.                                       *)

LEMMA IdleOK == Idle \in WorkerStates /\ LocalOK(Idle)
BY DEF Idle, WorkerStates, LocalOK, NoOp, NoOrder, None, EventStates, OrderStatuses

LEMMA BeginOK ==
  ASSUME NEW op \in {"checkout", "cancel", "orderCancel", "expire", "poll",
                     "verify", "worker", "ship", "deliver", "refund"},
         NEW at \in {"create", "reconcile", "next", "read", "load"},
         NEW o \in Orders
  PROVE  LET t == Begin(op, at, o) IN
           /\ t \in WorkerStates
           /\ t.op = op /\ t.at = at /\ t.o = o /\ t.to = NoOrder
           /\ at \notin {"read", "load"} => LocalOK(t)
BY DEF Begin, Idle, WorkerStates, LocalOK, NoOp, NoOrder, None, EventStates, OrderStatuses

LEMMA TransitOK ==
  ASSUME NEW t \in WorkerStates, t.o \in Orders, NEW to \in OrderStatuses,
         to = "PAID" => t.e \in EventIds
  PROVE  Transit(t, to) \in WorkerStates /\ LocalOK(Transit(t, to))
BY DEF Transit, WorkerStates, LocalOK, NoOp, OrderStatuses, NoOrder

\* A worker that takes a sound local state keeps the workers' invariant.
LEMMA SetOK ==
  ASSUME TypeInv, NEW w \in Workers, NEW t \in WorkerStates, LocalOK(t), Set(w, t)
  PROVE  worker' \in [Workers -> WorkerStates] /\ WorkerInv'
BY DEF TypeInv, TypeOK, WorkerInv, Set

\* The rest of the type invariant, for steps that leave the database alone.
RowsOK == 
  /\ status \in [Orders -> OrderStatuses \cup {NoOrder}]
  /\ history \in [Orders -> Seq((OrderStatuses \cup {NoOrder}) \X OrderStatuses)]
  /\ stock \in [Variants -> Nat]
  /\ used \in Nat
  /\ due \in [Orders -> BOOLEAN]
  /\ expired \in [Orders -> BOOLEAN]
  /\ linked \in [Orders -> BOOLEAN]
  /\ payment \in [Orders -> PaymentStatuses]
  /\ paidBy \in [Orders -> Payments \cup {None}]
  /\ attempt \in [Payments -> DOMAIN AttemptRank]
  /\ event \in [EventIds -> EventStates]
  /\ notices \in [Orders -> Nat]
  /\ provider \in [Payments -> ProviderStatuses]
  /\ crashes \in Nat

LEMMA TypeParts ==
  /\ TypeInv <=> RowsOK /\ worker \in [Workers -> WorkerStates] /\ WorkerInv
  /\ TypeInv' <=> RowsOK' /\ worker' \in [Workers -> WorkerStates] /\ WorkerInv'
BY DEF TypeInv, TypeOK, RowsOK

LEMMA RowsUnchanged ==
  ASSUME RowsOK, UNCHANGED <<dbVars, provider>>, crashes' \in Nat
  PROVE  RowsOK'
BY DEF RowsOK, dbVars

\* What a worker in the middle of an operation knows.
LEMMA BusyOK ==
  ASSUME TypeInv, NEW w \in Workers
  PROVE  /\ worker[w] \in WorkerStates
         /\ LocalOK(worker[w])
         /\ ~At(w, NoOp) => worker[w].o \in Orders
BY DEF TypeInv, TypeOK, WorkerInv, LocalOK, At

-----------------------------------------------------------------------------
\* The checkout: reservation, provider order, linkage.
LEMMA ReserveType ==
  ASSUME TypeInv, NEW w \in Workers, NEW o \in Orders, Reserve(w, o)
  PROVE  TypeInv'
<1>1. LET t == Begin("checkout", "create", o) IN t \in WorkerStates /\ LocalOK(t)
  BY BeginOK
<1>2. worker' \in [Workers -> WorkerStates] /\ WorkerInv'
  BY <1>1, SetOK DEF Reserve
<1>3. stock' \in [Variants -> Nat]
  BY TypeParts, ConstantsAssumption DEF Reserve, RowsOK
<1>4. history' \in [Orders -> Seq((OrderStatuses \cup {NoOrder}) \X OrderStatuses)]
  BY TypeParts DEF Reserve, RowsOK, OrderStatuses, NoOrder
<1>5. status' \in [Orders -> OrderStatuses \cup {NoOrder}] /\ used' \in Nat
  BY TypeParts DEF Reserve, RowsOK, OrderStatuses, NoOrder
<1>6. RowsOK'
  BY <1>3, <1>4, <1>5, TypeParts DEF Reserve, RowsOK
<1>7. QED BY <1>2, <1>6, TypeParts

LEMMA CheckoutType ==
  ASSUME TypeInv, NEW w \in Workers, Checkout(w)
  PROVE  TypeInv'
<1> DEFINE t == worker[w]
<1>1. CASE CreateProviderOrder(w)
  <2>1. t \in WorkerStates /\ t.o \in Orders
    BY <1>1, BusyOK DEF CreateProviderOrder, At, NoOp
  <2>2. LET u == [t EXCEPT !.at = "link"] IN u \in WorkerStates /\ LocalOK(u)
    BY <2>1 DEF WorkerStates, LocalOK
  <2>3. LET u == Transit(t, "FAILED") IN u \in WorkerStates /\ LocalOK(u)
    BY <2>1, TransitOK DEF OrderStatuses
  <2>4. worker' \in [Workers -> WorkerStates] /\ WorkerInv'
    BY <1>1, <2>2, <2>3, SetOK DEF CreateProviderOrder
  <2>5. QED BY <1>1, <2>4, TypeParts, RowsUnchanged DEF CreateProviderOrder, RowsOK
<1>2. CASE LinkProviderOrder(w)
  <2>1. worker' \in [Workers -> WorkerStates] /\ WorkerInv'
    BY <1>2, IdleOK, SetOK DEF LinkProviderOrder
  <2>2. RowsOK'
    BY <1>2, TypeParts DEF LinkProviderOrder, RowsOK, PaymentStatuses
  <2>3. QED BY <2>1, <2>2, TypeParts
<1>3. QED BY <1>1, <1>2 DEF Checkout

\* Operations start from the arguments of a request or of a job.
LEMMA StartType ==
  ASSUME TypeInv, NEW w \in Workers, Start(w)
  PROVE  TypeInv'
<1>1. ASSUME NEW t \in WorkerStates, LocalOK(t), Set(w, t),
             UNCHANGED <<dbVars, provider, crashes>>
      PROVE  TypeInv'
  BY <1>1, SetOK, TypeParts, RowsUnchanged DEF RowsOK
<1>2. /\ \A p \in Payments : OrderOf(p) \in Orders
      /\ \A e \in EventIds : OrderOf(PaymentOf(e)) \in Orders
  BY DEF OrderOf, PaymentOf, EventIds, Payments
<1>3. ASSUME NEW o \in Orders, Reserve(w, o)
      PROVE  TypeInv'
  BY <1>3, ReserveType
<1>4. ASSUME NEW o \in Orders, StartCancel(w, o)
      PROVE  TypeInv'
  <2>1. LET t == Begin("cancel", "reconcile", o) IN t \in WorkerStates /\ LocalOK(t)
    BY BeginOK
  <2>2. LET t == Transit(Begin("cancel", "read", o), "CANCELLED")
        IN t \in WorkerStates /\ LocalOK(t)
    BY BeginOK, TransitOK DEF OrderStatuses
  <2>3. QED BY <1>1, <1>4, <2>1, <2>2 DEF StartCancel
<1>5. ASSUME NEW o \in Orders, StartExpire(w, o) \/ StartPoll(w, o)
      PROVE  TypeInv'
  <2>1. \A op \in {"expire", "poll"} :
          LET t == Begin(op, "reconcile", o) IN t \in WorkerStates /\ LocalOK(t)
    BY BeginOK
  <2>2. QED BY <1>1, <1>5, <2>1 DEF StartExpire, StartPoll
<1>6. ASSUME NEW o \in Orders, NEW op \in DOMAIN DirectTargets, StartDirect(w, o, op)
      PROVE  TypeInv'
  <2>1. op \in {"orderCancel", "ship", "deliver", "refund"}
          /\ DirectTargets[op] \in OrderStatuses /\ DirectTargets[op] # "PAID"
    BY DEF DirectTargets, OrderStatuses
  <2>2. LET t == Transit(Begin(op, "read", o), DirectTargets[op])
        IN t \in WorkerStates /\ LocalOK(t)
    BY <2>1, BeginOK, TransitOK
  <2>3. QED BY <1>1, <1>6, <2>2 DEF StartDirect
<1>7. ASSUME NEW p \in Payments, StartVerify(w, p)
      PROVE  TypeInv'
  <2> DEFINE b == Begin("verify", "next", OrderOf(p))
             t == [b EXCEPT !.todo = {<<provider[p], p>>}]
  <2>1. b \in WorkerStates /\ LocalOK(b) /\ b.at = "next"
    BY <1>2, BeginOK
  <2>2. {<<provider[p], p>>} \in SUBSET (Kinds \X Payments)
    BY <1>7 DEF StartVerify, Kinds
  <2> HIDE DEF b
  <2>3. t \in WorkerStates /\ LocalOK(t)
    BY <2>1, <2>2 DEF WorkerStates, LocalOK
  <2>4. QED BY <1>1, <1>7, <2>3 DEF StartVerify, b
<1>8. ASSUME NEW e \in EventIds, StartWorker(w, e)
      PROVE  TypeInv'
  <2> DEFINE b == Begin("worker", "load", OrderOf(PaymentOf(e)))
             t == [b EXCEPT !.e = e]
  <2>1. b \in WorkerStates /\ b.at = "load" /\ b.o \in Orders
    BY <1>2, BeginOK
  <2> HIDE DEF b
  <2>2. t \in WorkerStates /\ LocalOK(t)
    BY <2>1 DEF WorkerStates, LocalOK
  <2>3. QED BY <1>1, <1>8, <2>2 DEF StartWorker, b
<1>9. QED BY <1>3, <1>4, <1>5, <1>6, <1>7, <1>8 DEF Start

LEMMA AfterUnpaidOK ==
  ASSUME NEW t \in WorkerStates, t.o \in Orders
  PROVE  AfterUnpaid(t) \in WorkerStates /\ LocalOK(AfterUnpaid(t))
BY IdleOK, TransitOK DEF AfterUnpaid, OrderStatuses

\* reconcilePendingPayment: only a replayed snapshot writes a row.
LEMMA ReconcileType ==
  ASSUME TypeInv, NEW w \in Workers, Reconcile(w)
  PROVE  TypeInv'
<1> DEFINE t == worker[w]
<1>1. t \in WorkerStates /\ t.o \in Orders /\ LocalOK(t)
  BY BusyOK
  DEF Reconcile, ReconcileRead, FetchAnswered, FetchFailed, ReplaySnapshot,
      ReconcileDone, At, NoOp
<1>2. CASE ReconcileRead(w)
  <2>1. LET u == [t EXCEPT !.at = "fetch"] IN u \in WorkerStates /\ LocalOK(u)
    BY <1>1 DEF WorkerStates, LocalOK
  <2>2. worker' \in [Workers -> WorkerStates] /\ WorkerInv'
    BY <1>1, <1>2, <2>1, IdleOK, AfterUnpaidOK, SetOK DEF ReconcileRead
  <2>3. QED BY <1>2, <2>2, TypeParts, RowsUnchanged DEF ReconcileRead, RowsOK
<1>3. CASE FetchAnswered(w)
  <2>1. PICK todo \in SUBSET (Kinds \X Payments), open \in BOOLEAN :
          Set(w, [t EXCEPT !.at = "next", !.todo = todo, !.open = open])
    <3>1. {<<provider[p], p>> : p \in {q \in PaymentsOf(t.o) : HasEvent(provider[q])}}
            \in SUBSET (Kinds \X Payments)
      BY DEF HasEvent, PaymentsOf
    <3>2. (\E q \in PaymentsOf(t.o) : KeepsOpen(provider[q])) \in BOOLEAN
      OBVIOUS
    <3>3. QED BY <1>3, <3>1, <3>2 DEF FetchAnswered
  <2>2. LET u == [t EXCEPT !.at = "next", !.todo = todo, !.open = open]
        IN u \in WorkerStates /\ LocalOK(u)
    BY <1>1 DEF WorkerStates, LocalOK
  <2>3. worker' \in [Workers -> WorkerStates] /\ WorkerInv'
    BY <2>1, <2>2, SetOK
  <2>4. QED BY <1>3, <2>3, TypeParts, RowsUnchanged DEF FetchAnswered, RowsOK
<1>4. CASE FetchFailed(w)
  <2>1. worker' \in [Workers -> WorkerStates] /\ WorkerInv'
    BY <1>4, IdleOK, SetOK DEF FetchFailed
  <2>2. QED BY <1>4, <2>1, TypeParts, RowsUnchanged DEF FetchFailed, RowsOK
<1>5. ASSUME NEW s \in Kinds \X Payments, ReplaySnapshot(w, s)
      PROVE  TypeInv'
  <2> DEFINE e == Event(s[1], s[2], "composite")
  <2>1. e \in EventIds
    BY DEF Event, EventIds
  <2> HIDE DEF e
  <2>2. LET u == [t EXCEPT !.at = "load", !.e = e, !.todo = @ \ {s}]
        IN u \in WorkerStates /\ LocalOK(u)
    BY <1>1, <2>1 DEF WorkerStates, LocalOK
  <2>3. worker' \in [Workers -> WorkerStates] /\ WorkerInv'
    BY <1>5, <2>2, SetOK DEF ReplaySnapshot, e
  <2>4. RowsOK'
    BY <1>5, TypeParts DEF ReplaySnapshot, RowsOK, EventStates
  <2>5. QED BY <2>3, <2>4, TypeParts
<1>6. CASE ReconcileDone(w)
  <2>1. worker' \in [Workers -> WorkerStates] /\ WorkerInv'
    BY <1>1, <1>6, IdleOK, AfterUnpaidOK, SetOK DEF ReconcileDone
  <2>2. QED BY <1>6, <2>1, TypeParts, RowsUnchanged DEF ReconcileDone, RowsOK
<1>7. QED BY <1>2, <1>3, <1>4, <1>5, <1>6 DEF Reconcile

LEMMA AfterEventOK ==
  ASSUME NEW t \in WorkerStates, t.o \in Orders, NEW outcome
  PROVE  AfterEvent(t, outcome) \in WorkerStates /\ LocalOK(AfterEvent(t, outcome))
<1>1. LET u == [t EXCEPT !.at = "next", !.e = None, !.result = "NONE",
                         !.to = NoOrder, !.before = NoOrder, !.hadPayment = FALSE]
      IN u \in WorkerStates /\ LocalOK(u)
  BY DEF WorkerStates, LocalOK, EventStates
<1>2. QED BY <1>1, IdleOK DEF AfterEvent

LEMMA RecordedAttemptOK ==
  ASSUME RowsOK, NEW p, NEW new \in DOMAIN AttemptRank
  PROVE  RecordedAttempt(p, new) \in [Payments -> DOMAIN AttemptRank]
BY DEF RowsOK, RecordedAttempt

\* processPaymentEvent, except the transition it may ask for.
LEMMA ProcessEventType ==
  ASSUME TypeInv, NEW w \in Workers, ProcessEvent(w)
  PROVE  TypeInv'
<1> DEFINE t == worker[w]
<1>1. t \in WorkerStates /\ t.o \in Orders /\ LocalOK(t) /\ t.e \in EventIds
  BY BusyOK
  DEF ProcessEvent, LoadEvent, DecideEvent, FinalizeEvent, RecordAttempt,
      RecordAttemptRefused, At, NoOp, LocalOK
<1>2. CASE LoadEvent(w)
  <2>1. LET u == [t EXCEPT !.at = "decide"] IN u \in WorkerStates /\ LocalOK(u)
    BY <1>1 DEF WorkerStates, LocalOK
  <2>2. worker' \in [Workers -> WorkerStates] /\ WorkerInv'
    BY <1>1, <1>2, <2>1, AfterEventOK, SetOK DEF LoadEvent
  <2>3. QED BY <1>2, <2>2, TypeParts, RowsUnchanged DEF LoadEvent, RowsOK
<1>3. CASE DecideEvent(w)
  <2> DEFINE d == CaptureDecision(t.o, PaymentOf(t.e))
  <2>1. LET u == [t EXCEPT !.at = "record"] IN u \in WorkerStates /\ LocalOK(u)
    BY <1>1 DEF WorkerStates, LocalOK
  <2>2. Transit(t, "PAID") \in WorkerStates /\ LocalOK(Transit(t, "PAID"))
    BY <1>1, TransitOK DEF OrderStatuses
  <2>3. d \in {"APPLY", "PROCESSED", "RECONCILIATION_REQUIRED"}
    BY DEF CaptureDecision
  <2> HIDE DEF d
  <2>4. d # "APPLY" =>
          LET u == [t EXCEPT !.at = "finalize", !.result = d]
          IN u \in WorkerStates /\ LocalOK(u)
    BY <1>1, <2>3 DEF WorkerStates, LocalOK, EventStates
  <2>5. worker' \in [Workers -> WorkerStates] /\ WorkerInv'
    BY <1>3, <2>1, <2>2, <2>4, SetOK DEF DecideEvent, d
  <2>6. QED BY <1>3, <2>5, TypeParts, RowsUnchanged DEF DecideEvent, RowsOK
<1>4. CASE FinalizeEvent(w)
  <2>1. worker' \in [Workers -> WorkerStates] /\ WorkerInv'
    BY <1>1, <1>4, AfterEventOK, SetOK DEF FinalizeEvent
  <2>2. RowsOK'
    BY <1>1, <1>4, TypeParts DEF FinalizeEvent, RowsOK, WorkerStates
  <2>3. QED BY <2>1, <2>2, TypeParts
<1>5. CASE RecordAttempt(w)
  <2>1. worker' \in [Workers -> WorkerStates] /\ WorkerInv'
    BY <1>1, <1>5, AfterEventOK, SetOK DEF RecordAttempt
  <2>2. attempt' \in [Payments -> DOMAIN AttemptRank]
    BY <1>5, TypeParts, RecordedAttemptOK DEF RecordAttempt, AttemptRank
  <2>3. RowsOK'
    BY <1>5, <2>2, TypeParts DEF RecordAttempt, RowsOK, PaymentStatuses, EventStates
  <2>4. QED BY <2>1, <2>3, TypeParts
<1>6. CASE RecordAttemptRefused(w)
  <2>1. worker' \in [Workers -> WorkerStates] /\ WorkerInv'
    BY <1>6, IdleOK, SetOK DEF RecordAttemptRefused
  <2>2. QED BY <1>6, <2>1, TypeParts, RowsUnchanged DEF RecordAttemptRefused, RowsOK
<1>7. QED BY <1>2, <1>3, <1>4, <1>5, <1>6 DEF ProcessEvent

\* transition(): the read, and the three ends of its transaction.
LEMMA TransitionType ==
  ASSUME TypeInv, NEW w \in Workers, Transition(w)
  PROVE  TypeInv'
<1> DEFINE t == worker[w]
<1>1. t \in WorkerStates /\ t.o \in Orders /\ LocalOK(t) /\ t.to \in OrderStatuses
  BY BusyOK
  DEF Transition, TransitionRead, TransitionRefused, TransitionConverged,
      TransitionApplied, At, NoOp, LocalOK
<1>2. RowsOK
  BY TypeParts
<1>3. AfterTransition(t) \in WorkerStates /\ LocalOK(AfterTransition(t))
  BY <1>1, IdleOK, AfterEventOK DEF AfterTransition
<1>4. CASE TransitionRead(w)
  <2> DEFINE before == status[t.o]
             hadPayment == payment[t.o] # "NONE"
             u == [t EXCEPT !.at = "commit", !.before = before,
                            !.hadPayment = hadPayment]
  <2>1. before \in OrderStatuses \cup {NoOrder} /\ hadPayment \in BOOLEAN
    BY <1>1, <1>2 DEF RowsOK
  <2> HIDE DEF before, hadPayment
  <2>2. before # NoOrder /\ (before = t.to \/ CanTransition(before, t.to)) =>
          u \in WorkerStates /\ LocalOK(u)
    BY <1>1, <1>4, <2>1 DEF WorkerStates, LocalOK, TransitionRead, At
  <2>3. worker' \in [Workers -> WorkerStates] /\ WorkerInv'
    BY <1>4, <2>2, IdleOK, SetOK DEF TransitionRead, before, hadPayment
  <2>4. QED BY <1>2, <1>4, <2>3, TypeParts, RowsUnchanged DEF TransitionRead, RowsOK
<1>5. CASE TransitionRefused(w)
  <2>1. worker' \in [Workers -> WorkerStates] /\ WorkerInv'
    BY <1>5, IdleOK, SetOK DEF TransitionRefused
  <2>2. QED BY <1>2, <1>5, <2>1, TypeParts, RowsUnchanged DEF TransitionRefused, RowsOK
<1>6. ASSUME DoWork(t)
      PROVE  /\ attempt' \in [Payments -> DOMAIN AttemptRank]
             /\ event' \in [EventIds -> EventStates]
             /\ expired' \in [Orders -> BOOLEAN]
  <2>1. RecordedAttempt(PaymentOf(t.e), "CAPTURED") \in [Payments -> DOMAIN AttemptRank]
    BY <1>2, RecordedAttemptOK DEF AttemptRank
  <2>2. QED BY <1>2, <1>6, <2>1 DEF DoWork, RowsOK, EventStates
<1>7. CASE TransitionConverged(w)
  <2>1. worker' \in [Workers -> WorkerStates] /\ WorkerInv'
    BY <1>3, <1>7, SetOK DEF TransitionConverged
  <2>2. DoWork(t)
    BY <1>7 DEF TransitionConverged
  <2>3. RowsOK'
    BY <1>2, <1>6, <1>7, <2>2 DEF TransitionConverged, RowsOK
  <2>4. QED BY <2>1, <2>3, TypeParts
<1>8. CASE TransitionApplied(w)
  <2>1. worker' \in [Workers -> WorkerStates] /\ WorkerInv'
    BY <1>3, <1>8, SetOK DEF TransitionApplied
  <2>2. DoWork(t)
    BY <1>8 DEF TransitionApplied
  <2>3. stock' \in [Variants -> Nat] /\ used' \in Nat
    <3>1. \A v \in Variants : stock[v] \in Nat /\ Demand[t.o][v] \in Nat
      BY <1>1, <1>2, ConstantsAssumption DEF RowsOK
    <3>2. stock' \in [Variants -> Nat]
      BY <1>8, <3>1 DEF TransitionApplied
    <3>3. used' \in Nat
      BY <1>2, <1>8 DEF TransitionApplied, RowsOK
    <3>4. QED BY <3>2, <3>3
  <2>4. history' \in [Orders -> Seq((OrderStatuses \cup {NoOrder}) \X OrderStatuses)]
    BY <1>1, <1>2, <1>8 DEF TransitionApplied, RowsOK, WorkerStates
  <2>5. payment' \in [Orders -> PaymentStatuses]
    BY <1>1, <1>2, <1>8 DEF TransitionApplied, RowsOK, NewPaymentStatus, PaymentStatuses
  <2>6. t.to = "PAID" => PaymentOf(t.e) \in Payments
    BY <1>1, <1>8 DEF TransitionApplied, At, LocalOK, PaymentOf, EventIds
  <2>7. paidBy' \in [Orders -> Payments \cup {None}]
    BY <1>2, <1>8, <2>6 DEF TransitionApplied, RowsOK
  <2>8. RowsOK'
    BY <1>1, <1>2, <1>6, <1>8, <2>2, <2>3, <2>4, <2>5, <2>7
    DEF TransitionApplied, RowsOK
  <2>9. QED BY <2>1, <2>8, TypeParts
<1>9. QED BY <1>4, <1>5, <1>7, <1>8 DEF Transition

\* Crashes, the customer, the provider and the clock.
LEMMA EnvironmentType ==
  ASSUME TypeInv, (\E w \in Workers : Crash(w)) \/ Environment
  PROVE  TypeInv'
<1>1. ASSUME NEW w \in Workers, Crash(w)
      PROVE  TypeInv'
  <2>1. worker' \in [Workers -> WorkerStates] /\ WorkerInv'
    BY <1>1, IdleOK, SetOK DEF Crash
  <2>2. QED BY <1>1, <2>1, TypeParts, RowsUnchanged DEF Crash, RowsOK
<1>2. ASSUME Environment
      PROVE  UNCHANGED <<worker, crashes>>
  BY <1>2 DEF Environment, ProviderStep, WebhookDelivery, ReservationLapses
<1>3. ASSUME Environment
      PROVE  RowsOK'
  <2>1. CASE \E p \in Payments : \E s \in ProviderNext(provider[p]) : ProviderStep(p, s)
    <3>1. PICK p \in Payments : \E s \in ProviderNext(provider[p]) : ProviderStep(p, s)
      BY <2>1
    <3>2. provider[p] \in ProviderStatuses /\ ProviderNext(provider[p]) \subseteq ProviderStatuses
      BY TypeParts DEF RowsOK, ProviderStatuses, ProviderNext
    <3>3. provider' \in [Payments -> ProviderStatuses]
      BY <3>1, <3>2, TypeParts DEF ProviderStep, RowsOK
    <3>4. QED BY <3>1, <3>3, TypeParts DEF ProviderStep, RowsOK, dbVars
  <2>2. CASE \E k \in Kinds, p \in Payments : WebhookDelivery(k, p)
    BY <2>2, TypeParts DEF WebhookDelivery, RowsOK, EventStates
  <2>3. CASE \E o \in Orders : ReservationLapses(o)
    BY <2>3, TypeParts DEF ReservationLapses, RowsOK
  <2>4. QED BY <1>3, <2>1, <2>2, <2>3 DEF Environment
<1>4. ASSUME Environment
      PROVE  TypeInv'
  BY <1>2, <1>3, <1>4, TypeParts DEF WorkerInv
<1>5. QED BY <1>1, <1>4

-----------------------------------------------------------------------------
LEMMA InitType == Init => TypeInv
<1> SUFFICES ASSUME Init PROVE TypeInv
  OBVIOUS
<1>1. RowsOK
  BY ConstantsAssumption
  DEF Init, RowsOK, OrderStatuses, PaymentStatuses, EventStates, ProviderStatuses,
      AttemptRank
<1>2. worker \in [Workers -> WorkerStates] /\ WorkerInv
  BY IdleOK DEF Init, WorkerInv
<1>3. QED BY <1>1, <1>2, TypeParts

LEMMA NextType == TypeInv /\ [Next]_vars => TypeInv'
<1>1. ASSUME TypeInv, UNCHANGED vars PROVE TypeInv'
  BY <1>1 DEF TypeInv, TypeOK, WorkerInv, vars, dbVars
<1>2. ASSUME TypeInv, Next PROVE TypeInv'
  <2>1. ASSUME NEW w \in Workers, Start(w) PROVE TypeInv'
    BY <1>2, <2>1, StartType
  <2>2. ASSUME NEW w \in Workers, Continue(w) PROVE TypeInv'
    BY <1>2, <2>2, CheckoutType, ReconcileType, ProcessEventType, TransitionType
    DEF Continue
  <2>3. QED BY <1>2, <2>1, <2>2, EnvironmentType DEF Next
<1>3. QED BY <1>1, <1>2

\* Every row and every worker keeps its shape, for any number of orders,
\* variants, payments and workers (TypeOK and the workers' invariant).
THEOREM TypeInvariant == Spec => []TypeInv
BY InitType, NextType, PTL DEF Spec

THEOREM TypeCorrect == Spec => []TypeOK
<1>1. TypeInv => TypeOK
  BY DEF TypeInv
<1>2. QED BY <1>1, TypeInvariant, PTL

-----------------------------------------------------------------------------
(* Conservation of stock.  The orders that hold units change only when one *)
(* is reserved or when a transition releases it, and then by that order    *)
(* alone.                                                                   *)

Holders == {q \in Orders : Holds(q)}
Units(S, v) == UNION {{q} \X (1..Demand[q][v]) : q \in S}

StockInv ==
  \A v \in Variants :
    /\ IsFiniteSet(Units(Holders, v))
    /\ stock[v] + Cardinality(Units(Holders, v)) = InitStock[v]

LEMMA OneToN ==
  ASSUME NEW n \in Nat
  PROVE  IsFiniteSet(1..n) /\ Cardinality(1..n) = n
<1>1. IsFiniteSet(1..n) /\ Cardinality(1..n) = IF 1 > n THEN 0 ELSE n - 1 + 1
  BY FS_Interval
<1> DEFINE c == Cardinality(1..n)
<1>2. c = IF 1 > n THEN 0 ELSE n - 1 + 1
  BY <1>1
<1> HIDE DEF c
<1>3. c = n
  BY <1>2
<1>4. QED BY <1>1, <1>3 DEF c

LEMMA OrderUnits ==
  ASSUME NEW o \in Orders, NEW v \in Variants
  PROVE  /\ IsFiniteSet({o} \X (1..Demand[o][v]))
         /\ Cardinality({o} \X (1..Demand[o][v])) = Demand[o][v]
<1> DEFINE n == Demand[o][v]
           T == 1..n
<1>1. n \in Nat
  BY ConstantsAssumption
<1> HIDE DEF n
<1>2. IsFiniteSet(T) /\ Cardinality(T) = n
  BY <1>1, OneToN
<1> HIDE DEF T
<1>3. IsFiniteSet({o}) /\ Cardinality({o}) = 1
  BY FS_Singleton
<1>4. IsFiniteSet({o} \X T) /\ Cardinality({o} \X T) = Cardinality({o}) * Cardinality(T)
  BY <1>2, <1>3, FS_Product
<1>5. Cardinality({o} \X T) = n
  BY <1>1, <1>2, <1>3, <1>4
<1>6. QED BY <1>4, <1>5 DEF n, T

\* One more holder adds exactly the units it asked for.
LEMMA AddHolder ==
  ASSUME NEW S \in SUBSET Orders, NEW o \in Orders, o \notin S,
         NEW v \in Variants, IsFiniteSet(Units(S, v))
  PROVE  /\ IsFiniteSet(Units(S \cup {o}, v))
         /\ Cardinality(Units(S \cup {o}, v)) = Cardinality(Units(S, v)) + Demand[o][v]
<1> DEFINE new == {o} \X (1..Demand[o][v])
<1>1. Units(S \cup {o}, v) = Units(S, v) \cup new
  BY DEF Units
<1>2. Units(S, v) \cap new = {}
  BY DEF Units
<1>3. IsFiniteSet(new) /\ Cardinality(new) = Demand[o][v] /\ Demand[o][v] \in Nat
  BY OrderUnits, ConstantsAssumption
<1>4. Cardinality(Units(S, v)) \in Nat
  BY FS_CardinalityType
<1> HIDE DEF new
<1>5. Cardinality({}) = 0
  BY FS_EmptySet
<1>6. /\ IsFiniteSet(Units(S, v) \cup new)
      /\ Cardinality(Units(S, v) \cup new) =
           Cardinality(Units(S, v)) + Cardinality(new) - Cardinality({})
  BY <1>2, <1>3, FS_Union
<1>7. Cardinality(Units(S, v) \cup new) = Cardinality(Units(S, v)) + Demand[o][v]
  BY <1>3, <1>4, <1>5, <1>6
<1>8. QED BY <1>1, <1>6, <1>7

\* One holder less takes away exactly the units it held.
LEMMA DropHolder ==
  ASSUME NEW S \in SUBSET Orders, NEW o \in S,
         NEW v \in Variants, IsFiniteSet(Units(S, v))
  PROVE  /\ IsFiniteSet(Units(S \ {o}, v))
         /\ Cardinality(Units(S, v)) = Cardinality(Units(S \ {o}, v)) + Demand[o][v]
<1>1. Units(S \ {o}, v) \subseteq Units(S, v)
  BY DEF Units
<1>2. IsFiniteSet(Units(S \ {o}, v))
  BY <1>1, FS_Subset
<1>3. (S \ {o}) \cup {o} = S
  OBVIOUS
<1>4. QED BY <1>2, <1>3, AddHolder

LEMMA ReserveHolders ==
  ASSUME TypeInv, NEW w \in Workers, NEW o \in Orders, Reserve(w, o)
  PROVE  o \notin Holders /\ Holders' = Holders \cup {o}
<1>1. ~Holds(o) /\ Holds(o)'
  BY DEF Reserve, Holds, NoOrder, TypeInv, TypeOK
<1>2. \A q \in Orders : q # o => (Holds(q)' <=> Holds(q))
  BY DEF Reserve, Holds, LastMove, TypeInv, TypeOK
<1>3. QED BY <1>1, <1>2 DEF Holders

\* A move leaves a status that holds units, and releases them when it leads to
\* CANCELLED or FAILED or refunds an order that was not shipped.
LEMMA MoveEffect ==
  ASSUME NEW from \in OrderStatuses, NEW to, CanTransition(from, to)
  PROVE  /\ from \in {"PENDING", "CONFIRMED", "PAID", "SHIPPED", "DELIVERED"}
         /\ to \in {"PAID", "SHIPPED", "DELIVERED", "CANCELLED", "FAILED", "REFUNDED"}
         /\ ReleasesStock(from, to) <=>
              \/ to \in {"CANCELLED", "FAILED"}
              \/ from = "PAID" /\ to = "REFUNDED"
<1>1. /\ from = "PENDING" => to \in {"PAID", "CANCELLED", "FAILED"}
      /\ from = "CONFIRMED" => to \in {"SHIPPED", "CANCELLED"}
      /\ from = "PAID" => to \in {"SHIPPED", "REFUNDED"}
      /\ from = "SHIPPED" => to = "DELIVERED"
      /\ from = "DELIVERED" => to = "REFUNDED"
      /\ from \notin {"FAILED", "CANCELLED", "REFUNDED"}
  BY DEF CanTransition, Transitions, OrderStatuses
<1>2. QED BY <1>1 DEF OrderStatuses, ReleasesStock

LEMMA AppliedHolders ==
  ASSUME TypeInv, NEW w \in Workers, TransitionApplied(w),
         NEW o, o = worker[w].o,
         NEW from, from = worker[w].before,
         NEW to, to = worker[w].to
  PROVE  /\ o \in Orders
         /\ IF ReleasesStock(from, to)
              THEN o \in Holders /\ Holders' = Holders \ {o}
              ELSE Holders' = Holders
<1>1. o \in Orders /\ LocalOK(worker[w]) /\ worker[w].at = "commit"
  BY BusyOK DEF TransitionApplied, At, NoOp
<1>2. from \in OrderStatuses /\ status[o] = from /\ CanTransition(from, to)
  BY <1>1 DEF TransitionApplied, LockedStatusOk, LocalOK
<1>3. status'[o] = to
  BY <1>1 DEF TransitionApplied, TypeInv, TypeOK
<1>4. LastMove(o)' = <<from, to>>
  <2>1. history[o] \in Seq((OrderStatuses \cup {NoOrder}) \X OrderStatuses)
    BY <1>1 DEF TypeInv, TypeOK
  <2>2. history'[o] = Append(history[o], <<from, to>>)
    BY <1>1 DEF TransitionApplied, TypeInv, TypeOK
  <2>3. history'[o][Len(history'[o])] = <<from, to>>
    BY <2>1, <2>2
  <2>4. QED BY <2>3 DEF LastMove
<1>5. Holds(o)
  BY <1>2, MoveEffect DEF Holds
<1>6. Holds(o)' <=> ~ReleasesStock(from, to)
  BY <1>2, <1>3, <1>4, MoveEffect DEF Holds
<1>7. \A q \in Orders : q # o => (Holds(q)' <=> Holds(q))
  <2>1. \A q \in Orders : q # o => status'[q] = status[q] /\ history'[q] = history[q]
    BY <1>1 DEF TransitionApplied, TypeInv, TypeOK
  <2>2. QED BY <2>1 DEF Holds, LastMove
<1>8. QED BY <1>1, <1>5, <1>6, <1>7 DEF Holders

\* Nothing else touches the stock column, an order's status or its history.
LEMMA StockUntouched ==
  ASSUME [Next]_vars,
         ~\E w \in Workers : TransitionApplied(w) \/ \E o \in Orders : Reserve(w, o)
  PROVE  UNCHANGED <<status, history, stock>>
<1>1. ASSUME NEW w \in Workers, Continue(w)
      PROVE  UNCHANGED <<status, history, stock>>
  <2>1. CASE Checkout(w)
    BY <2>1 DEF Checkout, CreateProviderOrder, LinkProviderOrder, dbVars
  <2>2. CASE Reconcile(w)
    BY <2>2 DEF Reconcile, ReconcileRead, FetchAnswered, FetchFailed,
                ReplaySnapshot, ReconcileDone, dbVars
  <2>3. CASE ProcessEvent(w)
    BY <2>3 DEF ProcessEvent, LoadEvent, DecideEvent, FinalizeEvent,
                RecordAttempt, RecordAttemptRefused, dbVars
  <2>4. CASE Transition(w)
    BY <2>4 DEF Transition, TransitionRead, TransitionRefused,
                TransitionConverged, dbVars
  <2>5. QED BY <1>1, <2>1, <2>2, <2>3, <2>4 DEF Continue
<1>2. ASSUME NEW w \in Workers, Start(w) \/ Crash(w)
      PROVE  UNCHANGED <<status, history, stock>>
  BY <1>2 DEF Start, StartCancel, StartExpire, StartPoll, StartDirect,
              StartVerify, StartWorker, Crash, dbVars
<1>3. ASSUME Environment
      PROVE  UNCHANGED <<status, history, stock>>
  BY <1>3 DEF Environment, ProviderStep, WebhookDelivery, ReservationLapses, dbVars
<1>4. QED BY <1>1, <1>2, <1>3 DEF Next, vars, dbVars

LEMMA StockStep == TypeInv /\ StockInv /\ [Next]_vars => StockInv'
<1> SUFFICES ASSUME TypeInv, StockInv, [Next]_vars, NEW v \in Variants
             PROVE  /\ IsFiniteSet(Units(Holders', v))
                    /\ stock'[v] + Cardinality(Units(Holders', v)) = InitStock[v]
  BY DEF StockInv, Units
<1>1. /\ IsFiniteSet(Units(Holders, v))
      /\ stock[v] + Cardinality(Units(Holders, v)) = InitStock[v]
      /\ Holders \in SUBSET Orders
  BY DEF StockInv, Holders
<1>2. /\ stock[v] \in Nat
      /\ \A o \in Orders : Demand[o][v] \in Nat
      /\ Cardinality(Units(Holders, v)) \in Nat
  BY <1>1, ConstantsAssumption, FS_CardinalityType DEF TypeInv, TypeOK
<1>3. ASSUME NEW w \in Workers, NEW o \in Orders, Reserve(w, o)
      PROVE  /\ IsFiniteSet(Units(Holders', v))
             /\ stock'[v] + Cardinality(Units(Holders', v)) = InitStock[v]
  <2>1. o \notin Holders /\ Holders' = Holders \cup {o}
    BY <1>3, ReserveHolders
  <2>2. stock'[v] = stock[v] - Demand[o][v]
    BY <1>3 DEF Reserve
  <2>3. /\ IsFiniteSet(Units(Holders', v))
        /\ Cardinality(Units(Holders', v)) =
             Cardinality(Units(Holders, v)) + Demand[o][v]
    BY <1>1, <2>1, AddHolder
  <2>4. QED BY <1>1, <1>2, <2>2, <2>3
<1>4. ASSUME NEW w \in Workers, TransitionApplied(w)
      PROVE  /\ IsFiniteSet(Units(Holders', v))
             /\ stock'[v] + Cardinality(Units(Holders', v)) = InitStock[v]
  <2> DEFINE t == worker[w]
  <2>1. CASE ReleasesStock(t.before, t.to)
    <3>1. t.o \in Orders /\ t.o \in Holders /\ Holders' = Holders \ {t.o}
      BY <1>4, <2>1, AppliedHolders
    <3>2. stock'[v] = stock[v] + Demand[t.o][v]
      BY <1>4, <2>1 DEF TransitionApplied
    <3>3. /\ IsFiniteSet(Units(Holders', v))
          /\ Cardinality(Units(Holders, v)) =
               Cardinality(Units(Holders', v)) + Demand[t.o][v]
      BY <1>1, <3>1, DropHolder
    <3>4. Cardinality(Units(Holders', v)) \in Nat /\ Demand[t.o][v] \in Nat
      BY <1>1, <1>2, <3>1, <3>3, FS_CardinalityType
    <3>5. QED BY <1>1, <1>2, <3>2, <3>3, <3>4
  <2>2. CASE ~ReleasesStock(t.before, t.to)
    <3>1. Holders' = Holders
      BY <1>4, <2>2, AppliedHolders
    <3>2. stock'[v] = stock[v]
      BY <1>4, <2>2 DEF TransitionApplied
    <3>3. QED BY <1>1, <3>1, <3>2
  <2>3. QED BY <2>1, <2>2
<1>5. CASE UNCHANGED <<status, history, stock>>
  <2>1. Holders' = Holders
    BY <1>5 DEF Holders, Holds, LastMove
  <2>2. QED BY <1>1, <1>5, <2>1
<1>6. QED BY <1>3, <1>4, <1>5, StockUntouched

LEMMA InitStockInv == Init => StockInv
<1> SUFFICES ASSUME Init, NEW v \in Variants
             PROVE  /\ IsFiniteSet(Units(Holders, v))
                    /\ stock[v] + Cardinality(Units(Holders, v)) = InitStock[v]
  BY DEF StockInv
<1>1. Holders = {}
  BY DEF Init, Holders, Holds, NoOrder
<1>2. Units(Holders, v) = {}
  BY <1>1 DEF Units
<1>3. stock[v] \in Nat /\ stock[v] = InitStock[v]
  BY ConstantsAssumption DEF Init
<1>4. QED BY <1>2, <1>3, FS_EmptySet

\* No unit of any variant is lost, released twice or sold twice by any
\* interleaving of checkouts, cancellations, expiries, captures and refunds,
\* for any number of orders and workers.
THEOREM StockTheorem == Spec => []StockConserved
<1>1. StockInv => StockConserved
  BY DEF StockInv, StockConserved, HeldUnits, Units, Holders
<1>2. Spec => []StockInv
  BY TypeInvariant, InitStockInv, StockStep, PTL DEF Spec
<1>3. QED BY <1>1, <1>2, PTL

-----------------------------------------------------------------------------
(***************************************************************************)
(* The money of CheckoutPayment, and its refinement of OrderBook.          *)
(***************************************************************************)

Settled == {"PAID", "SHIPPED", "DELIVERED", "REFUNDED"}

(* What a worker knows of its event, its order and its snapshot.  Others   *)
(* run between its steps, so it may only know what never becomes false.    *)
Pays(t) == t.at \in {"read", "commit"} /\ t.to = "PAID"

KnowsOrder(w) == worker[w].at \in {"create", "link"} => status[worker[w].o] # NoOrder

KnowsEvent(w) ==
  LET t == worker[w] IN
  /\ t.at \in {"load", "decide", "finalize", "record"} \/ Pays(t) =>
       event[t.e] # "NONE" /\ OrderOf(PaymentOf(t.e)) = t.o
  /\ Pays(t) \/ t.at = "finalize" => IsCapture(t.e)
  /\ t.at = "finalize" => t.result \in {"PROCESSED", "RECONCILIATION_REQUIRED"}
  /\ t.at = "record" => ~IsCapture(t.e)

KnowsPayment(w) ==
  LET t == worker[w] IN
  /\ Pays(t) => payment[t.o] # "NONE"
  /\ Pays(t) /\ t.at = "commit" => t.hadPayment
  /\ t.at = "finalize" /\ t.result = "PROCESSED" =>
       status[t.o] \in Settled /\ paidBy[t.o] = PaymentOf(t.e)

KnowsSnapshot(w) ==
  \A s \in worker[w].todo :
    /\ OrderOf(s[2]) = worker[w].o
    /\ s[1] = "captured" => provider[s[2]] = "captured"

Known(w) == KnowsOrder(w) /\ KnowsEvent(w) /\ KnowsPayment(w) /\ KnowsSnapshot(w)

KnownInv == \A w \in Workers : Known(w)

\* A stored capture happened at the provider; one that is processed has paid.
CaptureInv ==
  \A e \in EventIds : IsCapture(e) =>
    /\ event[e] # "NONE" => provider[PaymentOf(e)] = "captured"
    /\ event[e] = "PROCESSED" =>
         /\ paidBy[OrderOf(PaymentOf(e))] = PaymentOf(e)
         /\ status[OrderOf(PaymentOf(e))] \in Settled

\* A settled order names the payment that was captured for it.
SettledInv ==
  \A o \in Orders :
    /\ status[o] # "CONFIRMED"
    /\ linked[o] => status[o] # NoOrder
    /\ status[o] \in Settled =>
         paidBy[o] \in PaymentsOf(o) /\ provider[paidBy[o]] = "captured"
    /\ status[o] \in {"PAID", "SHIPPED", "DELIVERED"} => payment[o] = "CAPTURED"

\* The provider takes money once for an order.
Taken == {"authorized", "captured"}
ProviderInv ==
  \A p, q \in Payments :
    OrderOf(p) = OrderOf(q) /\ provider[p] \in Taken /\ provider[q] \in Taken => p = q

MoneyInv == KnownInv /\ CaptureInv /\ SettledInv /\ ProviderInv

-----------------------------------------------------------------------------
(* What never becomes false again.                                         *)
Grows ==
  /\ \A e \in EventIds : event[e] # "NONE" => event'[e] # "NONE"
  /\ \A p \in Payments : provider[p] = "captured" => provider'[p] = "captured"
  /\ \A o \in Orders :
       /\ payment[o] # "NONE" => payment'[o] # "NONE"
       /\ status[o] # NoOrder => status'[o] # NoOrder
       /\ status[o] \in Settled => status'[o] \in Settled /\ paidBy'[o] = paidBy[o]

LEMMA SettledMoves ==
  ASSUME NEW from \in OrderStatuses, NEW to, CanTransition(from, to)
  PROVE  /\ from \in Settled => to \in Settled /\ to # "PAID"
         /\ to = "PAID" => from = "PENDING"
         /\ to \in {"SHIPPED", "DELIVERED", "REFUNDED"} => from \in Settled \cup {"CONFIRMED"}
         /\ to # "CONFIRMED" /\ to # NoOrder /\ to # "PENDING"
         /\ to \in {"CANCELLED", "FAILED"} => from \in {"PENDING", "CONFIRMED"}
         /\ from # "REFUNDED"
<1>1. /\ from = "PENDING" => to \in {"PAID", "CANCELLED", "FAILED"}
      /\ from = "CONFIRMED" => to \in {"SHIPPED", "CANCELLED"}
      /\ from = "PAID" => to \in {"SHIPPED", "REFUNDED"}
      /\ from = "SHIPPED" => to = "DELIVERED"
      /\ from = "DELIVERED" => to = "REFUNDED"
      /\ from \notin {"FAILED", "CANCELLED", "REFUNDED"}
  BY DEF CanTransition, Transitions, OrderStatuses
<1>2. QED BY <1>1 DEF OrderStatuses, Settled, NoOrder

\* The move a transition makes when it is applied.
LEMMA AppliedMove ==
  ASSUME TypeInv, NEW w \in Workers, TransitionApplied(w),
         NEW o, o = worker[w].o,
         NEW from, from = worker[w].before,
         NEW to, to = worker[w].to
  PROVE  /\ o \in Orders /\ from \in OrderStatuses /\ to \in OrderStatuses
         /\ status[o] = from /\ CanTransition(from, to)
         /\ status' = [status EXCEPT ![o] = to] /\ status'[o] = to
         /\ \A q \in Orders : q # o => status'[q] = status[q]
<1>1. o \in Orders /\ LocalOK(worker[w]) /\ worker[w].at = "commit"
  BY BusyOK DEF TransitionApplied, At, NoOp
<1>2. from \in OrderStatuses /\ to \in OrderStatuses /\ status[o] = from /\ CanTransition(from, to)
  BY <1>1 DEF TransitionApplied, LockedStatusOk, LocalOK
<1>3. status' = [status EXCEPT ![o] = to]
  BY DEF TransitionApplied
<1>4. QED BY <1>1, <1>2, <1>3 DEF TypeInv, TypeOK

LEMMA GrowsApplied ==
  ASSUME TypeInv, NEW w \in Workers, TransitionApplied(w)
  PROVE  Grows
<1> DEFINE t == worker[w]
<1>1. PICK o, from, to : o = t.o /\ from = t.before /\ to = t.to
  OBVIOUS
<1>2. /\ o \in Orders /\ from \in OrderStatuses /\ to \in OrderStatuses
      /\ status[o] = from /\ CanTransition(from, to) /\ status'[o] = to
      /\ \A q \in Orders : q # o => status'[q] = status[q]
  BY <1>1, AppliedMove
<1>3. /\ from \in Settled => to \in Settled /\ to # "PAID"
      /\ to # NoOrder
  BY <1>2, SettledMoves
<1>4. \A e \in EventIds : event[e] # "NONE" => event'[e] # "NONE"
  BY DEF TransitionApplied, DoWork, TypeInv, TypeOK
<1>5. \A q \in Orders : payment[q] # "NONE" => payment'[q] # "NONE"
  BY <1>1 DEF TransitionApplied, NewPaymentStatus, TypeInv, TypeOK
<1>6. \A q \in Orders : status[q] \in Settled => paidBy'[q] = paidBy[q]
  BY <1>1, <1>2, <1>3 DEF TransitionApplied, TypeInv, TypeOK
<1>7. provider' = provider
  BY DEF TransitionApplied
<1>8. QED BY <1>2, <1>3, <1>4, <1>5, <1>6, <1>7 DEF Grows

LEMMA GrowsStep == TypeInv /\ KnownInv /\ [Next]_vars => Grows
<1> SUFFICES ASSUME TypeInv, KnownInv, [Next]_vars PROVE Grows
  OBVIOUS
<1>1. ASSUME NEW w \in Workers, Continue(w) PROVE Grows
  <2>1. CASE Checkout(w)
    BY <2>1 DEF Checkout, CreateProviderOrder, LinkProviderOrder, dbVars, Grows, TypeInv, TypeOK
  <2>2. CASE Reconcile(w)
    BY <2>2 DEF Reconcile, ReconcileRead, FetchAnswered, FetchFailed, ReplaySnapshot,
                ReconcileDone, dbVars, Grows, TypeInv, TypeOK
  <2>3. CASE LoadEvent(w) \/ DecideEvent(w) \/ RecordAttemptRefused(w)
    BY <2>3 DEF LoadEvent, DecideEvent, RecordAttemptRefused, dbVars, Grows
  <2>4. CASE FinalizeEvent(w)
    <3>1. PICK t : t = worker[w]
      OBVIOUS
    <3>2. t.at = "finalize" => t.result # "NONE"
      BY <3>1 DEF KnownInv, Known, KnowsEvent
    <3>3. QED BY <2>4, <3>1, <3>2 DEF FinalizeEvent, At, Grows, TypeInv, TypeOK
  <2>5. CASE RecordAttempt(w)
    BY <2>5 DEF RecordAttempt, Grows, TypeInv, TypeOK
  <2>6. CASE TransitionRead(w) \/ TransitionRefused(w)
    BY <2>6 DEF TransitionRead, TransitionRefused, dbVars, Grows
  <2>7. CASE TransitionConverged(w)
    BY <2>7 DEF TransitionConverged, DoWork, Grows, TypeInv, TypeOK
  <2>8. CASE TransitionApplied(w)
    BY <2>8, GrowsApplied
  <2>9. QED BY <1>1, <2>1, <2>2, <2>3, <2>4, <2>5, <2>6, <2>7, <2>8
            DEF Continue, ProcessEvent, Transition
<1>2. ASSUME NEW w \in Workers, Start(w) \/ Crash(w) PROVE Grows
  <2>1. CASE \E o \in Orders : Reserve(w, o)
    BY <2>1 DEF Reserve, Grows, TypeInv, TypeOK, NoOrder, Settled
  <2>2. CASE ~\E o \in Orders : Reserve(w, o)
    BY <1>2, <2>2 DEF Start, StartCancel, StartExpire, StartPoll, StartDirect,
                      StartVerify, StartWorker, Crash, dbVars, Grows
  <2>3. QED BY <2>1, <2>2
<1>3. ASSUME Environment PROVE Grows
  BY <1>3 DEF Environment, ProviderStep, ProviderNext, WebhookDelivery, ReservationLapses,
              dbVars, Grows, TypeInv, TypeOK
<1>4. CASE UNCHANGED vars
  BY <1>4 DEF vars, dbVars, Grows
<1>5. QED BY <1>1, <1>2, <1>3, <1>4 DEF Next

-----------------------------------------------------------------------------
(* What the workers know is kept: by the others because of Grows, by the   *)
(* one that moves because its next place asks for no more than it read.    *)

LEMMA TodoTyped ==
  ASSUME TypeInv, NEW w \in Workers
  PROVE  /\ worker[w].todo \in SUBSET (Kinds \X Payments)
         /\ \A s \in worker[w].todo : s[1] \in Kinds /\ s[2] \in Payments
BY BusyOK DEF WorkerStates

LEMMA KnownKept ==
  ASSUME TypeInv, Grows, NEW w \in Workers, Known(w), worker'[w] = worker[w]
  PROVE  Known(w)'
<1>1. PICK t : t = worker[w]
  OBVIOUS
<1>2. worker'[w] = t /\ LocalOK(t) /\ t.todo \in SUBSET (Kinds \X Payments)
  BY <1>1, BusyOK, TodoTyped
<1>3. KnowsOrder(w)'
  BY <1>1, <1>2 DEF Known, KnowsOrder, Grows, LocalOK, NoOp
<1>4. KnowsEvent(w)'
  BY <1>1, <1>2 DEF Known, KnowsEvent, Pays, Grows, LocalOK, NoOp
<1>5. KnowsPayment(w)'
  BY <1>1, <1>2 DEF Known, KnowsPayment, Pays, Grows, LocalOK, NoOp
<1>6. KnowsSnapshot(w)'
  BY <1>1, <1>2, TodoTyped DEF Known, KnowsSnapshot, Grows
<1>7. QED BY <1>3, <1>4, <1>5, <1>6 DEF Known

LEMMA SetKnown ==
  ASSUME TypeInv, KnownInv, Grows, NEW w \in Workers, NEW u, Set(w, u),
         worker'[w] = u => Known(w)'
  PROVE  KnownInv'
<1>1. worker'[w] = u /\ \A x \in Workers \ {w} : worker'[x] = worker[x]
  BY DEF Set, TypeInv, TypeOK
<1>2. \A x \in Workers \ {w} : Known(x)'
  BY <1>1, KnownKept DEF KnownInv
<1>3. QED BY <1>1, <1>2 DEF KnownInv

\* A place that rests on no event.
LEMMA QuietKnown ==
  ASSUME TypeInv, Grows, NEW w \in Workers, KnowsSnapshot(w), NEW u, worker'[w] = u,
         u.todo = {} \/ (u.todo \subseteq worker[w].todo /\ u.o = worker[w].o),
         u.at \notin {"load", "decide", "finalize", "record"},
         u.at \in {"read", "commit"} => u.to # "PAID",
         u.at \in {"create", "link"} => status'[u.o] # NoOrder
  PROVE  Known(w)'
<1>1. KnowsOrder(w)' /\ KnowsEvent(w)' /\ KnowsPayment(w)'
  BY DEF KnowsOrder, KnowsEvent, KnowsPayment, Pays
<1>2. KnowsSnapshot(w)'
  BY TodoTyped DEF KnowsSnapshot, Grows
<1>3. QED BY <1>1, <1>2 DEF Known

LEMMA IdleFields == Idle.at = NoOp /\ Idle.todo = {}
BY DEF Idle

LEMMA IdleKnown ==
  ASSUME TypeInv, Grows, NEW w \in Workers, KnowsSnapshot(w), worker'[w] = Idle
  PROVE  Known(w)'
BY QuietKnown, IdleFields DEF NoOp

LEMMA BeginFields ==
  ASSUME NEW op, NEW at, NEW o
  PROVE  /\ Begin(op, at, o).at = at /\ Begin(op, at, o).o = o
         /\ Begin(op, at, o).todo = {}
BY DEF Begin, Idle

LEMMA TransitFields ==
  ASSUME NEW t \in WorkerStates, NEW to
  PROVE  /\ Transit(t, to).at = "read" /\ Transit(t, to).to = to
         /\ Transit(t, to).o = t.o /\ Transit(t, to).todo = t.todo
         /\ Transit(t, to).e = t.e
BY DEF Transit, WorkerStates

LEMMA BeginState ==
  ASSUME NEW op \in {"cancel", "orderCancel", "ship", "deliver", "refund"}, NEW o \in Orders
  PROVE  Begin(op, "read", o) \in WorkerStates
BY BeginOK

LEMMA AfterUnpaidFields ==
  ASSUME NEW t \in WorkerStates
  PROVE  LET u == AfterUnpaid(t) IN
         /\ u.todo = {} \/ (u.todo = t.todo /\ u.o = t.o)
         /\ u.at = NoOp \/ (u.at = "read" /\ u.to = "CANCELLED")
BY IdleFields, TransitFields DEF AfterUnpaid

LEMMA AfterEventFields ==
  ASSUME NEW t \in WorkerStates, NEW outcome
  PROVE  LET u == AfterEvent(t, outcome) IN
         /\ u.todo = {} \/ (u.todo = t.todo /\ u.o = t.o)
         /\ u.at \in {NoOp, "next"}
<1>1. LET u == [t EXCEPT !.at = "next", !.e = None, !.result = "NONE",
                         !.to = NoOrder, !.before = NoOrder, !.hadPayment = FALSE]
      IN u.todo = t.todo /\ u.o = t.o /\ u.at = "next"
  BY DEF WorkerStates
<1>2. QED BY <1>1, IdleFields DEF AfterEvent

LEMMA StartKnown ==
  ASSUME TypeInv, KnownInv, Grows, NEW w \in Workers, Start(w)
  PROVE  KnownInv'
<1> KnowsSnapshot(w)
  BY DEF KnownInv, Known
<1>1. ASSUME NEW o \in Orders, Reserve(w, o) PROVE KnownInv'
  <2>1. status'[o] = "PENDING"
    BY <1>1 DEF Reserve, TypeInv, TypeOK
  <2>2. QED BY <1>1, <2>1, SetKnown, QuietKnown, BeginFields DEF Reserve, NoOrder
<1>2. ASSUME NEW o \in Orders, StartCancel(w, o) PROVE KnownInv'
  <2> DEFINE t == Transit(Begin("cancel", "read", o), "CANCELLED")
             b == Begin("cancel", "reconcile", o)
  <2>1. t.at = "read" /\ t.to = "CANCELLED" /\ t.todo = {}
    BY BeginFields, BeginState, TransitFields
  <2>2. b.at = "reconcile" /\ b.todo = {}
    BY BeginFields
  <2>3. Set(w, t) \/ Set(w, b)
    BY <1>2 DEF StartCancel
  <2> HIDE DEF t, b
  <2>4. QED BY <2>1, <2>2, <2>3, SetKnown, QuietKnown
<1>3. ASSUME NEW o \in Orders, StartExpire(w, o) \/ StartPoll(w, o) PROVE KnownInv'
  BY <1>3, SetKnown, QuietKnown, BeginFields DEF StartExpire, StartPoll
<1>4. ASSUME NEW o \in Orders, NEW op \in DOMAIN DirectTargets, StartDirect(w, o, op)
      PROVE  KnownInv'
  <2> DEFINE t == Transit(Begin(op, "read", o), DirectTargets[op])
  <2>1. op \in {"orderCancel", "ship", "deliver", "refund"} /\ DirectTargets[op] # "PAID"
    BY DEF DirectTargets
  <2>2. t.at = "read" /\ t.to # "PAID" /\ t.todo = {}
    BY <2>1, BeginFields, BeginState, TransitFields
  <2>3. Set(w, t)
    BY <1>4 DEF StartDirect
  <2> HIDE DEF t
  <2>4. QED BY <2>2, <2>3, SetKnown, QuietKnown
<1>5. ASSUME NEW p \in Payments, StartVerify(w, p) PROVE KnownInv'
  <2> DEFINE b == Begin("verify", "next", OrderOf(p))
             u == [b EXCEPT !.todo = {<<provider[p], p>>}]
  <2>1. b \in WorkerStates /\ b.at = "next" /\ b.o = OrderOf(p)
    BY BeginOK, BeginFields DEF Payments, OrderOf
  <2> HIDE DEF b
  <2>2. u.at = "next" /\ u.o = OrderOf(p) /\ u.todo = {<<provider[p], p>>}
    BY <2>1 DEF WorkerStates
  <2>3. Set(w, u) /\ provider' = provider
    BY <1>5 DEF StartVerify, b
  <2> HIDE DEF u
  <2>4. ASSUME worker'[w] = u PROVE Known(w)'
    <3>1. KnowsOrder(w)' /\ KnowsEvent(w)' /\ KnowsPayment(w)'
      BY <2>2, <2>4 DEF KnowsOrder, KnowsEvent, KnowsPayment, Pays
    <3>2. KnowsSnapshot(w)'
      BY <2>2, <2>3, <2>4 DEF KnowsSnapshot
    <3>3. QED BY <3>1, <3>2 DEF Known
  <2>5. QED BY <2>3, <2>4, SetKnown
<1>6. ASSUME NEW e \in EventIds, StartWorker(w, e) PROVE KnownInv'
  <2> DEFINE b == Begin("worker", "load", OrderOf(PaymentOf(e)))
             u == [b EXCEPT !.e = e]
  <2>1. b \in WorkerStates /\ b.at = "load" /\ b.o = OrderOf(PaymentOf(e)) /\ b.todo = {}
    BY BeginOK, BeginFields DEF EventIds, Payments, OrderOf, PaymentOf
  <2> HIDE DEF b
  <2>2. u.at = "load" /\ u.o = OrderOf(PaymentOf(e)) /\ u.todo = {} /\ u.e = e
    BY <2>1 DEF WorkerStates
  <2>3. Set(w, u) /\ event'[e] # "NONE"
    BY <1>6 DEF StartWorker, b, dbVars
  <2> HIDE DEF u
  <2>4. ASSUME worker'[w] = u PROVE Known(w)'
    BY <2>2, <2>3, <2>4
    DEF Known, KnowsOrder, KnowsEvent, KnowsPayment, KnowsSnapshot, Pays
  <2>5. QED BY <2>3, <2>4, SetKnown
<1>7. QED BY <1>1, <1>2, <1>3, <1>4, <1>5, <1>6 DEF Start

LEMMA CheckoutKnown ==
  ASSUME TypeInv, KnownInv, Grows, NEW w \in Workers, Checkout(w)
  PROVE  KnownInv'
<1>1. PICK t : t = worker[w]
  OBVIOUS
<1>2. t \in WorkerStates /\ KnowsSnapshot(w) /\ KnowsOrder(w)
  BY <1>1, BusyOK DEF KnownInv, Known
<1>3. CASE CreateProviderOrder(w)
  <2> DEFINE u == [t EXCEPT !.at = "link"]
             v == Transit(t, "FAILED")
  <2>1. u.at = "link" /\ u.o = t.o /\ u.todo = t.todo
    BY <1>2 DEF WorkerStates
  <2>2. v.at = "read" /\ v.to = "FAILED" /\ v.o = t.o /\ v.todo = t.todo
    BY <1>2, TransitFields
  <2>3. Set(w, u) \/ Set(w, v)
    BY <1>1, <1>3 DEF CreateProviderOrder
  <2>4. status'[t.o] # NoOrder
    BY <1>1, <1>2, <1>3 DEF CreateProviderOrder, At, KnowsOrder, dbVars
  <2> HIDE DEF u, v
  <2>5. QED BY <1>1, <1>2, <2>1, <2>2, <2>3, <2>4, SetKnown, QuietKnown
<1>4. CASE LinkProviderOrder(w)
  BY <1>2, <1>4, SetKnown, IdleKnown DEF LinkProviderOrder
<1>5. QED BY <1>3, <1>4 DEF Checkout

LEMMA ReconcileKnown ==
  ASSUME TypeInv, KnownInv, Grows, NEW w \in Workers, Reconcile(w)
  PROVE  KnownInv'
<1>1. PICK t : t = worker[w]
  OBVIOUS
<1>2. /\ t \in WorkerStates /\ KnowsSnapshot(w)
      /\ t.todo \in SUBSET (Kinds \X Payments)
  BY <1>1, BusyOK, TodoTyped DEF KnownInv, Known
<1>3. CASE ReconcileRead(w)
  <2> DEFINE u == [t EXCEPT !.at = "fetch"]
             v == AfterUnpaid(t)
  <2>1. u.at = "fetch" /\ u.o = t.o /\ u.todo = t.todo
    BY <1>2 DEF WorkerStates
  <2>2. /\ v.todo = {} \/ (v.todo = t.todo /\ v.o = t.o)
        /\ v.at = NoOp \/ (v.at = "read" /\ v.to = "CANCELLED")
    BY <1>2, AfterUnpaidFields
  <2>3. Set(w, u) \/ Set(w, v) \/ Set(w, Idle)
    BY <1>1, <1>3 DEF ReconcileRead
  <2> HIDE DEF u, v
  <2>4. QED BY <1>1, <1>2, <2>1, <2>2, <2>3, SetKnown, QuietKnown, IdleKnown DEF NoOp
<1>4. CASE FetchAnswered(w)
  <2> DEFINE todo == {<<provider[p], p>> : p \in {q \in PaymentsOf(t.o) : HasEvent(provider[q])}}
             open == \E p \in PaymentsOf(t.o) : KeepsOpen(provider[p])
             u == [t EXCEPT !.at = "next", !.todo = todo, !.open = open]
  <2>1. /\ \A s \in todo : OrderOf(s[2]) = t.o /\ s[1] = provider[s[2]]
        /\ provider' = provider
    BY <1>4 DEF PaymentsOf, FetchAnswered
  <2> HIDE DEF todo, open
  <2>2. u.at = "next" /\ u.o = t.o /\ u.todo = todo
    BY <1>2 DEF WorkerStates
  <2>3. Set(w, u)
    BY <1>1, <1>4 DEF FetchAnswered, todo, open
  <2> HIDE DEF u
  <2>4. ASSUME worker'[w] = u PROVE Known(w)'
    <3>1. KnowsOrder(w)' /\ KnowsEvent(w)' /\ KnowsPayment(w)'
      BY <2>2, <2>4 DEF KnowsOrder, KnowsEvent, KnowsPayment, Pays
    <3>2. KnowsSnapshot(w)'
      BY <2>1, <2>2, <2>4 DEF KnowsSnapshot
    <3>3. QED BY <3>1, <3>2 DEF Known
  <2>5. QED BY <2>3, <2>4, SetKnown
<1>5. CASE FetchFailed(w)
  BY <1>2, <1>5, SetKnown, IdleKnown DEF FetchFailed
<1>6. ASSUME NEW s \in Kinds \X Payments, ReplaySnapshot(w, s) PROVE KnownInv'
  <2> DEFINE e == Event(s[1], s[2], "composite")
             u == [t EXCEPT !.at = "load", !.e = e, !.todo = @ \ {s}]
  <2>1. e \in EventIds /\ PaymentOf(e) = s[2] /\ event'[e] # "NONE"
    BY <1>6 DEF Event, EventIds, PaymentOf, ReplaySnapshot, TypeInv, TypeOK
  <2>2. s \in t.todo /\ OrderOf(s[2]) = t.o
    BY <1>1, <1>2, <1>6 DEF ReplaySnapshot, KnowsSnapshot
  <2> HIDE DEF e
  <2>3. u.at = "load" /\ u.o = t.o /\ u.e = e /\ u.todo = t.todo \ {s}
    BY <1>2 DEF WorkerStates
  <2>4. Set(w, u)
    BY <1>1, <1>6 DEF ReplaySnapshot, e
  <2> HIDE DEF u
  <2>5. ASSUME worker'[w] = u PROVE Known(w)'
    <3>1. KnowsOrder(w)' /\ KnowsEvent(w)' /\ KnowsPayment(w)'
      BY <2>1, <2>2, <2>3, <2>5 DEF KnowsOrder, KnowsEvent, KnowsPayment, Pays
    <3>2. KnowsSnapshot(w)'
      BY <1>1, <1>2, <2>3, <2>5, TodoTyped DEF KnowsSnapshot, Grows
    <3>3. QED BY <3>1, <3>2 DEF Known
  <2>6. QED BY <2>4, <2>5, SetKnown
<1>7. CASE ReconcileDone(w)
  <2> DEFINE v == AfterUnpaid(t)
  <2>1. /\ v.todo = {} \/ (v.todo = t.todo /\ v.o = t.o)
        /\ v.at = NoOp \/ (v.at = "read" /\ v.to = "CANCELLED")
    BY <1>2, AfterUnpaidFields
  <2>2. Set(w, v) \/ Set(w, Idle)
    BY <1>1, <1>7 DEF ReconcileDone
  <2> HIDE DEF v
  <2>3. QED BY <1>1, <1>2, <2>1, <2>2, SetKnown, QuietKnown, IdleKnown DEF NoOp
<1>8. QED BY <1>3, <1>4, <1>5, <1>6, <1>7 DEF Reconcile

\* A worker that goes on after its event.
LEMMA AfterEventKnown ==
  ASSUME TypeInv, KnownInv, Grows, NEW w \in Workers, NEW outcome,
         Set(w, AfterEvent(worker[w], outcome))
  PROVE  KnownInv'
<1>1. PICK t : t = worker[w]
  OBVIOUS
<1>2. t \in WorkerStates /\ KnowsSnapshot(w)
  BY <1>1, BusyOK DEF KnownInv, Known
<1> DEFINE u == AfterEvent(t, outcome)
<1>3. /\ u.todo = {} \/ (u.todo = t.todo /\ u.o = t.o)
      /\ u.at \in {NoOp, "next"} /\ Set(w, u)
  BY <1>1, <1>2, AfterEventFields
<1> HIDE DEF u
<1>4. QED BY <1>1, <1>2, <1>3, SetKnown, QuietKnown DEF NoOp

\* PROCESSED without a move: the order is settled by this very payment.
LEMMA DecisionKnown ==
  ASSUME SettledInv, NEW o \in Orders, NEW p, CaptureDecision(o, p) = "PROCESSED"
  PROVE  status[o] \in Settled /\ paidBy[o] = p
<1>1. /\ status[o] = "PAID" /\ payment[o] = "CAPTURED"
      /\ paidBy[o] = None \/ paidBy[o] = p
  BY DEF CaptureDecision
<1>2. paidBy[o] \in PaymentsOf(o)
  BY <1>1 DEF SettledInv, Settled
<1>3. paidBy[o] # None
  <2>1. PICK a, b : paidBy[o] = <<a, b>>
    BY <1>2 DEF PaymentsOf, Payments
  <2>2. Len(<<a, b>>) = 2 /\ Len(<<>>) = 0
    OBVIOUS
  <2>3. QED BY <2>1, <2>2 DEF None
<1>4. QED BY <1>1, <1>3 DEF Settled

LEMMA ProcessEventKnown ==
  ASSUME TypeInv, KnownInv, SettledInv, Grows, NEW w \in Workers, ProcessEvent(w)
  PROVE  KnownInv'
<1>1. PICK t : t = worker[w]
  OBVIOUS
<1>2. t \in WorkerStates /\ KnowsSnapshot(w) /\ KnowsEvent(w) /\ LocalOK(t)
  BY <1>1, BusyOK DEF KnownInv, Known
<1>3. t.e \in EventIds /\ t.o \in Orders /\ event[t.e] # "NONE" /\ OrderOf(PaymentOf(t.e)) = t.o
  BY <1>1, <1>2
  DEF ProcessEvent, LoadEvent, DecideEvent, FinalizeEvent, RecordAttempt,
      RecordAttemptRefused, At, NoOp, LocalOK, KnowsEvent
<1>4. event'[t.e] # "NONE"
  BY <1>3 DEF Grows
<1>5. CASE LoadEvent(w)
  <2> DEFINE u == [t EXCEPT !.at = "decide"]
  <2>1. u.at = "decide" /\ u.o = t.o /\ u.e = t.e /\ u.todo = t.todo
    BY <1>2 DEF WorkerStates
  <2>2. Set(w, u) \/ Set(w, AfterEvent(t, event[t.e]))
    BY <1>1, <1>5 DEF LoadEvent
  <2> HIDE DEF u
  <2>3. ASSUME worker'[w] = u PROVE Known(w)'
    <3>1. KnowsOrder(w)' /\ KnowsEvent(w)' /\ KnowsPayment(w)'
      BY <1>3, <1>4, <2>1, <2>3 DEF KnowsOrder, KnowsEvent, KnowsPayment, Pays
    <3>2. KnowsSnapshot(w)'
      BY <1>1, <1>2, <2>1, <2>3, TodoTyped DEF KnowsSnapshot, Grows
    <3>3. QED BY <3>1, <3>2 DEF Known
  <2>4. QED BY <1>1, <2>2, <2>3, SetKnown, AfterEventKnown
<1>6. CASE DecideEvent(w)
  <2> DEFINE d == CaptureDecision(t.o, PaymentOf(t.e))
             r == [t EXCEPT !.at = "record"]
             f == [t EXCEPT !.at = "finalize", !.result = d]
             p == Transit(t, "PAID")
  <2>1. /\ d = "APPLY" => payment[t.o] # "NONE"
        /\ d \in {"APPLY", "PROCESSED", "RECONCILIATION_REQUIRED"}
    BY DEF CaptureDecision
  <2>2. d = "PROCESSED" => status[t.o] \in Settled /\ paidBy[t.o] = PaymentOf(t.e)
    BY <1>3, DecisionKnown
  <2>3. UNCHANGED <<payment, status, paidBy, provider>>
    BY <1>6 DEF DecideEvent, dbVars
  <2> HIDE DEF d
  <2>4. /\ r.at = "record" /\ r.o = t.o /\ r.e = t.e /\ r.todo = t.todo
        /\ f.at = "finalize" /\ f.o = t.o /\ f.e = t.e /\ f.todo = t.todo /\ f.result = d
    BY <1>2 DEF WorkerStates
  <2>5. p.at = "read" /\ p.to = "PAID" /\ p.o = t.o /\ p.e = t.e /\ p.todo = t.todo
    BY <1>2, TransitFields
  <2>6. \/ ~IsCapture(t.e) /\ Set(w, r)
        \/ IsCapture(t.e) /\ d = "APPLY" /\ Set(w, p)
        \/ IsCapture(t.e) /\ d # "APPLY" /\ Set(w, f)
    BY <1>1, <1>6 DEF DecideEvent, d
  <2> HIDE DEF r, f, p
  <2>7. ASSUME NEW u, worker'[w] = u, u.todo = t.todo, u.o = t.o PROVE KnowsSnapshot(w)'
    BY <1>1, <1>2, <2>7, TodoTyped DEF KnowsSnapshot, Grows
  <2>8. ASSUME ~IsCapture(t.e), worker'[w] = r PROVE Known(w)'
    BY <1>3, <1>4, <2>4, <2>7, <2>8 DEF Known, KnowsOrder, KnowsEvent, KnowsPayment, Pays
  <2>9. ASSUME IsCapture(t.e), d = "APPLY", worker'[w] = p PROVE Known(w)'
    BY <1>3, <1>4, <2>1, <2>3, <2>5, <2>7, <2>9
    DEF Known, KnowsOrder, KnowsEvent, KnowsPayment, Pays
  <2>10. ASSUME IsCapture(t.e), d # "APPLY", worker'[w] = f PROVE Known(w)'
    BY <1>3, <1>4, <2>1, <2>2, <2>3, <2>4, <2>7, <2>10
    DEF Known, KnowsOrder, KnowsEvent, KnowsPayment, Pays
  <2>11. QED BY <2>6, <2>8, <2>9, <2>10, SetKnown
<1>7. CASE FinalizeEvent(w)
  BY <1>7, AfterEventKnown DEF FinalizeEvent
<1>8. CASE RecordAttempt(w)
  BY <1>8, AfterEventKnown DEF RecordAttempt
<1>9. CASE RecordAttemptRefused(w)
  BY <1>2, <1>9, SetKnown, IdleKnown DEF RecordAttemptRefused
<1>10. QED BY <1>5, <1>6, <1>7, <1>8, <1>9 DEF ProcessEvent

LEMMA TransitionKnown ==
  ASSUME TypeInv, KnownInv, Grows, NEW w \in Workers, Transition(w)
  PROVE  KnownInv'
<1>1. PICK t : t = worker[w]
  OBVIOUS
<1>2. /\ t \in WorkerStates /\ LocalOK(t)
      /\ KnowsSnapshot(w) /\ KnowsEvent(w) /\ KnowsPayment(w)
  BY <1>1, BusyOK DEF KnownInv, Known
<1>3. CASE TransitionRead(w)
  <2> DEFINE before == status[t.o]
             hadPayment == payment[t.o] # "NONE"
             u == [t EXCEPT !.at = "commit", !.before = before, !.hadPayment = hadPayment]
  <2>1. /\ u.at = "commit" /\ u.to = t.to /\ u.o = t.o /\ u.e = t.e /\ u.todo = t.todo
        /\ u.hadPayment = hadPayment
    BY <1>2 DEF WorkerStates
  <2>2. Set(w, u) \/ Set(w, Idle)
    BY <1>1, <1>3 DEF TransitionRead
  <2>3. t.at = "read" /\ UNCHANGED payment
    BY <1>1, <1>3 DEF TransitionRead, At, dbVars
  <2>4. t.to = "PAID" => /\ IsCapture(t.e) /\ hadPayment /\ payment'[t.o] # "NONE"
                         /\ event'[t.e] # "NONE" /\ OrderOf(PaymentOf(t.e)) = t.o
    <3>1. t.to = "PAID" => t.e \in EventIds
      BY <1>2, <2>3 DEF LocalOK
    <3>2. QED BY <1>1, <1>2, <2>3, <3>1 DEF KnowsEvent, KnowsPayment, Pays, Grows
  <2> HIDE DEF u, before, hadPayment
  <2>5. ASSUME worker'[w] = u PROVE Known(w)'
    <3>1. KnowsOrder(w)' /\ KnowsEvent(w)' /\ KnowsPayment(w)'
      BY <2>1, <2>4, <2>5 DEF KnowsOrder, KnowsEvent, KnowsPayment, Pays
    <3>2. KnowsSnapshot(w)'
      BY <1>1, <1>2, <2>1, <2>5, TodoTyped DEF KnowsSnapshot, Grows
    <3>3. QED BY <3>1, <3>2 DEF Known
  <2>6. QED BY <1>2, <2>2, <2>5, SetKnown, IdleKnown
<1>4. ASSUME Set(w, AfterTransition(t)) PROVE KnownInv'
  BY <1>1, <1>2, <1>4, AfterEventKnown, SetKnown, IdleKnown DEF AfterTransition
<1>5. CASE TransitionRefused(w)
  BY <1>2, <1>5, SetKnown, IdleKnown DEF TransitionRefused
<1>6. CASE TransitionConverged(w)
  BY <1>1, <1>4, <1>6 DEF TransitionConverged
<1>7. CASE TransitionApplied(w)
  BY <1>1, <1>4, <1>7 DEF TransitionApplied
<1>8. QED BY <1>3, <1>5, <1>6, <1>7 DEF Transition

LEMMA KnownStep == TypeInv /\ KnownInv /\ SettledInv /\ [Next]_vars => KnownInv'
<1> SUFFICES ASSUME TypeInv, KnownInv, SettledInv, [Next]_vars PROVE KnownInv'
  OBVIOUS
<1>1. Grows
  BY GrowsStep
<1>2. ASSUME NEW w \in Workers, Start(w) \/ Continue(w) PROVE KnownInv'
  BY <1>1, <1>2, StartKnown, CheckoutKnown, ReconcileKnown, ProcessEventKnown, TransitionKnown
  DEF Continue
<1>3. ASSUME NEW w \in Workers, Crash(w) PROVE KnownInv'
  BY <1>1, <1>3, SetKnown, IdleKnown DEF Crash, KnownInv, Known
<1>4. ASSUME UNCHANGED worker PROVE KnownInv'
  BY <1>1, <1>4, KnownKept DEF KnownInv
<1>5. CASE Environment \/ UNCHANGED vars
  BY <1>4, <1>5 DEF Environment, ProviderStep, WebhookDelivery, ReservationLapses, vars
<1>6. QED BY <1>2, <1>3, <1>5 DEF Next

-----------------------------------------------------------------------------
(* The rows.                                                               *)

\* An event changes alone, and a capture among them keeps what it means.
LEMMA CaptureKept ==
  ASSUME TypeInv, Grows, CaptureInv, NEW e0,
         \A e \in EventIds : e # e0 => event'[e] \in {event[e], "UNPROCESSED"} /\
                                       (event[e] = "NONE" => event'[e] = "NONE"),
         e0 \in EventIds /\ IsCapture(e0) =>
           /\ event'[e0] # "NONE" => provider'[PaymentOf(e0)] = "captured"
           /\ event'[e0] = "PROCESSED" =>
                /\ paidBy'[OrderOf(PaymentOf(e0))] = PaymentOf(e0)
                /\ status'[OrderOf(PaymentOf(e0))] \in Settled
  PROVE  CaptureInv'
<1>1. \A e \in EventIds : PaymentOf(e) \in Payments /\ OrderOf(PaymentOf(e)) \in Orders
  BY DEF EventIds, PaymentOf, OrderOf, Payments
<1>2. SUFFICES ASSUME NEW e \in EventIds, IsCapture(e)
               PROVE  /\ event'[e] # "NONE" => provider'[PaymentOf(e)] = "captured"
                      /\ event'[e] = "PROCESSED" =>
                           /\ paidBy'[OrderOf(PaymentOf(e))] = PaymentOf(e)
                           /\ status'[OrderOf(PaymentOf(e))] \in Settled
  BY DEF CaptureInv
<1>3. CASE e = e0
  BY <1>2, <1>3
<1>4. CASE e # e0
  BY <1>1, <1>2, <1>4 DEF CaptureInv, Grows
<1>5. QED BY <1>3, <1>4

LEMMA CaptureUntouched ==
  ASSUME TypeInv, Grows, CaptureInv, UNCHANGED event
  PROVE  CaptureInv'
<1>1. \A e \in EventIds : PaymentOf(e) \in Payments /\ OrderOf(PaymentOf(e)) \in Orders
  BY DEF EventIds, PaymentOf, OrderOf, Payments
<1>2. QED BY <1>1 DEF CaptureInv, Grows

LEMMA SettledUntouched ==
  ASSUME TypeInv, Grows, SettledInv, UNCHANGED <<status, payment, paidBy, linked>>
  PROVE  SettledInv'
BY DEF SettledInv, Grows, PaymentsOf

LEMMA ProviderStepInv ==
  ASSUME TypeInv, ProviderInv, [Next]_vars
  PROVE  ProviderInv'
<1>1. CASE UNCHANGED provider
  BY <1>1 DEF ProviderInv
<1>2. ASSUME NEW r \in Payments, NEW s \in ProviderNext(provider[r]), ProviderStep(r, s)
      PROVE  ProviderInv'
  <2>1. /\ s = "captured" => provider[r] = "authorized"
        /\ s \in {"authorized", "captured"} => s = "authorized" \/ provider[r] = "authorized"
    BY <1>2 DEF ProviderNext
  <2>2. \A p \in Payments : provider'[p] = IF p = r THEN s ELSE provider[p]
    BY <1>2 DEF ProviderStep, TypeInv, TypeOK
  <2>3. s = "authorized" =>
          \A q \in Payments : OrderOf(q) = OrderOf(r) /\ q # r => provider[q] \notin Taken
    BY <1>2 DEF ProviderStep, PaymentsOf, Taken
  <2>4. QED BY <2>1, <2>2, <2>3 DEF ProviderInv, Taken
<1>3. CASE Environment
  BY <1>1, <1>2, <1>3 DEF Environment, WebhookDelivery, ReservationLapses
<1>4. ASSUME NEW w \in Workers, Start(w) \/ Continue(w) \/ Crash(w) PROVE UNCHANGED provider
  <2>1. CASE Start(w) \/ Crash(w)
    BY <2>1 DEF Start, Reserve, StartCancel, StartExpire, StartPoll, StartDirect,
                StartVerify, StartWorker, Crash
  <2>2. CASE Checkout(w)
    BY <2>2 DEF Checkout, CreateProviderOrder, LinkProviderOrder
  <2>3. CASE Reconcile(w)
    BY <2>3 DEF Reconcile, ReconcileRead, FetchAnswered, FetchFailed, ReplaySnapshot,
                ReconcileDone
  <2>4. CASE ProcessEvent(w)
    BY <2>4 DEF ProcessEvent, LoadEvent, DecideEvent, FinalizeEvent, RecordAttempt,
                RecordAttemptRefused
  <2>5. CASE Transition(w)
    BY <2>5 DEF Transition, TransitionRead, TransitionRefused, TransitionConverged,
                TransitionApplied
  <2>6. QED BY <1>4, <2>1, <2>2, <2>3, <2>4, <2>5 DEF Continue
<1>5. QED BY <1>1, <1>3, <1>4 DEF Next, vars

\* A transition to PAID is for a capture of this order's payment.
LEMMA PaysKnown ==
  ASSUME TypeInv, KnownInv, CaptureInv, NEW w \in Workers, NEW t, t = worker[w],
         t.at = "commit", t.to = "PAID"
  PROVE  /\ t.e \in EventIds /\ IsCapture(t.e) /\ t.hadPayment
         /\ PaymentOf(t.e) \in PaymentsOf(t.o)
         /\ provider[PaymentOf(t.e)] = "captured"
<1>1. Known(w) /\ LocalOK(t)
  BY BusyOK DEF KnownInv
<1>2. /\ t.e \in EventIds /\ IsCapture(t.e) /\ t.hadPayment
      /\ event[t.e] # "NONE" /\ OrderOf(PaymentOf(t.e)) = t.o
  BY <1>1 DEF Known, KnowsEvent, KnowsPayment, Pays, LocalOK
<1>3. PaymentOf(t.e) \in Payments
  BY <1>2 DEF EventIds, PaymentOf
<1>4. QED BY <1>2, <1>3 DEF CaptureInv, PaymentsOf

LEMMA AppliedSettled ==
  ASSUME TypeInv, KnownInv, CaptureInv, SettledInv, Grows,
         NEW w \in Workers, TransitionApplied(w)
  PROVE  SettledInv'
<1>1. PICK t, o, from, to : t = worker[w] /\ o = t.o /\ from = t.before /\ to = t.to
  OBVIOUS
<1>2. /\ o \in Orders /\ from \in OrderStatuses /\ to \in OrderStatuses
      /\ status[o] = from /\ CanTransition(from, to) /\ status'[o] = to
      /\ \A q \in Orders : q # o => status'[q] = status[q]
  BY <1>1, AppliedMove
<1>3. /\ from \in Settled => to \in Settled /\ to # "PAID"
      /\ to = "PAID" => from = "PENDING"
      /\ to \in {"SHIPPED", "DELIVERED", "REFUNDED"} => from \in Settled \cup {"CONFIRMED"}
      /\ to # "CONFIRMED" /\ to # NoOrder /\ from # "CONFIRMED" /\ from # "REFUNDED"
  BY <1>2, SettledMoves DEF SettledInv
<1>4. UNCHANGED <<linked, provider>> /\ t.at = "commit"
  BY <1>1 DEF TransitionApplied, At
<1>5. \A q \in Orders : q # o => payment'[q] = payment[q] /\ paidBy'[q] = paidBy[q]
  BY <1>1 DEF TransitionApplied, TypeInv, TypeOK
<1>6. CASE to = "PAID"
  <2>1. t.hadPayment /\ PaymentOf(t.e) \in PaymentsOf(o) /\ provider[PaymentOf(t.e)] = "captured"
    BY <1>1, <1>4, <1>6, PaysKnown
  <2>2. payment'[o] = "CAPTURED" /\ paidBy'[o] = PaymentOf(t.e)
    BY <1>1, <1>2, <1>6, <2>1 DEF TransitionApplied, NewPaymentStatus, TypeInv, TypeOK
  <2>3. QED BY <1>2, <1>3, <1>4, <1>5, <1>6, <2>1, <2>2 DEF SettledInv, PaymentsOf
<1>7. CASE to \in {"SHIPPED", "DELIVERED"}
  <2>1. payment'[o] = payment[o] /\ paidBy'[o] = paidBy[o]
    BY <1>1, <1>2, <1>7 DEF TransitionApplied, NewPaymentStatus, Expires, TypeInv, TypeOK
  <2>2. from \in {"PAID", "SHIPPED", "DELIVERED"}
    BY <1>3, <1>7 DEF Settled
  <2>3. QED BY <1>2, <1>3, <1>4, <1>5, <1>7, <2>1, <2>2 DEF SettledInv, Settled, PaymentsOf
<1>8. CASE to = "REFUNDED"
  <2>1. paidBy'[o] = paidBy[o] /\ from \in Settled
    BY <1>1, <1>2, <1>3, <1>8 DEF TransitionApplied, TypeInv, TypeOK
  <2>2. QED BY <1>2, <1>3, <1>4, <1>5, <1>8, <2>1 DEF SettledInv, Settled, PaymentsOf
<1>9. CASE to \notin Settled
  BY <1>2, <1>3, <1>4, <1>5, <1>9 DEF SettledInv, Settled, PaymentsOf
<1>10. QED BY <1>6, <1>7, <1>8, <1>9 DEF Settled

LEMMA SettledStep ==
  TypeInv /\ MoneyInv /\ [Next]_vars => SettledInv'
<1> SUFFICES ASSUME TypeInv, MoneyInv, [Next]_vars PROVE SettledInv'
  OBVIOUS
<1>1. Grows /\ KnownInv /\ CaptureInv /\ SettledInv
  BY GrowsStep DEF MoneyInv
<1>2. CASE UNCHANGED <<status, payment, paidBy, linked>>
  BY <1>1, <1>2, SettledUntouched
<1>3. ASSUME NEW w \in Workers, NEW o \in Orders, Reserve(w, o) PROVE SettledInv'
  <2>1. /\ status'[o] = "PENDING" /\ UNCHANGED <<payment, paidBy, linked, provider>>
        /\ \A q \in Orders : q # o => status'[q] = status[q]
    BY <1>3 DEF Reserve, TypeInv, TypeOK
  <2>2. QED BY <1>1, <2>1 DEF SettledInv, Settled, NoOrder, PaymentsOf
<1>4. ASSUME NEW w \in Workers, LinkProviderOrder(w) PROVE SettledInv'
  <2>1. PICK o : o = worker[w].o
    OBVIOUS
  <2>2. o \in Orders /\ status[o] # NoOrder
    BY <1>1, <1>4, <2>1, BusyOK DEF LinkProviderOrder, At, NoOp, KnownInv, Known, KnowsOrder
  <2>3. /\ UNCHANGED <<status, paidBy, provider>>
        /\ \A q \in Orders : payment[q] # "NONE" => payment'[q] = payment[q]
        /\ \A q \in Orders : q # o => linked'[q] = linked[q]
    BY <1>4, <2>1 DEF LinkProviderOrder, TypeInv, TypeOK
  <2>4. QED BY <1>1, <2>2, <2>3 DEF SettledInv, PaymentsOf
<1>5. ASSUME NEW w \in Workers, RecordAttempt(w) PROVE SettledInv'
  <2>1. /\ UNCHANGED <<status, paidBy, provider, linked>>
        /\ \A q \in Orders : payment[q] = "CAPTURED" => payment'[q] = "CAPTURED"
    BY <1>5 DEF RecordAttempt, TypeInv, TypeOK
  <2>2. QED BY <1>1, <2>1 DEF SettledInv, PaymentsOf
<1>6. ASSUME NEW w \in Workers, TransitionApplied(w) PROVE SettledInv'
  BY <1>1, <1>6, AppliedSettled
<1>7. ASSUME NEW w \in Workers, Continue(w), ~LinkProviderOrder(w), ~RecordAttempt(w),
             ~TransitionApplied(w)
      PROVE  UNCHANGED <<status, payment, paidBy, linked>>
  <2>1. CASE Checkout(w) \/ Reconcile(w)
    BY <1>7, <2>1
    DEF Checkout, CreateProviderOrder, Reconcile, ReconcileRead, FetchAnswered, FetchFailed,
        ReplaySnapshot, ReconcileDone, dbVars
  <2>2. CASE ProcessEvent(w)
    BY <1>7, <2>2 DEF ProcessEvent, LoadEvent, DecideEvent, FinalizeEvent,
                      RecordAttemptRefused, dbVars
  <2>3. CASE Transition(w)
    BY <1>7, <2>3 DEF Transition, TransitionRead, TransitionRefused, TransitionConverged, dbVars
  <2>4. QED BY <1>7, <2>1, <2>2, <2>3 DEF Continue
<1>8. ASSUME NEW w \in Workers, Start(w) \/ Crash(w), ~\E o \in Orders : Reserve(w, o)
      PROVE  UNCHANGED <<status, payment, paidBy, linked>>
  BY <1>8 DEF Start, StartCancel, StartExpire, StartPoll, StartDirect, StartVerify,
              StartWorker, Crash, dbVars
<1>9. ASSUME Environment \/ UNCHANGED vars PROVE UNCHANGED <<status, payment, paidBy, linked>>
  BY <1>9 DEF Environment, ProviderStep, WebhookDelivery, ReservationLapses, vars, dbVars
<1>10. ASSUME NEW w \in Workers, Continue(w) PROVE SettledInv'
  BY <1>2, <1>4, <1>5, <1>6, <1>7, <1>10
<1>11. ASSUME NEW w \in Workers, Start(w) \/ Crash(w) PROVE SettledInv'
  BY <1>2, <1>3, <1>8, <1>11
<1>12. QED BY <1>2, <1>9, <1>10, <1>11 DEF Next

LEMMA CaptureStep ==
  TypeInv /\ MoneyInv /\ [Next]_vars => CaptureInv'
<1> SUFFICES ASSUME TypeInv, MoneyInv, [Next]_vars PROVE CaptureInv'
  OBVIOUS
<1>1. Grows /\ KnownInv /\ CaptureInv /\ SettledInv /\ ProviderInv
  BY GrowsStep DEF MoneyInv
<1>2. CASE UNCHANGED event
  BY <1>1, <1>2, CaptureUntouched
<1>3. \A e \in EventIds : PaymentOf(e) \in Payments /\ OrderOf(PaymentOf(e)) \in Orders
  BY DEF EventIds, PaymentOf, OrderOf, Payments
<1>4. ASSUME NEW k \in Kinds, NEW p \in Payments, WebhookDelivery(k, p) PROVE CaptureInv'
  <2> DEFINE e == Event(k, p, IF HeaderIds THEN "header" ELSE "composite")
  <2>1. e \in EventIds /\ KindOf(e) = k /\ PaymentOf(e) = p
    BY DEF Event, EventIds, KindOf, PaymentOf
  <2> HIDE DEF e
  <2>2. /\ event'[e] = "UNPROCESSED" /\ UNCHANGED provider
        /\ \A f \in EventIds : f # e => event'[f] = event[f]
    BY <1>4, <2>1 DEF WebhookDelivery, e, TypeInv, TypeOK
  <2>3. k = "captured" => provider[p] = "captured"
    BY <1>4 DEF WebhookDelivery, Occurred
  <2>4. QED BY <1>1, <2>1, <2>2, <2>3, CaptureKept DEF IsCapture
<1>5. ASSUME NEW w \in Workers, NEW s \in Kinds \X Payments, ReplaySnapshot(w, s)
      PROVE  CaptureInv'
  <2> DEFINE e == Event(s[1], s[2], "composite")
  <2>1. e \in EventIds /\ KindOf(e) = s[1] /\ PaymentOf(e) = s[2]
    BY DEF Event, EventIds, KindOf, PaymentOf
  <2> HIDE DEF e
  <2>2. /\ event'[e] = (IF event[e] = "NONE" THEN "UNPROCESSED" ELSE event[e])
        /\ UNCHANGED <<provider, paidBy, status>>
        /\ \A f \in EventIds : f # e => event'[f] = event[f]
    BY <1>5, <2>1 DEF ReplaySnapshot, e, TypeInv, TypeOK
  <2>3. s[1] = "captured" => provider[s[2]] = "captured"
    <3>1. s \in worker[w].todo /\ KnowsSnapshot(w)
      BY <1>1, <1>5 DEF ReplaySnapshot, KnownInv, Known
    <3>2. QED BY <3>1 DEF KnowsSnapshot
  <2>4. IsCapture(e) /\ event'[e] = "PROCESSED" => event[e] = "PROCESSED"
    BY <2>2
  <2>5. QED BY <1>1, <2>1, <2>2, <2>3, <2>4, CaptureKept DEF IsCapture, CaptureInv
<1>6. ASSUME NEW w \in Workers, FinalizeEvent(w) PROVE CaptureInv'
  <2>1. PICK t : t = worker[w]
    OBVIOUS
  <2>2. /\ t.at = "finalize" /\ t.e \in EventIds /\ event[t.e] # "NONE"
        /\ OrderOf(PaymentOf(t.e)) = t.o
        /\ t.result = "PROCESSED" => status[t.o] \in Settled /\ paidBy[t.o] = PaymentOf(t.e)
    BY <1>1, <1>6, <2>1, BusyOK
    DEF FinalizeEvent, At, LocalOK, KnownInv, Known, KnowsEvent, KnowsPayment
  <2>3. /\ event'[t.e] = t.result /\ UNCHANGED <<provider, paidBy, status>>
        /\ \A f \in EventIds : f # t.e => event'[f] = event[f]
    BY <1>6, <2>1, <2>2 DEF FinalizeEvent, TypeInv, TypeOK
  <2>4. IsCapture(t.e) => provider[PaymentOf(t.e)] = "captured"
    BY <1>1, <2>2 DEF CaptureInv
  <2>5. QED BY <1>1, <2>2, <2>3, <2>4, CaptureKept
<1>7. ASSUME NEW w \in Workers, RecordAttempt(w) PROVE CaptureInv'
  <2>1. PICK t : t = worker[w]
    OBVIOUS
  <2>2. t.at = "record" /\ ~IsCapture(t.e)
    BY <1>1, <1>7, <2>1 DEF RecordAttempt, At, KnownInv, Known, KnowsEvent
  <2>3. \A f \in EventIds : f # t.e => event'[f] = event[f]
    BY <1>7, <2>1 DEF RecordAttempt, TypeInv, TypeOK
  <2>4. QED BY <1>1, <2>2, <2>3, CaptureKept
<1>8. ASSUME NEW w \in Workers, TransitionConverged(w) \/ TransitionApplied(w) PROVE CaptureInv'
  <2>1. PICK t : t = worker[w]
    OBVIOUS
  <2>2. t.at = "commit" /\ t.o \in Orders /\ UNCHANGED provider
    BY <1>8, <2>1, BusyOK DEF TransitionConverged, TransitionApplied, At, NoOp
  <2>3. CASE t.to # "PAID"
    <3>1. UNCHANGED event
      BY <1>8, <2>1, <2>3 DEF TransitionConverged, TransitionApplied, DoWork
    <3>2. QED BY <1>2, <3>1
  <2>4. CASE t.to = "PAID"
    <3>1. /\ t.e \in EventIds /\ PaymentOf(t.e) \in PaymentsOf(t.o) /\ t.hadPayment
          /\ provider[PaymentOf(t.e)] = "captured"
      BY <1>1, <2>1, <2>2, <2>4, PaysKnown
    <3>2. OrderOf(PaymentOf(t.e)) = t.o /\ PaymentOf(t.e) \in Payments
      BY <3>1 DEF PaymentsOf
    <3>3. \A f \in EventIds : f # t.e => event'[f] = event[f]
      BY <1>8, <2>1 DEF TransitionConverged, TransitionApplied, DoWork, TypeInv, TypeOK
    <3>4. CASE TransitionConverged(w)
      <4>1. status[t.o] = "PAID" /\ UNCHANGED <<status, paidBy>>
        BY <2>1, <2>4, <3>4 DEF TransitionConverged
      <4>2. /\ paidBy[t.o] \in Payments /\ OrderOf(paidBy[t.o]) = t.o
            /\ provider[paidBy[t.o]] = "captured"
        BY <1>1, <2>2, <4>1 DEF SettledInv, Settled, PaymentsOf
      <4>3. paidBy[t.o] = PaymentOf(t.e)
        BY <1>1, <3>1, <3>2, <4>2 DEF ProviderInv, Taken
      <4>4. QED BY <1>1, <2>2, <3>1, <3>2, <3>3, <4>1, <4>3, CaptureKept DEF Settled
    <3>5. CASE TransitionApplied(w)
      <4>1. status'[t.o] = "PAID" /\ paidBy'[t.o] = PaymentOf(t.e)
        BY <2>1, <2>2, <2>4, <3>1, <3>5 DEF TransitionApplied, TypeInv, TypeOK
      <4>2. QED BY <1>1, <2>2, <3>1, <3>2, <3>3, <4>1, CaptureKept DEF Settled
    <3>6. QED BY <1>8, <3>4, <3>5
  <2>5. QED BY <2>3, <2>4
<1>9. ASSUME NEW w \in Workers, Continue(w) PROVE CaptureInv'
  <2>1. CASE Checkout(w) \/ ReconcileRead(w) \/ FetchAnswered(w) \/ FetchFailed(w)
             \/ ReconcileDone(w) \/ LoadEvent(w) \/ DecideEvent(w)
             \/ RecordAttemptRefused(w) \/ TransitionRead(w) \/ TransitionRefused(w)
    <3>1. UNCHANGED event
      BY <2>1 DEF Checkout, CreateProviderOrder, LinkProviderOrder, ReconcileRead,
                  FetchAnswered, FetchFailed, ReconcileDone, LoadEvent, DecideEvent,
                  RecordAttemptRefused, TransitionRead, TransitionRefused, dbVars
    <3>2. QED BY <1>2, <3>1
  <2>2. QED BY <1>5, <1>6, <1>7, <1>8, <1>9, <2>1
            DEF Continue, Reconcile, ProcessEvent, Transition
<1>10. ASSUME NEW w \in Workers, Start(w) \/ Crash(w) PROVE CaptureInv'
  <2>1. UNCHANGED event
    BY <1>10 DEF Start, Reserve, StartCancel, StartExpire, StartPoll, StartDirect,
                 StartVerify, StartWorker, Crash, dbVars
  <2>2. QED BY <1>2, <2>1
<1>11. CASE Environment \/ UNCHANGED vars
  <2>1. CASE \E k \in Kinds, p \in Payments : WebhookDelivery(k, p)
    BY <1>4, <2>1
  <2>2. ASSUME ~\E k \in Kinds, p \in Payments : WebhookDelivery(k, p) PROVE UNCHANGED event
    BY <1>11, <2>2 DEF Environment, ProviderStep, ReservationLapses, vars, dbVars
  <2>3. QED BY <1>2, <2>1, <2>2
<1>12. QED BY <1>9, <1>10, <1>11 DEF Next

LEMMA InitMoney == Init => MoneyInv
<1> SUFFICES ASSUME Init PROVE MoneyInv
  OBVIOUS
<1>1. KnownInv
  BY IdleFields
  DEF Init, KnownInv, Known, KnowsOrder, KnowsEvent, KnowsPayment, KnowsSnapshot, Pays, NoOp
<1>2. CaptureInv
  BY DEF Init, CaptureInv
<1>3. SettledInv
  BY DEF Init, SettledInv, NoOrder, Settled
<1>4. ProviderInv
  BY DEF Init, ProviderInv, Taken
<1>5. QED BY <1>1, <1>2, <1>3, <1>4 DEF MoneyInv

LEMMA MoneyStep == TypeInv /\ MoneyInv /\ [Next]_vars => MoneyInv'
BY KnownStep, CaptureStep, SettledStep, ProviderStepInv DEF MoneyInv

LEMMA MoneyInvariant == Spec => [](TypeInv /\ MoneyInv)
<1>1. Init => TypeInv /\ MoneyInv
  BY InitType, InitMoney
<1>2. TypeInv /\ MoneyInv /\ [Next]_vars => (TypeInv /\ MoneyInv)'
  BY NextType, MoneyStep
<1>3. QED BY <1>1, <1>2, PTL DEF Spec

\* An order is paid, shipped or delivered only against a payment the provider
\* captured for it, which its Payment row names: for any number of orders,
\* payments, events and workers.
THEOREM PaidTheorem == Spec => []PaidIsCaptured
<1>1. MoneyInv => PaidIsCaptured
  BY DEF MoneyInv, SettledInv, PaidIsCaptured, Settled
<1>2. QED BY <1>1, MoneyInvariant, PTL

\* A capture whose event is acknowledged as processed has paid its own order,
\* whatever late, repeated or reordered events and crashes came between.
THEOREM AcknowledgedTheorem == Spec => []CaptureAcknowledged
<1>1. MoneyInv => CaptureAcknowledged
  BY DEF MoneyInv, CaptureInv, CaptureAcknowledged, IsCapture, Settled
<1>2. QED BY <1>1, MoneyInvariant, PTL

-----------------------------------------------------------------------------
(* The audit trail.  To know that no order is paid twice, the trail has to *)
(* say that it holds a payment exactly when the order is settled.          *)

Trail(h, s) ==
  /\ \A i \in 1..Len(h) :
       /\ h[i][1] = IF i = 1 THEN NoOrder ELSE h[i-1][2]
       /\ i > 1 => CanTransition(h[i][1], h[i][2])
  /\ s = IF h = <<>> THEN NoOrder ELSE h[Len(h)][2]
  /\ (\E i \in 1..Len(h) : h[i][2] = "PAID") <=> s \in Settled

AuditInv ==
  \A o \in Orders :
    /\ Trail(history[o], status[o])
    /\ notices[o] = IF status[o] \in Settled THEN 1 ELSE 0

Moves == (OrderStatuses \cup {NoOrder}) \X OrderStatuses

LEMMA TrailBegins ==
  ASSUME NEW h \in Seq(Moves), Trail(h, NoOrder)
  PROVE  Trail(Append(h, <<NoOrder, "PENDING">>), "PENDING")
<1>1. h = <<>>
  <2>1. SUFFICES ASSUME h # <<>> PROVE FALSE
    OBVIOUS
  <2>2. Len(h) \in 1..Len(h)
    BY <2>1
  <2>3. h[Len(h)] \in Moves
    BY <2>2
  <2>4. h[Len(h)][2] \in OrderStatuses
    BY <2>3 DEF Moves
  <2>5. QED BY <2>1, <2>4 DEF Trail, OrderStatuses, NoOrder
<1> DEFINE g == Append(h, <<NoOrder, "PENDING">>)
<1>2. Len(g) = 1 /\ g[1] = <<NoOrder, "PENDING">> /\ g # <<>>
  BY <1>1
<1> HIDE DEF g
<1>3. Trail(g, "PENDING")
  BY <1>2 DEF Trail, Settled
<1>4. QED BY <1>3 DEF g

LEMMA TrailGoesOn ==
  ASSUME NEW h \in Seq(Moves), NEW from \in OrderStatuses, NEW to \in OrderStatuses,
         Trail(h, from), CanTransition(from, to), from # "CONFIRMED"
  PROVE  Trail(Append(h, <<from, to>>), to)
<1> DEFINE g == Append(h, <<from, to>>)
           n == Len(h)
<1>1. h # <<>> /\ n \in Nat /\ n >= 1 /\ h[n][2] = from
  BY DEF Trail, OrderStatuses, NoOrder
<1>2. /\ Len(g) = n + 1 /\ g # <<>> /\ g[n + 1] = <<from, to>>
      /\ \A i \in 1..n : g[i] = h[i]
  OBVIOUS
<1>3. from \in Settled \/ to = "PAID" <=> to \in Settled
  BY SettledMoves DEF Settled
<1> HIDE DEF g, n
<1>4. ASSUME NEW i \in 1..(n + 1)
      PROVE  /\ g[i][1] = IF i = 1 THEN NoOrder ELSE g[i-1][2]
             /\ i > 1 => CanTransition(g[i][1], g[i][2])
  <2>1. CASE i \in 1..n
    <3>1. g[i] = h[i] /\ (i > 1 => g[i-1] = h[i-1])
      BY <1>1, <1>2, <2>1
    <3>2. QED BY <2>1, <3>1 DEF Trail, n
  <2>2. CASE i = n + 1
    <3>1. g[i] = <<from, to>> /\ i > 1 /\ i - 1 = n /\ g[n] = h[n]
      BY <1>1, <1>2, <2>2
    <3>2. QED BY <1>1, <3>1
  <2>3. QED BY <1>1, <1>4, <2>1, <2>2
<1>5. (\E i \in 1..(n + 1) : g[i][2] = "PAID") <=> to = "PAID" \/ \E i \in 1..n : h[i][2] = "PAID"
  <2>1. n + 1 \in 1..(n + 1) /\ \A i \in 1..(n + 1) : i \in 1..n \/ i = n + 1
    BY <1>1
  <2>2. \A i \in 1..n : i \in 1..(n + 1)
    BY <1>1
  <2>3. QED BY <1>2, <2>1, <2>2
<1>6. (\E i \in 1..n : h[i][2] = "PAID") <=> from \in Settled
  BY DEF Trail, n
<1>7. Trail(g, to)
  <2>1. /\ Len(g) = n + 1 /\ g # <<>> /\ g[Len(g)][2] = to
    BY <1>2
  <2>2. (\E i \in 1..Len(g) : g[i][2] = "PAID") <=> to \in Settled
    BY <1>3, <1>5, <1>6, <2>1
  <2>3. \A i \in 1..Len(g) : /\ g[i][1] = IF i = 1 THEN NoOrder ELSE g[i-1][2]
                             /\ i > 1 => CanTransition(g[i][1], g[i][2])
    BY <1>4, <2>1
  <2>4. QED BY <2>1, <2>2, <2>3 DEF Trail
<1>8. QED BY <1>7 DEF g

\* Nothing but a reservation or an applied transition writes the trail.
LEMMA TrailUntouched ==
  ASSUME [Next]_vars,
         ~\E w \in Workers : TransitionApplied(w) \/ \E o \in Orders : Reserve(w, o)
  PROVE  UNCHANGED <<status, history, stock, used, notices>>
<1>1. ASSUME NEW w \in Workers, Continue(w)
      PROVE  UNCHANGED <<used, notices>>
  <2>1. CASE Checkout(w)
    BY <2>1 DEF Checkout, CreateProviderOrder, LinkProviderOrder, dbVars
  <2>2. CASE Reconcile(w)
    BY <2>2 DEF Reconcile, ReconcileRead, FetchAnswered, FetchFailed,
                ReplaySnapshot, ReconcileDone, dbVars
  <2>3. CASE ProcessEvent(w)
    BY <2>3 DEF ProcessEvent, LoadEvent, DecideEvent, FinalizeEvent,
                RecordAttempt, RecordAttemptRefused, dbVars
  <2>4. CASE Transition(w)
    BY <2>4 DEF Transition, TransitionRead, TransitionRefused,
                TransitionConverged, dbVars
  <2>5. QED BY <1>1, <2>1, <2>2, <2>3, <2>4 DEF Continue
<1>2. ASSUME NEW w \in Workers, Start(w) \/ Crash(w)
      PROVE  UNCHANGED <<used, notices>>
  BY <1>2 DEF Start, StartCancel, StartExpire, StartPoll, StartDirect,
              StartVerify, StartWorker, Crash, dbVars
<1>3. ASSUME Environment
      PROVE  UNCHANGED <<used, notices>>
  BY <1>3 DEF Environment, ProviderStep, WebhookDelivery, ReservationLapses, dbVars
<1>4. UNCHANGED <<used, notices>>
  BY <1>1, <1>2, <1>3 DEF Next, vars, dbVars
<1>5. QED BY <1>4, StockUntouched

LEMMA AuditStep == TypeInv /\ SettledInv /\ AuditInv /\ [Next]_vars => AuditInv'
<1> SUFFICES ASSUME TypeInv, SettledInv, AuditInv, [Next]_vars PROVE AuditInv'
  OBVIOUS
<1>1. ASSUME NEW w \in Workers, NEW o \in Orders, Reserve(w, o) PROVE AuditInv'
  <2>1. /\ history[o] \in Seq(Moves) /\ Trail(history[o], NoOrder)
        /\ status[o] = NoOrder /\ notices[o] = 0
    BY <1>1 DEF Reserve, AuditInv, TypeInv, TypeOK, Moves, NoOrder, Settled
  <2>2. Trail(Append(history[o], <<NoOrder, "PENDING">>), "PENDING")
    BY <2>1, TrailBegins
  <2>3. /\ history'[o] = Append(history[o], <<NoOrder, "PENDING">>) /\ status'[o] = "PENDING"
        /\ UNCHANGED notices
        /\ \A q \in Orders : q # o => history'[q] = history[q] /\ status'[q] = status[q]
    BY <1>1 DEF Reserve, TypeInv, TypeOK
  <2>4. QED BY <2>1, <2>2, <2>3 DEF AuditInv, Settled
<1>2. ASSUME NEW w \in Workers, TransitionApplied(w) PROVE AuditInv'
  <2>1. PICK t, o, from, to : t = worker[w] /\ o = t.o /\ from = t.before /\ to = t.to
    OBVIOUS
  <2>2. /\ o \in Orders /\ from \in OrderStatuses /\ to \in OrderStatuses
        /\ status[o] = from /\ CanTransition(from, to) /\ status'[o] = to
        /\ \A q \in Orders : q # o => status'[q] = status[q]
    BY <1>2, <2>1, AppliedMove
  <2>3. history[o] \in Seq(Moves) /\ Trail(history[o], from) /\ from # "CONFIRMED"
    BY <2>2 DEF AuditInv, SettledInv, TypeInv, TypeOK, Moves
  <2>4. Trail(Append(history[o], <<from, to>>), to)
    BY <2>2, <2>3, TrailGoesOn
  <2>5. /\ history'[o] = Append(history[o], <<from, to>>)
        /\ notices'[o] = (IF to = "PAID" THEN notices[o] + 1 ELSE notices[o])
        /\ \A q \in Orders : q # o => history'[q] = history[q] /\ notices'[q] = notices[q]
    BY <1>2, <2>1, <2>2 DEF TransitionApplied, TypeInv, TypeOK
  <2>6. notices'[o] = IF to \in Settled THEN 1 ELSE 0
    <3>1. /\ from \in Settled => to \in Settled /\ to # "PAID"
          /\ to \in Settled /\ to # "PAID" => from \in Settled
          /\ to = "PAID" => from = "PENDING"
      BY <2>2, <2>3, SettledMoves DEF Settled
    <3>2. notices[o] = IF from \in Settled THEN 1 ELSE 0
      BY <2>2 DEF AuditInv
    <3>3. QED BY <2>5, <3>1, <3>2 DEF Settled
  <2>7. QED BY <2>2, <2>4, <2>5, <2>6 DEF AuditInv
<1>3. CASE UNCHANGED <<status, history, notices>>
  BY <1>3 DEF AuditInv
<1>4. QED BY <1>1, <1>2, <1>3, TrailUntouched

LEMMA AuditInvariant == Spec => []AuditInv
<1>1. Init => AuditInv
  BY DEF Init, AuditInv, Trail, NoOrder, Settled
<1>2. (TypeInv /\ MoneyInv) /\ AuditInv /\ [Next]_vars => AuditInv'
  BY AuditStep DEF MoneyInv
<1>3. QED BY <1>1, <1>2, MoneyInvariant, PTL DEF Spec

\* The trail of every order is one unbroken path of legal moves that pays it at
\* most once, with one notice, however many handlers race to move it.
THEOREM AuditTheorem == Spec => []AuditTrail
<1>1. AuditInv => AuditTrail
  BY DEF AuditInv, AuditTrail, Trail
<1>2. QED BY <1>1, AuditInvariant, PTL

-----------------------------------------------------------------------------
(* The coupon: the orders that stand on it, and its used count.            *)

Standing == {o \in CouponOrders : status[o] \notin {NoOrder, "CANCELLED", "FAILED"}}

CouponInv == IsFiniteSet(Standing) /\ used = Cardinality(Standing) /\ used <= MaxUses

\* A transition takes an order off the coupon when it gives the use back.
LEMMA AppliedStanding ==
  ASSUME TypeInv, SettledInv, CouponInv, NEW w \in Workers, TransitionApplied(w),
         NEW o, o = worker[w].o, NEW from, from = worker[w].before, NEW to, to = worker[w].to
  PROVE  IF o \in CouponOrders /\ to \in {"CANCELLED", "FAILED"}
           THEN o \in Standing /\ Standing' = Standing \ {o} /\ used' = used - 1 /\ used > 0
           ELSE Standing' = Standing /\ used' = used
<1>1. /\ o \in Orders /\ from \in OrderStatuses /\ to \in OrderStatuses
      /\ status[o] = from /\ CanTransition(from, to) /\ status'[o] = to
      /\ \A q \in Orders : q # o => status'[q] = status[q]
  BY AppliedMove
<1>2. /\ from \notin {NoOrder, "CANCELLED", "FAILED"} /\ to # NoOrder
      /\ RestoresCoupon(from, to) <=> to \in {"CANCELLED", "FAILED"}
  <2>1. /\ from \in {"PENDING", "CONFIRMED", "PAID", "SHIPPED", "DELIVERED"}
        /\ to \in {"CANCELLED", "FAILED"} => from \in {"PENDING", "CONFIRMED"}
    BY <1>1, MoveEffect, SettledMoves
  <2>2. QED BY <1>1, <2>1 DEF RestoresCoupon, OrderStatuses, NoOrder
<1>3. CouponOrders \subseteq Orders
  BY ConstantsAssumption
<1>4. CASE o \in CouponOrders /\ to \in {"CANCELLED", "FAILED"}
  <2>1. o \in Standing /\ Standing' = Standing \ {o}
    BY <1>1, <1>2, <1>3, <1>4 DEF Standing
  <2>2. used > 0
    <3>1. Cardinality(Standing) # 0
      BY <2>1, FS_EmptySet DEF CouponInv
    <3>2. QED BY <3>1 DEF CouponInv, TypeInv, TypeOK
  <2>3. used' = used - 1
    BY <1>2, <1>4, <2>2 DEF TransitionApplied
  <2>4. QED BY <1>4, <2>1, <2>2, <2>3
<1>5. CASE ~(o \in CouponOrders /\ to \in {"CANCELLED", "FAILED"})
  <2>1. Standing' = Standing
    BY <1>1, <1>2, <1>3, <1>5 DEF Standing
  <2>2. used' = used
    BY <1>2, <1>5 DEF TransitionApplied
  <2>3. QED BY <1>5, <2>1, <2>2
<1>6. QED BY <1>4, <1>5

LEMMA CouponStep == TypeInv /\ SettledInv /\ CouponInv /\ [Next]_vars => CouponInv'
<1> SUFFICES ASSUME TypeInv, SettledInv, CouponInv, [Next]_vars PROVE CouponInv'
  OBVIOUS
<1>1. used \in Nat /\ MaxUses \in Nat /\ CouponOrders \subseteq Orders
  BY ConstantsAssumption DEF TypeInv, TypeOK
<1>2. IsFiniteSet(Standing) /\ used = Cardinality(Standing) /\ used <= MaxUses
  BY DEF CouponInv
<1>3. ASSUME NEW w \in Workers, NEW o \in Orders, Reserve(w, o) PROVE CouponInv'
  <2>1. /\ o \notin Standing /\ status'[o] = "PENDING"
        /\ \A q \in Orders : q # o => status'[q] = status[q]
    BY <1>3 DEF Reserve, Standing, TypeInv, TypeOK
  <2>2. CASE o \in CouponOrders
    <3>1. Standing' = Standing \cup {o}
      BY <1>1, <2>1, <2>2 DEF Standing, NoOrder
    <3>2. used' = used + 1 /\ used < MaxUses
      BY <1>3, <2>2 DEF Reserve
    <3>3. IsFiniteSet(Standing \cup {o}) /\ Cardinality(Standing \cup {o}) = Cardinality(Standing) + 1
      BY <1>2, <2>1, FS_AddElement
    <3>4. IsFiniteSet(Standing') /\ Cardinality(Standing') = used'
      BY <1>2, <3>1, <3>2, <3>3
    <3>5. used' <= MaxUses
      BY <1>1, <3>2
    <3>6. QED BY <3>4, <3>5 DEF CouponInv
  <2>3. CASE o \notin CouponOrders
    <3>1. Standing' = Standing
      BY <1>1, <2>1, <2>3 DEF Standing
    <3>2. used' = used
      BY <1>3, <2>3 DEF Reserve
    <3>3. QED BY <1>2, <3>1, <3>2 DEF CouponInv
  <2>4. QED BY <2>2, <2>3
<1>4. ASSUME NEW w \in Workers, TransitionApplied(w) PROVE CouponInv'
  <2>1. PICK o, from, to : o = worker[w].o /\ from = worker[w].before /\ to = worker[w].to
    OBVIOUS
  <2>2. IF o \in CouponOrders /\ to \in {"CANCELLED", "FAILED"}
          THEN o \in Standing /\ Standing' = Standing \ {o} /\ used' = used - 1 /\ used > 0
          ELSE Standing' = Standing /\ used' = used
    BY <1>4, <2>1, AppliedStanding
  <2>3. CASE o \in CouponOrders /\ to \in {"CANCELLED", "FAILED"}
    <3>1. IsFiniteSet(Standing \ {o}) /\ Cardinality(Standing \ {o}) = Cardinality(Standing) - 1
      BY <1>2, <2>2, <2>3, FS_RemoveElement
    <3>2. IsFiniteSet(Standing') /\ Cardinality(Standing') = used'
      BY <1>2, <2>2, <2>3, <3>1
    <3>3. used' <= MaxUses
      BY <1>1, <1>2, <2>2, <2>3
    <3>4. QED BY <3>2, <3>3 DEF CouponInv
  <2>4. CASE ~(o \in CouponOrders /\ to \in {"CANCELLED", "FAILED"})
    BY <1>2, <2>2, <2>4 DEF CouponInv
  <2>5. QED BY <2>3, <2>4
<1>5. CASE UNCHANGED <<status, used>>
  BY <1>2, <1>5 DEF CouponInv, Standing
<1>6. QED BY <1>3, <1>4, <1>5, TrailUntouched

LEMMA CouponInvariant == Spec => []CouponInv
<1>1. Init => CouponInv
  <2> SUFFICES ASSUME Init PROVE CouponInv
    OBVIOUS
  <2>1. Standing = {} /\ used = 0 /\ used <= MaxUses
    BY ConstantsAssumption DEF Init, Standing
  <2>2. IsFiniteSet(Standing) /\ Cardinality(Standing) = 0
    BY <2>1, FS_EmptySet
  <2>3. QED BY <2>1, <2>2 DEF CouponInv
<1>2. (TypeInv /\ MoneyInv) /\ CouponInv /\ [Next]_vars => CouponInv'
  BY CouponStep DEF MoneyInv
<1>3. QED BY <1>1, <1>2, MoneyInvariant, PTL DEF Spec

\* The coupon's used count is the number of orders that stand on it and never
\* passes its limit, whatever cancels, fails or refunds them.
THEOREM CouponTheorem == Spec => []CouponConserved
<1>1. CouponInv => CouponConserved
  BY DEF CouponInv, CouponConserved, Standing
<1>2. QED BY <1>1, CouponInvariant, PTL

-----------------------------------------------------------------------------
(* Each step of the program is one step of the order book, or none.        *)

LEMMA BookUntouched ==
  ASSUME UNCHANGED <<status, stock, used, provider>>
  PROVE  UNCHANGED Book!book
BY DEF Book!book, CapturedOrders

LEMMA ReserveIsPlace ==
  ASSUME TypeInv, NEW w \in Workers, NEW o \in Orders, Reserve(w, o)
  PROVE  Book!Place(o)
BY DEF Reserve, Book!Place, Book!Move, Book!TakesUnits, CapturedOrders, NoOrder

LEMMA AppliedIsMove ==
  ASSUME TypeInv, MoneyInv, CouponInv, NEW w \in Workers, TransitionApplied(w)
  PROVE  Book!Next
<1>1. PICK t, o, from, to : t = worker[w] /\ o = t.o /\ from = t.before /\ to = t.to
  OBVIOUS
<1>2. /\ o \in Orders /\ from \in OrderStatuses /\ to \in OrderStatuses
      /\ status[o] = from /\ CanTransition(from, to)
      /\ status' = [status EXCEPT ![o] = to]
  BY <1>1, AppliedMove
<1>3. /\ from = "PENDING" => to \in {"PAID", "CANCELLED", "FAILED"}
      /\ from = "PAID" => to \in {"SHIPPED", "REFUNDED"}
      /\ from = "SHIPPED" => to = "DELIVERED"
      /\ from = "DELIVERED" => to = "REFUNDED"
      /\ from \in {"PENDING", "PAID", "SHIPPED", "DELIVERED"}
  <2>1. from # "CONFIRMED"
    BY <1>2 DEF MoneyInv, SettledInv
  <2>2. QED BY <1>2, <2>1 DEF CanTransition, Transitions, OrderStatuses
<1>4. IF o \in CouponOrders /\ to \in {"CANCELLED", "FAILED"}
        THEN used' = used - 1 ELSE used' = used
  BY <1>1, AppliedStanding DEF MoneyInv
<1>5. stock' = [v \in Variants |-> IF ReleasesStock(from, to)
                  THEN stock[v] + Demand[o][v] ELSE stock[v]]
  BY <1>1 DEF TransitionApplied
<1>6. CapturedOrders' = CapturedOrders
  BY DEF TransitionApplied, CapturedOrders
<1>7. ~ReleasesStock(from, to) => stock' = stock
  BY <1>5 DEF TypeInv, TypeOK
<1>8. CASE to \in {"CANCELLED", "FAILED"}
  <2>1. from = "PENDING" /\ ReleasesStock(from, to)
    BY <1>3, <1>8 DEF ReleasesStock
  <2>2. Book!Abandon(o)
    BY <1>2, <1>4, <1>5, <1>6, <1>8, <2>1 DEF Book!Abandon, Book!Move, Book!ReturnsUnits
  <2>3. QED BY <1>2, <2>2 DEF Book!Next
<1>9. CASE to = "PAID"
  <2>1. from = "PENDING" /\ ~ReleasesStock(from, to)
    BY <1>3, <1>9 DEF ReleasesStock
  <2>2. o \in CapturedOrders
    <3>1. t.at = "commit"
      BY <1>1 DEF TransitionApplied, At
    <3>2. PaymentOf(t.e) \in PaymentsOf(o) /\ provider[PaymentOf(t.e)] = "captured"
      BY <1>1, <1>9, <3>1, PaysKnown DEF MoneyInv
    <3>3. QED BY <1>2, <3>2 DEF CapturedOrders
  <2>3. Book!Pay(o)
    BY <1>2, <1>4, <1>6, <1>7, <1>9, <2>1, <2>2 DEF Book!Pay, Book!Move
  <2>4. QED BY <1>2, <2>3 DEF Book!Next
<1>10. CASE to \in {"SHIPPED", "DELIVERED"}
  <2>1. ~ReleasesStock(from, to)
    BY <1>10 DEF ReleasesStock
  <2>2. Book!Ship(o) \/ Book!Deliver(o)
    BY <1>2, <1>3, <1>4, <1>6, <1>7, <1>10, <2>1 DEF Book!Ship, Book!Deliver, Book!Move
  <2>3. QED BY <1>2, <2>2 DEF Book!Next
<1>11. CASE to = "REFUNDED"
  <2>1. /\ from \in {"PAID", "DELIVERED"}
        /\ ReleasesStock(from, to) <=> from = "PAID"
    BY <1>3, <1>11 DEF ReleasesStock
  <2>2. Book!Refund(o)
    BY <1>2, <1>4, <1>5, <1>6, <1>7, <1>11, <2>1 DEF Book!Refund, Book!Move, Book!ReturnsUnits
  <2>3. QED BY <1>2, <2>2 DEF Book!Next
<1>12. QED BY <1>3, <1>8, <1>9, <1>10, <1>11

LEMMA ProviderIsCapture ==
  ASSUME TypeInv, MoneyInv, NEW p \in Payments, NEW s \in ProviderNext(provider[p]),
         ProviderStep(p, s)
  PROVE  Book!Next \/ UNCHANGED Book!book
<1>1. /\ OrderOf(p) \in Orders /\ linked[OrderOf(p)] /\ status[OrderOf(p)] # NoOrder
      /\ UNCHANGED <<status, stock, used>>
  BY DEF ProviderStep, dbVars, MoneyInv, SettledInv, Payments, OrderOf
<1>2. \A q \in Payments : provider'[q] = IF q = p THEN s ELSE provider[q]
  BY DEF ProviderStep, TypeInv, TypeOK
<1>3. provider[p] # "captured"
  BY DEF ProviderNext
<1>4. CASE s = "captured"
  <2>1. CapturedOrders' = CapturedOrders \cup {OrderOf(p)}
    BY <1>1, <1>2, <1>4 DEF CapturedOrders, PaymentsOf
  <2>2. Book!Capture(OrderOf(p))
    BY <1>1, <2>1 DEF Book!Capture, NoOrder
  <2>3. QED BY <1>1, <2>2 DEF Book!Next
<1>5. CASE s # "captured"
  <2>1. CapturedOrders' = CapturedOrders
    BY <1>2, <1>3, <1>5 DEF CapturedOrders, PaymentsOf
  <2>2. QED BY <1>1, <2>1 DEF Book!book
<1>6. QED BY <1>4, <1>5

LEMMA BookStep ==
  TypeInv /\ MoneyInv /\ CouponInv /\ [Next]_vars => [Book!Next]_(Book!book)
<1> SUFFICES ASSUME TypeInv, MoneyInv, CouponInv, [Next]_vars
             PROVE  Book!Next \/ UNCHANGED Book!book
  OBVIOUS
<1>1. ASSUME NEW w \in Workers, NEW o \in Orders, Reserve(w, o) PROVE Book!Next
  BY <1>1, ReserveIsPlace DEF Book!Next
<1>2. ASSUME NEW w \in Workers, TransitionApplied(w) PROVE Book!Next
  BY <1>2, AppliedIsMove
<1>3. ASSUME NEW p \in Payments, NEW s \in ProviderNext(provider[p]), ProviderStep(p, s)
      PROVE  Book!Next \/ UNCHANGED Book!book
  BY <1>3, ProviderIsCapture
<1>4. ASSUME ~\E w \in Workers : TransitionApplied(w) \/ \E o \in Orders : Reserve(w, o),
             UNCHANGED provider
      PROVE  UNCHANGED Book!book
  BY <1>4, TrailUntouched, BookUntouched
<1>5. ASSUME NEW w \in Workers, Start(w) \/ Continue(w) \/ Crash(w) PROVE UNCHANGED provider
  <2>1. CASE Start(w) \/ Crash(w)
    BY <2>1 DEF Start, Reserve, StartCancel, StartExpire, StartPoll, StartDirect,
                StartVerify, StartWorker, Crash
  <2>2. CASE Checkout(w)
    BY <2>2 DEF Checkout, CreateProviderOrder, LinkProviderOrder
  <2>3. CASE Reconcile(w)
    BY <2>3 DEF Reconcile, ReconcileRead, FetchAnswered, FetchFailed, ReplaySnapshot,
                ReconcileDone
  <2>4. CASE ProcessEvent(w)
    BY <2>4 DEF ProcessEvent, LoadEvent, DecideEvent, FinalizeEvent, RecordAttempt,
                RecordAttemptRefused
  <2>5. CASE Transition(w)
    BY <2>5 DEF Transition, TransitionRead, TransitionRefused, TransitionConverged,
                TransitionApplied
  <2>6. QED BY <1>5, <2>1, <2>2, <2>3, <2>4, <2>5 DEF Continue
<1>6. ASSUME Environment, ~\E p \in Payments : \E s \in ProviderNext(provider[p]) : ProviderStep(p, s)
      PROVE  UNCHANGED provider
  BY <1>6 DEF Environment, WebhookDelivery, ReservationLapses
<1>7. CASE UNCHANGED vars
  BY <1>7, BookUntouched DEF vars, dbVars
<1>8. QED BY <1>1, <1>2, <1>3, <1>4, <1>5, <1>6, <1>7 DEF Next

\* The prepaid checkout implements the order book: with any number of orders,
\* payments and workers, its crashes, retries and races amount to single moves
\* of single orders with their units, their coupon use and their money.
THEOREM BookTheorem == Spec => KeepsBook
<1>1. Init => Book!Init
  BY DEF Init, Book!Init, CapturedOrders, PaymentsOf, NoOrder
<1>2. (TypeInv /\ MoneyInv) /\ CouponInv /\ [Next]_vars => [Book!Next]_(Book!book)
  BY BookStep
<1>3. QED BY <1>1, <1>2, MoneyInvariant, CouponInvariant, PTL DEF Spec, KeepsBook, Book!Spec
-----------------------------------------------------------------------------
(* Money already taken stays taken.                                        *)

\* Only a settled order has a captured payment, so the expiry, which needs a
\* pending order, never writes over one.
PaymentInv == \A o \in Orders : payment[o] = "CAPTURED" => status[o] \in Settled

RankUp == \A p \in Payments : AttemptRank[attempt'[p]] >= AttemptRank[attempt[p]]
CaptureKeeps ==
  \A o \in Orders : payment[o] = "CAPTURED" => payment'[o] \in {"CAPTURED", "REFUNDED"}

\* A step that writes no capture may only open a payment row or authorize it.
Opens ==
  \A o \in Orders :
    \/ payment'[o] = payment[o]
    \/ payment[o] \in {"NONE", "CREATED"} /\ payment'[o] \in {"CREATED", "AUTHORIZED"}

LEMMA RankReflexive == ASSUME TypeInv, UNCHANGED attempt PROVE RankUp
<1>1. \A p \in Payments : AttemptRank[attempt[p]] \in Nat
  BY DEF TypeInv, TypeOK, AttemptRank
<1>2. QED BY <1>1 DEF RankUp

LEMMA RecordedRank ==
  ASSUME TypeInv, NEW p \in Payments, NEW new \in DOMAIN AttemptRank,
         attempt' = RecordedAttempt(p, new)
  PROVE  RankUp
<1>1. \A s \in DOMAIN AttemptRank : AttemptRank[s] \in Nat
  BY DEF AttemptRank
<1>2. \A q \in Payments : attempt[q] \in DOMAIN AttemptRank
  BY DEF TypeInv, TypeOK
<1>3. \A q \in Payments : attempt'[q] =
        IF q = p THEN IF AttemptRank[attempt[p]] > AttemptRank[new] THEN attempt[p] ELSE new
                 ELSE attempt[q]
  BY DEF RecordedAttempt, TypeInv, TypeOK
<1>4. SUFFICES ASSUME NEW q \in Payments
               PROVE  AttemptRank[attempt'[q]] >= AttemptRank[attempt[q]]
  BY DEF RankUp
<1>5. PICK old, r : old = AttemptRank[attempt[q]] /\ r = AttemptRank[new] /\ old \in Nat /\ r \in Nat
  BY <1>1, <1>2
<1>6. CASE q = p /\ ~(old > r)
  BY <1>3, <1>5, <1>6
<1>7. CASE ~(q = p /\ ~(old > r))
  <2>1. attempt'[q] = attempt[q]
    BY <1>3, <1>5, <1>7
  <2>2. QED BY <1>5, <2>1
<1>8. QED BY <1>6, <1>7

LEMMA DoWorkRank ==
  ASSUME TypeInv, MoneyInv, NEW w \in Workers, At(w, "commit"), DoWork(worker[w])
  PROVE  RankUp
<1>1. CASE worker[w].to = "PAID"
  <2>1. PICK t : t = worker[w]
    OBVIOUS
  <2>2. PaymentOf(t.e) \in Payments
    BY <1>1, <2>1, PaysKnown DEF MoneyInv, At, PaymentsOf
  <2>3. attempt' = RecordedAttempt(PaymentOf(t.e), "CAPTURED")
    BY <1>1, <2>1 DEF DoWork
  <2>4. QED BY <2>2, <2>3, RecordedRank DEF AttemptRank
<1>2. CASE worker[w].to # "PAID"
  BY <1>2, RankReflexive DEF DoWork
<1>3. QED BY <1>1, <1>2

\* The applied transition: a capture is written for a pending order, a refund
\* over a capture, and a reservation that expires had no capture.
LEMMA AppliedPayment ==
  ASSUME TypeInv, MoneyInv, PaymentInv, NEW w \in Workers, TransitionApplied(w)
  PROVE  CaptureKeeps /\ PaymentInv'
<1>1. PICK t, o, from, to : t = worker[w] /\ o = t.o /\ from = t.before /\ to = t.to
  OBVIOUS
<1>2. /\ o \in Orders /\ from \in OrderStatuses /\ to \in OrderStatuses
      /\ status[o] = from /\ CanTransition(from, to) /\ status'[o] = to
      /\ \A q \in Orders : q # o => status'[q] = status[q]
  BY <1>1, AppliedMove
<1>3. /\ from \in Settled => to \in Settled /\ to # "PAID"
      /\ from = "PENDING" => from \notin Settled
  BY <1>2, SettledMoves DEF Settled
<1>4. /\ \A q \in Orders : q # o => payment'[q] = payment[q]
      /\ payment'[o] = payment[o] \/ payment'[o] = NewPaymentStatus(t)
  BY <1>1, <1>2 DEF TransitionApplied, TypeInv, TypeOK
<1>5. payment[o] = "CAPTURED" => from \in Settled
  BY <1>2 DEF PaymentInv
<1>6. Expires(t) => from = "PENDING"
  BY <1>1, <1>2 DEF TransitionApplied, WorkApplies
<1>7. /\ payment[o] = "CAPTURED" => payment'[o] \in {"CAPTURED", "REFUNDED"}
      /\ payment'[o] = "CAPTURED" => to \in Settled
  BY <1>1, <1>3, <1>4, <1>5, <1>6 DEF NewPaymentStatus, Settled
<1>8. QED BY <1>2, <1>4, <1>7 DEF CaptureKeeps, PaymentInv

LEMMA OpensPayment ==
  ASSUME PaymentInv, Grows, Opens PROVE CaptureKeeps /\ PaymentInv'
BY DEF PaymentInv, Grows, Opens, CaptureKeeps

LEMMA RegressStep ==
  TypeInv /\ MoneyInv /\ PaymentInv /\ [Next]_vars => CaptureKeeps /\ RankUp /\ PaymentInv'
<1> SUFFICES ASSUME TypeInv, MoneyInv, PaymentInv, [Next]_vars
             PROVE  CaptureKeeps /\ RankUp /\ PaymentInv'
  OBVIOUS
<1>1. Grows
  BY GrowsStep DEF MoneyInv
<1>2. ASSUME UNCHANGED <<payment, attempt>> PROVE CaptureKeeps /\ RankUp /\ PaymentInv'
  BY <1>1, <1>2, RankReflexive, OpensPayment DEF Opens
<1>3. ASSUME NEW w \in Workers, Continue(w) PROVE CaptureKeeps /\ RankUp /\ PaymentInv'
  <2>1. CASE LinkProviderOrder(w)
    <3>1. Opens
      BY <2>1 DEF LinkProviderOrder, Opens, TypeInv, TypeOK
    <3>2. QED BY <1>1, <2>1, <3>1, OpensPayment, RankReflexive DEF LinkProviderOrder
  <2>2. CASE RecordAttempt(w)
    <3>1. Opens
      BY <2>2 DEF RecordAttempt, Opens, TypeInv, TypeOK
    <3>2. PICK t : t = worker[w]
      OBVIOUS
    <3>3. t.e \in EventIds
      BY <2>2, <3>2, BusyOK DEF RecordAttempt, At, LocalOK, NoOp
    <3>4. PICK new \in {"AUTHORIZED", "FAILED"} : attempt' = RecordedAttempt(PaymentOf(t.e), new)
      BY <2>2, <3>2 DEF RecordAttempt
    <3>5. PaymentOf(t.e) \in Payments /\ new \in DOMAIN AttemptRank
      BY <3>3 DEF EventIds, PaymentOf, AttemptRank
    <3>6. QED BY <1>1, <3>1, <3>4, <3>5, OpensPayment, RecordedRank
  <2>3. CASE TransitionApplied(w)
    BY <2>3, AppliedPayment, DoWorkRank DEF TransitionApplied
  <2>4. CASE TransitionConverged(w)
    <3>1. UNCHANGED payment
      BY <2>4 DEF TransitionConverged
    <3>2. QED BY <1>1, <2>4, <3>1, OpensPayment, DoWorkRank DEF TransitionConverged, Opens
  <2>5. CASE CreateProviderOrder(w) \/ Reconcile(w) \/ LoadEvent(w) \/ DecideEvent(w)
             \/ FinalizeEvent(w) \/ RecordAttemptRefused(w) \/ TransitionRead(w)
             \/ TransitionRefused(w)
    BY <1>2, <2>5 DEF CreateProviderOrder, Reconcile, ReconcileRead, FetchAnswered,
         FetchFailed, ReplaySnapshot, ReconcileDone, LoadEvent, DecideEvent, FinalizeEvent,
         RecordAttemptRefused, TransitionRead, TransitionRefused, dbVars
  <2>6. QED BY <1>3, <2>1, <2>2, <2>3, <2>4, <2>5
            DEF Continue, Checkout, ProcessEvent, Transition
<1>4. ASSUME NEW w \in Workers, Start(w) \/ Crash(w)
      PROVE  CaptureKeeps /\ RankUp /\ PaymentInv'
  BY <1>2, <1>4 DEF Start, Reserve, StartCancel, StartExpire, StartPoll, StartDirect,
                    StartVerify, StartWorker, Crash, dbVars
<1>5. ASSUME Environment PROVE CaptureKeeps /\ RankUp /\ PaymentInv'
  BY <1>2, <1>5 DEF Environment, ProviderStep, WebhookDelivery, ReservationLapses, dbVars
<1>6. CASE UNCHANGED vars
  BY <1>2, <1>6 DEF vars, dbVars
<1>7. QED BY <1>3, <1>4, <1>5, <1>6 DEF Next

\* No event that comes late, twice or out of order, no expiry and no retry takes
\* a captured payment or the record of a payment attempt back.
THEOREM RegressTheorem == Spec => MoneyNeverRegresses
<1>1. Init => PaymentInv
  BY DEF Init, PaymentInv
<1>2. (TypeInv /\ MoneyInv) /\ PaymentInv /\ [Next]_vars => PaymentInv' /\ [CaptureKeeps /\ RankUp]_vars
  BY RegressStep
<1>3. Spec => [][CaptureKeeps /\ RankUp]_vars
  BY <1>1, <1>2, MoneyInvariant, PTL DEF Spec
<1>4. QED BY <1>3, PTL DEF MoneyNeverRegresses, CaptureKeeps, RankUp
=============================================================================
