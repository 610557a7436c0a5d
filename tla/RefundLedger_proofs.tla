------------------------ MODULE RefundLedger_proofs ------------------------
(***************************************************************************)
(* Proofs about RefundLedger for every set of keys and workers, every      *)
(* payment and every bound on attempts and crashes.                        *)
(***************************************************************************)
EXTENDS RefundLedger, FiniteSetTheorems, TLAPS

\* A worker that has a refund intent in hand.
Bound(t) == t.op \in {"api", "webhook"}

(* What a worker's local variables hold at each place of its program. *)
LocalOK(t) ==
  /\ Bound(t) => t.k \in Keys
  /\ t.at \notin {NoOp, "read", "commit"} \/ t.to = "REFUNDED" => Bound(t)
  /\ t.at \in {"initial", "apply"} => t.resp \in Refunds
  /\ t.at = "reply" => t.resp \in {"rejected"} \cup Refunds
  /\ t.at \in {"read", "commit"} => t.to \in {"SHIPPED", "DELIVERED", "REFUNDED"}
  /\ t.at = "commit" =>
       /\ t.before \in OrderStatuses
       /\ t.before = t.to \/ CanTransition(t.before, t.to)

WorkerInv == \A w \in Workers : LocalOK(worker[w])

TypeInv == TypeOK /\ WorkerInv

-----------------------------------------------------------------------------
(* The constructors of local states.                                       *)

LEMMA IdleOK == Idle \in WorkerStates /\ LocalOK(Idle)
BY ConstantsAssumption
   DEF Idle, WorkerStates, LocalOK, Bound, NoOp, NoKey, NoOrder, ProviderStatuses,
       Refunds, OrderStatuses

LEMMA BeginOK ==
  ASSUME NEW op \in {"api", "webhook"}, NEW k \in Keys
  PROVE  /\ Begin(op, "process", k) \in WorkerStates
         /\ LocalOK(Begin(op, "process", k))
         /\ \A s \in Refunds :
              LET t == [Begin(op, "initial", k) EXCEPT !.resp = s] IN
                t \in WorkerStates /\ LocalOK(t)
<1>1. Idle \in WorkerStates /\ Idle.to = NoOrder
  BY IdleOK DEF Idle
<1>2. ASSUME NEW i \in WorkerStates, i.to = NoOrder,
             NEW at \in {"process", "initial"}
      PROVE  LET t == [i EXCEPT !.op = op, !.at = at, !.k = k] IN
               t \in WorkerStates /\ t.at = at /\ t.to = NoOrder /\ t.op = op /\ t.k = k
  BY <1>2 DEF WorkerStates
<1>4. ASSUME NEW t \in WorkerStates, t.to = NoOrder, t.op = op, t.k = k,
             NEW s \in Refunds
      PROVE  /\ t.at = "process" => LocalOK(t)
             /\ LET u == [t EXCEPT !.resp = s] IN
                  u \in WorkerStates /\ (t.at = "initial" => LocalOK(u))
  BY <1>4 DEF WorkerStates, LocalOK, Bound, NoOp, NoOrder, ProviderStatuses
<1>5. Refunds # {}
  BY DEF Refunds
<1>3. QED BY <1>1, <1>2, <1>4, <1>5 DEF Begin

LEMMA DirectOK ==
  ASSUME NEW to \in {"SHIPPED", "DELIVERED"}
  PROVE  LET t == [Begin("admin", "read", NoKey) EXCEPT !.to = to] IN
           t \in WorkerStates /\ LocalOK(t)
<1>1. ASSUME NEW i \in WorkerStates
      PROVE  LET t == [i EXCEPT !.op = "admin", !.at = "read", !.k = NoKey]
                 u == [t EXCEPT !.to = to]
             IN u \in WorkerStates /\ LocalOK(u)
  BY DEF WorkerStates, LocalOK, Bound, NoOp, OrderStatuses
<1>2. QED BY <1>1, IdleOK DEF Begin

\* A worker with an intent may move on to any place that needs nothing more.
LEMMA GotoOK ==
  ASSUME NEW t \in WorkerStates, LocalOK(t), Bound(t),
         NEW at \in {"claim", "call", "failure", "recover", "finalize", "total",
                     "settle"}
  PROVE  LET u == [t EXCEPT !.at = at] IN u \in WorkerStates /\ LocalOK(u)
BY DEF WorkerStates, LocalOK, Bound, NoOp

LEMMA ThrownOK ==
  ASSUME NEW t \in WorkerStates, LocalOK(t)
  PROVE  Thrown(t) \in WorkerStates /\ LocalOK(Thrown(t))
BY IdleOK, GotoOK DEF Thrown, Bound

\* A worker that takes a sound local state keeps the workers' invariant.
LEMMA SetOK ==
  ASSUME TypeInv, NEW w \in Workers, NEW t \in WorkerStates, LocalOK(t), Set(w, t)
  PROVE  worker' \in [Workers -> WorkerStates] /\ WorkerInv'
BY DEF TypeInv, TypeOK, WorkerInv, Set

\* What a worker in the middle of an operation knows.
LEMMA BusyOK ==
  ASSUME TypeInv, NEW w \in Workers
  PROVE  /\ worker[w] \in WorkerStates
         /\ LocalOK(worker[w])
         /\ ~At(w, NoOp) /\ ~At(w, "read") /\ ~At(w, "commit") =>
              Bound(worker[w]) /\ worker[w].k \in Keys
BY DEF TypeInv, TypeOK, WorkerInv, LocalOK, At

RowsOK ==
  /\ status \in {"PAID", "SHIPPED", "DELIVERED", "REFUNDED"}
  /\ payment \in {"CAPTURED", "REFUNDED"}
  /\ intent \in [Keys -> Intents]
  /\ provider \in [Keys -> ProviderStatuses]
  /\ crashes \in Nat

LEMMA TypeParts ==
  /\ TypeInv <=> RowsOK /\ worker \in [Workers -> WorkerStates] /\ WorkerInv
  /\ TypeInv' <=> RowsOK' /\ worker' \in [Workers -> WorkerStates] /\ WorkerInv'
BY DEF TypeInv, TypeOK, RowsOK

\* A step of one worker is sound when its new local state and the rows are.
LEMMA StepOK ==
  ASSUME TypeInv, NEW w \in Workers, NEW t \in WorkerStates, LocalOK(t), Set(w, t),
         RowsOK'
  PROVE  TypeInv'
BY SetOK, TypeParts

LEMMA NoIntentOK == NoIntent \in Intents
BY ConstantsAssumption DEF NoIntent, Intents, IntentStatuses

-----------------------------------------------------------------------------
\* Operations start.
LEMMA StartType ==
  ASSUME TypeInv, NEW w \in Workers, Start(w)
  PROVE  TypeInv'
<1>1. ASSUME NEW k \in Keys, NEW amount \in 1..Paid, Acquire(w, k, amount)
      PROVE  TypeInv'
  <2> DEFINE i == [NoIntent EXCEPT !.status = "REQUESTED", !.amount = amount]
  <2>0. amount \in 0..Paid
    BY ConstantsAssumption
  <2>1. i \in Intents
    BY <2>0, NoIntentOK DEF Intents, IntentStatuses
  <2>2. RowsOK'
    BY <1>1, <2>1, TypeParts DEF Acquire, RowsOK
  <2>3. QED BY <1>1, <2>2, BeginOK, StepOK DEF Acquire
<1>2. ASSUME NEW k \in Keys, StartProcess(w, k) \/ StartScan(w, k)
      PROVE  TypeInv'
  <2>1. RowsOK'
    BY <1>2, TypeParts DEF StartProcess, StartScan, RowsOK
  <2>2. QED BY <1>2, <2>1, BeginOK, StepOK DEF StartProcess, StartScan
<1>3. ASSUME NEW k \in Keys, NEW s \in Refunds, StartWebhook(w, k, s)
      PROVE  TypeInv'
  <2>1. RowsOK'
    BY <1>3, TypeParts DEF StartWebhook, RowsOK
  <2>2. LET t == [Begin("webhook", "initial", k) EXCEPT !.resp = s] IN
          t \in WorkerStates /\ LocalOK(t)
    BY BeginOK
  <2>3. QED BY <1>3, <2>1, <2>2, StepOK DEF StartWebhook
<1>4. ASSUME NEW to \in {"SHIPPED", "DELIVERED"}, StartDirect(w, to)
      PROVE  TypeInv'
  <2>1. RowsOK'
    BY <1>4, TypeParts DEF StartDirect, RowsOK
  <2>2. QED BY <1>4, <2>1, DirectOK, StepOK DEF StartDirect
<1>5. QED BY <1>1, <1>2, <1>3, <1>4 DEF Start

\* The steps of processRefundIntent up to the provider's answer.
LEMMA ProcessType ==
  ASSUME TypeInv, NEW w \in Workers, Process(w)
  PROVE  TypeInv'
<1> DEFINE t == worker[w]
<1>1. /\ t \in WorkerStates /\ LocalOK(t) /\ Bound(t) /\ t.k \in Keys
      /\ intent[t.k] \in Intents
  BY BusyOK, TypeParts
     DEF Process, ProcessRead, Claim, ClaimLost, ProviderHandles, ReplyArrives,
         CallFails, RecordFailure, RecoverRead, At, NoOp, RowsOK
<1> HIDE DEF t
<1>2. CASE ProcessRead(w)
  <2>1. RowsOK'
    BY <1>2, TypeParts DEF ProcessRead, RowsOK
  <2>2. \/ Set(w, [t EXCEPT !.at = "finalize"])
        \/ Set(w, [t EXCEPT !.at = "claim"])
        \/ Set(w, Idle)
    BY <1>2 DEF ProcessRead, Goto, t
  <2>3. QED BY <1>1, <2>1, <2>2, IdleOK, GotoOK, StepOK
<1>3. CASE Claim(w)
  <2> DEFINE n == NextAttempt(intent[t.k].attempts)
             i == [intent[t.k] EXCEPT !.status = "PROCESSING", !.attempts = n,
                                      !.leased = TRUE, !.scheduled = FALSE]
             u == [t EXCEPT !.at = "call", !.attempts = n]
  <2>1. n \in 0..MaxAttempts
    BY <1>1, ConstantsAssumption DEF NextAttempt, Intents
  <2>2. i \in Intents
    BY <1>1, <2>1 DEF Intents, IntentStatuses
  <2>3. u \in WorkerStates /\ LocalOK(u)
    BY <1>1, <2>1 DEF WorkerStates, LocalOK, Bound, Intents, NoOp
  <2>4. Set(w, u) /\ intent' = [intent EXCEPT ![t.k] = i]
    BY <1>3 DEF Claim, t
  <2>5. RowsOK'
    BY <1>1, <1>3, <2>2, <2>4, TypeParts DEF Claim, RowsOK
  <2>6. QED BY <2>3, <2>4, <2>5, StepOK
<1>4. CASE ClaimLost(w)
  <2>1. RowsOK'
    BY <1>4, TypeParts DEF ClaimLost, RowsOK
  <2>2. QED BY <1>4, <2>1, IdleOK, StepOK DEF ClaimLost
<1>5. ASSUME NEW s \in ProviderStatuses, ProviderHandles(w, s)
      PROVE  TypeInv'
  <2> DEFINE u == [t EXCEPT !.at = "reply", !.resp = s]
  <2>0. s \in {"rejected"} \cup Refunds
    BY <1>1, <1>5, TypeParts DEF ProviderHandles, RowsOK, ProviderStatuses, t
  <2>1. u \in WorkerStates /\ LocalOK(u)
    BY <1>1, <2>0 DEF WorkerStates, LocalOK, Bound, NoOp
  <2>2. RowsOK'
    BY <1>1, <1>5, TypeParts DEF ProviderHandles, RowsOK, t
  <2>3. Set(w, u)
    BY <1>5 DEF ProviderHandles, t
  <2>4. QED BY <2>1, <2>2, <2>3, StepOK
<1>6. CASE ReplyArrives(w)
  <2> DEFINE u == [t EXCEPT !.at = "initial"]
  <2>1. t.at = "reply" /\ t.resp \in {"rejected"} \cup Refunds
    BY <1>1, <1>6 DEF ReplyArrives, At, LocalOK, t
  <2>2. t.resp # "rejected" => u \in WorkerStates /\ LocalOK(u)
    BY <1>1, <2>1 DEF WorkerStates, LocalOK, Bound, NoOp, ProviderStatuses
  <2>3. RowsOK'
    BY <1>6, TypeParts DEF ReplyArrives, RowsOK
  <2>4. QED BY <1>1, <1>6, <2>2, <2>3, GotoOK, StepOK DEF ReplyArrives, Goto, t
<1>7. CASE CallFails(w)
  <2> DEFINE u == [t EXCEPT !.at = "failure", !.resp = "unknown"]
  <2>1. u \in WorkerStates /\ LocalOK(u)
    BY <1>1 DEF WorkerStates, LocalOK, Bound, NoOp
  <2>2. RowsOK'
    BY <1>7, TypeParts DEF CallFails, RowsOK
  <2>3. QED BY <1>7, <2>1, <2>2, StepOK DEF CallFails, t
<1>8. CASE RecordFailure(w)
  <2>1. RowsOK'
    BY <1>1, <1>8, TypeParts DEF RecordFailure, RowsOK, Intents, IntentStatuses,
                                  RetryPlanned, Definitive, t
  <2>2. QED BY <1>8, <2>1, IdleOK, StepOK DEF RecordFailure
<1>9. CASE RecoverRead(w)
  <2> DEFINE u == [t EXCEPT !.at = "failure", !.resp = "unknown",
                            !.attempts = intent[t.k].attempts]
  <2>1. u \in WorkerStates /\ LocalOK(u)
    BY <1>1 DEF WorkerStates, LocalOK, Bound, NoOp, Intents
  <2>2. RowsOK'
    BY <1>9, TypeParts DEF RecoverRead, RowsOK
  <2>3. QED BY <1>9, <2>1, <2>2, IdleOK, StepOK DEF RecoverRead, t
<1>10. QED BY <1>2, <1>3, <1>4, <1>5, <1>6, <1>7, <1>8, <1>9 DEF Process

\* Recording an outcome.
LEMMA ApplyType ==
  ASSUME TypeInv, NEW w \in Workers, ApplyOutcome(w)
  PROVE  TypeInv'
<1> DEFINE t == worker[w]
<1>1. /\ t \in WorkerStates /\ LocalOK(t) /\ Bound(t) /\ t.k \in Keys
      /\ intent[t.k] \in Intents
      /\ t.at \in {"initial", "apply"}
  BY BusyOK, TypeParts
     DEF ApplyOutcome, InitialRead, Apply, ApplyTooLate, ApplyAborted, At, NoOp, RowsOK
<1>2. t.resp \in Refunds
  BY <1>1 DEF LocalOK
<1>3. MapStatus[t.resp] \in {"PENDING", "PROCESSED", "FAILED"}
  BY <1>2 DEF MapStatus, Refunds
<1> HIDE DEF t
<1>4. CASE InitialRead(w)
  <2> DEFINE u == [t EXCEPT !.at = "apply"]
  <2>1. u \in WorkerStates /\ LocalOK(u)
    BY <1>1, <1>2 DEF WorkerStates, LocalOK, Bound, NoOp
  <2>2. RowsOK'
    BY <1>4, TypeParts DEF InitialRead, RowsOK
  <2>3. Set(w, u) \/ Set(w, Idle) \/ Set(w, Thrown(t))
    BY <1>4 DEF InitialRead, t
  <2>4. QED BY <1>1, <2>1, <2>2, <2>3, IdleOK, ThrownOK, StepOK
<1>5. CASE Apply(w)
  <2>1. \E b \in BOOLEAN : intent' = [intent EXCEPT ![t.k] =
          [@ EXCEPT !.status = MapStatus[t.resp], !.leased = FALSE,
                    !.scheduled = b]]
    BY <1>5 DEF Apply, t
  <2>2. intent' \in [Keys -> Intents]
    <3>1. PICK b \in BOOLEAN : intent' = [intent EXCEPT ![t.k] =
            [@ EXCEPT !.status = MapStatus[t.resp], !.leased = FALSE,
                      !.scheduled = b]]
      BY <2>1
    <3> DEFINE i == [intent[t.k] EXCEPT !.status = MapStatus[t.resp],
                       !.leased = FALSE, !.scheduled = b]
    <3>2. i \in Intents
      BY <1>1, <1>3 DEF Intents, IntentStatuses
    <3>3. QED BY <1>1, <3>1, <3>2, TypeParts DEF RowsOK
  <2>3. RowsOK'
    BY <1>5, <2>2, TypeParts DEF Apply, RowsOK
  <2>4. Set(w, [t EXCEPT !.at = "finalize"]) \/ Set(w, Idle)
    BY <1>5 DEF Apply, Goto, t
  <2>5. QED BY <1>1, <2>3, <2>4, IdleOK, GotoOK, StepOK
<1>6. CASE ApplyTooLate(w)
  <2>1. RowsOK'
    BY <1>6, TypeParts DEF ApplyTooLate, RowsOK
  <2>2. Set(w, [t EXCEPT !.at = "finalize"]) \/ Set(w, Idle)
    BY <1>6 DEF ApplyTooLate, Goto, t
  <2>3. QED BY <1>1, <2>1, <2>2, IdleOK, GotoOK, StepOK
<1>7. CASE ApplyAborted(w)
  <2>1. RowsOK'
    BY <1>7, TypeParts DEF ApplyAborted, RowsOK
  <2>2. QED BY <1>1, <1>7, <2>1, ThrownOK, StepOK DEF ApplyAborted, t
<1>8. QED BY <1>4, <1>5, <1>6, <1>7 DEF ApplyOutcome

\* Finalizing the order.
LEMMA FinalizeType ==
  ASSUME TypeInv, NEW w \in Workers, Finalize(w)
  PROVE  TypeInv'
<1> DEFINE t == worker[w]
<1>1. /\ t \in WorkerStates /\ LocalOK(t) /\ Bound(t) /\ t.k \in Keys
      /\ intent[t.k] \in Intents
  BY BusyOK, TypeParts
     DEF Finalize, FinalizeLoad, FinalizeTotal, Settle, At, NoOp, RowsOK
<1> HIDE DEF t
<1>2. CASE FinalizeLoad(w)
  <2> DEFINE u == [t EXCEPT !.at = "total", !.before = status,
                            !.attempts = intent[t.k].attempts]
  <2>1. status \in OrderStatuses /\ intent[t.k].attempts \in 0..MaxAttempts
    BY <1>1, TypeParts DEF RowsOK, OrderStatuses, Intents
  <2>2. u \in WorkerStates /\ LocalOK(u)
    BY <1>1, <2>1 DEF WorkerStates, LocalOK, Bound, NoOp
  <2>3. RowsOK'
    BY <1>2, TypeParts DEF FinalizeLoad, RowsOK
  <2>4. QED BY <1>2, <2>2, <2>3, StepOK DEF FinalizeLoad, t
<1>3. CASE FinalizeTotal(w)
  <2> DEFINE u == [t EXCEPT !.at = "read", !.to = "REFUNDED"]
  <2>1. u \in WorkerStates /\ LocalOK(u)
    BY <1>1 DEF WorkerStates, LocalOK, Bound, NoOp, OrderStatuses
  <2>2. RowsOK'
    BY <1>3, TypeParts DEF FinalizeTotal, RowsOK
  <2>3. Set(w, Idle) \/ Set(w, u) \/ Set(w, [t EXCEPT !.at = "settle"])
    BY <1>3 DEF FinalizeTotal, t
  <2>4. QED BY <1>1, <2>1, <2>2, <2>3, IdleOK, GotoOK, StepOK
<1>4. CASE Settle(w)
  <2>1. intent' \in [Keys -> Intents]
    BY <1>1, <1>4, TypeParts DEF Settle, RowsOK, Intents, RetryPlanned, t
  <2>2. RowsOK'
    BY <1>4, <2>1, TypeParts DEF Settle, RowsOK
  <2>3. QED BY <1>4, <2>2, IdleOK, StepOK DEF Settle
<1>5. QED BY <1>2, <1>3, <1>4 DEF Finalize

\* The order's moves.
LEMMA TransitionType ==
  ASSUME TypeInv, NEW w \in Workers, Transition(w)
  PROVE  TypeInv'
<1> DEFINE t == worker[w]
<1>1. /\ t \in WorkerStates /\ LocalOK(t) /\ t.at \in {"read", "commit"}
      /\ t.to = "REFUNDED" => t.k \in Keys
  BY BusyOK DEF Transition, TransitionRead, TransitionRefused, TransitionCommit, At,
                LocalOK
<1>2. t.to \in {"SHIPPED", "DELIVERED", "REFUNDED"}
  BY <1>1 DEF LocalOK
<1> HIDE DEF t
<1>3. CASE TransitionRead(w)
  <2> DEFINE u == [t EXCEPT !.at = "commit", !.before = status]
  <2>1. status \in OrderStatuses
    BY TypeParts DEF RowsOK, OrderStatuses
  <2>2. status = t.to \/ CanTransition(status, t.to) =>
          u \in WorkerStates /\ LocalOK(u)
    BY <1>1, <2>1 DEF WorkerStates, LocalOK, Bound, NoOp
  <2>3. RowsOK'
    BY <1>3, TypeParts DEF TransitionRead, RowsOK
  <2>4. \/ Set(w, u) /\ (status = t.to \/ CanTransition(status, t.to))
        \/ Set(w, Thrown(t))
    BY <1>3 DEF TransitionRead, t
  <2>5. QED BY <1>1, <2>2, <2>3, <2>4, ThrownOK, StepOK
<1>4. CASE TransitionRefused(w)
  <2>1. RowsOK'
    BY <1>4, TypeParts DEF TransitionRefused, RowsOK
  <2>2. QED BY <1>1, <1>4, <2>1, ThrownOK, StepOK DEF TransitionRefused, t
<1>5. CASE TransitionCommit(w)
  <2>1. intent' \in [Keys -> Intents]
    BY <1>1, <1>5, TypeParts DEF TransitionCommit, RowsOK, Intents, t
  <2>2. RowsOK'
    BY <1>2, <1>5, <2>1, TypeParts DEF TransitionCommit, RowsOK, t
  <2>3. QED BY <1>5, <2>2, IdleOK, StepOK DEF TransitionCommit
<1>6. QED BY <1>3, <1>4, <1>5 DEF Transition

LEMMA EnvironmentType ==
  ASSUME TypeInv, Environment
  PROVE  TypeInv'
<1>1. worker' = worker
  BY DEF Environment, LeaseExpires, ProviderSettles
<1>2. ASSUME NEW k \in Keys, LeaseExpires(k)
      PROVE  RowsOK'
  <2>1. intent' \in [Keys -> Intents]
    BY <1>2, TypeParts DEF LeaseExpires, RowsOK, Intents
  <2>2. QED BY <1>2, <2>1, TypeParts DEF LeaseExpires, RowsOK
<1>3. ASSUME NEW k \in Keys, ProviderSettles(k)
      PROVE  RowsOK'
  BY <1>3, TypeParts DEF ProviderSettles, RowsOK, ProviderStatuses, Refunds
<1>4. WorkerInv'
  BY <1>1 DEF TypeInv, WorkerInv
<1>5. QED BY <1>1, <1>2, <1>3, <1>4, TypeParts DEF Environment

LEMMA InitType == Init => TypeInv
<1> SUFFICES ASSUME Init PROVE TypeInv
  OBVIOUS
<1>1. RowsOK
  BY NoIntentOK DEF Init, RowsOK, ProviderStatuses
<1>2. worker \in [Workers -> WorkerStates] /\ WorkerInv
  BY IdleOK DEF Init, WorkerInv
<1>3. QED BY <1>1, <1>2, TypeParts

LEMMA NextType == TypeInv /\ [Next]_vars => TypeInv'
<1> SUFFICES ASSUME TypeInv, [Next]_vars PROVE TypeInv'
  OBVIOUS
<1>1. ASSUME NEW w \in Workers, Continue(w) PROVE TypeInv'
  BY <1>1, ProcessType, ApplyType, FinalizeType, TransitionType DEF Continue
<1>2. ASSUME NEW w \in Workers, Crash(w) PROVE TypeInv'
  <2>1. RowsOK'
    BY <1>2, TypeParts DEF Crash, RowsOK
  <2>2. QED BY <1>2, <2>1, IdleOK, StepOK DEF Crash
<1>3. CASE UNCHANGED vars
  BY <1>3 DEF TypeInv, TypeOK, WorkerInv, vars
<1>4. QED BY <1>1, <1>2, <1>3, StartType, EnvironmentType DEF Next

\* Rows and local states keep their shape, and a worker is never at a place of
\* its program without what that place needs.
THEOREM TypeInvariant == Spec => []TypeInv
BY InitType, NextType, PTL DEF Spec

THEOREM TypeCorrect == Spec => []TypeOK
<1>1. TypeInv => TypeOK
  BY DEF TypeInv
<1>2. QED BY <1>1, TypeInvariant, PTL

-----------------------------------------------------------------------------
(* The ledger against the provider.  LedgerTruth is not inductive: an      *)
(* answer lies in a worker's hands for as long as it likes before it is    *)
(* recorded.  It stays true because what the provider has refused, made or *)
(* failed is never taken back, and a repeated key gets the first answer.   *)

TruthOK(t) ==
  Bound(t) =>
    /\ intent[t.k].status # "NONE"
    /\ t.at \in {"reply", "failure"} /\ t.resp = "rejected" =>
         provider[t.k] = "rejected"
    /\ t.at \in {"reply", "initial", "apply"} /\ t.resp \in {"processed", "failed"} =>
         provider[t.k] = t.resp

RowTruth ==
  \A k \in Keys :
    /\ intent[k].status = "NONE" => provider[k] = "none"
    /\ intent[k].status = "PROCESSED" => provider[k] = "processed"
    /\ intent[k].status = "FAILED" => provider[k] \in {"rejected", "failed"}

LedgerInv == RowTruth /\ \A w \in Workers : TruthOK(worker[w])

\* What no step takes back: a row, its amount, and a final word of the provider.
Kept(k) ==
  /\ intent[k].status # "NONE" =>
       intent'[k].status # "NONE" /\ intent'[k].amount = intent[k].amount
  /\ provider[k] \in {"rejected", "processed", "failed"} => provider'[k] = provider[k]
  /\ intent[k].status = "NONE" /\ intent'[k].status = "NONE" =>
       intent'[k].amount = intent[k].amount /\ provider'[k] = provider[k]

\* What a worker does to the rows: at most to those of its own intent.
LEMMA BoundTruth ==
  ASSUME TypeInv, LedgerInv, NEW w \in Workers,
         ~At(w, NoOp), ~At(w, "read"), ~At(w, "commit")
  PROVE  /\ Bound(worker[w]) /\ worker[w].k \in Keys
         /\ TruthOK(worker[w]) /\ LocalOK(worker[w])
         /\ intent[worker[w].k].status # "NONE"
BY BusyOK DEF LedgerInv, TruthOK

LEMMA ContinueKept ==
  ASSUME TypeInv, LedgerInv, NEW w \in Workers, Continue(w), NEW k \in Keys
  PROVE  Kept(k)
<1> DEFINE t == worker[w]
<1>0. /\ intent \in [Keys -> Intents] /\ provider \in [Keys -> ProviderStatuses]
      /\ intent[k] \in Intents
  BY TypeParts DEF RowsOK
<1>1. CASE Claim(w)
  <2>1. t.k \in Keys /\ intent[t.k].status # "NONE"
    BY <1>1, BoundTruth DEF Claim, At, NoOp
  <2>2. QED BY <1>0, <1>1, <2>1 DEF Claim, Kept, Intents
<1>2. ASSUME NEW s \in ProviderStatuses, ProviderHandles(w, s)
      PROVE  Kept(k)
  <2>1. t.k \in Keys /\ intent[t.k].status # "NONE"
    BY <1>2, BoundTruth DEF ProviderHandles, At, NoOp
  <2>2. QED BY <1>0, <1>2, <2>1 DEF ProviderHandles, Kept
<1>3. CASE RecordFailure(w)
  <2>1. t.k \in Keys /\ intent[t.k].status # "NONE"
    BY <1>3, BoundTruth DEF RecordFailure, At, NoOp
  <2>2. QED BY <1>0, <1>3, <2>1 DEF RecordFailure, Kept, Intents
<1>4. CASE Apply(w)
  <2>1. t.k \in Keys /\ intent[t.k].status # "NONE" /\ t.resp \in Refunds
    BY <1>4, BoundTruth DEF Apply, At, NoOp, LocalOK
  <2>2. MapStatus[t.resp] # "NONE"
    BY <2>1 DEF MapStatus, Refunds
  <2>3. QED BY <1>0, <1>4, <2>1, <2>2 DEF Apply, Kept, Intents
<1>5. CASE Settle(w)
  BY <1>0, <1>5 DEF Settle, Kept, Intents
<1>6. CASE TransitionCommit(w)
  BY <1>0, <1>6 DEF TransitionCommit, Kept, Intents
<1>7. CASE UNCHANGED <<intent, provider>>
  BY <1>7 DEF Kept
<1>8. QED BY <1>1, <1>2, <1>3, <1>4, <1>5, <1>6, <1>7
  DEF Continue, Process, ApplyOutcome, Finalize, Transition, ProcessRead, ClaimLost,
      ReplyArrives, CallFails, RecoverRead, InitialRead, ApplyTooLate, ApplyAborted,
      FinalizeLoad, FinalizeTotal, TransitionRead, TransitionRefused

LEMMA StartKept ==
  ASSUME TypeInv, LedgerInv, NEW w \in Workers, Start(w), NEW k \in Keys
  PROVE  Kept(k)
<1>0. intent \in [Keys -> Intents]
  BY TypeParts DEF RowsOK
<1>1. ASSUME NEW q \in Keys, NEW amount \in 1..Paid, Acquire(w, q, amount)
      PROVE  Kept(k)
  BY <1>0, <1>1 DEF Acquire, Kept, NoIntent
<1>2. CASE UNCHANGED <<intent, provider>>
  BY <1>2 DEF Kept
<1>3. QED BY <1>1, <1>2 DEF Start, StartProcess, StartScan, StartWebhook, StartDirect

LEMMA NextKept ==
  ASSUME TypeInv, LedgerInv, [Next]_vars, NEW k \in Keys
  PROVE  Kept(k)
<1>0. intent \in [Keys -> Intents] /\ intent[k] \in Intents
  BY TypeParts DEF RowsOK
<1>1. ASSUME NEW q \in Keys, LeaseExpires(q)
      PROVE  Kept(k)
  BY <1>0, <1>1 DEF LeaseExpires, Kept, Intents
<1>2. ASSUME NEW q \in Keys, ProviderSettles(q)
      PROVE  Kept(k)
  <2>1. intent[q].status # "NONE"
    BY <1>2 DEF ProviderSettles, LedgerInv, RowTruth
  <2>2. QED BY <1>2, <2>1, TypeParts DEF ProviderSettles, Kept, RowsOK
<1>3. CASE UNCHANGED <<intent, provider>>
  BY <1>3 DEF Kept
<1>4. QED BY <1>1, <1>2, <1>3, StartKept, ContinueKept
  DEF Next, Environment, Crash, vars

\* What a worker knows stays true while others move.
LEMMA TruthStable ==
  ASSUME TypeInv, LedgerInv, [Next]_vars, NEW t, TruthOK(t), LocalOK(t)
  PROVE  TruthOK(t)'
<1> SUFFICES ASSUME Bound(t)
             PROVE  TruthOK(t)'
  BY DEF TruthOK, Bound
<1>1. t.k \in Keys /\ Kept(t.k)
  BY NextKept DEF LocalOK
<1>2. QED BY <1>1 DEF TruthOK, Kept

\* A worker may keep its intent and move to where no answer counts, or end.
LEMMA TruthMoved ==
  ASSUME TypeInv, LedgerInv, [Next]_vars, NEW t, TruthOK(t), LocalOK(t),
         NEW u, u.op = t.op, u.k = t.k,
         \/ u.at \notin {"reply", "failure", "initial", "apply"}
         \/ u.resp \notin {"rejected", "processed", "failed"}
         \/ u.resp = t.resp /\ u.at = "failure" /\ t.at = "reply"
         \/ u.resp = t.resp /\ u.at \in {"initial", "apply"} /\
              t.at \in {"reply", "initial"}
  PROVE  TruthOK(u)'
<1>1. TruthOK(t)'
  BY TruthStable
<1>2. QED BY <1>1 DEF TruthOK, Bound

LEMMA IdleTruth == TruthOK(Idle) /\ TruthOK(Idle)'
BY DEF TruthOK, Bound, Idle, NoOp

LEMMA ThrownTruth ==
  ASSUME TypeInv, LedgerInv, [Next]_vars, NEW t, t \in WorkerStates, TruthOK(t), LocalOK(t)
  PROVE  TruthOK(Thrown(t))'
<1>1. CASE Thrown(t) = Idle
  BY <1>1, IdleTruth
<1>2. CASE Thrown(t) = [t EXCEPT !.at = "recover"]
  <2> DEFINE u == [t EXCEPT !.at = "recover"]
  <2>1. u.op = t.op /\ u.k = t.k /\ u.at = "recover"
    BY DEF WorkerStates
  <2>2. TruthOK(u)'
    BY <2>1, TruthMoved
  <2>3. QED BY <1>2, <2>2
<1>3. QED BY <1>1, <1>2 DEF Thrown

\* The step of w ends in a local state that knows the truth.
LEMMA TruthSet ==
  ASSUME TypeInv, LedgerInv, [Next]_vars, NEW w \in Workers,
         NEW t, Set(w, t), TruthOK(t)'
  PROVE  \A x \in Workers : TruthOK(worker[x])'
<1>1. ASSUME NEW x \in Workers
      PROVE  TruthOK(worker[x])'
  <2>1. CASE x = w
    <3>1. worker'[x] = t
      BY <2>1, TypeParts DEF Set
    <3>2. QED BY <3>1 DEF TruthOK, Bound
  <2>2. CASE x # w
    <3>1. PICK t0 : t0 = worker[x]
      OBVIOUS
    <3>2. TruthOK(t0)'
      BY <3>1, BusyOK, TruthStable DEF LedgerInv
    <3>3. worker'[x] = t0
      BY <2>2, <3>1, TypeParts DEF Set
    <3>4. QED BY <3>2, <3>3 DEF TruthOK, Bound
  <2>3. QED BY <2>1, <2>2
<1>2. QED BY <1>1

LEMMA StartTruth ==
  ASSUME TypeInv, LedgerInv, [Next]_vars, NEW w \in Workers, Start(w)
  PROVE  \A x \in Workers : TruthOK(worker[x])'
<1>0. intent \in [Keys -> Intents] /\ provider \in [Keys -> ProviderStatuses]
  BY TypeParts DEF RowsOK
<1>1. ASSUME NEW k \in Keys, NEW op \in {"api", "webhook"}
      PROVE  LET t == Begin(op, "process", k) IN t.at = "process" /\ t.k = k
  BY DEF Begin, Idle
<1>2. ASSUME NEW k \in Keys, intent'[k].status # "NONE",
             Set(w, Begin("api", "process", k))
      PROVE  \A x \in Workers : TruthOK(worker[x])'
  <2>1. PICK t : t = Begin("api", "process", k)
    OBVIOUS
  <2>2. TruthOK(t)'
    BY <1>1, <1>2, <2>1 DEF TruthOK
  <2>3. QED BY <1>2, <2>1, <2>2, TruthSet
<1>3. ASSUME NEW k \in Keys, NEW amount \in 1..Paid, Acquire(w, k, amount)
      PROVE  \A x \in Workers : TruthOK(worker[x])'
  <2>1. intent'[k].status # "NONE"
    BY <1>0, <1>3 DEF Acquire, NoIntent
  <2>2. QED BY <1>2, <1>3, <2>1 DEF Acquire
<1>4. ASSUME NEW k \in Keys, StartProcess(w, k) \/ StartScan(w, k)
      PROVE  \A x \in Workers : TruthOK(worker[x])'
  <2>1. intent'[k].status # "NONE"
    BY <1>4 DEF StartProcess, StartScan, Due
  <2>2. QED BY <1>2, <1>4, <2>1 DEF StartProcess, StartScan
<1>5. ASSUME NEW k \in Keys, NEW s \in Refunds, StartWebhook(w, k, s)
      PROVE  \A x \in Workers : TruthOK(worker[x])'
  <2>1. PICK t : t = [Begin("webhook", "initial", k) EXCEPT !.resp = s]
    OBVIOUS
  <2>2. t.at = "initial" /\ t.k = k /\ t.resp = s
    BY <2>1 DEF Begin, Idle
  <2>3. intent'[k].status # "NONE"
    BY <1>5 DEF StartWebhook, LedgerInv, RowTruth, Refunds
  <2>4. s \in {"processed", "failed"} => provider'[k] = s
    BY <1>5 DEF StartWebhook
  <2>5. TruthOK(t)'
    BY <2>2, <2>3, <2>4 DEF TruthOK
  <2>6. QED BY <1>5, <2>1, <2>5, TruthSet DEF StartWebhook
<1>6. ASSUME NEW to \in {"SHIPPED", "DELIVERED"}, StartDirect(w, to)
      PROVE  \A x \in Workers : TruthOK(worker[x])'
  <2>1. PICK t : t = [Begin("admin", "read", NoKey) EXCEPT !.to = to]
    OBVIOUS
  <2>2. t.op = "admin"
    BY <2>1 DEF Begin, Idle
  <2>3. TruthOK(t)'
    BY <2>2 DEF TruthOK, Bound
  <2>4. QED BY <1>6, <2>1, <2>3, TruthSet DEF StartDirect
<1>7. QED BY <1>3, <1>4, <1>5, <1>6 DEF Start

LEMMA ContinueTruth ==
  ASSUME TypeInv, LedgerInv, [Next]_vars, NEW w \in Workers, Continue(w)
  PROVE  \A x \in Workers : TruthOK(worker[x])'
<1>1. PICK t : t = worker[w]
  OBVIOUS
<1>2. t \in WorkerStates /\ LocalOK(t) /\ TruthOK(t)
  BY <1>1, BusyOK DEF LedgerInv
<1>3. PICK u : Set(w, u)
  BY DEF Continue, Process, ApplyOutcome, Finalize, Transition, ProcessRead, Claim,
         ClaimLost, ProviderHandles, ReplyArrives, CallFails, RecordFailure,
         RecoverRead, InitialRead, Apply, ApplyTooLate, ApplyAborted, FinalizeLoad,
         FinalizeTotal, Settle, TransitionRead, TransitionRefused, TransitionCommit,
         Goto
<1> SUFFICES TruthOK(u)'
  BY <1>3, TruthSet
<1>4. worker'[w] = u
  BY <1>3, TypeParts DEF Set
<1> DEFINE Moved == /\ u.op = t.op /\ u.k = t.k
                    /\ \/ u.at \notin {"reply", "failure", "initial", "apply"}
                       \/ u.resp \notin {"rejected", "processed", "failed"}
                       \/ u.resp = t.resp /\ u.at = "failure" /\ t.at = "reply"
                       \/ u.resp = t.resp /\ u.at \in {"initial", "apply"} /\
                            t.at \in {"reply", "initial"}
<1>5. Moved => TruthOK(u)'
  BY <1>2, TruthMoved
<1>6. u = Idle => TruthOK(u)'
  BY IdleTruth
<1>7. u = Thrown(t) => TruthOK(u)'
  BY <1>2, ThrownTruth
<1>8. ASSUME NEW s \in ProviderStatuses, ProviderHandles(w, s)
      PROVE  TruthOK(u)'
  <2>1. t.k \in Keys /\ intent[t.k].status # "NONE"
    BY <1>1, <1>8, BoundTruth DEF ProviderHandles, At, NoOp
  <2>2. u = [t EXCEPT !.at = "reply", !.resp = s] /\ provider'[t.k] = s /\ intent' = intent
    BY <1>1, <1>4, <1>8, <2>1, TypeParts DEF ProviderHandles, Set, RowsOK
  <2>3. u.at = "reply" /\ u.resp = s /\ u.k = t.k
    BY <1>2, <2>2 DEF WorkerStates
  <2>4. QED BY <2>1, <2>2, <2>3 DEF TruthOK
<1>9. CASE ProcessRead(w) \/ Claim(w) \/ ClaimLost(w)
  <2>1. \/ u = Idle
        \/ u = [t EXCEPT !.at = "finalize"]
        \/ u = [t EXCEPT !.at = "claim"]
        \/ u = [t EXCEPT !.at = "call", !.attempts = NextAttempt(intent[t.k].attempts)]
    BY <1>1, <1>4, <1>9, TypeParts DEF ProcessRead, Claim, ClaimLost, Goto, Set
  <2>2. u # Idle => Moved
    BY <1>2, <2>1 DEF WorkerStates
  <2>3. QED BY <1>5, <1>6, <2>2
<1>10. CASE ReplyArrives(w) \/ CallFails(w)
  <2>1. \/ u = [t EXCEPT !.at = "failure"] /\ t.at = "reply"
        \/ u = [t EXCEPT !.at = "initial"] /\ t.at = "reply"
        \/ u = [t EXCEPT !.at = "failure", !.resp = "unknown"]
    BY <1>1, <1>4, <1>10, TypeParts DEF ReplyArrives, CallFails, Goto, Set, At
  <2>2. Moved
    BY <1>2, <2>1 DEF WorkerStates
  <2>3. QED BY <1>5, <2>2
<1>11. CASE RecordFailure(w) \/ RecoverRead(w)
  <2>1. \/ u = Idle
        \/ u = [t EXCEPT !.at = "failure", !.resp = "unknown",
                         !.attempts = intent[t.k].attempts]
    BY <1>1, <1>4, <1>11, TypeParts DEF RecordFailure, RecoverRead, Set
  <2>2. u # Idle => Moved
    BY <1>2, <2>1 DEF WorkerStates
  <2>3. QED BY <1>5, <1>6, <2>2
<1>12. CASE ApplyOutcome(w)
  <2>1. \/ u = Idle \/ u = Thrown(t)
        \/ u = [t EXCEPT !.at = "finalize"]
        \/ u = [t EXCEPT !.at = "apply"] /\ t.at = "initial"
    BY <1>1, <1>4, <1>12, TypeParts DEF ApplyOutcome, InitialRead, Apply, ApplyTooLate,
                                        ApplyAborted, Goto, Set, At
  <2>2. u \notin {Idle, Thrown(t)} => Moved
    BY <1>2, <2>1 DEF WorkerStates
  <2>3. QED BY <1>5, <1>6, <1>7, <2>2
<1>13. CASE Finalize(w)
  <2>1. \/ u = Idle
        \/ u = [t EXCEPT !.at = "total", !.before = status,
                         !.attempts = intent[t.k].attempts]
        \/ u = [t EXCEPT !.at = "read", !.to = "REFUNDED"]
        \/ u = [t EXCEPT !.at = "settle"]
    BY <1>1, <1>4, <1>13, TypeParts DEF Finalize, FinalizeLoad, FinalizeTotal, Settle, Set
  <2>2. u # Idle => Moved
    BY <1>2, <2>1 DEF WorkerStates
  <2>3. QED BY <1>5, <1>6, <2>2
<1>14. CASE Transition(w)
  <2>1. \/ u = Idle \/ u = Thrown(t)
        \/ u = [t EXCEPT !.at = "commit", !.before = status]
    BY <1>1, <1>4, <1>14, TypeParts DEF Transition, TransitionRead, TransitionRefused,
                                        TransitionCommit, Set
  <2>2. u \notin {Idle, Thrown(t)} => Moved
    BY <1>2, <2>1 DEF WorkerStates
  <2>3. QED BY <1>5, <1>6, <1>7, <2>2
<1>15. QED BY <1>8, <1>9, <1>10, <1>11, <1>12, <1>13, <1>14 DEF Continue, Process

\* A row is settled only by what the provider said of it.
LEMMA ContinueRows ==
  ASSUME TypeInv, LedgerInv, NEW w \in Workers, Continue(w)
  PROVE  RowTruth'
<1>1. PICK t : t = worker[w]
  OBVIOUS
<1>2. /\ intent \in [Keys -> Intents] /\ provider \in [Keys -> ProviderStatuses]
      /\ RowTruth
  BY TypeParts DEF RowsOK, LedgerInv
<1>3. ~At(w, NoOp) /\ ~At(w, "read") /\ ~At(w, "commit") =>
        /\ t.k \in Keys /\ intent[t.k].status # "NONE"
        /\ TruthOK(t) /\ LocalOK(t) /\ Bound(t)
  BY <1>1, BoundTruth
<1>4. CASE Claim(w)
  <2>1. t.k \in Keys /\ intent'[t.k].status = "PROCESSING"
    BY <1>1, <1>2, <1>3, <1>4 DEF Claim, At, NoOp, Intents
  <2>2. \A k \in Keys : k # t.k => intent'[k] = intent[k]
    BY <1>1, <1>2, <1>4 DEF Claim
  <2>3. QED BY <1>2, <1>4, <2>1, <2>2 DEF Claim, RowTruth
<1>5. ASSUME NEW s \in ProviderStatuses, ProviderHandles(w, s)
      PROVE  RowTruth'
  <2>1. t.k \in Keys /\ intent[t.k].status # "NONE"
    BY <1>1, <1>3, <1>5 DEF ProviderHandles, At, NoOp
  <2>2. /\ provider'[t.k] = s
        /\ \A k \in Keys : k # t.k => provider'[k] = provider[k]
        /\ provider[t.k] # "none" => s = provider[t.k]
    BY <1>1, <1>2, <1>5, <2>1 DEF ProviderHandles
  <2>3. QED BY <1>2, <1>5, <2>1, <2>2 DEF ProviderHandles, RowTruth
<1>6. CASE RecordFailure(w)
  <2>1. /\ t.k \in Keys
        /\ intent'[t.k].status = IF t.resp = "rejected" THEN "FAILED"
                                                        ELSE "RECONCILIATION_REQUIRED"
    BY <1>1, <1>2, <1>3, <1>6 DEF RecordFailure, At, NoOp, Intents, Definitive
  <2>2. t.resp = "rejected" => provider[t.k] = "rejected"
    BY <1>1, <1>3, <1>6 DEF RecordFailure, At, TruthOK, NoOp
  <2>3. \A k \in Keys : k # t.k => intent'[k] = intent[k]
    BY <1>1, <1>2, <1>6 DEF RecordFailure
  <2>4. /\ intent'[t.k].status \notin {"NONE", "PROCESSED"}
        /\ intent'[t.k].status = "FAILED" => provider[t.k] = "rejected"
    BY <2>1, <2>2
  <2>5. provider' = provider
    BY <1>6 DEF RecordFailure
  <2>6. ASSUME NEW k \in Keys
        PROVE  /\ intent'[k].status = "NONE" => provider[k] = "none"
               /\ intent'[k].status = "PROCESSED" => provider[k] = "processed"
               /\ intent'[k].status = "FAILED" => provider[k] \in {"rejected", "failed"}
    BY <1>2, <2>3, <2>4 DEF RowTruth
  <2>7. QED BY <2>5, <2>6 DEF RowTruth
<1>7. CASE Apply(w)
  <2>1. t.k \in Keys /\ t.resp \in Refunds /\ TruthOK(t) /\ Bound(t) /\ t.at = "apply"
    BY <1>1, <1>3, <1>7 DEF Apply, At, NoOp, LocalOK
  <2>2. intent'[t.k].status = MapStatus[t.resp]
    BY <1>1, <1>2, <1>7, <2>1 DEF Apply, Intents
  <2>3. /\ t.resp \in {"processed", "failed"} => provider[t.k] = t.resp
        /\ MapStatus[t.resp] # "NONE"
        /\ MapStatus[t.resp] = "PROCESSED" => t.resp = "processed"
        /\ MapStatus[t.resp] = "FAILED" => t.resp = "failed"
    BY <2>1 DEF TruthOK, MapStatus, Refunds
  <2>4. \A k \in Keys : k # t.k => intent'[k] = intent[k]
    BY <1>1, <1>2, <1>7 DEF Apply
  <2>5. QED BY <1>2, <1>7, <2>1, <2>2, <2>3, <2>4 DEF Apply, RowTruth
<1>8. CASE Settle(w) \/ TransitionCommit(w)
  <2>1. \A k \in Keys : intent'[k].status = intent[k].status
    BY <1>2, <1>8 DEF Settle, TransitionCommit, Intents
  <2>2. QED BY <1>2, <1>8, <2>1 DEF Settle, TransitionCommit, RowTruth
<1>9. CASE UNCHANGED <<intent, provider>>
  BY <1>2, <1>9 DEF RowTruth
<1>10. QED BY <1>4, <1>5, <1>6, <1>7, <1>8, <1>9
  DEF Continue, Process, ApplyOutcome, Finalize, Transition, ProcessRead, ClaimLost,
      ReplyArrives, CallFails, RecoverRead, InitialRead, ApplyTooLate, ApplyAborted,
      FinalizeLoad, FinalizeTotal, TransitionRead, TransitionRefused

LEMMA NextRows == TypeInv /\ LedgerInv /\ [Next]_vars => RowTruth'
<1> SUFFICES ASSUME TypeInv, LedgerInv, [Next]_vars PROVE RowTruth'
  OBVIOUS
<1>1. intent \in [Keys -> Intents] /\ RowTruth
  BY TypeParts DEF RowsOK, LedgerInv
<1>2. ASSUME NEW w \in Workers, NEW k \in Keys, NEW amount \in 1..Paid,
             Acquire(w, k, amount)
      PROVE  RowTruth'
  <2>1. intent'[k].status = "REQUESTED"
    BY <1>1, <1>2 DEF Acquire, NoIntent
  <2>2. QED BY <1>1, <1>2, <2>1 DEF Acquire, RowTruth
<1>3. ASSUME NEW k \in Keys, LeaseExpires(k) PROVE RowTruth'
  <2>1. \A q \in Keys : intent'[q].status = intent[q].status
    BY <1>1, <1>3 DEF LeaseExpires, Intents
  <2>2. QED BY <1>1, <1>3, <2>1 DEF LeaseExpires, RowTruth
<1>4. ASSUME NEW k \in Keys, ProviderSettles(k) PROVE RowTruth'
  BY <1>1, <1>4, TypeParts DEF ProviderSettles, RowTruth, RowsOK
<1>5. CASE UNCHANGED <<intent, provider>>
  BY <1>1, <1>5 DEF RowTruth
<1>6. QED BY <1>2, <1>3, <1>4, <1>5, ContinueRows
  DEF Next, Start, StartProcess, StartScan, StartWebhook, StartDirect, Environment,
      Crash, vars

LEMMA NextLedger == TypeInv /\ LedgerInv /\ [Next]_vars => LedgerInv'
<1> SUFFICES ASSUME TypeInv, LedgerInv, [Next]_vars
             PROVE  \A x \in Workers : TruthOK(worker[x])'
  BY NextRows DEF LedgerInv
<1>1. ASSUME NEW w \in Workers, Crash(w)
      PROVE  \A x \in Workers : TruthOK(worker[x])'
  <2>1. PICK t : t = Idle
    OBVIOUS
  <2>2. TruthOK(t)'
    BY <2>1, IdleTruth DEF TruthOK, Bound
  <2>3. QED BY <1>1, <2>1, <2>2, TruthSet DEF Crash
<1>2. CASE worker' = worker
  <2>1. ASSUME NEW x \in Workers PROVE TruthOK(worker[x])'
    <3>1. PICK t : t = worker[x]
      OBVIOUS
    <3>2. TruthOK(t)'
      BY <3>1, BusyOK, TruthStable DEF LedgerInv
    <3>3. worker'[x] = t
      BY <1>2, <3>1
    <3>4. QED BY <3>2, <3>3 DEF TruthOK, Bound
  <2>2. QED BY <2>1
<1>3. QED BY <1>1, <1>2, StartTruth, ContinueTruth
  DEF Next, Environment, LeaseExpires, ProviderSettles, vars

LEMMA InitLedger == Init => LedgerInv
<1> SUFFICES ASSUME Init PROVE LedgerInv
  OBVIOUS
<1>1. RowTruth
  BY DEF Init, RowTruth, NoIntent
<1>2. \A w \in Workers : TruthOK(worker[w])
  BY IdleTruth DEF Init
<1>3. QED BY <1>1, <1>2 DEF LedgerInv

THEOREM LedgerInvariant == Spec => [](TypeInv /\ LedgerInv)
<1>1. Init => TypeInv /\ LedgerInv
  BY InitType, InitLedger
<1>2. TypeInv /\ LedgerInv /\ [Next]_vars => TypeInv' /\ LedgerInv'
  BY NextType, NextLedger
<1>3. QED BY <1>1, <1>2, PTL DEF Spec

\* Whatever times out, arrives late or is repeated, an intent is PROCESSED or
\* FAILED in the ledger only if it is so at the provider.
THEOREM LedgerTruthTheorem == Spec => []LedgerTruth
<1>1. LedgerInv => LedgerTruth
  BY DEF LedgerInv, RowTruth, LedgerTruth
<1>2. QED BY <1>1, LedgerInvariant, PTL

-----------------------------------------------------------------------------
(* Money.  The ledger may resurrect a settled intent, so that what it holds *)
(* back is not bounded by the payment (a late timeout revives it); what     *)
(* the provider may still pay is: an intent outside Reserved is dead there. *)

MoneyInv ==
  /\ Sum(LiveKeys) <= Paid
  /\ status = "SHIPPED" => LiveKeys = {}
  /\ status = "REFUNDED" <=> payment = "REFUNDED"
  /\ status = "REFUNDED" => Paid <= Sum(PaidBackKeys)

LEMMA OneToN ==
  ASSUME NEW n \in Nat
  PROVE  IsFiniteSet(1..n) /\ Cardinality(1..n) = n
<1> DEFINE c == Cardinality(1..n)
<1>1. IsFiniteSet(1..n) /\ c = IF 1 > n THEN 0 ELSE n - 1 + 1
  BY FS_Interval
<1> HIDE DEF c
<1>2. c = n
  BY <1>1
<1>3. QED BY <1>1, <1>2 DEF c

\* Sets of units are finite, and smaller sets have smaller sums.
LEMMA UnitSets ==
  ASSUME NEW A \in SUBSET (Keys \X (1..Paid)), NEW B \in SUBSET A
  PROVE  /\ IsFiniteSet(A) /\ Cardinality(A) \in Nat
         /\ IsFiniteSet(B) /\ Cardinality(B) \in Nat
         /\ Cardinality(B) <= Cardinality(A)
<1> DEFINE T == 1..Paid
           all == Keys \X T
<1>1. IsFiniteSet(T)
  BY ConstantsAssumption, FS_Interval
<1> HIDE DEF T
<1>2. IsFiniteSet(all)
  BY <1>1, ConstantsAssumption, FS_Product
<1>3. A \subseteq all
  BY DEF T
<1> HIDE DEF all
<1>4. IsFiniteSet(A)
  BY <1>2, <1>3, FS_Subset
<1>5. IsFiniteSet(B) /\ Cardinality(B) <= Cardinality(A)
  BY <1>4, FS_Subset
<1>6. QED BY <1>4, <1>5, FS_CardinalityType

LEMMA SumMono ==
  ASSUME NEW S, NEW T, S \subseteq T
  PROVE  Sum(S) \in Nat /\ Sum(T) \in Nat /\ Sum(S) <= Sum(T)
<1> DEFINE A == Units(T)
           B == Units(S)
<1>1. A \in SUBSET (Keys \X (1..Paid)) /\ B \in SUBSET A
  BY DEF Units
<1> HIDE DEF A, B
<1>2. Cardinality(A) \in Nat /\ Cardinality(B) \in Nat /\ Cardinality(B) <= Cardinality(A)
  BY <1>1, UnitSets
<1>3. QED BY <1>2 DEF Sum, A, B

\* Only a request makes a row.
LEMMA NoNewRows ==
  ASSUME TypeInv, LedgerInv, [Next]_vars,
         ~\E w \in Workers, k \in Keys, amount \in 1..Paid : Acquire(w, k, amount)
  PROVE  \A k \in Keys : intent[k].status = "NONE" => intent'[k].status = "NONE"
<1> SUFFICES ASSUME NEW k \in Keys, intent[k].status = "NONE"
             PROVE  intent'[k].status = "NONE"
  OBVIOUS
<1>1. intent \in [Keys -> Intents]
  BY TypeParts DEF RowsOK
<1>2. ASSUME NEW w \in Workers, Claim(w) \/ RecordFailure(w) \/ Apply(w)
      PROVE  intent'[k] = intent[k]
  <2>1. worker[w].k # k
    BY <1>2, BoundTruth DEF Claim, RecordFailure, Apply, At, NoOp
  <2>2. QED BY <1>1, <1>2, <2>1 DEF Claim, RecordFailure, Apply
<1>3. ASSUME NEW w \in Workers, Settle(w) \/ TransitionCommit(w)
      PROVE  intent'[k].status = intent[k].status
  BY <1>1, <1>3 DEF Settle, TransitionCommit, Intents
<1>4. ASSUME NEW q \in Keys, LeaseExpires(q)
      PROVE  intent'[k].status = intent[k].status
  BY <1>1, <1>4 DEF LeaseExpires, Intents
<1>5. QED BY <1>2, <1>3, <1>4
  DEF Next, Start, StartProcess, StartScan, StartWebhook, StartDirect, Continue,
      Process, ApplyOutcome, Finalize, Transition, ProcessRead, ClaimLost,
      ProviderHandles, ReplyArrives, CallFails, RecoverRead, InitialRead,
      ApplyTooLate, ApplyAborted, FinalizeLoad, FinalizeTotal, TransitionRead,
      TransitionRefused, Environment, ProviderSettles, Crash, vars

\* Without a new request no money comes alive.
LEMMA LiveShrinks ==
  ASSUME TypeInv, LedgerInv, [Next]_vars,
         ~\E w \in Workers, k \in Keys, amount \in 1..Paid : Acquire(w, k, amount)
  PROVE  /\ LiveKeys' \subseteq LiveKeys
         /\ Sum(LiveKeys)' <= Sum(LiveKeys)
         /\ Sum(LiveKeys) \in Nat /\ Sum(LiveKeys)' \in Nat
<1>1. \A k \in Keys : Kept(k) /\ (intent[k].status = "NONE" => intent'[k].status = "NONE")
  BY NextKept, NoNewRows
<1>2. \A k \in LiveKeys' : k \in LiveKeys /\ intent'[k].amount = intent[k].amount
  BY <1>1 DEF LiveKeys, Kept
<1> DEFINE A == Units(LiveKeys)
           B == Units(LiveKeys)'
<1>3. A \in SUBSET (Keys \X (1..Paid)) /\ B \in SUBSET A
  BY <1>2 DEF Units
<1> HIDE DEF A, B
<1>4. Cardinality(A) \in Nat /\ Cardinality(B) \in Nat /\ Cardinality(B) <= Cardinality(A)
  BY <1>3, UnitSets
<1>5. QED BY <1>2, <1>4 DEF Sum, A, B

\* What was paid back stays paid back.
LEMMA PaidBackGrows ==
  ASSUME TypeInv, LedgerInv, [Next]_vars
  PROVE  Sum(PaidBackKeys) \in Nat /\ Sum(PaidBackKeys)' \in Nat /\
         Sum(PaidBackKeys) <= Sum(PaidBackKeys)'
<1>1. \A k \in Keys : Kept(k)
  BY NextKept
<1>2. \A k \in PaidBackKeys : k \in PaidBackKeys' /\ intent'[k].amount = intent[k].amount
  BY <1>1 DEF PaidBackKeys, Kept, LedgerInv, RowTruth
<1> DEFINE A == Units(PaidBackKeys)'
           B == Units(PaidBackKeys)
<1>3. A \in SUBSET (Keys \X (1..Paid)) /\ B \in SUBSET A
  BY <1>2 DEF Units
<1> HIDE DEF A, B
<1>4. Cardinality(A) \in Nat /\ Cardinality(B) \in Nat /\ Cardinality(B) <= Cardinality(A)
  BY <1>3, UnitSets
<1>5. QED BY <1>4 DEF Sum, A, B

\* An intent that the ledger holds nothing back for is dead at the provider.
LEMMA LiveIsReserved ==
  ASSUME TypeInv, LedgerInv
  PROVE  /\ LiveKeys \subseteq ReservedKeys
         /\ ProcessedKeys \subseteq PaidBackKeys
         /\ PaidBackKeys \subseteq LiveKeys
BY TypeParts DEF RowsOK, Intents, IntentStatuses, LedgerInv, RowTruth, LiveKeys,
                 ReservedKeys, Reserved, ProcessedKeys, PaidBackKeys

\* A request brings no more to life than the ledger holds free.
LEMMA AcquireMoney ==
  ASSUME TypeInv, LedgerInv, NEW w \in Workers, NEW k \in Keys, NEW amount \in 1..Paid,
         Acquire(w, k, amount)
  PROVE  Sum(LiveKeys)' <= Paid
<1> DEFINE C == 1..amount
           new == {k} \X C
           A == Units(LiveKeys)
           B == Units(LiveKeys)'
<1>0. intent \in [Keys -> Intents] /\ intent[k].status = "NONE"
  BY TypeParts DEF RowsOK, Acquire
<1>1. /\ intent'[k].amount = amount
      /\ \A q \in Keys : q # k => intent'[q] = intent[q]
  BY <1>0 DEF Acquire, NoIntent
<1>2. \A q \in LiveKeys' : q = k \/ (q \in LiveKeys /\ intent'[q] = intent[q])
  BY <1>1 DEF LiveKeys, Acquire
<1>3. B \subseteq A \cup new
  <2>1. ASSUME NEW u \in B PROVE u \in A \cup new
    <3>1. /\ u \in Keys \X (1..Paid) /\ u[1] \in LiveKeys' /\ u[2] <= intent'[u[1]].amount
      BY DEF Units
    <3>2. CASE u[1] = k
      <4>1. u[2] \in C
        BY <1>1, <3>1, <3>2, ConstantsAssumption
      <4>2. u = <<u[1], u[2]>>
        BY <3>1
      <4>3. QED BY <3>2, <4>1, <4>2
    <3>3. CASE u[1] # k
      BY <1>2, <3>1, <3>3 DEF Units
    <3>4. QED BY <3>2, <3>3
  <2>2. QED BY <2>1
<1>4. amount \in Nat
  BY ConstantsAssumption
<1>5. IsFiniteSet(C) /\ Cardinality(C) = amount
  BY <1>4, OneToN
<1> HIDE DEF C
<1>6. IsFiniteSet(new) /\ Cardinality(new) = amount
  <2>1. IsFiniteSet({k}) /\ Cardinality({k}) = 1
    BY FS_Singleton
  <2>2. IsFiniteSet({k} \X C) /\ Cardinality({k} \X C) = Cardinality({k}) * Cardinality(C)
    BY <1>5, <2>1, FS_Product
  <2>3. QED BY <1>4, <1>5, <2>1, <2>2
<1>7. A \in SUBSET (Keys \X (1..Paid)) /\ B \in SUBSET (Keys \X (1..Paid))
  BY DEF Units
<1> HIDE DEF A, B, new
<1>8. IsFiniteSet(A) /\ Cardinality(A) \in Nat /\ Cardinality(B) \in Nat
  BY <1>7, UnitSets
<1>9. /\ IsFiniteSet(A \cup new)
      /\ Cardinality(A \cup new) = Cardinality(A) + Cardinality(new) - Cardinality(A \cap new)
  BY <1>6, <1>8, FS_Union
<1>10. Cardinality(A \cap new) \in Nat
  BY <1>8, FS_Subset, FS_CardinalityType
<1>11. Cardinality(B) <= Cardinality(A \cup new)
  BY <1>3, <1>9, FS_Subset
<1>12. Cardinality(A) + amount <= Paid
  <2>1. Sum(LiveKeys) <= Sum(ReservedKeys) /\ Sum(ReservedKeys) \in Nat
    BY LiveIsReserved, SumMono
  <2>2. Sum(ReservedKeys) + amount <= Paid
    BY DEF Acquire
  <2>3. QED BY <1>4, <1>8, <2>1, <2>2, ConstantsAssumption DEF Sum, A
<1>13. Cardinality(B) <= Paid
  BY <1>4, <1>6, <1>8, <1>9, <1>10, <1>11, <1>12, ConstantsAssumption
<1>14. QED BY <1>13 DEF Sum, B

\* A step of transition(): what the order and the payment become.
LEMMA CommitMoney ==
  ASSUME TypeInv, LedgerInv, MoneyInv, NEW w \in Workers, TransitionCommit(w)
  PROVE  /\ status' = "SHIPPED" => LiveKeys = {}
         /\ status' = "REFUNDED" <=> payment' = "REFUNDED"
         /\ status' = "REFUNDED" => Paid <= Sum(PaidBackKeys)
<1>1. PICK t : t = worker[w]
  OBVIOUS
<1>2. /\ status' = t.to
      /\ payment' = IF t.to = "REFUNDED" THEN "REFUNDED" ELSE payment
      /\ status \in {t.before, t.to}
      /\ t.to = "SHIPPED" => NoActiveRefund
      /\ t.to = "REFUNDED" => Sum(ProcessedKeys) = Paid
  BY <1>1 DEF TransitionCommit, CommitAllowed
<1>3. /\ t.to \in {"SHIPPED", "DELIVERED", "REFUNDED"}
      /\ t.before = t.to \/ CanTransition(t.before, t.to)
  BY <1>1 DEF TypeInv, WorkerInv, LocalOK, TransitionCommit, At
<1>4. t.to = "SHIPPED" => LiveKeys = {}
  BY <1>2, LiveIsReserved DEF NoActiveRefund
<1>5. t.to # "REFUNDED" => status # "REFUNDED"
  BY <1>2, <1>3 DEF CanTransition, Transitions
<1>6. t.to # "REFUNDED" => payment # "REFUNDED"
  BY <1>5 DEF MoneyInv
<1>7. t.to = "REFUNDED" => Paid <= Sum(PaidBackKeys)
  <2>1. Sum(ProcessedKeys) <= Sum(PaidBackKeys)
    BY LiveIsReserved, SumMono
  <2>2. QED BY <1>2, <2>1
<1>8. QED BY <1>2, <1>4, <1>6, <1>7

\* No other step moves the order or the payment.
LEMMA OrderStands ==
  ASSUME [Next]_vars, ~\E w \in Workers : TransitionCommit(w)
  PROVE  status' = status /\ payment' = payment
BY DEF Next, Start, Acquire, StartProcess, StartScan, StartWebhook, StartDirect,
       Continue, Process, ApplyOutcome, Finalize, Transition, ProcessRead, Claim,
       ClaimLost, ProviderHandles, ReplyArrives, CallFails, RecordFailure,
       RecoverRead, InitialRead, Apply, ApplyTooLate, ApplyAborted, FinalizeLoad,
       FinalizeTotal, Settle, TransitionRead, TransitionRefused, Environment,
       LeaseExpires, ProviderSettles, Crash, vars

LEMMA NextMoney ==
  ASSUME TypeInv, LedgerInv, MoneyInv, [Next]_vars
  PROVE  MoneyInv'
<1>1. CASE \E w \in Workers, k \in Keys, amount \in 1..Paid : Acquire(w, k, amount)
  <2>1. PICK w \in Workers, k \in Keys, amount \in 1..Paid : Acquire(w, k, amount)
    BY <1>1
  <2>2. Sum(LiveKeys)' <= Paid
    BY <2>1, AcquireMoney
  <2>3. status' = status /\ payment' = payment /\ status \in {"PAID", "DELIVERED"}
    BY <2>1 DEF Acquire
  <2>4. QED BY <2>2, <2>3 DEF MoneyInv
<1>2. CASE ~\E w \in Workers, k \in Keys, amount \in 1..Paid : Acquire(w, k, amount)
  <2>1. /\ LiveKeys' \subseteq LiveKeys
        /\ Sum(LiveKeys)' <= Sum(LiveKeys)
        /\ Sum(LiveKeys) \in Nat /\ Sum(LiveKeys)' \in Nat
    BY <1>2, LiveShrinks
  <2>2. /\ Sum(PaidBackKeys) \in Nat /\ Sum(PaidBackKeys)' \in Nat
        /\ Sum(PaidBackKeys) <= Sum(PaidBackKeys)'
    BY PaidBackGrows
  <2>3. /\ status' = "SHIPPED" => LiveKeys = {}
        /\ status' = "REFUNDED" <=> payment' = "REFUNDED"
        /\ status' = "REFUNDED" => Paid <= Sum(PaidBackKeys)
    <3>1. CASE \E w \in Workers : TransitionCommit(w)
      BY <3>1, CommitMoney
    <3>2. CASE ~\E w \in Workers : TransitionCommit(w)
      BY <3>2, OrderStands DEF MoneyInv
    <3>3. QED BY <3>1, <3>2
  <2>4. Sum(LiveKeys)' <= Paid
    BY <2>1, ConstantsAssumption DEF MoneyInv
  <2>5. status' = "REFUNDED" => Paid <= Sum(PaidBackKeys)'
    BY <2>2, <2>3, ConstantsAssumption
  <2>6. status' = "SHIPPED" => LiveKeys' = {}
    BY <2>1, <2>3
  <2>7. QED BY <2>3, <2>4, <2>5, <2>6 DEF MoneyInv
<1>3. QED BY <1>1, <1>2

LEMMA InitMoney == Init => MoneyInv
<1> SUFFICES ASSUME Init PROVE MoneyInv
  OBVIOUS
<1>1. LiveKeys = {}
  BY DEF Init, NoIntent, LiveKeys
<1>2. Units(LiveKeys) = {}
  BY <1>1 DEF Units
<1>3. Sum(LiveKeys) = 0
  BY <1>2, FS_EmptySet DEF Sum
<1>4. QED BY <1>1, <1>3, ConstantsAssumption DEF Init, MoneyInv

THEOREM MoneyInvariant == Spec => [](TypeInv /\ LedgerInv /\ MoneyInv)
<1>1. Init => TypeInv /\ LedgerInv /\ MoneyInv
  BY InitType, InitLedger, InitMoney
<1>2. TypeInv /\ LedgerInv /\ MoneyInv /\ [Next]_vars =>
        TypeInv' /\ LedgerInv' /\ MoneyInv'
  BY NextType, NextLedger, NextMoney
<1>3. QED BY <1>1, <1>2, PTL DEF Spec

\* For any number of requests, retries, webhooks and crashes, the refunds that
\* the provider has made or may still make stay within the captured payment.
THEOREM NeverOverRefundedTheorem == Spec => []NeverOverRefunded
<1>1. MoneyInv => NeverOverRefunded
  BY DEF MoneyInv, NeverOverRefunded
<1>2. QED BY <1>1, MoneyInvariant, PTL

\* An order is REFUNDED, and its payment with it, only when the provider has
\* paid back exactly the captured amount.
THEOREM RefundedTheorem == Spec => []RefundedIsPaidBack
<1>1. TypeInv /\ LedgerInv /\ MoneyInv => RefundedIsPaidBack
  <2> SUFFICES ASSUME TypeInv, LedgerInv, MoneyInv PROVE RefundedIsPaidBack
    OBVIOUS
  <2>1. /\ Sum(PaidBackKeys) \in Nat /\ Sum(LiveKeys) \in Nat
        /\ Sum(PaidBackKeys) <= Sum(LiveKeys)
    BY LiveIsReserved, SumMono
  <2>2. status = "REFUNDED" => Sum(PaidBackKeys) = Paid
    BY <2>1, ConstantsAssumption DEF MoneyInv
  <2>3. QED BY <2>2 DEF MoneyInv, RefundedIsPaidBack
<1>2. QED BY <1>1, MoneyInvariant, PTL

\* No order is SHIPPED whose money was, or may still be, paid back.
THEOREM ShippedTheorem == Spec => []ShippedKeepsMoney
<1>1. MoneyInv => ShippedKeepsMoney
  BY DEF MoneyInv, ShippedKeepsMoney
<1>2. QED BY <1>1, MoneyInvariant, PTL

=============================================================================
