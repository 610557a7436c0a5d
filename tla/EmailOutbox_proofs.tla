------------------------- MODULE EmailOutbox_proofs -------------------------
(***************************************************************************)
(* Proofs about the email outbox, for any number of emails, workers,       *)
(* attempts, faults, alerts' versions and retries: what is recorded as     *)
(* sent was accepted by the provider and answered its alert, and it is not *)
(* sent again unless an administrator's retry read the row before, or a    *)
(* row came due again under the worker that was sending it.                *)
(***************************************************************************)
EXTENDS EmailOutbox, TLAPS

Statuses == {"NONE", "PENDING", "PROCESSING", "SENT", "DEAD_LETTER", "CANCELLED"}
Places == {"idle", "read", "cancel", "claim", "send", "sent", "failed", "refused", "retry"}

\* A worker is busy with a row that was committed, and records as sent what
\* the provider accepted.
Busy(w) ==
  /\ worker[w].at # "idle" => Email(w) \in Emails /\ status[Email(w)] # "NONE"
  /\ At(w, "sent") => Email(w) \in delivered

\* No email was written for a version its alert does not have yet.
Written(e) == status[e] # "NONE" => reference[e] <= alert[e].version

\* While no row came due under its worker: a row is sent by one worker at a
\* time, is not due before that worker has recorded the outcome, and is not
\* recorded as sent.
Alone(w) ==
  /\ Sending(w) => ~due[Email(w)] /\ status[Email(w)] # "SENT"
  /\ \A v \in Workers : Sending(w) /\ Sending(v) /\ Email(v) = Email(w) => v = w

Inv ==
  /\ TypeOK
  /\ \A w \in Workers : Busy(w)
  /\ \A e \in Emails : Written(e)
  /\ SentIsDelivered
  /\ SentAnswersAlert
  /\ ~late => \A w \in Workers : Alone(w)

LEMMA TypeInit == Init => TypeOK
<1> SUFFICES ASSUME Init PROVE TypeOK
  OBVIOUS
<1>1. status \in [Emails -> Statuses] /\ attempts \in [Emails -> Nat] /\ due \in [Emails -> BOOLEAN]
  BY DEF Init, Statuses
<1>2. reference \in [Emails -> Nat] /\ delivered \subseteq Emails
  BY DEF Init
<1>3. alert \in [Emails -> [active : BOOLEAN, version : Nat]]
  BY DEF Init
<1>4. MaxFaults \in Nat /\ MaxRetries \in Nat
  BY ConstantsAssumption
<1>5. faults \in 0..MaxFaults /\ retries \in 0..MaxRetries
  BY <1>4 DEF Init
<1>6. late \in BOOLEAN
  BY DEF Init
<1>7. worker \in [Workers -> [at : Places, e : Emails \cup {NoEmail}, tries : Nat]]
  BY DEF Init, Idle, Places
<1> QED
  BY <1>1, <1>2, <1>3, <1>5, <1>6, <1>7 DEF TypeOK, Statuses, Places

\* Init establishes the invariant.
LEMMA InvInit == Init => Inv
<1> SUFFICES ASSUME Init PROVE Inv
  OBVIOUS
<1>1. TypeOK
  BY TypeInit
<1>2. \A w \in Workers : Busy(w) /\ Alone(w)
  BY DEF Init, Busy, Alone, Idle, At, Email, Sending
<1>3. \A e \in Emails : Written(e)
  BY DEF Init, Written
<1>4. SentIsDelivered /\ SentAnswersAlert
  BY ConstantsAssumption DEF Init, SentIsDelivered, SentAnswersAlert
<1> QED
  BY <1>1, <1>2, <1>3, <1>4 DEF Inv

-----------------------------------------------------------------------------
(* The frame of a step.                                                    *)

\* What the invariant says of one worker and of one row.
LEMMA InvFacts ==
  ASSUME Inv
  PROVE  /\ status \in [Emails -> Statuses] /\ attempts \in [Emails -> Nat]
         /\ due \in [Emails -> BOOLEAN] /\ reference \in [Emails -> Nat]
         /\ alert \in [Emails -> [active : BOOLEAN, version : Nat]]
         /\ delivered \subseteq Emails
         /\ faults \in 0..MaxFaults /\ retries \in 0..MaxRetries
         /\ late \in BOOLEAN
         /\ worker \in [Workers -> [at : Places, e : Emails \cup {NoEmail}, tries : Nat]]
         /\ \A w \in Workers : Busy(w)
         /\ \A e \in Emails : Written(e)
         /\ SentIsDelivered /\ SentAnswersAlert
         /\ ~late => \A w \in Workers : Alone(w)
BY DEF Inv, TypeOK, Statuses, Places

LEMMA InvParts ==
  ASSUME status' \in [Emails -> Statuses], attempts' \in [Emails -> Nat],
         due' \in [Emails -> BOOLEAN], reference' \in [Emails -> Nat],
         alert' \in [Emails -> [active : BOOLEAN, version : Nat]],
         delivered' \subseteq Emails,
         faults' \in 0..MaxFaults, retries' \in 0..MaxRetries,
         late' \in BOOLEAN,
         worker' \in [Workers -> [at : Places, e : Emails \cup {NoEmail}, tries : Nat]],
         \A w \in Workers : Busy(w)',
         \A e \in Emails : Written(e)',
         SentIsDelivered', SentAnswersAlert',
         ~late' => \A w \in Workers : Alone(w)'
  PROVE  Inv'
BY DEF Inv, TypeOK, Statuses, Places

\* A fault is counted within its bound.
LEMMA FaultCounted == Fault /\ faults \in 0..MaxFaults => faults' \in 0..MaxFaults
BY ConstantsAssumption DEF Fault

\* A worker goes from one of its steps to the next and touches no row: it does
\* not begin to send, and holds only what was committed.
LEMMA Moves ==
  ASSUME Inv, NEW w \in Workers,
         NEW t \in [at : Places, e : Emails \cup {NoEmail}, tries : Nat],
         Set(w, t),
         UNCHANGED <<rows, alert, late>>,
         delivered \subseteq delivered', delivered' \subseteq Emails,
         faults' \in 0..MaxFaults, retries' \in 0..MaxRetries,
         t.at # "idle" => t.e \in Emails /\ status[t.e] # "NONE",
         t.at = "sent" => t.e \in delivered',
         t.at \in {"send", "sent", "failed", "refused"} => Sending(w) /\ t.e = Email(w)
  PROVE  Inv'
<1> USE InvFacts
<1>1. UNCHANGED <<status, attempts, due, reference, alert, late>>
  BY DEF rows
<1>2. /\ worker' \in [Workers -> [at : Places, e : Emails \cup {NoEmail}, tries : Nat]]
      /\ worker'[w] = t
      /\ \A v \in Workers : v # w => worker'[v] = worker[v]
  BY DEF Set
<1>3. ASSUME NEW v \in Workers PROVE Busy(v)'
  <2>1. CASE v = w
    BY <1>1, <1>2, <2>1 DEF Busy, At, Email
  <2>2. CASE v # w
    BY <1>1, <1>2, <2>2 DEF Busy, At, Email
  <2> QED
    BY <2>1, <2>2
<1>4. \A e \in Emails : Written(e)'
  BY <1>1 DEF Written
<1>5. SentIsDelivered' /\ SentAnswersAlert'
  BY <1>1 DEF SentIsDelivered, SentAnswersAlert
<1>6. \A v \in Workers : Sending(v)' => Sending(v) /\ worker'[v].e = worker[v].e
  BY <1>2 DEF Sending, Email
<1>7. ASSUME ~late', NEW v \in Workers PROVE Alone(v)'
  BY <1>1, <1>6, <1>7 DEF Alone, Email
<1> QED
  BY <1>1, <1>2, <1>3, <1>4, <1>5, <1>7, InvParts

-----------------------------------------------------------------------------
(* Steps of a worker that touch no row.                                    *)

LEMMA TakeInv ==
  ASSUME Inv, NEW w \in Workers, NEW e \in Emails, Take(w, e) PROVE Inv'
<1> DEFINE t == [Idle EXCEPT !.at = "read", !.e = e]
<1> USE InvFacts
<1>1. t \in [at : Places, e : Emails \cup {NoEmail}, tries : Nat]
  BY DEF Idle, Places
<1>2. t.at = "read" /\ t.e = e
  BY DEF Idle
<1>3. status[e] # "NONE"
  BY DEF Take, Candidate
<1> QED
  BY <1>1, <1>2, <1>3, Moves DEF Take, outside

LEMMA ReadInv ==
  ASSUME Inv, NEW w \in Workers, Read(w) PROVE Inv'
<1> USE InvFacts
<1>1. Email(w) \in Emails /\ status[Email(w)] # "NONE"
  BY DEF Read, Busy, At
<1>2. /\ worker[w] \in [at : Places, e : Emails \cup {NoEmail}, tries : Nat]
      /\ worker[w].at = "read"
  BY DEF Read, At
<1>3. UNCHANGED <<rows, alert, late>> /\ delivered' = delivered
      /\ faults' = faults /\ retries' = retries
  BY DEF Read, outside
<1>4. CASE Set(w, Idle)
  <2>1. Idle \in [at : Places, e : Emails \cup {NoEmail}, tries : Nat] /\ Idle.at = "idle"
    BY DEF Idle, Places
  <2> QED
    BY <1>3, <1>4, <2>1, Moves
<1>5. ASSUME NEW place \in {"cancel", "claim"}, Goto(w, place) PROVE Inv'
  <2> DEFINE t == [worker[w] EXCEPT !.at = place]
  <2>1. t \in [at : Places, e : Emails \cup {NoEmail}, tries : Nat] /\ t.at = place /\ t.e = Email(w)
    BY <1>2, <1>5 DEF Places, Email
  <2>2. Set(w, t)
    BY <1>5 DEF Goto, Set
  <2> QED
    BY <1>1, <1>3, <2>1, <2>2, Moves
<1> QED
  BY <1>4, <1>5 DEF Read

\* A worker that goes on with its row, before or after the provider answered.
LEMMA GoesOn ==
  ASSUME Inv, NEW w \in Workers, Sending(w),
         NEW place \in {"sent", "failed", "refused"}, Goto(w, place),
         UNCHANGED <<rows, alert, retries, late>>,
         delivered \subseteq delivered', delivered' \subseteq Emails,
         faults' \in 0..MaxFaults,
         place = "sent" => Email(w) \in delivered'
  PROVE  Inv'
<1> USE InvFacts
<1> DEFINE t == [worker[w] EXCEPT !.at = place]
<1>1. Email(w) \in Emails /\ status[Email(w)] # "NONE"
  BY DEF Busy, Sending
<1>2. t \in [at : Places, e : Emails \cup {NoEmail}, tries : Nat] /\ t.at = place /\ t.e = Email(w)
  BY DEF Places, Email
<1>3. Set(w, t)
  BY DEF Goto, Set
<1> HIDE DEF t
<1> QED
  BY <1>1, <1>2, <1>3, Moves

LEMMA SendInv ==
  ASSUME Inv, NEW w \in Workers, Send(w) PROVE Inv'
<1> USE InvFacts
<1>1. Sending(w) /\ Email(w) \in Emails
  BY DEF Send, At, Sending, Busy
<1>2. UNCHANGED <<rows, alert, retries, late>> /\ faults' \in 0..MaxFaults
  BY DEF Send, outside
<1>3. CASE delivered' = delivered \cup {Email(w)} /\ Goto(w, Answer(TRUE))
  BY <1>1, <1>2, <1>3, GoesOn DEF Answer
<1>4. CASE delivered' = delivered \cup {Email(w)} /\ Goto(w, "failed")
  BY <1>1, <1>2, <1>4, GoesOn
<1>5. CASE UNCHANGED delivered /\ Goto(w, Answer(FALSE))
  BY <1>1, <1>2, <1>5, GoesOn DEF Answer
<1>6. CASE UNCHANGED delivered /\ Goto(w, "refused")
  BY <1>1, <1>2, <1>6, GoesOn
<1> QED
  BY <1>3, <1>4, <1>5, <1>6 DEF Send

LEMMA SentNotRecordedInv ==
  ASSUME Inv, NEW w \in Workers, SentNotRecorded(w) PROVE Inv'
<1> USE InvFacts
<1>1. Sending(w) /\ faults' \in 0..MaxFaults
  BY FaultCounted DEF SentNotRecorded, At, Sending
<1> QED
  BY <1>1, GoesOn DEF SentNotRecorded

LEMMA StopInv ==
  ASSUME Inv, NEW w \in Workers, Stop(w) PROVE Inv'
<1> USE InvFacts
<1>1. Idle \in [at : Places, e : Emails \cup {NoEmail}, tries : Nat] /\ Idle.at = "idle"
  BY DEF Idle, Places
<1>2. faults' \in 0..MaxFaults
  BY FaultCounted DEF Stop
<1> QED
  BY <1>1, <1>2, Moves DEF Stop

LEMMA StartRetryInv ==
  ASSUME Inv, NEW w \in Workers, NEW e \in Emails, StartRetry(w, e) PROVE Inv'
<1> USE InvFacts
<1> DEFINE t == [Idle EXCEPT !.at = "retry", !.e = e]
<1>1. t \in [at : Places, e : Emails \cup {NoEmail}, tries : Nat] /\ t.at = "retry" /\ t.e = e
  BY DEF Idle, Places
<1>2. status[e] # "NONE"
  BY DEF StartRetry
<1>3. retries' \in 0..MaxRetries
  BY ConstantsAssumption DEF StartRetry
<1> QED
  BY <1>1, <1>2, <1>3, Moves DEF StartRetry

-----------------------------------------------------------------------------
(* Steps that touch a row.                                                 *)

\* A worker ends with its row: the row's status becomes s, and with it what
\* the step says of the other columns.
LEMMA EndsRow ==
  ASSUME Inv, NEW w \in Workers, NEW e \in Emails, e = Email(w),
         NEW s \in Statuses \ {"NONE", "SENT"}, status[e] # "NONE",
         status' = [status EXCEPT ![e] = s],
         attempts' \in [Emails -> Nat],
         due' \in [Emails -> BOOLEAN], \A d \in Emails : d # e => due'[d] = due[d],
         due'[e] => due[e] \/ late' \/ ~Working(e),
         UNCHANGED <<reference, alert, delivered, faults, retries>>,
         late' \in BOOLEAN, late => late',
         Set(w, Idle)
  PROVE  Inv'
<1> USE InvFacts
<1>1. /\ worker' \in [Workers -> [at : Places, e : Emails \cup {NoEmail}, tries : Nat]]
      /\ worker'[w] = Idle
      /\ \A v \in Workers : v # w => worker'[v] = worker[v]
  BY DEF Set, Idle, Places
<1>2. /\ status' \in [Emails -> Statuses]
      /\ status'[e] = s /\ \A d \in Emails : d # e => status'[d] = status[d]
  OBVIOUS
<1>3. \A v \in Workers : Busy(v)'
  BY <1>1, <1>2 DEF Busy, Email, Idle, At
<1>4. \A d \in Emails : Written(d)'
  BY <1>2 DEF Written
<1>5. SentIsDelivered' /\ SentAnswersAlert'
  BY <1>2, ConstantsAssumption DEF SentIsDelivered, SentAnswersAlert
<1>6. \A v \in Workers : Sending(v)' => Sending(v) /\ worker'[v].e = worker[v].e
  BY <1>1 DEF Sending, Email, Idle
<1>7. ASSUME ~late', NEW v \in Workers PROVE Alone(v)'
  <2>1. Alone(v) /\ \A u \in Workers : Alone(u)
    BY <1>7
  <2>2. ASSUME Sending(v)' PROVE ~due'[worker'[v].e] /\ status'[worker'[v].e] # "SENT"
    <3>1. Sending(v) /\ worker'[v].e = Email(v) /\ Email(v) \in Emails
      BY <1>6, <2>2 DEF Email, Busy, Sending
    <3>2. ~due[Email(v)] /\ status[Email(v)] # "SENT"
      BY <2>1, <3>1 DEF Alone
    <3>3. Email(v) = e => Working(e)
      BY <3>1 DEF Working
    <3> QED
      BY <1>2, <1>7, <3>1, <3>2, <3>3
  <2> QED
    BY <1>6, <2>1, <2>2 DEF Alone, Email
<1> QED
  BY <1>1, <1>2, <1>3, <1>4, <1>5, <1>7, InvParts

LEMMA CancelInv ==
  ASSUME Inv, NEW w \in Workers, Cancel(w) PROVE Inv'
<1> USE InvFacts
<1>1. Email(w) \in Emails /\ status[Email(w)] # "NONE"
  BY DEF Cancel, At, Busy
<1>2. UNCHANGED <<attempts, due, reference, alert, delivered, faults, retries, late>>
  BY DEF Cancel, outside
<1> QED
  BY <1>1, <1>2, EndsRow DEF Cancel, Statuses

LEMMA RecordFailureInv ==
  ASSUME Inv, NEW w \in Workers, RecordFailure(w) PROVE Inv'
<1> USE InvFacts
<1> DEFINE s == IF At(w, "failed") /\ AttemptsLeft(worker[w].tries) THEN "PENDING" ELSE "DEAD_LETTER"
<1>1. Email(w) \in Emails /\ status[Email(w)] # "NONE"
  BY DEF RecordFailure, At, Busy
<1>2. UNCHANGED <<attempts, reference, alert, delivered, faults, retries, late>>
  BY DEF RecordFailure, outside
<1>3. s \in Statuses \ {"NONE", "SENT"} /\ status' = [status EXCEPT ![Email(w)] = s]
  BY DEF RecordFailure, Statuses
<1>4. /\ due' \in [Emails -> BOOLEAN] /\ \A d \in Emails : d # Email(w) => due'[d] = due[d]
      /\ ~due'[Email(w)]
  BY <1>1 DEF RecordFailure
<1> HIDE DEF s
<1> QED
  BY <1>1, <1>2, <1>3, <1>4, EndsRow DEF RecordFailure

LEMMA FinishRetryInv ==
  ASSUME Inv, NEW w \in Workers, FinishRetry(w) PROVE Inv'
<1> USE InvFacts
<1>1. Email(w) \in Emails /\ status[Email(w)] # "NONE"
  BY DEF FinishRetry, At, Busy
<1>2. UNCHANGED <<reference, alert, delivered, faults, retries>>
  BY DEF FinishRetry
<1>3. attempts' \in [Emails -> Nat]
  BY DEF FinishRetry
<1>4. due' \in [Emails -> BOOLEAN] /\ \A d \in Emails : d # Email(w) => due'[d] = due[d]
  BY <1>1 DEF FinishRetry
<1>5. late' \in BOOLEAN /\ (late => late') /\ (late' \/ ~Working(Email(w)))
  BY DEF FinishRetry
<1> QED
  BY <1>1, <1>2, <1>3, <1>4, <1>5, EndsRow DEF FinishRetry, Statuses

\* claimEmail takes a row that is due, and of which nobody is the sender
\* unless it came due under them.
LEMMA ClaimInv ==
  ASSUME Inv, NEW w \in Workers, Claim(w) PROVE Inv'
<1> USE InvFacts
<1> DEFINE e == Email(w)
<1>1. e \in Emails /\ status[e] # "NONE" /\ worker[w].at = "claim"
  BY DEF Claim, At, Busy
<1>2. UNCHANGED <<reference, alert, delivered, faults, retries, late>>
  BY DEF Claim, outside
<1>3. CASE ~Claimable(e)
  <2>1. Idle \in [at : Places, e : Emails \cup {NoEmail}, tries : Nat] /\ Idle.at = "idle"
    BY DEF Idle, Places
  <2>2. Set(w, Idle) /\ UNCHANGED <<rows, alert, late>>
    BY <1>2, <1>3 DEF Claim, rows
  <2> QED
    BY <1>2, <2>1, <2>2, Moves
<1>4. CASE Claimable(e)
  <2> DEFINE t == [worker[w] EXCEPT !.at = "send", !.tries = attempts[e] + 1]
  <2>1. /\ due[e] /\ status' = [status EXCEPT ![e] = "PROCESSING"]
        /\ attempts' = [attempts EXCEPT ![e] = @ + 1] /\ due' = [due EXCEPT ![e] = FALSE]
        /\ Set(w, t)
    BY <1>4 DEF Claim, Claimable, Candidate
  <2>2. t \in [at : Places, e : Emails \cup {NoEmail}, tries : Nat] /\ t.at = "send" /\ t.e = e
    <3>1. worker[w] \in [at : Places, e : Emails \cup {NoEmail}, tries : Nat] /\ worker[w].e = e
      BY DEF Email
    <3>2. attempts[e] + 1 \in Nat /\ "send" \in Places
      BY <1>1 DEF Places
    <3> HIDE DEF e
    <3> QED
      BY <3>1, <3>2
  <2> HIDE DEF e, t
  <2>3. /\ worker' \in [Workers -> [at : Places, e : Emails \cup {NoEmail}, tries : Nat]]
        /\ worker'[w] = t
        /\ \A v \in Workers : v # w => worker'[v] = worker[v]
    BY <2>1, <2>2 DEF Set
  <2>4. /\ status' \in [Emails -> Statuses] /\ attempts' \in [Emails -> Nat]
        /\ due' \in [Emails -> BOOLEAN]
        /\ status'[e] = "PROCESSING" /\ \A d \in Emails : d # e => status'[d] = status[d]
        /\ ~due'[e] /\ \A d \in Emails : d # e => due'[d] = due[d]
    BY <1>1, <2>1 DEF Statuses
  <2>5. \A v \in Workers : Busy(v)'
    BY <1>1, <1>2, <2>2, <2>3, <2>4 DEF Busy, Email, At
  <2>6. \A d \in Emails : Written(d)'
    BY <1>1, <1>2, <2>4 DEF Written
  <2>7. SentIsDelivered' /\ SentAnswersAlert'
    BY <1>2, <2>4, ConstantsAssumption DEF SentIsDelivered, SentAnswersAlert
  <2>8. ASSUME ~late' PROVE \A v \in Workers : Alone(v)'
    <3>1. \A u \in Workers : Alone(u)
      BY <1>2, <2>8
    <3>2. \A v \in Workers : Sending(v) => Email(v) # e
      BY <2>1, <3>1 DEF Alone
    <3>3. /\ \A v \in Workers : v # w => (Sending(v)' <=> Sending(v)) /\ worker'[v].e = Email(v)
          /\ worker'[w].e = e
      BY <2>2, <2>3 DEF Sending, Email
    <3>4. \A v \in Workers : Sending(v) => Email(v) \in Emails
      BY DEF Sending, Busy
    <3>5. ASSUME NEW v \in Workers, Sending(v)'
          PROVE  ~due'[worker'[v].e] /\ status'[worker'[v].e] # "SENT"
      BY <2>4, <3>1, <3>2, <3>3, <3>4, <3>5 DEF Alone
    <3>6. ASSUME NEW v \in Workers, NEW u \in Workers, Sending(v)', Sending(u)',
                 worker'[u].e = worker'[v].e
          PROVE  u = v
      BY <3>1, <3>2, <3>3, <3>6 DEF Alone
    <3> QED
      BY <3>5, <3>6 DEF Alone, Email
  <2> QED
    BY <1>2, <2>3, <2>4, <2>5, <2>6, <2>7, <2>8, InvParts
<1> QED
  BY <1>3, <1>4

\* recordSent marks the row only while it is PROCESSING, and nobody else is
\* its sender unless it came due under them.
LEMMA RecordSentInv ==
  ASSUME Inv, NEW w \in Workers, RecordSent(w) PROVE Inv'
<1> USE InvFacts
<1> DEFINE e == Email(w)
<1>1. e \in Emails /\ status[e] # "NONE" /\ e \in delivered /\ Sending(w)
  BY DEF RecordSent, At, Busy, Sending
<1>2. UNCHANGED <<attempts, due, reference, delivered, faults, retries, late>> /\ Set(w, Idle)
  BY DEF RecordSent, outside
<1>3. CASE status[e] # "PROCESSING"
  <2>1. Idle \in [at : Places, e : Emails \cup {NoEmail}, tries : Nat] /\ Idle.at = "idle"
    BY DEF Idle, Places
  <2>2. UNCHANGED <<rows, alert, late>>
    BY <1>2, <1>3 DEF RecordSent, rows
  <2> QED
    BY <1>2, <2>1, <2>2, Moves
<1>4. CASE status[e] = "PROCESSING"
  <2>1. status' = [status EXCEPT ![e] = "SENT"] /\ alert' = [alert EXCEPT ![e] = Answered(e)]
    BY <1>4 DEF RecordSent
  <2> HIDE DEF e
  <2>2. /\ status' \in [Emails -> Statuses]
        /\ status'[e] = "SENT" /\ \A d \in Emails : d # e => status'[d] = status[d]
    BY <1>1, <2>1 DEF Statuses
  <2>3. /\ Answered(e) \in [active : BOOLEAN, version : Nat]
        /\ alert[e].version <= Answered(e).version
        /\ e \in Alerted => ~(Answered(e).active /\ Answered(e).version = reference[e])
    <3>1. alert[e] \in [active : BOOLEAN, version : Nat]
      BY <1>1
    <3>2. CASE e \in Alerted /\ alert[e].active /\ alert[e].version = reference[e]
      BY <3>1, <3>2 DEF Answered
    <3>3. CASE ~(e \in Alerted /\ alert[e].active /\ alert[e].version = reference[e])
      BY <3>1, <3>3 DEF Answered
    <3> QED
      BY <3>2, <3>3
  <2>4. /\ alert' \in [Emails -> [active : BOOLEAN, version : Nat]]
        /\ alert'[e] = Answered(e) /\ \A d \in Emails : d # e => alert'[d] = alert[d]
    BY <1>1, <2>1, <2>3
  <2>5. /\ worker' \in [Workers -> [at : Places, e : Emails \cup {NoEmail}, tries : Nat]]
        /\ worker'[w] = Idle
        /\ \A v \in Workers : v # w => worker'[v] = worker[v]
    BY <1>2 DEF Set, Idle, Places
  <2>6. \A v \in Workers : Busy(v)'
    BY <1>2, <2>2, <2>5 DEF Busy, Email, At, Idle
  <2>7. ASSUME NEW d \in Emails PROVE Written(d)'
    <3>1. status[d] # "NONE" => reference[d] <= alert[d].version
      BY DEF Written
    <3>2. reference[d] \in Nat /\ alert[d].version \in Nat
      OBVIOUS
    <3>3. CASE d = e
      <4>1. reference[e] <= alert[e].version /\ Answered(e).version \in Nat
        BY <1>1, <2>3, <3>1, <3>3
      <4> QED
        BY <1>2, <2>3, <2>4, <3>2, <3>3, <4>1 DEF Written
    <3>4. CASE d # e
      BY <1>2, <2>2, <2>4, <3>1, <3>4 DEF Written
    <3> QED
      BY <3>3, <3>4
  <2>8. SentIsDelivered'
    BY <1>1, <1>2, <2>2 DEF SentIsDelivered
  <2>9. SentAnswersAlert'
    BY <1>2, <2>2, <2>3, <2>4, ConstantsAssumption DEF SentAnswersAlert
  <2>10. ASSUME ~late', NEW v \in Workers PROVE Alone(v)'
    <3>1. \A u \in Workers : Alone(u)
      BY <1>2, <2>10
    <3>2. \A u \in Workers : Sending(u)' => Sending(u) /\ worker'[u].e = worker[u].e /\ u # w
      BY <2>5 DEF Sending, Idle
    <3>3. \A u \in Workers : Sending(u)' => worker[u].e # e /\ worker[u].e \in Emails
      BY <1>1, <3>1, <3>2 DEF Alone, Busy, Sending, Email, e
    <3>4. Sending(v)' => ~due'[worker'[v].e] /\ status'[worker'[v].e] # "SENT"
      BY <1>2, <2>2, <3>1, <3>2, <3>3 DEF Alone, Email
    <3> QED
      BY <3>1, <3>2, <3>4 DEF Alone, Email
  <2> QED
    BY <1>2, <2>2, <2>4, <2>5, <2>6, <2>7, <2>8, <2>9, <2>10, InvParts
<1> QED
  BY <1>3, <1>4

-----------------------------------------------------------------------------
(* Producers, customers and time.                                          *)

LEMMA EnqueueInv ==
  ASSUME Inv, NEW e \in Emails, Enqueue(e) PROVE Inv'
<1> USE InvFacts
<1>1. /\ UNCHANGED <<attempts, due, alert, delivered, faults, retries, late, worker>>
      /\ status[e] = "NONE"
  BY DEF Enqueue, outside
<1>2. /\ status' \in [Emails -> Statuses]
      /\ status'[e] = "PENDING" /\ \A d \in Emails : d # e => status'[d] = status[d]
  BY DEF Enqueue, Statuses
<1>3. alert[e].version \in Nat
  OBVIOUS
<1>4. /\ reference' \in [Emails -> Nat]
      /\ reference'[e] = alert[e].version /\ \A d \in Emails : d # e => reference'[d] = reference[d]
  BY <1>3 DEF Enqueue
<1>5. \A w \in Workers : Busy(w)'
  BY <1>1, <1>2 DEF Busy, Email, At
<1>6. \A d \in Emails : Written(d)'
  BY <1>1, <1>2, <1>3, <1>4 DEF Written
<1>7. SentIsDelivered' /\ SentAnswersAlert'
  BY <1>1, <1>2, <1>4, ConstantsAssumption DEF SentIsDelivered, SentAnswersAlert
<1>8. ASSUME ~late', NEW w \in Workers PROVE Alone(w)'
  <2>1. Alone(w)
    BY <1>1, <1>8
  <2>2. Sending(w) => Email(w) \in Emails /\ Email(w) # e
    BY <1>1 DEF Sending, Busy
  <2> QED
    BY <1>1, <1>2, <2>1, <2>2 DEF Alone, Sending, Email
<1> QED
  BY <1>1, <1>2, <1>4, <1>5, <1>6, <1>7, <1>8, InvParts

LEMMA TouchInv ==
  ASSUME Inv, NEW e \in Emails, NEW active \in BOOLEAN, Touch(e, active) PROVE Inv'
<1> USE InvFacts
<1> DEFINE a == [active |-> active, version |-> alert[e].version + 1]
<1>1. UNCHANGED <<status, attempts, due, reference, delivered, faults, retries, late, worker>>
  BY DEF Touch, outside, rows
<1>2. alert[e].version \in Nat
  OBVIOUS
<1>3. a \in [active : BOOLEAN, version : Nat] /\ a.version = alert[e].version + 1
  BY <1>2
<1>4. alert' = [alert EXCEPT ![e] = a]
  BY DEF Touch
<1> HIDE DEF a
<1>5. /\ alert' \in [Emails -> [active : BOOLEAN, version : Nat]]
      /\ alert'[e] = a /\ \A d \in Emails : d # e => alert'[d] = alert[d]
  BY <1>3, <1>4
<1>6. \A w \in Workers : Busy(w)'
  BY <1>1 DEF Busy, Email, At
<1>7. status[e] # "NONE" => reference[e] < a.version
  BY <1>2, <1>3 DEF Written
<1>8. ASSUME NEW d \in Emails PROVE Written(d)'
  <2>1. CASE d = e
    BY <1>1, <1>2, <1>3, <1>5, <1>7, <2>1 DEF Written
  <2>2. CASE d # e
    BY <1>1, <1>5, <2>2 DEF Written
  <2> QED
    BY <2>1, <2>2
<1>9. SentIsDelivered'
  BY <1>1 DEF SentIsDelivered
<1>10. ASSUME NEW d \in Alerted, status'[d] = "SENT"
       PROVE  ~(alert'[d].active /\ alert'[d].version = reference'[d])
  <2>1. d \in Emails
    BY ConstantsAssumption
  <2>2. CASE d = e
    BY <1>1, <1>3, <1>5, <1>7, <1>10, <2>1, <2>2
  <2>3. CASE d # e
    BY <1>1, <1>5, <1>10, <2>1, <2>3 DEF SentAnswersAlert
  <2> QED
    BY <2>2, <2>3
<1>11. SentAnswersAlert'
  BY <1>10 DEF SentAnswersAlert
<1>12. ASSUME ~late', NEW w \in Workers PROVE Alone(w)'
  BY <1>1, <1>12 DEF Alone, Sending, Email
<1> QED
  BY <1>1, <1>5, <1>6, <1>8, <1>9, <1>11, <1>12, InvParts

LEMMA TimePassesInv ==
  ASSUME Inv, NEW e \in Emails, TimePasses(e) PROVE Inv'
<1> USE InvFacts
<1>1. UNCHANGED <<status, attempts, reference, alert, delivered, retries, worker>>
  BY DEF TimePasses
<1>2. faults' \in 0..MaxFaults
  BY FaultCounted DEF TimePasses
<1>3. due' \in [Emails -> BOOLEAN] /\ \A d \in Emails : d # e => due'[d] = due[d]
  BY DEF TimePasses
<1>4. late' \in BOOLEAN /\ (late => late') /\ (Working(e) => late')
  BY DEF TimePasses
<1>5. \A w \in Workers : Busy(w)'
  BY <1>1 DEF Busy, Email, At
<1>6. \A d \in Emails : Written(d)'
  BY <1>1 DEF Written
<1>7. SentIsDelivered' /\ SentAnswersAlert'
  BY <1>1 DEF SentIsDelivered, SentAnswersAlert
<1>8. ASSUME ~late', NEW w \in Workers PROVE Alone(w)'
  <2>1. Alone(w) /\ ~Working(e)
    BY <1>4, <1>8
  <2>2. Sending(w) => Email(w) \in Emails /\ Email(w) # e
    BY <2>1 DEF Sending, Busy, Working
  <2> QED
    BY <1>1, <1>3, <2>1, <2>2 DEF Alone, Sending, Email
<1> QED
  BY <1>1, <1>2, <1>3, <1>4, <1>5, <1>6, <1>7, <1>8, InvParts

-----------------------------------------------------------------------------
(* The theorems.                                                           *)

LEMMA InvNext == Inv /\ [Next]_vars => Inv'
<1> SUFFICES ASSUME Inv, [Next]_vars PROVE Inv'
  OBVIOUS
<1>1. ASSUME NEW w \in Workers, Step(w) PROVE Inv'
  BY <1>1, ReadInv, CancelInv, ClaimInv, SendInv, RecordSentInv, RecordFailureInv, FinishRetryInv
     DEF Step
<1>2. ASSUME NEW w \in Workers, SentNotRecorded(w) \/ Stop(w) PROVE Inv'
  BY <1>2, SentNotRecordedInv, StopInv
<1>3. ASSUME NEW w \in Workers, NEW e \in Emails, Take(w, e) \/ StartRetry(w, e) PROVE Inv'
  BY <1>3, TakeInv, StartRetryInv
<1>4. ASSUME NEW e \in Emails, Enqueue(e) \/ TimePasses(e) PROVE Inv'
  BY <1>4, EnqueueInv, TimePassesInv
<1>5. ASSUME NEW e \in Emails, NEW active \in BOOLEAN, Touch(e, active) PROVE Inv'
  BY <1>5, TouchInv
<1>6. CASE UNCHANGED vars
  <2>1. UNCHANGED <<status, attempts, due, reference, alert, delivered, faults, retries, late, worker>>
    BY <1>6 DEF vars
  <2>2. TypeOK' /\ SentIsDelivered' /\ SentAnswersAlert'
    BY <2>1 DEF Inv, TypeOK, SentIsDelivered, SentAnswersAlert
  <2>3. \A w \in Workers : Busy(w)'
    BY <2>1 DEF Inv, Busy, Email, At
  <2>4. \A e \in Emails : Written(e)'
    BY <2>1 DEF Inv, Written
  <2>5. ~late' => \A w \in Workers : Alone(w)'
    BY <2>1 DEF Inv, Alone, Sending, Email
  <2> QED
    BY <2>2, <2>3, <2>4, <2>5 DEF Inv
<1> QED
  BY <1>1, <1>2, <1>3, <1>4, <1>5, <1>6 DEF Next

\* The inductive invariant, and with it type correctness, of every behaviour.
THEOREM InvTheorem == Spec => []Inv
BY InvInit, InvNext, PTL DEF Spec

\* A row that was sent leaves SENT only to be called off, by a retry that had
\* read it before, or once a row had come due under its worker.
LEMMA SentStays == Inv /\ [Next]_vars => NotResent
<1> SUFFICES ASSUME Inv, [Next]_vars, NEW e \in Emails, status[e] = "SENT", ~Retried(e), ~late
             PROVE  status'[e] \in {"SENT", "CANCELLED"}
  BY DEF NotResent
<1> USE InvFacts
<1>1. ASSUME NEW w \in Workers, Cancel(w) PROVE status'[e] \in {"SENT", "CANCELLED"}
  BY <1>1 DEF Cancel
<1>2. ASSUME NEW w \in Workers, Claim(w) PROVE status'[e] = status[e]
  BY <1>2 DEF Claim, Claimable, Candidate
<1>3. ASSUME NEW w \in Workers, RecordSent(w) PROVE status'[e] = "SENT"
  BY <1>3 DEF RecordSent
<1>4. ASSUME NEW w \in Workers, RecordFailure(w) PROVE status'[e] = status[e]
  <2>1. Sending(w) /\ Alone(w)
    BY <1>4 DEF RecordFailure, Sending
  <2>2. Email(w) # e
    BY <2>1 DEF Alone
  <2> QED
    BY <1>4, <2>2 DEF RecordFailure
<1>5. ASSUME NEW w \in Workers, FinishRetry(w) PROVE status'[e] = status[e]
  <2>1. Email(w) # e
    BY <1>5 DEF Retried, FinishRetry
  <2> QED
    BY <1>5, <2>1 DEF FinishRetry
<1>6. ASSUME NEW w \in Workers, Read(w) \/ Send(w) \/ SentNotRecorded(w) \/ Stop(w)
      PROVE  status' = status
  BY <1>6 DEF Read, Send, SentNotRecorded, Stop, rows
<1>7. ASSUME NEW w \in Workers, NEW d \in Emails, Take(w, d) \/ StartRetry(w, d)
      PROVE  status' = status
  BY <1>7 DEF Take, StartRetry, rows
<1>8. ASSUME NEW d \in Emails, Enqueue(d) \/ TimePasses(d) PROVE status'[e] = status[e]
  BY <1>8 DEF Enqueue, TimePasses
<1>9. ASSUME NEW d \in Emails, NEW active \in BOOLEAN, Touch(d, active) PROVE status' = status
  BY <1>9 DEF Touch, rows
<1>10. CASE UNCHANGED vars
  BY <1>10 DEF vars
<1>11. ASSUME NEW w \in Workers, Step(w) PROVE status'[e] \in {"SENT", "CANCELLED"}
  BY <1>1, <1>2, <1>3, <1>4, <1>5, <1>6, <1>11 DEF Step
<1> QED
  BY <1>6, <1>7, <1>8, <1>9, <1>10, <1>11 DEF Next

\* What the outbox records as sent was accepted by the provider, answered the
\* alert it was written for and is not sent again (emailOutbox.service.ts).
THEOREM SentOnceTheorem == Spec => SentOnce
<1>1. Inv => TypeOK /\ SentIsDelivered /\ SentAnswersAlert
  BY DEF Inv
<1>2. Inv /\ [Next]_vars => [NotResent]_vars
  BY SentStays
<1> QED
  BY InvTheorem, <1>1, <1>2, PTL DEF Spec, SentOnce
=============================================================================
