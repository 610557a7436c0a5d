-------------------------- MODULE OrderDesk_proofs --------------------------
(***************************************************************************)
(* Proofs about an order on the desks of its administrators, for any       *)
(* number of administrators, requests, tracking numbers, refund keys and   *)
(* lost answers, and any amount paid.                                      *)
(*                                                                         *)
(* Sums over the ledger do not occur: whatever the amounts, one wish makes *)
(* one refund, and a parcel is on its way of a SHIPPED order only.         *)
(***************************************************************************)
EXTENDS OrderDesk, SequenceTheorems, TLAPS

Ats == {"none", "find", "read", "commit", "acquire", "process", "summary", "answered"}
States == IntentStates \cup {"none"}
AnyStatus == OrderStatuses \cup {NoOrder}

Rows == [by : Admins, key : Nat, action : Nat, amount : Nat, state : IntentStates]

Jobs ==
  [at : Ats, kind : Kinds \cup {"none"}, by : Admins \cup {"nobody"}, to : AnyStatus,
   number : Numbers \cup {"none"}, key : Nat, action : Nat, amount : Nat, i : Nat,
   before : AnyStatus, ok : BOOLEAN, latest : States, was : States]

Views ==
  [status : OrderStatuses, payment : {"CREATED", "CAPTURED", "REFUNDED"}, ledger : Seq(Rows),
   tracked : BOOLEAN]

Pages ==
  [view : Views, stale : BOOLEAN, key : Nat, keys : Nat, action : Nat,
   wait : [Kinds -> Slots \cup {"none"}],
   told : [text : {"none", "processed", "accepted"}, key : Nat, was : States]]

OrderTyped ==
  /\ status \in OrderStatuses
  /\ method \in {"COD", "PREPAID"}
  /\ payment \in {"CREATED", "CAPTURED", "REFUNDED"}
  /\ shipment \in [Numbers -> {"none", "open", "delivered"}]

DeskTyped ==
  /\ ledger \in Seq(Rows)
  /\ page \in [Admins -> Pages]
  /\ job \in [Slots -> Jobs]

\* A request is at a place of its kind's routes.  The status transition() read
\* first allows the move, or is the one to be reached, and a refund the server
\* works on is a row of the ledger.
JobOK(s) ==
  /\ ~Free(s) => job[s].by \in Admins /\ job[s].kind \in Kinds
  /\ job[s].at \in {"find", "read", "commit"} => job[s].kind \in {"dispatch", "act"}
  /\ ~Free(s) /\ job[s].kind = "dispatch" => job[s].to = "SHIPPED" /\ job[s].number \in Numbers
  /\ ~Free(s) /\ job[s].kind = "act" => job[s].to \in {"DELIVERED", "CANCELLED"}
  /\ job[s].at = "commit" =>
       \/ job[s].before = job[s].to /\ job[s].to # "CANCELLED"
       \/ CanTransition(job[s].before, job[s].to)
  /\ job[s].at = "acquire" => job[s].kind = "refund"
  /\ job[s].at \in {"process", "summary"} => job[s].i \in 1..Len(ledger)

\* A parcel is on its way of a SHIPPED order only.
OpenIsShipped == \A n \in Numbers : shipment[n] = "open" => status = "SHIPPED"

\* What administrator a asked for as the n-th refund of the page, under key k,
\* in a request or in the ledger.
Wished(a, n, k) ==
  \/ \E s \in Slots : /\ ~Free(s) /\ job[s].kind = "refund"
                      /\ job[s].by = a /\ job[s].action = n /\ job[s].key = k
  \/ \E i \in 1..Len(ledger) :
       ledger[i].by = a /\ ledger[i].action = n /\ ledger[i].key = k

\* The page is about the latest of them and keeps its key ...
KeyKept ==
  \A a \in Admins, n, k \in Nat : Wished(a, n, k) =>
    n <= page[a].action /\ (n = page[a].action => page[a].key # 0 /\ page[a].key = k)

\* ... so that one wish has one key ...
OneKey ==
  \A a \in Admins, n, k, m \in Nat : Wished(a, n, k) /\ Wished(a, n, m) => k = m

\* ... and one key has one intent.
OneIntent ==
  \A i, k \in 1..Len(ledger) :
    ledger[i].by = ledger[k].by /\ ledger[i].key = ledger[k].key => i = k

Inv ==
  /\ OrderTyped /\ DeskTyped
  /\ \A s \in Slots : JobOK(s)
  /\ OpenIsShipped /\ ShippedIsTracked
  /\ KeyKept /\ OneKey /\ OneIntent

-----------------------------------------------------------------------------
(* The transition table.                                                   *)

LEMMA Table ==
  /\ \A from \in OrderStatuses : CanTransition(from, "CANCELLED") => from \notin {"SHIPPED", "CANCELLED"}
  /\ \A from \in OrderStatuses : CanTransition(from, "DELIVERED") => from = "SHIPPED"
  /\ \A from \in OrderStatuses : CanTransition(from, "REFUNDED") => from # "SHIPPED"
BY DEF OrderStatuses, CanTransition, Transitions

LEMMA NoJobTyped == NoJob \in Jobs /\ NoJob.at = "none"
BY DEF NoJob, Jobs, Ats, States, AnyStatus, NoOrder

LEMMA InvInit == Init => Inv
<1> SUFFICES ASSUME Init PROVE Inv
  OBVIOUS
<1>1. OrderTyped
  BY ConstantsAssumption DEF Init, OrderTyped, OrderStatuses
<1>2. ledger \in Seq(Rows) /\ Len(ledger) = 0
  BY DEF Init
<1>3. View \in Views
  BY <1>1, <1>2 DEF View, Views, OrderTyped
<1>4. NewPage(View) \in Pages
  BY <1>3 DEF NewPage, Pages, NoMessage, States
<1>5. DeskTyped
  BY <1>2, <1>4, NoJobTyped DEF Init, DeskTyped
<1>6. \A s \in Slots : JobOK(s)
  BY NoJobTyped DEF Init, JobOK, Free
<1>7. OpenIsShipped /\ ShippedIsTracked
  BY ConstantsAssumption DEF Init, OpenIsShipped, ShippedIsTracked
<1>8. \A a, n, k : ~Wished(a, n, k)
  BY <1>2, NoJobTyped DEF Init, Wished, Free
<1>9. KeyKept /\ OneKey /\ OneIntent
  BY <1>2, <1>8 DEF KeyKept, OneKey, OneIntent
<1> QED
  BY <1>1, <1>5, <1>6, <1>7, <1>9 DEF Inv

-----------------------------------------------------------------------------
(* The frame of a step.                                                    *)

LEMMA InvFacts ==
  ASSUME Inv
  PROVE  /\ OrderTyped /\ DeskTyped
         /\ status \in OrderStatuses /\ method \in {"COD", "PREPAID"}
         /\ payment \in {"CREATED", "CAPTURED", "REFUNDED"}
         /\ shipment \in [Numbers -> {"none", "open", "delivered"}]
         /\ ledger \in Seq(Rows) /\ page \in [Admins -> Pages] /\ job \in [Slots -> Jobs]
         /\ \A s \in Slots : JobOK(s)
         /\ OpenIsShipped /\ ShippedIsTracked
         /\ KeyKept /\ OneKey /\ OneIntent
BY DEF Inv, OrderTyped, DeskTyped

\* The order's rows are left alone.
LEMMA OrderKept ==
  ASSUME Inv, UNCHANGED <<status, method, payment, shipment>>
  PROVE  OrderTyped' /\ OpenIsShipped' /\ ShippedIsTracked'
BY DEF Inv, OrderTyped, OpenIsShipped, ShippedIsTracked

\* Rows of the ledger keep who asked for them, as what and under which key.
SameRow(i) ==
  /\ ledger'[i].by = ledger[i].by /\ ledger'[i].key = ledger[i].key
  /\ ledger'[i].action = ledger[i].action

\* A request for a refund was one before.
SameWish(s) ==
  job'[s].at # "none" /\ job'[s].kind = "refund" =>
    /\ job[s].at # "none" /\ job[s].kind = "refund"
    /\ job'[s].by = job[s].by /\ job'[s].action = job[s].action /\ job'[s].key = job[s].key

LEMMA WishesKept ==
  ASSUME Inv, Len(ledger') = Len(ledger), \A i \in 1..Len(ledger) : SameRow(i),
         \A s \in Slots : SameWish(s)
  PROVE  /\ \A a \in Admins, n, k \in Nat : Wished(a, n, k)' => Wished(a, n, k)
         /\ OneKey' /\ OneIntent'
<1>1. ASSUME NEW a \in Admins, NEW n \in Nat, NEW k \in Nat, Wished(a, n, k)' PROVE Wished(a, n, k)
  <2>1. CASE \E s \in Slots : /\ job'[s].at # "none" /\ job'[s].kind = "refund"
                              /\ job'[s].by = a /\ job'[s].action = n /\ job'[s].key = k
    BY <2>1 DEF Wished, SameWish, Free
  <2>2. CASE \E i \in 1..Len(ledger') :
               ledger'[i].by = a /\ ledger'[i].action = n /\ ledger'[i].key = k
    BY <2>2 DEF Wished, SameRow
  <2> QED
    BY <1>1, <2>1, <2>2 DEF Wished, Free
<1>2. OneKey'
  BY <1>1 DEF Inv, OneKey
<1>3. OneIntent'
  BY DEF Inv, OneIntent, SameRow
<1> QED
  BY <1>1, <1>2, <1>3

\* A step that keeps the wishes and their pages' keys.
LEMMA Keeps ==
  ASSUME Inv, OrderTyped', OpenIsShipped', ShippedIsTracked', DeskTyped',
         \A s \in Slots : JobOK(s)',
         Len(ledger') = Len(ledger), \A i \in 1..Len(ledger) : SameRow(i),
         \A s \in Slots : SameWish(s),
         \A a \in Admins : page'[a].action = page[a].action /\ page'[a].key = page[a].key
  PROVE  Inv'
<1>1. KeyKept'
  BY WishesKept DEF Inv, KeyKept
<1> QED
  BY <1>1, WishesKept DEF Inv

\* The server goes on with a request.
LEMMA Goes ==
  ASSUME Inv, NEW s \in Slots, ~Free(s), NEW j \in Jobs,
         job' = [job EXCEPT ![s] = j], UNCHANGED page,
         j.kind = job[s].kind, j.by = job[s].by, j.action = job[s].action, j.key = job[s].key,
         ledger' \in Seq(Rows), Len(ledger') = Len(ledger),
         \A i \in 1..Len(ledger) : SameRow(i),
         OrderTyped', OpenIsShipped', ShippedIsTracked',
         JobOK(s)'
  PROVE  Inv'
<1> USE InvFacts
<1>1. job' \in [Slots -> Jobs] /\ job'[s] = j /\ \A t \in Slots : t # s => job'[t] = job[t]
  OBVIOUS
<1>2. DeskTyped'
  BY <1>1 DEF DeskTyped
<1>3. ASSUME NEW t \in Slots PROVE JobOK(t)'
  <2>1. CASE t = s
    BY <2>1
  <2>2. CASE t # s
    BY <1>1, <2>2 DEF JobOK, Free
  <2> QED
    BY <2>1, <2>2
<1>4. \A t \in Slots : SameWish(t)
  BY <1>1 DEF SameWish, Free
<1>5. \A a \in Admins : page'[a].action = page[a].action /\ page'[a].key = page[a].key
  OBVIOUS
<1> QED
  BY <1>2, <1>3, <1>4, <1>5, Keeps

-----------------------------------------------------------------------------
(* The server.                                                             *)

\* A request is answered.
LEMMA Answers ==
  ASSUME Inv, NEW s \in Slots, ~Free(s), Refuse(s) \/ Succeed(s), UNCHANGED <<page, ledger>>,
         OrderTyped', OpenIsShipped', ShippedIsTracked'
  PROVE  Inv'
<1> USE InvFacts
<1>1. PICK answer \in BOOLEAN : job' = [job EXCEPT ![s].at = "answered", ![s].ok = answer]
  BY DEF Refuse, Succeed
<1> DEFINE j == [job[s] EXCEPT !.at = "answered", !.ok = answer]
<1>2. job' = [job EXCEPT ![s] = j]
  BY <1>1
<1>3. /\ j \in Jobs /\ j.at = "answered" /\ j.kind = job[s].kind /\ j.by = job[s].by
      /\ j.action = job[s].action /\ j.key = job[s].key
      /\ j.to = job[s].to /\ j.number = job[s].number
  BY DEF Jobs, Ats
<1> HIDE DEF j
<1>4. job'[s] = j
  BY <1>2
<1>5. JobOK(s)'
  BY <1>3, <1>4 DEF JobOK, Free
<1>6. \A i \in 1..Len(ledger) : SameRow(i)
  BY DEF SameRow
<1> QED
  BY <1>2, <1>3, <1>5, <1>6, Goes

\* A request goes on to its next place; only what transition() read first
\* changes with it.
LEMMA GoesTo ==
  ASSUME Inv, NEW s \in Slots, ~Free(s), NEW at \in {"read", "commit"},
         NEW before \in AnyStatus,
         job' = [job EXCEPT ![s] = [job[s] EXCEPT !.at = at, !.before = before]],
         job[s].kind \in {"dispatch", "act"},
         at = "commit" => \/ before = job[s].to /\ job[s].to # "CANCELLED"
                          \/ CanTransition(before, job[s].to),
         UNCHANGED <<status, method, payment, ledger, shipment, page>>
  PROVE  Inv'
<1> USE InvFacts
<1> DEFINE j == [job[s] EXCEPT !.at = at, !.before = before]
<1>1. /\ j \in Jobs /\ j.at = at /\ j.before = before /\ j.kind = job[s].kind /\ j.by = job[s].by
      /\ j.action = job[s].action /\ j.key = job[s].key
      /\ j.to = job[s].to /\ j.number = job[s].number
  BY DEF Jobs, Ats
<1>2. job' = [job EXCEPT ![s] = j]
  OBVIOUS
<1> HIDE DEF j
<1>3. job'[s] = j
  BY <1>2
<1>4. JobOK(s)'
  BY <1>1, <1>3 DEF JobOK, Free
<1>5. \A i \in 1..Len(ledger) : SameRow(i)
  BY DEF SameRow
<1> QED
  BY <1>1, <1>2, <1>4, <1>5, Goes, OrderKept

LEMMA FindInv == ASSUME Inv, NEW s \in Slots, Find(s) PROVE Inv'
<1> USE InvFacts
<1>1. ~Free(s) /\ job[s].kind \in {"dispatch", "act"}
  BY DEF Find, Free, JobOK
<1>2. UNCHANGED <<status, method, payment, ledger, shipment, page>>
  BY DEF Find
<1>3. CASE Refuse(s)
  BY <1>1, <1>2, <1>3, Answers, OrderKept
<1>4. CASE job' = [job EXCEPT ![s].at = "read"]
  <2>1. job[s] \in Jobs /\ job[s].before \in AnyStatus
    BY DEF Jobs
  <2>2. [job[s] EXCEPT !.at = "read"] = [job[s] EXCEPT !.at = "read", !.before = job[s].before]
    BY <2>1 DEF Jobs
  <2>3. job' = [job EXCEPT ![s] = [job[s] EXCEPT !.at = "read", !.before = job[s].before]]
    BY <1>4, <2>2
  <2> QED
    BY <1>1, <1>2, <2>1, <2>3, GoesTo
<1> QED
  BY <1>3, <1>4 DEF Find

LEMMA ReadInv == ASSUME Inv, NEW s \in Slots, Read(s) PROVE Inv'
<1> USE InvFacts
<1>1. ~Free(s) /\ job[s].kind \in {"dispatch", "act"}
  BY DEF Read, Free, JobOK
<1>2. UNCHANGED <<status, method, payment, ledger, shipment, page>>
  BY DEF Read
<1>3. CASE Refuse(s) \/ Succeed(s)
  BY <1>1, <1>2, <1>3, Answers, OrderKept
<1>4. CASE /\ ~(status # job[s].to /\ ~CanTransition(status, job[s].to))
           /\ ~(status = job[s].to /\ job[s].to = "CANCELLED")
           /\ job' = [job EXCEPT ![s].at = "commit", ![s].before = status]
  <2>1. job' = [job EXCEPT ![s] = [job[s] EXCEPT !.at = "commit", !.before = status]]
    BY <1>4
  <2>2. status \in AnyStatus
    BY DEF AnyStatus
  <2>3. \/ status = job[s].to /\ job[s].to # "CANCELLED"
        \/ CanTransition(status, job[s].to)
    BY <1>4
  <2> QED
    BY <1>1, <1>2, <2>1, <2>2, <2>3, GoesTo
<1> QED
  BY <1>3, <1>4 DEF Read

\* The order's lock: what transition() read first is compared with the row
\* again, so that a move is made from a status that allows it.
LEMMA CommitInv == ASSUME Inv, NEW s \in Slots, Commit(s) PROVE Inv'
<1> USE InvFacts
<1>1. ~Free(s) /\ job[s].kind \in {"dispatch", "act"} /\ job[s] \in Jobs
  BY DEF Commit, Free, JobOK
<1>2. UNCHANGED <<method, ledger, page>>
  BY DEF Commit
<1>3. CASE ~MayCommit(job[s])
  <2>1. Refuse(s) /\ UNCHANGED <<status, method, payment, shipment>>
    BY <1>2, <1>3 DEF Commit
  <2> QED
    BY <1>1, <1>2, <2>1, Answers, OrderKept
<1>4. CASE MayCommit(job[s])
  <2> DEFINE to == job[s].to
  <2>1. /\ status' = to /\ shipment' = Worked(job[s]) /\ Succeed(s)
        /\ payment' = IF method = "COD" /\ to = "DELIVERED" /\ status # "DELIVERED"
                      THEN "CAPTURED" ELSE payment
    BY <1>4 DEF Commit
  <2>2. /\ job[s].kind = "dispatch" => to = "SHIPPED" /\ job[s].number \in Numbers
        /\ job[s].kind = "act" => to \in {"DELIVERED", "CANCELLED"}
        /\ \/ job[s].before = to /\ to # "CANCELLED"
           \/ CanTransition(job[s].before, to)
    BY <1>1 DEF Commit, JobOK
  <2>3. status \in {job[s].before, to}
    BY <1>4 DEF MayCommit
  <2> HIDE DEF to
  <2>4. to \in {"SHIPPED", "DELIVERED", "CANCELLED"}
    BY <1>1, <2>2
  <2>5. to = "CANCELLED" => status # "SHIPPED"
    BY <2>2, <2>3, Table
  <2>6. to = "DELIVERED" => status \in {"SHIPPED", "DELIVERED"}
    BY <2>2, <2>3, Table
  <2>7. CASE job[s].kind = "dispatch"
    <3>1. shipment' = [shipment EXCEPT ![job[s].number] = "open"] /\ to = "SHIPPED"
      BY <2>1, <2>2, <2>7 DEF Worked, to
    <3>2. shipment' \in [Numbers -> {"none", "open", "delivered"}]
          /\ shipment'[job[s].number] # "none"
      BY <2>2, <2>7, <3>1
    <3>3. OrderTyped'
      BY <1>2, <2>1, <3>1, <3>2 DEF OrderTyped, OrderStatuses
    <3>4. OpenIsShipped' /\ ShippedIsTracked'
      <4>1. status' = "SHIPPED" /\ job[s].number \in Numbers
        BY <2>1, <2>2, <2>7, <3>1
      <4>2. \E n \in Numbers : shipment'[n] # "none"
        BY <3>2, <4>1
      <4> QED
        BY <4>1, <4>2 DEF OpenIsShipped, ShippedIsTracked
    <3> QED
      BY <1>1, <1>2, <2>1, <3>3, <3>4, Answers
  <2>8. CASE to = "DELIVERED" /\ job[s].kind = "act"
    <3>1. shipment' = [n \in Numbers |-> IF shipment[n] = "open" THEN "delivered" ELSE shipment[n]]
      BY <2>1, <2>8 DEF Worked, to
    <3>2. OrderTyped'
      BY <1>2, <2>1, <2>8, <3>1 DEF OrderTyped, OrderStatuses
    <3>3. OpenIsShipped'
      BY <3>1 DEF OpenIsShipped
    <3>4. ShippedIsTracked'
      BY <2>6, <2>8, <3>1 DEF ShippedIsTracked
    <3> QED
      BY <1>1, <1>2, <2>1, <3>2, <3>3, <3>4, Answers
  <2>9. CASE to = "CANCELLED" /\ job[s].kind = "act"
    <3>1. shipment' = shipment
      BY <2>1, <2>9 DEF Worked, to
    <3>2. OrderTyped'
      BY <1>2, <2>1, <2>9, <3>1 DEF OrderTyped, OrderStatuses
    <3>3. OpenIsShipped' /\ ShippedIsTracked'
      BY <2>1, <2>5, <2>9, <3>1 DEF OpenIsShipped, ShippedIsTracked
    <3> QED
      BY <1>1, <1>2, <2>1, <3>2, <3>3, Answers
  <2> QED
    BY <1>1, <2>2, <2>4, <2>7, <2>8, <2>9
<1> QED
  BY <1>3, <1>4

\* The request of a refund whose row is i.
InProcess(j, i) == [j EXCEPT !.at = "process", !.i = i]

LEMMA InProcessTyped ==
  ASSUME NEW j \in Jobs, NEW i \in Nat
  PROVE  /\ InProcess(j, i) \in Jobs /\ InProcess(j, i).at = "process" /\ InProcess(j, i).i = i
         /\ InProcess(j, i).kind = j.kind /\ InProcess(j, i).by = j.by
         /\ InProcess(j, i).action = j.action /\ InProcess(j, i).key = j.key
BY DEF Jobs, Ats, InProcess

\* acquireRefundIntent: the row under the request's key, or a new one.
LEMMA AcquireInv == ASSUME Inv, NEW s \in Slots, Acquire(s) PROVE Inv'
<1> USE InvFacts
<1>1. /\ ~Free(s) /\ job[s].kind = "refund" /\ job[s].by \in Admins /\ job[s] \in Jobs
      /\ job[s].at = "acquire"
  BY DEF Acquire, Free, JobOK
<1>2. UNCHANGED <<status, method, payment, shipment, page>>
  BY DEF Acquire
<1>3. OrderTyped' /\ OpenIsShipped' /\ ShippedIsTracked'
  BY <1>2, OrderKept
<1>4. Len(ledger) \in Nat
  OBVIOUS
<1>5. CASE Refuse(s) /\ UNCHANGED ledger
  BY <1>1, <1>2, <1>3, <1>5, Answers
<1>6. ASSUME NEW i \in 1..Len(ledger), UNCHANGED ledger,
             job' = [job EXCEPT ![s].at = "process", ![s].i = i]
      PROVE  Inv'
  <2> DEFINE j == InProcess(job[s], i)
  <2>1. job' = [job EXCEPT ![s] = j]
    BY <1>6 DEF InProcess
  <2>2. /\ j \in Jobs /\ j.at = "process" /\ j.i = i /\ j.kind = job[s].kind /\ j.by = job[s].by
        /\ j.action = job[s].action /\ j.key = job[s].key
    <3>1. i \in Nat
      BY <1>4
    <3> QED
      BY <1>1, <3>1, InProcessTyped
  <2> HIDE DEF j
  <2>3. job'[s] = j
    BY <2>1
  <2>4. JobOK(s)'
    BY <1>1, <1>6, <2>2, <2>3 DEF JobOK, Free, Kinds
  <2>5. \A k \in 1..Len(ledger) : SameRow(k)
    BY <1>6 DEF SameRow
  <2> QED
    BY <1>1, <1>2, <1>3, <1>6, <2>1, <2>2, <2>4, <2>5, Goes
<1>7. CASE /\ \E i \in Known(job[s]) : ledger[i].amount = job[s].amount
           /\ job' = [job EXCEPT ![s].at = "process", ![s].i = CHOOSE i \in Known(job[s]) : TRUE]
           /\ UNCHANGED ledger
  <2> DEFINE i == CHOOSE i \in Known(job[s]) : TRUE
  <2>1. i \in Known(job[s])
    BY <1>7
  <2>2. i \in 1..Len(ledger)
    BY <2>1 DEF Known
  <2> HIDE DEF i
  <2> QED
    BY <1>6, <1>7, <2>2 DEF i
<1>8. CASE /\ Known(job[s]) = {}
           /\ ledger' = Append(ledger, [by |-> job[s].by, key |-> job[s].key,
                                        action |-> job[s].action, amount |-> job[s].amount,
                                        state |-> "ACTIVE"])
           /\ job' = [job EXCEPT ![s].at = "process", ![s].i = Len(ledger) + 1]
  <2> DEFINE row == [by |-> job[s].by, key |-> job[s].key, action |-> job[s].action,
                     amount |-> job[s].amount, state |-> "ACTIVE"]
             n == Len(ledger)
             j == InProcess(job[s], n + 1)
  <2>1. /\ row \in Rows /\ row.by = job[s].by /\ row.key = job[s].key
        /\ row.action = job[s].action
    BY <1>1 DEF Rows, Jobs, IntentStates
  <2>2. /\ j \in Jobs /\ j.at = "process" /\ j.i = n + 1 /\ j.kind = job[s].kind
        /\ j.by = job[s].by /\ j.action = job[s].action /\ j.key = job[s].key
    <3>1. n + 1 \in Nat
      BY <1>4
    <3> QED
      BY <1>1, <3>1, InProcessTyped
  <2>3. ledger' = Append(ledger, row) /\ job' = [job EXCEPT ![s] = j]
    BY <1>8 DEF InProcess
  <2> HIDE DEF row, j
  <2>4. /\ ledger' \in Seq(Rows) /\ Len(ledger') = n + 1 /\ ledger'[n + 1] = row
        /\ \A i \in 1..n : ledger'[i] = ledger[i]
    BY <2>1, <2>3
  <2> HIDE DEF n
  <2>5. n \in Nat /\ n = Len(ledger)
    BY DEF n
  <2>6. job' \in [Slots -> Jobs] /\ job'[s] = j /\ \A t \in Slots : t # s => job'[t] = job[t]
    BY <2>2, <2>3
  <2>7. DeskTyped'
    BY <1>2, <2>4, <2>6 DEF DeskTyped
  <2>8. ASSUME NEW t \in Slots PROVE JobOK(t)'
    <3>1. CASE t = s
      BY <1>1, <2>2, <2>4, <2>5, <2>6, <3>1 DEF JobOK, Free, Kinds
    <3>2. CASE t # s
      BY <2>4, <2>5, <2>6, <3>2 DEF JobOK, Free
    <3> QED
      BY <3>1, <3>2
  <2>9. ASSUME NEW a \in Admins, NEW m \in Nat, NEW k \in Nat, Wished(a, m, k)'
        PROVE  Wished(a, m, k)
    <3>1. CASE \E t \in Slots : /\ job'[t].at # "none" /\ job'[t].kind = "refund"
                                /\ job'[t].by = a /\ job'[t].action = m /\ job'[t].key = k
      BY <1>1, <2>2, <2>6, <3>1 DEF Wished, Free
    <3>2. CASE \E i \in 1..Len(ledger') :
                 ledger'[i].by = a /\ ledger'[i].action = m /\ ledger'[i].key = k
      <4>1. PICK i \in 1..(n + 1) :
              ledger'[i].by = a /\ ledger'[i].action = m /\ ledger'[i].key = k
        BY <2>4, <3>2
      <4>2. CASE i \in 1..n
        BY <2>4, <2>5, <4>1, <4>2 DEF Wished
      <4>3. CASE i = n + 1
        BY <1>1, <2>1, <2>4, <4>1, <4>3 DEF Wished
      <4> QED
        BY <2>5, <4>1, <4>2, <4>3
    <3> QED
      BY <2>9, <3>1, <3>2 DEF Wished, Free
  <2>10. KeyKept' /\ OneKey'
    BY <1>2, <2>9 DEF KeyKept, OneKey
  <2>11. \A i \in 1..n : ~(ledger[i].by = row.by /\ ledger[i].key = row.key)
    BY <1>8, <2>1, <2>5 DEF Known
  <2>12. OneIntent'
    <3> SUFFICES ASSUME NEW i \in 1..(n + 1), NEW k \in 1..(n + 1),
                        ledger'[i].by = ledger'[k].by, ledger'[i].key = ledger'[k].key
                 PROVE  i = k
      BY <2>4 DEF OneIntent
    <3>1. CASE i \in 1..n /\ k \in 1..n
      BY <2>4, <2>5, <3>1 DEF OneIntent
    <3>2. CASE i = n + 1 /\ k \in 1..n
      BY <2>4, <2>11, <3>2
    <3>3. CASE k = n + 1 /\ i \in 1..n
      BY <2>4, <2>11, <3>3
    <3> QED
      BY <2>5, <3>1, <3>2, <3>3
  <2> QED
    BY <1>3, <2>7, <2>8, <2>10, <2>12 DEF Inv
<1> QED
  BY <1>5, <1>7, <1>8 DEF Acquire

\* A row's state is settled.
LEMMA SettleKeeps ==
  ASSUME Inv, NEW i \in 1..Len(ledger), NEW state \in IntentStates, Settle(i, state)
  PROVE  /\ ledger' \in Seq(Rows) /\ Len(ledger') = Len(ledger)
         /\ \A k \in 1..Len(ledger) : SameRow(k)
<1> USE InvFacts
<1>1. CASE UNCHANGED ledger
  BY <1>1 DEF SameRow
<1>2. CASE ledger' = [ledger EXCEPT ![i].state = state]
  <2> DEFINE row == [ledger[i] EXCEPT !.state = state]
  <2>1. ledger[i] \in Rows
    OBVIOUS
  <2>2. /\ row \in Rows /\ row.by = ledger[i].by /\ row.key = ledger[i].key
        /\ row.action = ledger[i].action
    BY <2>1 DEF Rows
  <2>3. ledger' = [ledger EXCEPT ![i] = row]
    BY <1>2
  <2> HIDE DEF row
  <2>4. ledger' \in Seq(Rows) /\ Len(ledger') = Len(ledger)
    BY <2>2, <2>3
  <2>5. \A k \in 1..Len(ledger) : ledger'[k] = IF k = i THEN row ELSE ledger[k]
    BY <2>3
  <2> QED
    BY <2>2, <2>4, <2>5 DEF SameRow
<1> QED
  BY <1>1, <1>2 DEF Settle

LEMMA ProcessInv ==
  ASSUME Inv, NEW s \in Slots, NEW state \in IntentStates, Process(s, state) PROVE Inv'
<1> USE InvFacts
<1>1. ~Free(s) /\ job[s] \in Jobs /\ job[s].i \in 1..Len(ledger)
  BY DEF Process, Free, JobOK
<1>2. UNCHANGED <<status, method, payment, shipment, page>> /\ Settle(job[s].i, state)
  BY DEF Process
<1>3. PICK i : i = job[s].i
  OBVIOUS
<1>4. /\ ledger' \in Seq(Rows) /\ Len(ledger') = Len(ledger)
      /\ \A k \in 1..Len(ledger) : SameRow(k)
  BY <1>1, <1>2, <1>3, SettleKeeps
<1> DEFINE j == [job[s] EXCEPT !.at = "summary"]
<1>5. job' = [job EXCEPT ![s] = j]
  BY DEF Process
<1>6. /\ j \in Jobs /\ j.at = "summary" /\ j.i = i /\ j.kind = job[s].kind /\ j.by = job[s].by
      /\ j.action = job[s].action /\ j.key = job[s].key
      /\ j.to = job[s].to /\ j.number = job[s].number
  BY <1>1, <1>3 DEF Jobs, Ats
<1> HIDE DEF j
<1>7. job'[s] = j
  BY <1>5
<1>8. JobOK(s)'
  BY <1>1, <1>3, <1>4, <1>6, <1>7 DEF JobOK, Free
<1> QED
  BY <1>1, <1>2, <1>4, <1>5, <1>6, <1>8, Goes, OrderKept

LEMMA SummaryInv == ASSUME Inv, NEW s \in Slots, Summary(s) PROVE Inv'
<1> USE InvFacts
<1>1. ~Free(s) /\ job[s] \in Jobs /\ job[s].i \in 1..Len(ledger)
  BY DEF Summary, Free, JobOK
<1>2. UNCHANGED <<status, method, payment, ledger, shipment, page>>
  BY DEF Summary
<1>3. Len(ledger) \in 1..Len(ledger)
  BY <1>1
<1>4. ledger[Len(ledger)].state \in States /\ ledger[job[s].i].state \in States
  <2>1. \A k \in 1..Len(ledger) : ledger[k] \in Rows
    OBVIOUS
  <2>2. \A row \in Rows : row.state \in States
    BY DEF Rows, States
  <2> QED
    BY <1>1, <1>3, <2>1, <2>2
<1> DEFINE j == [job[s] EXCEPT !.at = "answered", !.ok = TRUE,
                   !.latest = ledger[Len(ledger)].state, !.was = ledger[job[s].i].state]
<1>5. job' = [job EXCEPT ![s] = j]
  BY DEF Summary
<1>6. /\ j \in Jobs /\ j.at = "answered" /\ j.kind = job[s].kind /\ j.by = job[s].by
      /\ j.action = job[s].action /\ j.key = job[s].key
      /\ j.to = job[s].to /\ j.number = job[s].number
  BY <1>1, <1>4 DEF Jobs, Ats
<1> HIDE DEF j
<1>7. job'[s] = j
  BY <1>5
<1>8. JobOK(s)'
  BY <1>1, <1>6, <1>7 DEF JobOK, Free
<1>9. \A k \in 1..Len(ledger) : SameRow(k)
  BY <1>2 DEF SameRow
<1> QED
  BY <1>1, <1>2, <1>5, <1>6, <1>8, <1>9, Goes, OrderKept

-----------------------------------------------------------------------------
(* The pages.                                                              *)

LEMMA PageWaits ==
  ASSUME NEW p \in Pages, NEW kind \in Kinds, NEW s \in Slots \cup {"none"}
  PROVE  /\ [p EXCEPT !.wait[kind] = s] \in Pages
         /\ [p EXCEPT !.wait[kind] = s].key = p.key
         /\ [p EXCEPT !.wait[kind] = s].action = p.action
BY DEF Pages

\* A page sends a request: one for a refund is about the page's wish, and
\* under the key the page keeps, or a new one when it keeps none.
LEMMA Sends ==
  ASSUME Inv, NEW a \in Admins, NEW s \in Slots, NEW r \in Jobs, NEW p \in Pages,
         Send(a, s, r, p), r.at # "none", r.by = a, r.kind \in Kinds,
         JobOK(s)',
         p.action = page[a].action,
         r.kind # "refund" => p.key = page[a].key,
         r.kind = "refund" => /\ r.action = page[a].action /\ r.key = p.key /\ p.key # 0
                              /\ page[a].key # 0 => p.key = page[a].key
  PROVE  Inv'
<1> USE InvFacts
<1> DEFINE q == [p EXCEPT !.wait[r.kind] = s]
<1>1. /\ Free(s) /\ job' = [job EXCEPT ![s] = r] /\ page' = [page EXCEPT ![a] = q]
      /\ UNCHANGED <<status, method, payment, ledger, shipment>>
  BY DEF Send
<1>2. q \in Pages /\ q.key = p.key /\ q.action = p.action
  BY PageWaits
<1> HIDE DEF q
<1>3. job' \in [Slots -> Jobs] /\ job'[s] = r /\ \A t \in Slots : t # s => job'[t] = job[t]
  BY <1>1
<1>4. page' \in [Admins -> Pages] /\ page'[a] = q /\ \A b \in Admins : b # a => page'[b] = page[b]
  BY <1>1, <1>2
<1>5. DeskTyped'
  BY <1>1, <1>3, <1>4 DEF DeskTyped
<1>6. ASSUME NEW t \in Slots PROVE JobOK(t)'
  <2>1. CASE t = s
    BY <2>1
  <2>2. CASE t # s
    BY <1>1, <1>3, <2>2 DEF JobOK, Free
  <2> QED
    BY <2>1, <2>2
<1>7. \A i \in 1..Len(ledger) : SameRow(i)
  BY <1>1 DEF SameRow
<1>8. CASE r.kind # "refund"
  <2>1. \A t \in Slots : SameWish(t)
    BY <1>3, <1>8 DEF SameWish
  <2>2. \A b \in Admins : page'[b].action = page[b].action /\ page'[b].key = page[b].key
    BY <1>2, <1>4, <1>8
  <2> QED
    BY <1>1, <1>5, <1>6, <1>7, <2>1, <2>2, Keeps, OrderKept
<1>9. CASE r.kind = "refund"
  <2>1. ASSUME NEW b \in Admins, NEW n \in Nat, NEW k \in Nat, Wished(b, n, k)'
        PROVE  Wished(b, n, k) \/ (b = a /\ n = p.action /\ k = p.key)
    <3>1. CASE \E t \in Slots : /\ job'[t].at # "none" /\ job'[t].kind = "refund"
                                /\ job'[t].by = b /\ job'[t].action = n /\ job'[t].key = k
      BY <1>3, <1>9, <3>1 DEF Wished, Free
    <3>2. CASE \E i \in 1..Len(ledger') :
                 ledger'[i].by = b /\ ledger'[i].action = n /\ ledger'[i].key = k
      BY <1>1, <3>2 DEF Wished
    <3> QED
      BY <2>1, <3>1, <3>2 DEF Wished, Free
  <2>2. p.action \in Nat /\ p.key \in Nat
    BY DEF Pages
  <2>3. KeyKept'
    <3> SUFFICES ASSUME NEW b \in Admins, NEW n \in Nat, NEW k \in Nat, Wished(b, n, k)'
                 PROVE  n <= page'[b].action
                        /\ (n = page'[b].action => page'[b].key # 0 /\ page'[b].key = k)
      BY DEF KeyKept
    <3>1. CASE Wished(b, n, k) /\ b # a
      BY <1>4, <3>1 DEF KeyKept
    <3>2. CASE Wished(b, n, k) /\ b = a
      BY <1>2, <1>4, <1>9, <3>2 DEF KeyKept
    <3>3. CASE b = a /\ n = p.action /\ k = p.key
      BY <1>2, <1>4, <1>9, <2>2, <3>3
    <3> QED
      BY <2>1, <3>1, <3>2, <3>3
  <2>4. OneKey'
    <3> SUFFICES ASSUME NEW b \in Admins, NEW n \in Nat, NEW k \in Nat, NEW m \in Nat,
                        Wished(b, n, k)', Wished(b, n, m)'
                 PROVE  k = m
      BY DEF OneKey
    <3>1. \A l \in Nat : Wished(a, p.action, l) => l = p.key
      BY <1>9, <2>2 DEF KeyKept
    <3>2. CASE Wished(b, n, k) /\ Wished(b, n, m)
      BY <3>2 DEF OneKey
    <3> QED
      BY <2>1, <3>1, <3>2
  <2>5. OneIntent'
    BY <1>1 DEF OneIntent
  <2> QED
    BY <1>1, <1>5, <1>6, <2>3, <2>4, <2>5, OrderKept DEF Inv
<1> QED
  BY <1>8, <1>9

LEMMA PageTyped == ASSUME Inv, NEW a \in Admins PROVE page[a] \in Pages
BY InvFacts

\* The request a page sends, before it is told what is asked for.
LEMMA RequestTyped ==
  ASSUME NEW a \in Admins, NEW kind \in Kinds
  PROVE  /\ Request(a, kind) \in Jobs
         /\ Request(a, kind).at = FirstStep[kind] /\ Request(a, kind).kind = kind
         /\ Request(a, kind).by = a
<1>1. FirstStep[kind] \in Ats
  BY DEF FirstStep, Kinds, Ats
<1>2. NoJob \in Jobs
  BY NoJobTyped
<1>3. Request(a, kind) = [NoJob EXCEPT !.kind = kind, !.by = a, !.at = FirstStep[kind]]
  BY DEF Request
<1> QED
  BY <1>1, <1>2, <1>3 DEF Jobs

LEMMA DispatchInv ==
  ASSUME Inv, NEW a \in Admins, NEW s \in Slots, NEW n \in Numbers, Dispatch(a, s, n) PROVE Inv'
<1> DEFINE r == [Request(a, "dispatch") EXCEPT !.to = "SHIPPED", !.number = n]
<1>1. Send(a, s, r, page[a]) /\ page[a] \in Pages
  BY PageTyped DEF Dispatch
<1>2. /\ r \in Jobs /\ r.at = "find" /\ r.kind = "dispatch" /\ r.by = a
      /\ r.to = "SHIPPED" /\ r.number = n
  <2>1. "dispatch" \in Kinds /\ FirstStep["dispatch"] = "find"
    BY DEF Kinds, FirstStep
  <2> HIDE DEF r
  <2> DEFINE r0 == Request(a, "dispatch")
  <2>2. r0 \in Jobs /\ r0.at = "find" /\ r0.kind = "dispatch" /\ r0.by = a
    BY <2>1, RequestTyped
  <2>3. r = [r0 EXCEPT !.to = "SHIPPED", !.number = n]
    BY DEF r
  <2> HIDE DEF r0
  <2> QED
    BY <2>2, <2>3 DEF Jobs, AnyStatus, OrderStatuses
<1> HIDE DEF r
<1>3. job'[s] = r
  BY <1>1, InvFacts DEF Send
<1>4. JobOK(s)'
  BY <1>2, <1>3 DEF JobOK, Free, Kinds
<1> QED
  BY <1>1, <1>2, <1>4, Sends DEF Kinds

LEMMA ActInv ==
  ASSUME Inv, NEW a \in Admins, NEW s \in Slots, NEW to, Act(a, s, to) PROVE Inv'
<1> DEFINE r == [Request(a, "act") EXCEPT !.to = to]
<1>1. Send(a, s, r, page[a]) /\ page[a] \in Pages /\ to \in {"DELIVERED", "CANCELLED"}
  BY PageTyped DEF Act, Buttons
<1>2. r \in Jobs /\ r.at = "read" /\ r.kind = "act" /\ r.by = a /\ r.to = to
  <2>1. "act" \in Kinds /\ FirstStep["act"] = "read"
    BY DEF Kinds, FirstStep
  <2> HIDE DEF r
  <2> DEFINE r0 == Request(a, "act")
  <2>2. r0 \in Jobs /\ r0.at = "read" /\ r0.kind = "act" /\ r0.by = a
    BY <2>1, RequestTyped
  <2>3. r = [r0 EXCEPT !.to = to]
    BY DEF r
  <2> HIDE DEF r0
  <2> QED
    BY <1>1, <2>2, <2>3 DEF Jobs, AnyStatus, OrderStatuses
<1> HIDE DEF r
<1>3. job'[s] = r
  BY <1>1, InvFacts DEF Send
<1>4. JobOK(s)'
  BY <1>1, <1>2, <1>3 DEF JobOK, Free, Kinds
<1> QED
  BY <1>1, <1>2, <1>4, Sends DEF Kinds

LEMMA CheckInv ==
  ASSUME Inv, NEW a \in Admins, NEW s \in Slots, NEW i \in 1..Len(ledger), Check(a, s, i)
  PROVE  Inv'
<1> DEFINE r == [Request(a, "check") EXCEPT !.i = i]
           p == [page[a] EXCEPT !.told = NoMessage]
<1>1. Send(a, s, r, p) /\ page[a] \in Pages
  BY PageTyped DEF Check
<1>2. p \in Pages /\ p.action = page[a].action /\ p.key = page[a].key
  BY <1>1 DEF Pages, NoMessage, States
<1>3. r \in Jobs /\ r.at = "process" /\ r.kind = "check" /\ r.by = a /\ r.i = i
  <2>1. "check" \in Kinds /\ FirstStep["check"] = "process" /\ i \in Nat
    BY DEF Kinds, FirstStep
  <2> HIDE DEF r
  <2> DEFINE r0 == Request(a, "check")
  <2>2. r0 \in Jobs /\ r0.at = "process" /\ r0.kind = "check" /\ r0.by = a
    BY <2>1, RequestTyped
  <2>3. r = [r0 EXCEPT !.i = i]
    BY DEF r
  <2> HIDE DEF r0
  <2> QED
    BY <2>1, <2>2, <2>3 DEF Jobs
<1> HIDE DEF r, p
<1>4. job'[s] = r /\ ledger' = ledger
  BY <1>1, InvFacts DEF Send
<1>5. JobOK(s)'
  BY <1>3, <1>4 DEF JobOK, Free, Kinds
<1> QED
  BY <1>1, <1>2, <1>3, <1>5, Sends DEF Kinds

\* handleRefund: the key the page keeps, or one it has not used.
LEMMA AskInv ==
  ASSUME Inv, NEW a \in Admins, NEW s \in Slots, NEW amount \in Nat, Ask(a, s, amount) PROVE Inv'
<1> DEFINE key == RefundKey(a)
           r == [Request(a, "refund") EXCEPT !.key = key, !.action = page[a].action,
                                             !.amount = amount]
           p == [page[a] EXCEPT !.key = key, !.told = NoMessage,
                                !.keys = IF key > @ THEN key ELSE @]
<1>1. Send(a, s, r, p) /\ page[a] \in Pages
  BY PageTyped DEF Ask
<1>2. page[a].key \in Nat /\ page[a].keys \in Nat /\ page[a].action \in Nat
  BY <1>1 DEF Pages
<1>3. key \in Nat /\ key # 0 /\ (page[a].key # 0 => key = page[a].key)
  BY <1>2 DEF RefundKey
<1> HIDE DEF key
<1>4. p \in Pages /\ p.action = page[a].action /\ p.key = key
  <2> DEFINE keys == IF key > page[a].keys THEN key ELSE page[a].keys
  <2>1. keys \in Nat
    BY <1>2, <1>3
  <2>2. p = [page[a] EXCEPT !.key = key, !.told = NoMessage, !.keys = keys]
    OBVIOUS
  <2>3. NoMessage \in [text : {"none", "processed", "accepted"}, key : Nat, was : States]
    BY DEF NoMessage, States
  <2> HIDE DEF keys, p
  <2> QED
    BY <1>1, <1>3, <2>1, <2>2, <2>3 DEF Pages
<1>5. /\ r \in Jobs /\ r.at = "acquire" /\ r.kind = "refund" /\ r.by = a
      /\ r.key = key /\ r.action = page[a].action
  <2>1. "refund" \in Kinds /\ FirstStep["refund"] = "acquire"
    BY DEF Kinds, FirstStep
  <2> HIDE DEF r
  <2> DEFINE r0 == Request(a, "refund")
  <2>2. r0 \in Jobs /\ r0.at = "acquire" /\ r0.kind = "refund" /\ r0.by = a
    BY <2>1, RequestTyped
  <2>3. r = [r0 EXCEPT !.key = key, !.action = page[a].action, !.amount = amount]
    BY DEF r
  <2> HIDE DEF r0
  <2> QED
    BY <1>2, <1>3, <2>2, <2>3 DEF Jobs
<1> HIDE DEF r, p
<1>6. job'[s] = r
  BY <1>1, InvFacts DEF Send
<1>7. JobOK(s)'
  BY <1>5, <1>6 DEF JobOK, Free, Kinds
<1> QED
  BY <1>1, <1>3, <1>4, <1>5, <1>7, Sends DEF Kinds

\* A mutation of a page has ended, well or not.
LEMMA EndedTyped ==
  ASSUME NEW p \in Pages, NEW kind \in Kinds
  PROVE  Ended(p, kind) \in Pages /\ Ended(p, kind).key = p.key /\ Ended(p, kind).action = p.action
BY DEF Ended, Pages

\* After a refund the page keeps its wish and its key, or turns to the next.
LEMMA AfterRefundTyped ==
  ASSUME NEW p \in Pages, NEW j \in Jobs
  PROVE  LET q == AfterRefund(p, j) IN
         /\ q \in Pages
         /\ \/ q.key = p.key /\ q.action = p.action
            \/ q.key = 0 /\ q.action = p.action + 1
<1>1. RefundMessage(j) \in [text : {"none", "processed", "accepted"}, key : Nat, was : States]
  BY DEF RefundMessage, Jobs
<1>2. p.action + 1 \in Nat
  BY DEF Pages
<1>3. CASE ~j.ok
  BY <1>3 DEF AfterRefund
<1>4. CASE j.ok
  BY <1>1, <1>2, <1>4 DEF AfterRefund, Pages
<1> QED
  BY <1>3, <1>4

\* A page learns of a request's end, and keeps its wish or turns to the next;
\* requests only disappear.
LEMMA Learns ==
  ASSUME Inv, NEW a \in Admins, NEW p \in Pages, page' = [page EXCEPT ![a] = p],
         \/ p.key = page[a].key /\ p.action = page[a].action
         \/ p.key = 0 /\ p.action = page[a].action + 1,
         NEW s \in Slots, job' = job \/ job' = [job EXCEPT ![s] = NoJob],
         UNCHANGED <<status, method, payment, ledger, shipment>>
  PROVE  Inv'
<1> USE InvFacts
<1>1. page' \in [Admins -> Pages] /\ page'[a] = p /\ \A b \in Admins : b # a => page'[b] = page[b]
  OBVIOUS
<1>2. /\ job' \in [Slots -> Jobs]
      /\ \A t \in Slots : job'[t] = job[t] \/ job'[t].at = "none"
  BY NoJobTyped
<1>3. DeskTyped'
  BY <1>1, <1>2 DEF DeskTyped
<1>4. ASSUME NEW t \in Slots PROVE JobOK(t)'
  <2>1. CASE job'[t] = job[t]
    BY <2>1 DEF JobOK, Free
  <2>2. CASE job'[t].at = "none"
    BY <2>2 DEF JobOK, Free
  <2> QED
    BY <1>2, <2>1, <2>2
<1>5. \A t \in Slots : SameWish(t)
  BY <1>2 DEF SameWish
<1>6. \A i \in 1..Len(ledger) : SameRow(i)
  BY DEF SameRow
<1>7. /\ \A b \in Admins, n, k \in Nat : Wished(b, n, k)' => Wished(b, n, k)
      /\ OneKey' /\ OneIntent'
  BY <1>5, <1>6, WishesKept
<1>8. page[a].action \in Nat
  BY DEF Pages
<1>9. KeyKept'
  <2> SUFFICES ASSUME NEW b \in Admins, NEW n \in Nat, NEW k \in Nat, Wished(b, n, k)
               PROVE  n <= page'[b].action
                      /\ (n = page'[b].action => page'[b].key # 0 /\ page'[b].key = k)
    BY <1>7 DEF KeyKept
  <2>1. n <= page[b].action /\ (n = page[b].action => page[b].key # 0 /\ page[b].key = k)
    BY DEF KeyKept
  <2>2. CASE b # a
    BY <1>1, <2>1, <2>2
  <2>3. CASE b = a
    BY <1>1, <1>8, <2>1, <2>3
  <2> QED
    BY <2>2, <2>3
<1> QED
  BY <1>3, <1>4, <1>7, <1>9, OrderKept DEF Inv

LEMMA AnswerInv == ASSUME Inv, NEW s \in Slots, Answer(s) PROVE Inv'
<1> USE InvFacts
<1>1. /\ job[s] \in Jobs /\ job[s].by \in Admins /\ job[s].kind \in Kinds
      /\ job' = [job EXCEPT ![s] = NoJob]
      /\ UNCHANGED <<status, method, payment, ledger, shipment>>
  BY DEF Answer, JobOK, Free
<1>2. PICK a \in Admins : a = job[s].by
  BY <1>1
<1>3. page[a] \in Pages
  BY PageTyped
<1>4. CASE Awaited(s) /\ job[s].kind = "refund"
  <2> DEFINE q == AfterRefund(page[a], job[s])
  <2>1. q \in Pages /\ \/ q.key = page[a].key /\ q.action = page[a].action
                       \/ q.key = 0 /\ q.action = page[a].action + 1
    BY <1>1, <1>3, AfterRefundTyped
  <2> HIDE DEF q
  <2>2. /\ Ended(q, job[s].kind) \in Pages /\ Ended(q, job[s].kind).key = q.key
        /\ Ended(q, job[s].kind).action = q.action
    BY <1>1, <2>1, EndedTyped
  <2>3. page' = [page EXCEPT ![a] = Ended(q, job[s].kind)]
    BY <1>2, <1>4 DEF Answer, q
  <2> QED
    BY <1>1, <2>1, <2>2, <2>3, Learns
<1>5. CASE Awaited(s) /\ job[s].kind # "refund"
  <2>1. /\ Ended(page[a], job[s].kind) \in Pages
        /\ Ended(page[a], job[s].kind).key = page[a].key
        /\ Ended(page[a], job[s].kind).action = page[a].action
    BY <1>1, <1>3, EndedTyped
  <2>2. page' = [page EXCEPT ![a] = Ended(page[a], job[s].kind)]
    BY <1>2, <1>5 DEF Answer
  <2> QED
    BY <1>1, <2>1, <2>2, Learns
<1>6. CASE ~Awaited(s)
  <2>1. page' = [page EXCEPT ![a] = page[a]]
    BY <1>6 DEF Answer
  <2> QED
    BY <1>1, <1>3, <2>1, Learns
<1> QED
  BY <1>4, <1>5, <1>6

LEMMA LoseInv ==
  ASSUME Inv, NEW s \in Slots, NEW received \in BOOLEAN, Lose(s, received) PROVE Inv'
<1> USE InvFacts
<1>1. /\ job[s].by \in Admins /\ job[s].kind \in Kinds
      /\ job' = job \/ job' = [job EXCEPT ![s] = NoJob]
      /\ UNCHANGED <<status, method, payment, ledger, shipment>>
  BY DEF Lose, JobOK, Free
<1>2. PICK a \in Admins : a = job[s].by
  BY <1>1
<1>3. /\ Ended(page[a], job[s].kind) \in Pages
      /\ Ended(page[a], job[s].kind).key = page[a].key
      /\ Ended(page[a], job[s].kind).action = page[a].action
  BY <1>1, PageTyped, EndedTyped
<1>4. page' = [page EXCEPT ![a] = Ended(page[a], job[s].kind)]
  BY <1>2 DEF Lose
<1> QED
  BY <1>1, <1>3, <1>4, Learns

-----------------------------------------------------------------------------
(* Fetching, webhooks and the end of an order.                             *)

LEMMA RefetchInv == ASSUME Inv, NEW a \in Admins, Refetch(a) PROVE Inv'
<1> USE InvFacts
<1>1. UNCHANGED <<status, method, payment, ledger, shipment, job>>
  BY DEF Refetch
<1>2. View \in Views
  BY DEF View, Views
<1> DEFINE p == [page[a] EXCEPT !.view = View, !.stale = FALSE]
<1>3. p \in Pages /\ p.key = page[a].key /\ p.action = page[a].action
  BY <1>2, PageTyped DEF Pages
<1>4. page' = [page EXCEPT ![a] = p]
  BY DEF Refetch
<1> HIDE DEF p
<1>5. page' \in [Admins -> Pages]
  BY <1>3, <1>4
<1>6. \A b \in Admins : page'[b].action = page[b].action /\ page'[b].key = page[b].key
  BY <1>3, <1>4
<1>7. DeskTyped'
  BY <1>1, <1>5 DEF DeskTyped
<1>8. \A s \in Slots : JobOK(s)'
  BY <1>1 DEF JobOK, Free
<1>9. (\A i \in 1..Len(ledger) : SameRow(i)) /\ (\A s \in Slots : SameWish(s))
  BY <1>1 DEF SameRow, SameWish
<1> QED
  BY <1>1, <1>6, <1>7, <1>8, <1>9, Keeps, OrderKept

LEMMA WebhookInv ==
  ASSUME Inv, NEW i \in 1..Len(ledger), NEW state \in IntentStates, Webhook(i, state) PROVE Inv'
<1> USE InvFacts
<1>1. UNCHANGED <<status, method, payment, shipment, page, job>> /\ Settle(i, state)
  BY DEF Webhook
<1>2. /\ ledger' \in Seq(Rows) /\ Len(ledger') = Len(ledger)
      /\ \A k \in 1..Len(ledger) : SameRow(k)
  BY <1>1, SettleKeeps
<1>3. DeskTyped'
  BY <1>1, <1>2 DEF DeskTyped
<1>4. \A s \in Slots : JobOK(s)'
  BY <1>1, <1>2 DEF JobOK, Free
<1>5. \A s \in Slots : SameWish(s)
  BY <1>1 DEF SameWish
<1> QED
  BY <1>1, <1>2, <1>3, <1>4, <1>5, Keeps, OrderKept

LEMMA FinalizeInv == ASSUME Inv, Finalize PROVE Inv'
<1> USE InvFacts
<1>1. /\ CanTransition(status, "REFUNDED") /\ status' = "REFUNDED" /\ payment' = "REFUNDED"
      /\ UNCHANGED <<method, ledger, shipment, page, job>>
  BY DEF Finalize
<1>2. status # "SHIPPED"
  BY <1>1, Table
<1>3. OrderTyped'
  BY <1>1 DEF OrderTyped, OrderStatuses
<1>4. OpenIsShipped' /\ ShippedIsTracked'
  BY <1>1, <1>2 DEF OpenIsShipped, ShippedIsTracked
<1>5. DeskTyped'
  BY <1>1 DEF DeskTyped
<1>6. \A s \in Slots : JobOK(s)'
  BY <1>1 DEF JobOK, Free
<1>7. (\A i \in 1..Len(ledger) : SameRow(i)) /\ (\A s \in Slots : SameWish(s))
  BY <1>1 DEF SameRow, SameWish
<1> QED
  BY <1>1, <1>3, <1>4, <1>5, <1>6, <1>7, Keeps

-----------------------------------------------------------------------------
(* The theorems.                                                           *)

LEMMA InvNext == Inv /\ [Next]_vars => Inv'
<1> SUFFICES ASSUME Inv, [Next]_vars PROVE Inv'
  OBVIOUS
<1>1. ASSUME NEW a \in Admins, Desk(a) PROVE Inv'
  <2>1. PICK s \in Slots :
          \/ \E n \in Numbers : Dispatch(a, s, n)
          \/ \E to \in {"SHIPPED", "DELIVERED", "CANCELLED"} : Act(a, s, to)
          \/ \E amount \in 1..Paid : Ask(a, s, amount)
          \/ \E i \in 1..Len(ledger) : Check(a, s, i)
    BY <1>1 DEF Desk
  <2>2. ASSUME NEW n \in Numbers, Dispatch(a, s, n) PROVE Inv'
    BY <2>2, DispatchInv
  <2>3. ASSUME NEW to \in {"SHIPPED", "DELIVERED", "CANCELLED"}, Act(a, s, to) PROVE Inv'
    BY <2>3, ActInv
  <2>4. ASSUME NEW amount \in 1..Paid, Ask(a, s, amount) PROVE Inv'
    <3>1. amount \in Nat
      BY ConstantsAssumption
    <3> QED
      BY <2>4, <3>1, AskInv
  <2>5. ASSUME NEW i \in 1..Len(ledger), Check(a, s, i) PROVE Inv'
    BY <2>5, CheckInv
  <2> QED
    BY <2>1, <2>2, <2>3, <2>4, <2>5
<1>2. ASSUME NEW a \in Admins, Refetch(a) PROVE Inv'
  BY <1>2, RefetchInv
<1>3. ASSUME NEW s \in Slots, Serve(s) PROVE Inv'
  BY <1>3, FindInv, ReadInv, CommitInv, AcquireInv, ProcessInv, SummaryInv DEF Serve
<1>4. ASSUME NEW s \in Slots, Answer(s) PROVE Inv'
  BY <1>4, AnswerInv
<1>5. ASSUME NEW s \in Slots, NEW received \in BOOLEAN, Lose(s, received) PROVE Inv'
  BY <1>5, LoseInv
<1>6. ASSUME NEW i \in 1..Len(ledger), NEW state \in IntentStates, Webhook(i, state) PROVE Inv'
  BY <1>6, WebhookInv
<1>7. CASE Finalize
  BY <1>7, FinalizeInv
<1>8. CASE UNCHANGED vars
  <2>1. UNCHANGED <<status, method, payment, ledger, shipment, page, job>>
    BY <1>8 DEF vars
  <2>2. DeskTyped' /\ (\A s \in Slots : JobOK(s)')
    BY <2>1 DEF Inv, DeskTyped, JobOK, Free
  <2>3. (\A i \in 1..Len(ledger) : SameRow(i)) /\ (\A s \in Slots : SameWish(s))
    BY <2>1 DEF SameRow, SameWish
  <2> QED
    BY <2>1, <2>2, <2>3, Keeps, OrderKept
<1> QED
  BY <1>1, <1>2, <1>3, <1>4, <1>5, <1>6, <1>7, <1>8 DEF Next, Environment

\* The inductive invariant, of every behaviour.
THEOREM InvTheorem == Spec => []Inv
BY InvInit, InvNext, PTL DEF Spec

\* One wish has one key, and one key one intent.
LEMMA InvSafe == Inv => DeskIsSafe
<1> SUFFICES ASSUME Inv PROVE DeskIsSafe
  OBVIOUS
<1> USE InvFacts
<1>1. NothingOnTheWay
  BY DEF NothingOnTheWay, OpenIsShipped
<1>2. OneRefundPerAction
  <2> SUFFICES ASSUME NEW i \in DOMAIN ledger, NEW k \in DOMAIN ledger,
                      ledger[i].by = ledger[k].by, ledger[i].action = ledger[k].action
               PROVE  i = k
    BY DEF OneRefundPerAction
  <2>1. i \in 1..Len(ledger) /\ k \in 1..Len(ledger)
    OBVIOUS
  <2>2. /\ ledger[i] \in Rows /\ ledger[k] \in Rows
    BY <2>1
  <2>3. /\ ledger[i].by \in Admins /\ ledger[i].action \in Nat
        /\ ledger[i].key \in Nat /\ ledger[k].key \in Nat
    BY <2>2 DEF Rows
  <2>4. /\ Wished(ledger[i].by, ledger[i].action, ledger[i].key)
        /\ Wished(ledger[i].by, ledger[i].action, ledger[k].key)
    BY <2>1 DEF Wished
  <2>5. ledger[i].key = ledger[k].key
    BY <2>3, <2>4 DEF OneKey
  <2> QED
    BY <2>1, <2>5 DEF OneIntent
<1> QED
  BY <1>1, <1>2 DEF DeskIsSafe

\* Administrators who decide on stale pages exclude each other under the
\* order's lock, and one wish makes one refund however often its button is
\* pressed after lost answers (admin/orders/[id]/page.tsx, transition,
\* acquireRefundIntent).
THEOREM DeskTheorem == Spec => []DeskIsSafe
BY InvTheorem, InvSafe, PTL
=============================================================================
