----------------------- MODULE CheckoutAttempts_proofs -----------------------
(***************************************************************************)
(* Proofs about CheckoutAttempts, for any number of pages, handlers, keys, *)
(* revisions, orders and faults: one press of the pay button makes one     *)
(* order and opens one payment.                                            *)
(***************************************************************************)
EXTENDS CheckoutAttempts, TLAPS

(* The shape of the state, and what a busy handler has in hand.            *)
Rows ==
  [key : Keys \cup {Nil}, details : Details \cup {Nil},
   status : {"NONE", "PROCESSING", "COMPLETED", "FAILED"},
   order : OrderIds \cup {Nil}, live : BOOLEAN]
OrderRows ==
  [status : {"NONE", "PENDING", "PAID", "FAILED", "CANCELLED"},
   linked : BOOLEAN, expired : BOOLEAN, key : Keys \cup {Nil},
   details : Details \cup {Nil}, by : Revisions \cup {Nil}]
TabStates ==
  [key : Keys \cup {Nil}, details : Details \cup {Nil},
   rev : Revisions \cup {Nil}, on : Workers \cup {Nil},
   session : OrderIds \cup {Nil}]
WorkerStates ==
  [at : Places, tab : Tabs \cup {Nil}, key : Keys \cup {Nil},
   details : Details \cup {Nil}, rev : Revisions \cup {Nil},
   row : Revisions \cup {Nil}, order : OrderIds \cup {Nil}]

Claimed == Executing \cup {"clear", "replay", "reclaim"}
HasOrder == {"resume", "provider", "refuse", "link", "clear"}

InHand(t) ==
  /\ t.at # "idle" => t.tab \in Tabs /\ t.key \in Keys /\ t.details \in Details
  /\ t.at \notin {"idle", "revision"} => t.rev \in Revisions
  /\ t.at \in Claimed => t.row \in Revisions
  /\ t.at \in HasOrder => t.order \in OrderIds

TypeInv == TypeOK /\ \A w \in Workers : InHand(worker[w])

\* A handler answers with an order the provider knows.
Clears == \A w \in Workers : At(w, "clear") => order[worker[w].order].linked

\* Whatever names an order names one that was made.
Pointers ==
  /\ \A o \in OrderIds : order[o].linked => Made(o)
  /\ \A a \in Revisions : attempt[a].order # Nil => Made(attempt[a].order)
  /\ \A w \in Workers : worker[w].at \in HasOrder => Made(worker[w].order)

Always == Clears /\ Pointers /\ SessionIsLinked

-----------------------------------------------------------------------------
(* What holds as long as no handler outlives its lease.                    *)

\* A row that exists has a key, and no other row has it.
RowInv ==
  /\ \A a \in Revisions : IF Exists(a) THEN attempt[a].key \in Keys ELSE attempt[a] = NoRow
  /\ \A a, b \in Revisions : Exists(a) /\ Exists(b) /\ attempt[a].key = attempt[b].key => a = b

\* The row a was claimed for the request of handler t.
IsOf(a, t) == attempt[a].key = t.key /\ attempt[a].details = t.details

\* Who executes an attempt holds its lease, for the request it came with, and
\* knows its order.
Holds(t) ==
  t.at \in Executing =>
    /\ attempt[t.row].status = "PROCESSING" /\ attempt[t.row].live /\ IsOf(t.row, t)
    /\ t.at \in {"fresh", "reserve"} => attempt[t.row].order = Nil
    /\ t.at \in HasOrder => attempt[t.row].order = t.order

\* Who answers, or is about to reclaim, has the row of its request.
Answers(t) ==
  /\ t.at \in {"clear", "replay"} =>
       attempt[t.row].status = "COMPLETED" /\ IsOf(t.row, t)
  /\ t.at = "clear" => attempt[t.row].order = t.order
  /\ t.at = "reclaim" => /\ Exists(t.row)
                         /\ ~attempt[t.row].live => IsOf(t.row, t)

HoldInv == \A w \in Workers : Holds(worker[w]) /\ Answers(worker[w])

\* Orders and rows point to each other.
OrderInv ==
  /\ \A o \in OrderIds : Made(o) => order[o].by \in Revisions /\ attempt[order[o].by].order = o
  /\ \A a \in Revisions : attempt[a].order # Nil =>
       Made(attempt[a].order) /\ order[attempt[a].order].by = a

Kept == RowInv /\ HoldInv /\ OrderInv /\ OneExecutor /\ CompletedIsLinked /\ SessionIsRecorded

Inv == TypeInv /\ Always /\ (~late => Kept)

-----------------------------------------------------------------------------
(* The shape of the state.                                                 *)

WorkerOK == worker \in [Workers -> WorkerStates] /\ \A w \in Workers : InHand(worker[w])

Typed ==
  /\ cart \in [rev : Revisions, full : BOOLEAN]
  /\ attempt \in [Revisions -> Rows]
  /\ order \in [OrderIds -> OrderRows]
  /\ tab \in [Tabs -> TabStates]
  /\ WorkerOK
  /\ granted \subseteq Keys \X Details \X OrderIds
  /\ drawn \in 0..MaxKeys /\ faults \in 0..MaxFaults /\ late \in BOOLEAN

LEMMA TypeParts == (TypeInv <=> Typed) /\ (TypeInv' <=> Typed')
BY DEF TypeInv, TypeOK, Typed, WorkerOK, Rows, OrderRows, TabStates, WorkerStates

LEMMA StillOK == TypeInv /\ UNCHANGED worker => WorkerOK'
BY TypeParts DEF Typed, WorkerOK

LEMMA BusyOK ==
  ASSUME TypeInv, NEW w \in Workers
  PROVE  worker[w] \in WorkerStates /\ InHand(worker[w])
BY TypeParts DEF WorkerOK, Typed

LEMMA IdleOK == Idle \in WorkerStates /\ InHand(Idle) /\ Idle.at = "idle"
BY DEF Idle, WorkerStates, InHand, Places, Claimed, Executing, HasOrder, Nil

LEMMA MoveOK ==
  ASSUME TypeInv, NEW w \in Workers, NEW u \in WorkerStates, InHand(u),
         worker' = [worker EXCEPT ![w] = u]
  PROVE  WorkerOK'
BY TypeParts DEF WorkerOK, Typed

\* A step to another place keeps what the place needs.
LEMMA GotoOK ==
  ASSUME TypeInv, NEW w \in Workers, NEW place \in Places, Goto(w, place),
         InHand([worker[w] EXCEPT !.at = place])
  PROVE  WorkerOK'
<1>1. [worker[w] EXCEPT !.at = place] \in WorkerStates
  BY BusyOK DEF WorkerStates
<1>2. worker' = [worker EXCEPT ![w] = [worker[w] EXCEPT !.at = place]]
  BY DEF Goto
<1>3. QED BY <1>1, <1>2, MoveOK

LEMMA ReplyOK ==
  ASSUME TypeInv, NEW w \in Workers, worker[w].at # "idle",
         NEW answer, NEW o \in OrderIds \cup {Nil}, answer = "session" => o \in OrderIds,
         Reply(w, answer, o)
  PROVE  /\ WorkerOK' /\ tab' \in [Tabs -> TabStates]
         /\ granted' \subseteq Keys \X Details \X OrderIds
<1>1. WorkerOK'
  BY MoveOK, IdleOK DEF Reply
<1>2. tab \in [Tabs -> TabStates] /\ granted \subseteq Keys \X Details \X OrderIds
  BY TypeParts DEF Typed
<1>3. worker[w].tab \in Tabs /\ worker[w].key \in Keys /\ worker[w].details \in Details
  BY BusyOK DEF InHand
<1>4. Heard(w, answer, o) \in [Tabs -> TabStates]
  <2>1. \A page \in TabStates : Told(page, answer, o) \in TabStates
    BY DEF Told, TabStates
  <2>2. QED BY <1>2, <1>3, <2>1 DEF Heard
<1>5. QED BY <1>1, <1>2, <1>3, <1>4 DEF Reply

LEMMA FaultOK == TypeInv /\ (Fault \/ UNCHANGED faults) => faults' \in 0..MaxFaults
BY ConstantsAssumption DEF TypeInv, TypeOK, Fault

LEMMA PressOK ==
  ASSUME TypeInv, NEW t \in Tabs, NEW w \in Workers, NEW d \in Details, PressPay(t, w, d)
  PROVE  TypeInv'
<1>1. tab' \in [Tabs -> TabStates] /\ tab'[t].key \in Keys /\ drawn' \in 0..MaxKeys
  <2>1. tab \in [Tabs -> TabStates] /\ cart.rev \in Revisions /\ drawn \in 0..MaxKeys
    BY TypeParts DEF Typed
  <2>2. CASE /\ tab[t].key # Nil
             /\ tab' = [tab EXCEPT ![t].on = w] /\ UNCHANGED drawn
    BY <2>1, <2>2 DEF TabStates
  <2>3. CASE /\ drawn < MaxKeys /\ drawn' = drawn + 1
             /\ tab' = [tab EXCEPT ![t] = [key |-> drawn', details |-> d,
                          rev |-> cart.rev, on |-> w, session |-> Nil]]
    <3>1. drawn' \in Keys /\ drawn' \in 0..MaxKeys
      BY <2>1, <2>3, ConstantsAssumption DEF Keys
    <3>2. QED BY <2>1, <2>3, <3>1 DEF TabStates
  <2>4. QED BY <2>2, <2>3 DEF PressPay
<1>2. PICK k : k = tab'[t].key
  OBVIOUS
<1>3. PICK u : u = [Idle EXCEPT !.at = "revision", !.tab = t, !.key = k, !.details = d]
  OBVIOUS
<1>4. u \in WorkerStates /\ InHand(u)
  BY <1>1, <1>2, <1>3
  DEF Idle, WorkerStates, InHand, Places, Claimed, Executing, HasOrder, Nil
<1>5. worker' = [worker EXCEPT ![w] = u]
  BY <1>2, <1>3 DEF PressPay
<1>6. WorkerOK'
  BY <1>4, <1>5, MoveOK
<1>7. QED BY <1>1, <1>6, TypeParts DEF PressPay, Typed

LEMMA PageOK == ASSUME TypeInv, NEW t \in Tabs, Page(t) PROVE TypeInv'
<1>1. ASSUME NEW w \in Workers, NEW d \in Details, PressPay(t, w, d) PROVE TypeInv'
  BY <1>1, PressOK
<1>2. CASE LoseAnswer(t)
  <2>1. tab' \in [Tabs -> TabStates]
    BY <1>2, TypeParts DEF LoseAnswer, TabStates, Typed
  <2>2. QED BY <1>2, <2>1, TypeParts, StillOK, FaultOK DEF LoseAnswer, Typed
<1>3. CASE Leave(t)
  <2>1. tab' \in [Tabs -> TabStates]
    BY <1>3, TypeParts DEF Leave, TabStates, Blank, Typed
  <2>2. QED BY <1>3, <2>1, TypeParts, StillOK DEF Leave, Typed
<1>4. CASE Pay(t)
  <2>1. tab' \in [Tabs -> TabStates]
    BY <1>4, TypeParts DEF Pay, TabStates, Blank, Typed
  <2>2. order' \in [OrderIds -> OrderRows]
    BY <1>4, TypeParts DEF Pay, OrderRows, TabStates, Typed, Nil
  <2>3. QED BY <1>4, <2>1, <2>2, TypeParts, StillOK DEF Pay, Typed
<1>5. QED BY <1>1, <1>2, <1>3, <1>4 DEF Page

LEMMA AcquireOK ==
  ASSUME TypeInv, NEW w \in Workers,
         ReadRevision(w) \/ InsertAttempt(w) \/ FindByKey(w) \/ FindByCart(w)
         \/ Recycle(w) \/ Reclaim(w)
  PROVE  TypeInv'
<1>1. PICK t : t = worker[w] /\ t \in WorkerStates /\ InHand(t)
  BY BusyOK
<1>2. Typed
  BY TypeParts
<1> USE DEF At
<1>3. ASSUME t.at # "idle", NEW answer \in {"retry", "refused"}, Reply(w, answer, Nil)
      PROVE  /\ WorkerOK' /\ tab' \in [Tabs -> TabStates]
             /\ granted' \subseteq Keys \X Details \X OrderIds
  BY <1>1, <1>3, ReplyOK
<1>4. ASSUME WorkerOK', attempt' \in [Revisions -> Rows],
             tab' \in [Tabs -> TabStates], granted' \subseteq Keys \X Details \X OrderIds,
             UNCHANGED <<cart, order, drawn, faults, late>>
      PROVE  TypeInv'
  BY <1>2, <1>4, TypeParts DEF Typed
<1>5. CASE ReadRevision(w)
  <2>1. PICK u : u = [t EXCEPT !.at = "insert", !.rev = cart.rev]
    OBVIOUS
  <2>2. u \in WorkerStates /\ InHand(u)
    BY <1>1, <1>2, <1>5, <2>1
    DEF ReadRevision, Typed, WorkerStates, InHand, Places, Claimed, Executing, HasOrder
  <2>3. worker' = [worker EXCEPT ![w] = u]
    BY <1>1, <1>5, <2>1 DEF ReadRevision
  <2>4. QED BY <1>2, <1>4, <1>5, <2>2, <2>3, MoveOK DEF ReadRevision, Silent, Typed
<1>6. CASE InsertAttempt(w)
  <2>1. CASE Goto(w, "byKey") /\ UNCHANGED attempt
    <3>1. InHand([t EXCEPT !.at = "byKey"])
      BY <1>1, <1>6 DEF InsertAttempt, WorkerStates, InHand, Claimed, Executing, HasOrder
    <3>2. WorkerOK'
      BY <1>1, <2>1, <3>1, GotoOK DEF Places
    <3>3. QED BY <1>2, <1>4, <1>6, <2>1, <3>2 DEF InsertAttempt, Silent, Typed
  <2>2. CASE /\ attempt' = [attempt EXCEPT ![t.rev] = Row(t.key, t.details, Nil)]
             /\ worker' = [worker EXCEPT ![w].at = "execute", ![w].row = t.rev]
    <3>1. PICK u : u = [t EXCEPT !.at = "execute", !.row = t.rev]
      OBVIOUS
    <3>2. u \in WorkerStates /\ InHand(u)
      BY <1>1, <1>6, <3>1
      DEF InsertAttempt, WorkerStates, InHand, Places, Claimed, Executing, HasOrder
    <3>3. worker' = [worker EXCEPT ![w] = u]
      BY <1>1, <2>2, <3>1
    <3>4. Row(t.key, t.details, Nil) \in Rows
      BY <1>1, <1>6 DEF InsertAttempt, InHand, Row, Rows, Nil
    <3>5. attempt' \in [Revisions -> Rows]
      BY <1>2, <2>2, <3>4 DEF Typed
    <3>6. QED BY <1>2, <1>4, <1>6, <3>2, <3>3, <3>5, MoveOK DEF InsertAttempt, Silent, Typed
  <2>3. QED BY <1>1, <1>6, <2>1, <2>2 DEF InsertAttempt
<1>7. CASE FindByKey(w)
  <2>1. PICK found : found = {a \in Revisions : attempt[a].key = t.key}
    OBVIOUS
  <2>2. PICK a : a = CHOOSE x \in found : TRUE
    OBVIOUS
  <2>3. found # {} => a \in Revisions
    BY <2>1, <2>2
  <2>4. t.at = "byKey" /\ UNCHANGED <<cart, attempt, order, drawn, faults, late>>
    BY <1>1, <1>7 DEF FindByKey
  <2>5. CASE Goto(w, "byCart") /\ Silent
    <3>1. InHand([t EXCEPT !.at = "byCart"])
      BY <1>1, <2>4 DEF WorkerStates, InHand, Claimed, Executing, HasOrder
    <3>2. WorkerOK'
      BY <1>1, <2>5, <3>1, GotoOK DEF Places
    <3>3. QED BY <1>2, <1>4, <2>4, <2>5, <3>2 DEF Silent, Typed
  <2>6. ASSUME NEW answer \in {"retry", "refused"}, Reply(w, answer, Nil) PROVE TypeInv'
    BY <1>2, <1>3, <1>4, <2>4, <2>6 DEF Typed
  <2>7. ASSUME found # {}, NEW place \in {"replay", "reclaim"}, Silent,
               worker' = [worker EXCEPT ![w].at = place, ![w].row = a]
        PROVE  TypeInv'
    <3>1. PICK u : u = [t EXCEPT !.at = place, !.row = a]
      OBVIOUS
    <3>2. u \in WorkerStates /\ InHand(u)
      BY <1>1, <2>3, <2>4, <2>7, <3>1
      DEF WorkerStates, InHand, Places, Claimed, Executing, HasOrder
    <3>3. worker' = [worker EXCEPT ![w] = u]
      BY <1>1, <2>7, <3>1
    <3>4. QED BY <1>2, <1>4, <2>4, <2>7, <3>2, <3>3, MoveOK DEF Silent, Typed
  <2>8. QED BY <1>1, <1>7, <2>1, <2>2, <2>5, <2>6, <2>7 DEF FindByKey
<1>8. CASE FindByCart(w)
  <2>1. t.at = "byCart" /\ UNCHANGED <<cart, attempt, order, drawn, faults, late>>
    BY <1>1, <1>8 DEF FindByCart
  <2>2. CASE Goto(w, "recycle") /\ Silent
    <3>1. InHand([t EXCEPT !.at = "recycle"])
      BY <1>1, <2>1 DEF WorkerStates, InHand, Claimed, Executing, HasOrder
    <3>2. WorkerOK'
      BY <1>1, <2>2, <3>1, GotoOK DEF Places
    <3>3. QED BY <1>2, <1>4, <2>1, <2>2, <3>2 DEF Silent, Typed
  <2>3. CASE Reply(w, "refused", Nil)
    BY <1>2, <1>3, <1>4, <2>1, <2>3 DEF Typed
  <2>4. QED BY <1>8, <2>2, <2>3 DEF FindByCart
<1>9. CASE Recycle(w)
  <2>1. t.at = "recycle" /\ UNCHANGED <<cart, order, drawn, faults, late>>
    BY <1>1, <1>9 DEF Recycle
  <2>2. CASE Reply(w, "refused", Nil) /\ UNCHANGED attempt
    BY <1>2, <1>3, <1>4, <2>1, <2>2 DEF Typed
  <2>3. CASE /\ attempt' = [attempt EXCEPT ![t.rev] = Row(t.key, t.details, @.order)]
             /\ worker' = [worker EXCEPT ![w].at = "execute", ![w].row = t.rev]
             /\ Silent
    <3>1. PICK u : u = [t EXCEPT !.at = "execute", !.row = t.rev]
      OBVIOUS
    <3>2. u \in WorkerStates /\ InHand(u)
      BY <1>1, <2>1, <3>1
      DEF WorkerStates, InHand, Places, Claimed, Executing, HasOrder
    <3>3. worker' = [worker EXCEPT ![w] = u]
      BY <1>1, <2>3, <3>1
    <3>4. t.rev \in Revisions /\ attempt[t.rev].order \in OrderIds \cup {Nil}
      BY <1>1, <1>2, <2>1 DEF InHand, Typed, Rows
    <3>5. Row(t.key, t.details, attempt[t.rev].order) \in Rows
      BY <1>1, <2>1, <3>4 DEF InHand, Row, Rows
    <3>6. attempt' \in [Revisions -> Rows]
      BY <1>2, <2>3, <3>4, <3>5 DEF Typed
    <3>7. QED BY <1>2, <1>4, <2>1, <2>3, <3>2, <3>3, <3>6, MoveOK DEF Silent, Typed
  <2>4. QED BY <1>1, <1>9, <2>2, <2>3 DEF Recycle
<1>10. CASE Reclaim(w)
  <2>1. t.at = "reclaim" /\ UNCHANGED <<cart, order, drawn, faults, late>>
    BY <1>1, <1>10 DEF Reclaim
  <2>2. CASE Reply(w, "retry", Nil) /\ UNCHANGED attempt
    BY <1>2, <1>3, <1>4, <2>1, <2>2 DEF Typed
  <2>3. CASE attempt' = [attempt EXCEPT ![t.row].live = TRUE] /\ Goto(w, "execute") /\ Silent
    <3>1. InHand([t EXCEPT !.at = "execute"])
      BY <1>1, <2>1 DEF WorkerStates, InHand, Claimed, Executing, HasOrder
    <3>2. WorkerOK'
      BY <1>1, <2>3, <3>1, GotoOK DEF Places
    <3>3. attempt' \in [Revisions -> Rows]
      BY <1>2, <2>3 DEF Typed, Rows
    <3>4. QED BY <1>2, <1>4, <2>1, <2>3, <3>2, <3>3 DEF Silent, Typed
  <2>4. QED BY <1>1, <1>10, <2>2, <2>3 DEF Reclaim
<1>11. QED BY <1>5, <1>6, <1>7, <1>8, <1>9, <1>10

LEMMA SessionOK ==
  ASSUME TypeInv, NEW w \in Workers,
         Execute(w) \/ Snapshot(w) \/ Reserve(w) \/ Resume(w) \/ CreateProviderOrder(w)
         \/ RefuseOrder(w) \/ Link(w) \/ ClearCart(w) \/ Replay(w) \/ Mark(w)
  PROVE  TypeInv'
<1>1. PICK t : t = worker[w] /\ t \in WorkerStates /\ InHand(t)
  BY BusyOK
<1>2. Typed
  BY TypeParts
<1> USE DEF At
<1>3. ASSUME t.at \in Claimed, Reply(w, "refused", Nil)
      PROVE  /\ WorkerOK' /\ tab' \in [Tabs -> TabStates]
             /\ granted' \subseteq Keys \X Details \X OrderIds
  BY <1>1, <1>3, ReplyOK DEF Claimed, Executing
<1>4. ASSUME t.at \in Claimed, NEW o \in OrderIds, Reply(w, "session", o)
      PROVE  /\ WorkerOK' /\ tab' \in [Tabs -> TabStates]
             /\ granted' \subseteq Keys \X Details \X OrderIds
  BY <1>1, <1>4, ReplyOK DEF Claimed, Executing
<1>5. ASSUME WorkerOK', attempt' \in [Revisions -> Rows], order' \in [OrderIds -> OrderRows],
             cart' \in [rev : Revisions, full : BOOLEAN],
             tab' \in [Tabs -> TabStates], granted' \subseteq Keys \X Details \X OrderIds,
             Fault \/ UNCHANGED faults, UNCHANGED <<drawn, late>>
      PROVE  TypeInv'
  BY <1>2, <1>5, TypeParts, FaultOK DEF Typed
\* A step from one place of an execution to the next.
<1>6. ASSUME t.at \in Executing, NEW place \in Executing, place \in HasOrder => t.at \in HasOrder,
             Goto(w, place)
      PROVE  WorkerOK'
  <2>1. InHand([t EXCEPT !.at = place])
    BY <1>1, <1>6 DEF WorkerStates, InHand, Claimed, Executing
  <2>2. QED BY <1>1, <1>6, <2>1, GotoOK DEF Places, Executing
<1>7. CASE Execute(w)
  <2>1. t.at = "execute" /\ t.row \in Revisions
    BY <1>1, <1>7 DEF Execute, InHand, Claimed, Executing
  <2>2. PICK o \in OrderIds \cup {Nil} : o = attempt[t.row].order
    BY <1>2, <2>1 DEF Typed, Rows
  <2>3. PICK u : u = [t EXCEPT !.at = IF o = Nil THEN "fresh" ELSE "resume", !.order = o]
    OBVIOUS
  <2>4. u \in WorkerStates /\ InHand(u)
    BY <1>1, <2>1, <2>2, <2>3
    DEF WorkerStates, InHand, Places, Claimed, Executing, HasOrder, Nil
  <2>5. worker' = [worker EXCEPT ![w] = u]
    BY <1>1, <1>7, <2>2, <2>3 DEF Execute
  <2>6. QED BY <1>2, <1>5, <1>7, <2>4, <2>5, MoveOK DEF Execute, Silent, Typed
<1>8. CASE Snapshot(w)
  <2>1. WorkerOK'
    BY <1>1, <1>6, <1>8 DEF Snapshot, Executing, HasOrder
  <2>2. QED BY <1>2, <1>5, <1>8, <2>1 DEF Snapshot, Silent, Typed
<1>9. CASE Reserve(w)
  <2>1. t.at = "reserve" /\ t.row \in Revisions /\ t.key \in Keys /\ t.details \in Details
    BY <1>1, <1>9 DEF Reserve, InHand, Claimed, Executing
  <2>2. CASE Goto(w, "mark") /\ UNCHANGED <<order, attempt>>
    <3>1. WorkerOK'
      BY <1>1, <1>6, <2>1, <2>2 DEF Executing, HasOrder
    <3>2. QED BY <1>2, <1>5, <1>9, <2>2, <3>1 DEF Reserve, Silent, Typed
  <2>3. ASSUME NEW o \in OrderIds,
               order' = [order EXCEPT ![o] =
                  [NoOrder EXCEPT !.status = "PENDING", !.key = t.key,
                                  !.details = t.details, !.by = t.row]],
               attempt' = Pointed(t.row, o),
               worker' = [worker EXCEPT ![w].at = "provider", ![w].order = o]
        PROVE  TypeInv'
    <3>1. PICK u : u = [t EXCEPT !.at = "provider", !.order = o]
      OBVIOUS
    <3>2. u \in WorkerStates /\ InHand(u)
      BY <1>1, <2>1, <3>1 DEF WorkerStates, InHand, Places, Claimed, Executing, HasOrder
    <3>3. worker' = [worker EXCEPT ![w] = u]
      BY <1>1, <2>3, <3>1
    <3>4. attempt' \in [Revisions -> Rows]
      BY <1>2, <2>1, <2>3 DEF Typed, Pointed, Rows
    <3>5. order' \in [OrderIds -> OrderRows]
      BY <1>2, <2>1, <2>3 DEF Typed, NoOrder, OrderRows
    <3>6. QED BY <1>2, <1>5, <1>9, <3>2, <3>3, <3>4, <3>5, MoveOK DEF Reserve, Silent, Typed
  <2>4. QED BY <1>1, <1>9, <2>2, <2>3 DEF Reserve
<1>10. CASE Resume(w)
  <2>1. t.at = "resume" /\ t.row \in Revisions /\ t.order \in OrderIds
    BY <1>1, <1>10 DEF Resume, InHand, Claimed, Executing, HasOrder
  <2>2. CASE /\ attempt' = [attempt EXCEPT ![t.row].status = "COMPLETED"]
             /\ Reply(w, "session", t.order)
    <3>1. attempt' \in [Revisions -> Rows]
      BY <1>2, <2>2 DEF Typed, Rows
    <3>2. QED BY <1>2, <1>4, <1>5, <1>10, <2>1, <2>2, <3>1
              DEF Resume, Claimed, Executing, Typed
  <2>3. ASSUME NEW place \in {"provider", "mark"}, Goto(w, place), Silent, UNCHANGED attempt
        PROVE  TypeInv'
    <3>1. WorkerOK'
      BY <1>1, <1>6, <2>1, <2>3 DEF Executing, HasOrder
    <3>2. QED BY <1>2, <1>5, <1>10, <2>3, <3>1 DEF Resume, Silent, Typed
  <2>4. QED BY <1>1, <1>10, <2>2, <2>3 DEF Resume
<1>11. CASE CreateProviderOrder(w)
  <2>1. WorkerOK'
    BY <1>1, <1>6, <1>11 DEF CreateProviderOrder, Executing, HasOrder
  <2>2. QED BY <1>2, <1>5, <1>11, <2>1 DEF CreateProviderOrder, Silent, Typed
<1>12. CASE RefuseOrder(w)
  <2>1. WorkerOK'
    BY <1>1, <1>6, <1>12 DEF RefuseOrder, Executing, HasOrder
  <2>2. order' \in [OrderIds -> OrderRows]
    BY <1>2, <1>12 DEF RefuseOrder, Typed, OrderRows
  <2>3. QED BY <1>2, <1>5, <1>12, <2>1, <2>2 DEF RefuseOrder, Silent, Typed
<1>13. CASE Link(w)
  <2>1. t.at = "link"
    BY <1>1, <1>13 DEF Link
  <2>2. CASE Goto(w, "mark") /\ Fault /\ UNCHANGED <<order, attempt>>
    <3>1. WorkerOK'
      BY <1>1, <1>6, <2>1, <2>2 DEF Executing, HasOrder
    <3>2. QED BY <1>2, <1>5, <1>13, <2>2, <3>1 DEF Link, Silent, Typed
  <2>3. CASE /\ order' = [order EXCEPT ![t.order].linked = TRUE]
             /\ attempt' = [attempt EXCEPT ![t.row].status = "COMPLETED"]
             /\ Goto(w, "clear") /\ UNCHANGED faults
    <3>1. InHand([t EXCEPT !.at = "clear"])
      BY <1>1, <2>1 DEF WorkerStates, InHand, Claimed, Executing, HasOrder
    <3>2. WorkerOK'
      BY <1>1, <2>3, <3>1, GotoOK DEF Places
    <3>3. attempt' \in [Revisions -> Rows]
      BY <1>2, <2>3 DEF Typed, Rows
    <3>4. order' \in [OrderIds -> OrderRows]
      BY <1>2, <2>3 DEF Typed, OrderRows
    <3>5. QED BY <1>2, <1>5, <1>13, <2>3, <3>2, <3>3, <3>4 DEF Link, Silent, Typed
  <2>4. QED BY <1>1, <1>13, <2>2, <2>3 DEF Link
<1>14. CASE ClearCart(w)
  <2>1. t.at = "clear" /\ t.order \in OrderIds /\ Reply(w, "session", t.order)
    BY <1>1, <1>14 DEF ClearCart, InHand, HasOrder
  <2>2. cart' \in [rev : Revisions, full : BOOLEAN]
    <3>1. cart.rev \in Revisions /\ MaxRevisions \in Nat
      BY <1>2, ConstantsAssumption DEF Typed
    <3>2. CASE cart.rev < MaxRevisions /\ cart' = [rev |-> cart.rev + 1, full |-> FALSE]
      BY <3>1, <3>2 DEF Revisions
    <3>3. CASE UNCHANGED cart
      BY <1>2, <3>3 DEF Typed
    <3>4. QED BY <1>14, <3>2, <3>3 DEF ClearCart
  <2>3. QED BY <1>2, <1>4, <1>5, <1>14, <2>1, <2>2 DEF ClearCart, Claimed, Typed
<1>15. CASE Replay(w)
  <2>1. t.at = "replay" /\ t.row \in Revisions
    BY <1>1, <1>15 DEF Replay, InHand, Claimed
  <2>2. PICK o \in OrderIds \cup {Nil} : o = attempt[t.row].order
    BY <1>2, <2>1 DEF Typed, Rows
  <2>3. CASE o # Nil /\ Reply(w, "session", o)
    BY <1>2, <1>4, <1>5, <1>15, <2>1, <2>2, <2>3 DEF Replay, Claimed, Typed
  <2>4. CASE Reply(w, "refused", Nil)
    BY <1>2, <1>3, <1>5, <1>15, <2>1, <2>4 DEF Replay, Claimed, Typed
  <2>5. QED BY <1>1, <1>15, <2>2, <2>3, <2>4 DEF Replay
<1>16. CASE Mark(w)
  <2>1. t.at = "mark" /\ Reply(w, "refused", Nil)
    BY <1>1, <1>16 DEF Mark
  <2>2. attempt' \in [Revisions -> Rows]
    BY <1>2, <1>16 DEF Mark, Typed, Rows
  <2>3. QED BY <1>2, <1>3, <1>5, <1>16, <2>1, <2>2 DEF Mark, Claimed, Executing, Typed
<1>17. QED BY <1>7, <1>8, <1>9, <1>10, <1>11, <1>12, <1>13, <1>14, <1>15, <1>16

LEMMA WorldOK ==
  ASSUME TypeInv,
         \/ \E w \in Workers : Crash(w)
         \/ \E a \in Revisions : LeaseRunsOut(a) \/ Outlive(a)
         \/ \E full \in BOOLEAN : EditCart(full)
         \/ \E o \in OrderIds, expires \in BOOLEAN : EndOrder(o, expires)
         \/ UNCHANGED vars
  PROVE  TypeInv'
<1>1. Typed
  BY TypeParts
<1>2. ASSUME NEW w \in Workers, Crash(w) PROVE TypeInv'
  <2>1. /\ WorkerOK' /\ tab' \in [Tabs -> TabStates]
        /\ granted' \subseteq Keys \X Details \X OrderIds
    BY <1>2, ReplyOK DEF Crash, At
  <2>2. QED BY <1>1, <1>2, <2>1, TypeParts, FaultOK DEF Crash, Typed
<1>3. ASSUME NEW a \in Revisions, LeaseRunsOut(a) \/ Outlive(a) PROVE TypeInv'
  <2>1. attempt' = [attempt EXCEPT ![a].live = FALSE] /\ (late' = TRUE \/ UNCHANGED late)
    BY <1>3 DEF LeaseRunsOut, Outlive, LeaseEnds
  <2>4. attempt' \in [Revisions -> Rows] /\ late' \in BOOLEAN
    BY <1>1, <2>1 DEF Typed, Rows
  <2>2. /\ UNCHANGED <<cart, order, tab, worker, granted, drawn>>
        /\ Fault \/ UNCHANGED faults
    BY <1>3 DEF LeaseRunsOut, Outlive, LeaseEnds
  <2>3. QED BY <1>1, <2>2, <2>4, TypeParts, StillOK, FaultOK DEF Typed
<1>4. ASSUME NEW full \in BOOLEAN, EditCart(full) PROVE TypeInv'
  <2>1. cart' \in [rev : Revisions, full : BOOLEAN]
    BY <1>1, <1>4, ConstantsAssumption DEF EditCart, Typed, Revisions
  <2>2. QED BY <1>1, <1>4, <2>1, TypeParts, StillOK DEF EditCart, Typed
<1>5. ASSUME NEW o \in OrderIds, NEW expires \in BOOLEAN, EndOrder(o, expires) PROVE TypeInv'
  <2>1. order' \in [OrderIds -> OrderRows]
    BY <1>1, <1>5 DEF EndOrder, Typed, OrderRows
  <2>2. QED BY <1>1, <1>5, <2>1, TypeParts, StillOK DEF EndOrder, Typed
<1>6. CASE UNCHANGED vars
  BY <1>1, <1>6, TypeParts, StillOK DEF vars, Typed
<1>7. QED BY <1>2, <1>3, <1>4, <1>5, <1>6

LEMMA InitType == Init => TypeInv
<1> SUFFICES ASSUME Init PROVE TypeInv
  OBVIOUS
<1>1. WorkerOK
  BY IdleOK DEF Init, WorkerOK
<1>2. cart \in [rev : Revisions, full : BOOLEAN] /\ drawn \in 0..MaxKeys /\ faults \in 0..MaxFaults
  BY ConstantsAssumption DEF Init, Revisions
<1>3. NoRow \in Rows /\ NoOrder \in OrderRows /\ Blank \in TabStates
  BY DEF NoRow, Rows, NoOrder, OrderRows, Blank, TabStates
<1>4. QED BY <1>1, <1>2, <1>3, TypeParts DEF Init, Typed

LEMMA NextType == TypeInv /\ [Next]_vars => TypeInv'
BY PageOK, AcquireOK, SessionOK, WorldOK DEF Next, Handle

LEMMA TypeInvariant == Spec => []TypeInv
BY InitType, NextType, PTL DEF Spec

\* Every row, page and handler keeps its shape, and a handler that answers or
\* executes has a page, a request and a row in hand.
THEOREM TypeCorrect == Spec => []TypeOK
<1>1. TypeInv => TypeOK
  BY DEF TypeInv
<1>2. QED BY <1>1, TypeInvariant, PTL

-----------------------------------------------------------------------------
(* Orders are never unmade or unlinked.                                    *)

MadeNext(o) == order'[o].status # "NONE"
Grow == \A o \in OrderIds : (Made(o) => MadeNext(o)) /\ (order[o].linked => order'[o].linked)

LEMMA MakesGrow ==
  ASSUME TypeInv, Always, NEW o \in OrderIds, ~Made(o), NEW r \in OrderRows,
         r.status # "NONE", order' = [order EXCEPT ![o] = r]
  PROVE  Grow
BY TypeParts DEF Typed, Always, Pointers, Grow, MadeNext, Made

LEMMA StatusGrows ==
  ASSUME TypeInv, NEW o, NEW s, s # "NONE", order' = [order EXCEPT ![o].status = s]
  PROVE  Grow
BY TypeParts DEF Typed, OrderRows, Grow, MadeNext, Made

LEMMA OrdersGrow == ASSUME TypeInv, Always, [Next]_vars PROVE Grow
<1>1. order \in [OrderIds -> OrderRows]
  BY TypeParts DEF Typed
<1>2. CASE UNCHANGED order
  BY <1>2 DEF Grow, MadeNext, Made
<1>3. ASSUME NEW w \in Workers, Reserve(w) PROVE Grow
  <2>1. PICK t : t = worker[w] /\ t \in WorkerStates /\ InHand(t)
    BY BusyOK
  <2>2. t.at = "reserve" /\ t.row \in Revisions /\ t.key \in Keys /\ t.details \in Details
    BY <1>3, <2>1 DEF Reserve, At, InHand, Claimed, Executing
  <2>3. ASSUME NEW o \in OrderIds, ~Made(o),
               order' = [order EXCEPT ![o] =
                  [NoOrder EXCEPT !.status = "PENDING", !.key = t.key,
                                  !.details = t.details, !.by = t.row]]
        PROVE  Grow
    <3>1. PICK r : r = [NoOrder EXCEPT !.status = "PENDING", !.key = t.key,
                                       !.details = t.details, !.by = t.row]
      OBVIOUS
    <3>2. r \in OrderRows /\ r.status # "NONE"
      BY <2>2, <3>1 DEF NoOrder, OrderRows
    <3>3. QED BY <2>3, <3>1, <3>2, MakesGrow
  <2>4. QED BY <1>2, <1>3, <2>1, <2>3 DEF Reserve
<1>4. ASSUME NEW w \in Workers, RefuseOrder(w) PROVE Grow
  BY <1>1, <1>2, <1>4 DEF RefuseOrder, Grow, MadeNext, Made, OrderRows
<1>5. ASSUME NEW w \in Workers, Link(w) PROVE Grow
  BY <1>1, <1>2, <1>5 DEF Link, Grow, MadeNext, Made, OrderRows
<1>6. ASSUME NEW t \in Tabs, Pay(t) PROVE Grow
  BY <1>6, StatusGrows DEF Pay
<1>7. ASSUME NEW o \in OrderIds, NEW expires \in BOOLEAN, EndOrder(o, expires) PROVE Grow
  BY <1>1, <1>7 DEF EndOrder, Grow, MadeNext, Made, OrderRows
<1>8. ASSUME NEW t \in Tabs, Page(t) PROVE Grow
  BY <1>2, <1>6, <1>8 DEF Page, PressPay, LoseAnswer, Leave
<1>9. ASSUME NEW w \in Workers, Handle(w) PROVE Grow
  BY <1>2, <1>3, <1>4, <1>5, <1>9
  DEF Handle, ReadRevision, InsertAttempt, FindByKey, FindByCart, Recycle, Reclaim, Execute,
      Snapshot, Resume, CreateProviderOrder, ClearCart, Replay, Mark
<1>10. QED BY <1>2, <1>7, <1>8, <1>9
           DEF Next, vars, Crash, LeaseRunsOut, Outlive, LeaseEnds, EditCart

-----------------------------------------------------------------------------
(* What holds however long a handler takes.                                *)

\* The rows name orders that were made, a link is made for such an order, and
\* a session is answered for an order that is linked.
Sound ==
  /\ \A o \in OrderIds : order'[o].linked => order[o].linked \/ MadeNext(o)
  /\ \A a \in Revisions : attempt'[a].order # Nil => MadeNext(attempt'[a].order)
  /\ \A s \in granted' : s \in granted \/ (s[3] \in OrderIds /\ order'[s[3]].linked)

\* What a handler in state u needs of the orders after the step.
Aware(u) ==
  /\ u.at = "clear" => u.order \in OrderIds /\ order'[u.order].linked
  /\ u.at \in HasOrder => u.order \in OrderIds /\ MadeNext(u.order)

LEMMA AlwaysStill ==
  ASSUME TypeInv, Always, Grow, Sound, UNCHANGED worker
  PROVE  Always'
<1>1. \A w \in Workers : InHand(worker[w])
  BY DEF TypeInv
<1>2. granted \subseteq Keys \X Details \X OrderIds
  BY TypeParts DEF Typed
<1>3. SessionIsLinked'
  BY <1>2 DEF Always, SessionIsLinked, Sound, Grow
<1>4. Clears'
  BY <1>1 DEF Always, Clears, At, Grow, InHand, HasOrder
<1>5. Pointers'
  BY <1>1 DEF Always, Pointers, Sound, Grow, MadeNext, Made, InHand
<1>6. QED BY <1>3, <1>4, <1>5 DEF Always

LEMMA AlwaysMove ==
  ASSUME TypeInv, Always, Grow, Sound, NEW w \in Workers, NEW u, Aware(u),
         worker' = [worker EXCEPT ![w] = u]
  PROVE  Always'
<1>1. \A v \in Workers : InHand(worker[v]) /\ worker'[v] = IF v = w THEN u ELSE worker[v]
  BY TypeParts DEF TypeInv, Typed, WorkerOK
<1>2. granted \subseteq Keys \X Details \X OrderIds
  BY TypeParts DEF Typed
<1>3. SessionIsLinked'
  BY <1>2 DEF Always, SessionIsLinked, Sound, Grow
<1>4. Clears'
  BY <1>1 DEF Always, Clears, At, Grow, InHand, HasOrder, Aware
<1>5. Pointers'
  BY <1>1 DEF Always, Pointers, Sound, Grow, MadeNext, Made, InHand, Aware
<1>6. QED BY <1>3, <1>4, <1>5 DEF Always

\* A step that makes and links nothing, and leaves the pointers of the rows.
LEMMA Unmoved ==
  ASSUME Always, UNCHANGED granted,
         \A o \in OrderIds : order'[o].linked => order[o].linked,
         \A a \in Revisions : attempt'[a].order = attempt[a].order, Grow, TypeInv
  PROVE  Sound
<1>1. \A a \in Revisions : attempt[a].order \in OrderIds \cup {Nil}
  BY TypeParts DEF Typed, Rows
<1>2. \A a \in Revisions : attempt'[a].order # Nil => MadeNext(attempt'[a].order)
  BY <1>1 DEF Always, Pointers, Grow
<1>3. \A o \in OrderIds : order'[o].linked => order[o].linked \/ MadeNext(o)
  OBVIOUS
<1>4. QED BY <1>2, <1>3 DEF Sound

LEMMA AwareIdle == Aware(Idle)
BY DEF Aware, Idle, HasOrder

\* A handler in another place with the order it had.
LEMMA AwareAt ==
  ASSUME TypeInv, Always, Grow, NEW w \in Workers, NEW place \in Places \ {"clear"},
         place \in HasOrder => worker[w].at \in HasOrder
  PROVE  Aware([worker[w] EXCEPT !.at = place])
<1>1. worker[w] \in WorkerStates /\ InHand(worker[w])
  BY BusyOK
<1>2. QED BY <1>1 DEF Always, Pointers, Grow, MadeNext, Made, Aware, WorkerStates, InHand

LEMMA AlwaysAcquire ==
  ASSUME TypeInv, Always, Grow, NEW w \in Workers,
         ReadRevision(w) \/ InsertAttempt(w) \/ FindByKey(w) \/ FindByCart(w)
         \/ Recycle(w) \/ Reclaim(w)
  PROVE  Always'
<1>1. PICK t : t = worker[w] /\ t \in WorkerStates /\ InHand(t)
  BY BusyOK
<1>2. attempt \in [Revisions -> Rows]
  BY TypeParts DEF Typed
<1>3. UNCHANGED order /\ t.at \in {"revision", "insert", "byKey", "byCart", "recycle", "reclaim"}
  BY <1>1 DEF ReadRevision, InsertAttempt, FindByKey, FindByCart, Recycle, Reclaim, At
\* The claim of a row leaves its order.
<1>4. \A a \in Revisions : attempt'[a].order # Nil => attempt'[a].order = attempt[a].order
  <2>1. CASE UNCHANGED attempt
    BY <2>1
  <2>2. CASE InsertAttempt(w)
    BY <1>1, <1>2, <2>1, <2>2 DEF InsertAttempt, Row
  <2>3. CASE Recycle(w)
    BY <1>1, <1>2, <2>1, <2>3 DEF Recycle, Row
  <2>4. CASE Reclaim(w)
    BY <1>1, <1>2, <2>1, <2>4 DEF Reclaim, Rows
  <2>5. QED BY <2>1, <2>2, <2>3, <2>4 DEF ReadRevision, FindByKey, FindByCart
<1>5. UNCHANGED granted => Sound
  <2>1. \A a \in Revisions : attempt[a].order \in OrderIds \cup {Nil}
    BY <1>2 DEF Rows
  <2>2. \A a \in Revisions : attempt'[a].order # Nil => MadeNext(attempt'[a].order)
    BY <1>4, <2>1 DEF Always, Pointers, Grow
  <2>3. QED BY <1>3, <2>2 DEF Sound
<1>6. \/ \E answer \in {"refused", "retry"} : Reply(w, answer, Nil)
      \/ /\ UNCHANGED granted
         /\ \E u : worker' = [worker EXCEPT ![w] = u] /\ u.at \notin HasOrder
  <2>1. ASSUME NEW place \in Places \ HasOrder, Goto(w, place)
        PROVE  \E u : worker' = [worker EXCEPT ![w] = u] /\ u.at \notin HasOrder
    <3>1. PICK u : u = [t EXCEPT !.at = place]
      OBVIOUS
    <3>2. u.at \notin HasOrder /\ worker' = [worker EXCEPT ![w] = u]
      BY <1>1, <2>1, <3>1 DEF Goto, WorkerStates
    <3>3. QED BY <3>2
  <2>2. ASSUME NEW place \in Places \ HasOrder, NEW a,
               worker' = [worker EXCEPT ![w].at = place, ![w].row = a]
        PROVE  \E u : worker' = [worker EXCEPT ![w] = u] /\ u.at \notin HasOrder
    <3>1. PICK u : u = [t EXCEPT !.at = place, !.row = a]
      OBVIOUS
    <3>2. u.at \notin HasOrder /\ worker' = [worker EXCEPT ![w] = u]
      BY <1>1, <2>2, <3>1 DEF WorkerStates
    <3>3. QED BY <3>2
  <2>3. CASE ReadRevision(w)
    <3>1. PICK u : u = [t EXCEPT !.at = "insert", !.rev = cart.rev]
      OBVIOUS
    <3>2. u.at \notin HasOrder /\ worker' = [worker EXCEPT ![w] = u] /\ UNCHANGED granted
      BY <1>1, <2>3, <3>1 DEF ReadRevision, WorkerStates, Silent, HasOrder
    <3>3. QED BY <3>2
  <2>4. {"byKey", "byCart", "recycle", "reclaim", "replay", "execute"} \subseteq Places \ HasOrder
    BY DEF Places, HasOrder
  <2>5. CASE InsertAttempt(w)
    BY <2>1, <2>2, <2>4, <2>5 DEF InsertAttempt, Silent
  <2>6. CASE FindByKey(w)
    <3>1. PICK a : a = CHOOSE x \in {b \in Revisions : attempt[b].key = t.key} : TRUE
      OBVIOUS
    <3>2. \/ \E answer \in {"refused", "retry"} : Reply(w, answer, Nil)
          \/ Silent /\ Goto(w, "byCart")
          \/ Silent /\ \E place \in {"replay", "reclaim"} :
                         worker' = [worker EXCEPT ![w].at = place, ![w].row = a]
      BY <1>1, <2>6, <3>1 DEF FindByKey
    <3>3. QED BY <2>1, <2>2, <2>4, <3>2 DEF Silent
  <2>7. CASE FindByCart(w)
    BY <2>1, <2>4, <2>7 DEF FindByCart, Silent
  <2>8. CASE Recycle(w)
    BY <2>2, <2>4, <2>8 DEF Recycle, Silent
  <2>9. CASE Reclaim(w)
    BY <2>1, <2>4, <2>9 DEF Reclaim, Silent
  <2>10. QED BY <2>3, <2>5, <2>6, <2>7, <2>8, <2>9
<1>7. CASE \E answer \in {"refused", "retry"} : Reply(w, answer, Nil)
  <2>1. UNCHANGED granted /\ worker' = [worker EXCEPT ![w] = Idle]
    BY <1>7 DEF Reply
  <2>2. QED BY <1>5, <2>1, AwareIdle, AlwaysMove
<1>8. ASSUME NEW u, UNCHANGED granted, worker' = [worker EXCEPT ![w] = u], u.at \notin HasOrder
      PROVE  Always'
  BY <1>5, <1>8, AlwaysMove DEF Aware, HasOrder
<1>9. QED BY <1>6, <1>7, <1>8

LEMMA AlwaysGoto ==
  ASSUME TypeInv, Always, Grow, Sound, NEW w \in Workers, NEW place \in Places \ {"clear"},
         place \in HasOrder => worker[w].at \in HasOrder, Goto(w, place)
  PROVE  Always'
<1>1. worker' = [worker EXCEPT ![w] = [worker[w] EXCEPT !.at = place]]
  BY DEF Goto
<1>2. QED BY <1>1, AwareAt, AlwaysMove

\* An order that is linked may be answered.
LEMMA AlwaysReply ==
  ASSUME TypeInv, Always, Grow, NEW w \in Workers, NEW answer, NEW o, Reply(w, answer, o),
         answer = "session" => o \in OrderIds /\ order[o].linked,
         \A p \in OrderIds : order'[p].linked => order[p].linked,
         \A a \in Revisions : attempt'[a].order = attempt[a].order
  PROVE  Always'
<1>1. \A a \in Revisions : attempt[a].order \in OrderIds \cup {Nil}
  BY TypeParts DEF Typed, Rows
<1>2. \A a \in Revisions : attempt'[a].order # Nil => MadeNext(attempt'[a].order)
  BY <1>1 DEF Always, Pointers, Grow
<1>3. \A s \in granted' : s \in granted \/ (s[3] \in OrderIds /\ order'[s[3]].linked)
  BY DEF Reply, Grow
<1>4. Sound
  BY <1>2, <1>3 DEF Sound
<1>5. worker' = [worker EXCEPT ![w] = Idle]
  BY DEF Reply
<1>6. QED BY <1>4, <1>5, AwareIdle, AlwaysMove

LEMMA AlwaysSession ==
  ASSUME TypeInv, Always, Grow, NEW w \in Workers,
         Execute(w) \/ Snapshot(w) \/ Reserve(w) \/ Resume(w) \/ CreateProviderOrder(w)
         \/ RefuseOrder(w) \/ Link(w) \/ ClearCart(w) \/ Replay(w) \/ Mark(w)
  PROVE  Always'
<1>1. PICK t : t = worker[w] /\ t \in WorkerStates /\ InHand(t)
  BY BusyOK
<1>2. attempt \in [Revisions -> Rows] /\ order \in [OrderIds -> OrderRows]
  BY TypeParts DEF Typed
<1> USE DEF At
<1>3. ASSUME UNCHANGED <<attempt, order, granted>> PROVE Sound
  BY <1>3, Unmoved
<1>4. CASE Execute(w)
  <2>1. t.at = "execute" /\ t.row \in Revisions
    BY <1>1, <1>4 DEF Execute, InHand, Claimed, Executing
  <2>2. PICK o \in OrderIds \cup {Nil} : o = attempt[t.row].order
    BY <1>2, <2>1 DEF Rows
  <2>3. PICK u : u = [t EXCEPT !.at = IF o = Nil THEN "fresh" ELSE "resume", !.order = o]
    OBVIOUS
  <2>4. worker' = [worker EXCEPT ![w] = u]
    BY <1>1, <1>4, <2>2, <2>3 DEF Execute
  <2>5. o # Nil => Made(o)
    BY <2>1, <2>2 DEF Always, Pointers
  <2>6. u.at = (IF o = Nil THEN "fresh" ELSE "resume") /\ u.order = o
    BY <1>1, <2>3 DEF WorkerStates
  <2>7. Aware(u)
    BY <2>5, <2>6 DEF Aware, HasOrder, Grow
  <2>8. QED BY <1>3, <1>4, <2>4, <2>7, AlwaysMove DEF Execute, Silent
<1>5. CASE Snapshot(w)
  BY <1>3, <1>5, AlwaysGoto DEF Snapshot, Silent, Places, HasOrder
<1>6. CASE Reserve(w)
  <2>1. t.at = "reserve" /\ t.row \in Revisions /\ UNCHANGED granted
    BY <1>1, <1>6 DEF Reserve, Silent, InHand, Claimed, Executing
  <2>2. CASE Goto(w, "mark") /\ UNCHANGED <<order, attempt>>
    BY <1>3, <2>1, <2>2, AlwaysGoto DEF Places, HasOrder
  <2>3. ASSUME NEW o \in OrderIds,
               order' = [order EXCEPT ![o] =
                  [NoOrder EXCEPT !.status = "PENDING", !.key = t.key,
                                  !.details = t.details, !.by = t.row]],
               attempt' = Pointed(t.row, o),
               worker' = [worker EXCEPT ![w].at = "provider", ![w].order = o]
        PROVE  Always'
    <3>1. PICK u : u = [t EXCEPT !.at = "provider", !.order = o]
      OBVIOUS
    <3>2. worker' = [worker EXCEPT ![w] = u] /\ u.at = "provider" /\ u.order = o
      BY <1>1, <2>3, <3>1 DEF WorkerStates
    <3>3. MadeNext(o) /\ ~order'[o].linked /\ \A p \in OrderIds \ {o} : order'[p] = order[p]
      BY <1>2, <2>3 DEF MadeNext, NoOrder
    <3>4. Aware(u)
      BY <3>2, <3>3 DEF Aware, HasOrder
    <3>5. \A a \in Revisions : attempt'[a].order = o \/ attempt'[a].order = attempt[a].order
      BY <1>2, <2>1, <2>3 DEF Pointed, Rows
    <3>6. \A a \in Revisions : attempt[a].order \in OrderIds \cup {Nil}
      BY <1>2 DEF Rows
    <3>7. \A a \in Revisions : attempt'[a].order # Nil => MadeNext(attempt'[a].order)
      BY <3>3, <3>5, <3>6 DEF Always, Pointers, Grow
    <3>8. Sound
      BY <2>1, <3>3, <3>7 DEF Sound
    <3>9. QED BY <3>2, <3>4, <3>8, AlwaysMove
  <2>4. QED BY <1>1, <1>6, <2>2, <2>3 DEF Reserve
<1>7. CASE Resume(w)
  <2>1. t.at = "resume" /\ t.row \in Revisions /\ t.order \in OrderIds /\ UNCHANGED order
    BY <1>1, <1>7 DEF Resume, InHand, Claimed, Executing, HasOrder
  <2>2. CASE /\ order[t.order].linked
             /\ attempt' = [attempt EXCEPT ![t.row].status = "COMPLETED"]
             /\ Reply(w, "session", t.order)
    <3>1. \A a \in Revisions : attempt'[a].order = attempt[a].order
      BY <1>2, <2>2 DEF Rows
    <3>2. QED BY <2>1, <2>2, <3>1, AlwaysReply
  <2>3. ASSUME NEW place \in {"provider", "mark"}, Goto(w, place), Silent, UNCHANGED attempt
        PROVE  Always'
    BY <1>1, <1>3, <2>1, <2>3, AlwaysGoto DEF Silent, Places, HasOrder
  <2>4. QED BY <1>1, <1>7, <2>2, <2>3 DEF Resume
<1>8. CASE CreateProviderOrder(w)
  BY <1>3, <1>8, AlwaysGoto DEF CreateProviderOrder, Silent, Places, HasOrder
<1>9. CASE RefuseOrder(w)
  <2>1. \A o \in OrderIds : order'[o].linked => order[o].linked
    BY <1>2, <1>9 DEF RefuseOrder, OrderRows
  <2>2. Sound
    BY <1>9, <2>1, Unmoved DEF RefuseOrder, Silent
  <2>3. QED BY <1>9, <2>2, AlwaysGoto DEF RefuseOrder, Places, HasOrder
<1>10. CASE Link(w)
  <2>1. t.at = "link" /\ t.order \in OrderIds /\ Made(t.order) /\ UNCHANGED granted
    BY <1>1, <1>10 DEF Link, Silent, InHand, HasOrder, Always, Pointers
  <2>2. CASE Goto(w, "mark") /\ UNCHANGED <<order, attempt>>
    BY <1>3, <2>1, <2>2, AlwaysGoto DEF Places, HasOrder
  <2>3. CASE /\ order' = [order EXCEPT ![t.order].linked = TRUE]
             /\ attempt' = [attempt EXCEPT ![t.row].status = "COMPLETED"]
             /\ Goto(w, "clear")
    <3>1. PICK u : u = [t EXCEPT !.at = "clear"]
      OBVIOUS
    <3>2. worker' = [worker EXCEPT ![w] = u] /\ u.at = "clear" /\ u.order = t.order
      BY <1>1, <2>3, <3>1 DEF Goto, WorkerStates
    <3>3. order'[t.order].linked /\ MadeNext(t.order)
          /\ \A o \in OrderIds \ {t.order} : order'[o] = order[o]
      BY <1>2, <2>1, <2>3 DEF OrderRows, MadeNext, Made
    <3>4. Aware(u)
      BY <2>1, <3>2, <3>3 DEF Aware
    <3>5. \A a \in Revisions : attempt'[a].order = attempt[a].order
      BY <1>2, <2>3 DEF Rows
    <3>6. \A a \in Revisions : attempt[a].order \in OrderIds \cup {Nil}
      BY <1>2 DEF Rows
    <3>7. \A a \in Revisions : attempt'[a].order # Nil => MadeNext(attempt'[a].order)
      BY <3>5, <3>6 DEF Always, Pointers, Grow
    <3>8. Sound
      BY <2>1, <3>3, <3>7 DEF Sound
    <3>9. QED BY <3>2, <3>4, <3>8, AlwaysMove
  <2>4. QED BY <1>1, <1>10, <2>2, <2>3 DEF Link
<1>11. CASE ClearCart(w)
  <2>1. /\ t.order \in OrderIds /\ order[t.order].linked
        /\ Reply(w, "session", t.order) /\ UNCHANGED <<attempt, order>>
    BY <1>1, <1>11 DEF ClearCart, InHand, HasOrder, Always, Clears
  <2>2. QED BY <2>1, AlwaysReply
<1>12. CASE Replay(w)
  <2>1. t.row \in Revisions /\ UNCHANGED <<attempt, order>>
    BY <1>1, <1>12 DEF Replay, InHand, Claimed
  <2>2. PICK o \in OrderIds \cup {Nil} : o = attempt[t.row].order
    BY <1>2, <2>1 DEF Rows
  <2>3. CASE o # Nil /\ order[o].linked /\ Reply(w, "session", o)
    BY <2>1, <2>2, <2>3, AlwaysReply
  <2>4. CASE Reply(w, "refused", Nil)
    BY <2>1, <2>4, AlwaysReply
  <2>5. QED BY <1>1, <1>12, <2>2, <2>3, <2>4 DEF Replay
<1>13. CASE Mark(w)
  <2>1. \A a \in Revisions : attempt'[a].order = attempt[a].order
    BY <1>2, <1>13 DEF Mark, Rows
  <2>2. QED BY <1>13, <2>1, AlwaysReply DEF Mark
<1>14. QED BY <1>4, <1>5, <1>6, <1>7, <1>8, <1>9, <1>10, <1>11, <1>12, <1>13

LEMMA AlwaysKept == TypeInv /\ Always /\ [Next]_vars => Always'
<1> SUFFICES ASSUME TypeInv, Always, [Next]_vars PROVE Always'
  OBVIOUS
<1>1. Grow
  BY OrdersGrow
<1>2. attempt \in [Revisions -> Rows] /\ order \in [OrderIds -> OrderRows]
  BY TypeParts DEF Typed
<1>3. ASSUME \A o \in OrderIds : order'[o].linked => order[o].linked,
             \A a \in Revisions : attempt'[a].order = attempt[a].order,
             UNCHANGED <<granted, worker>>
      PROVE  Always'
  BY <1>1, <1>3, Unmoved, AlwaysStill
<1>4. ASSUME NEW t \in Tabs, Page(t) PROVE Always'
  <2>1. ASSUME NEW w \in Workers, NEW d \in Details, PressPay(t, w, d) PROVE Always'
    <3>1. PICK k : k = tab'[t].key
      OBVIOUS
    <3>2. PICK u : u = [Idle EXCEPT !.at = "revision", !.tab = t, !.key = k, !.details = d]
      OBVIOUS
    <3>3. worker' = [worker EXCEPT ![w] = u] /\ u.at = "revision"
      BY <2>1, <3>1, <3>2 DEF PressPay, Idle
    <3>4. Aware(u) /\ Sound
      BY <1>1, <2>1, <3>3, Unmoved DEF PressPay, Aware, HasOrder
    <3>5. QED BY <1>1, <3>3, <3>4, AlwaysMove
  <2>2. CASE Pay(t)
    BY <1>2, <1>3, <2>2 DEF Pay, OrderRows
  <2>3. QED BY <1>3, <1>4, <2>1, <2>2 DEF Page, LoseAnswer, Leave
<1>5. ASSUME NEW w \in Workers, Handle(w) PROVE Always'
  BY <1>1, <1>5, AlwaysAcquire, AlwaysSession DEF Handle
<1>6. ASSUME NEW w \in Workers, Crash(w) PROVE Always'
  BY <1>1, <1>6, AlwaysReply DEF Crash
<1>7. ASSUME NEW a \in Revisions, LeaseRunsOut(a) \/ Outlive(a) PROVE Always'
  <2>1. attempt' = [attempt EXCEPT ![a].live = FALSE]
    BY <1>7 DEF LeaseRunsOut, Outlive, LeaseEnds
  <2>2. \A b \in Revisions : attempt'[b].order = attempt[b].order
    BY <1>2, <2>1 DEF Rows
  <2>3. QED BY <1>3, <1>7, <2>2 DEF LeaseRunsOut, Outlive, LeaseEnds
<1>8. ASSUME NEW o \in OrderIds, NEW expires \in BOOLEAN, EndOrder(o, expires) PROVE Always'
  BY <1>2, <1>3, <1>8 DEF EndOrder, OrderRows
<1>9. QED BY <1>3, <1>4, <1>5, <1>6, <1>7, <1>8 DEF Next, vars, EditCart

-----------------------------------------------------------------------------
(* What holds until a handler outlives its lease.                          *)

Recorded(s) ==
  \E a \in Revisions : /\ attempt[a].key = s[1] /\ attempt[a].details = s[2]
                       /\ attempt[a].status = "COMPLETED" /\ attempt[a].order = s[3]

\* A step that makes no order.
NoneMade ==
  \A o \in OrderIds : (MadeNext(o) <=> Made(o)) /\ order'[o].by = order[o].by

LEMMA RowTypes ==
  ASSUME TypeInv
  PROVE  /\ attempt \in [Revisions -> Rows]
         /\ \A a \in Revisions : attempt[a].order \in OrderIds \cup {Nil}
         /\ \A a \in Revisions : attempt[a].key \in Keys \cup {Nil}
         /\ \A w \in Workers : worker[w] \in WorkerStates /\ InHand(worker[w])
         /\ worker \in [Workers -> WorkerStates]
BY TypeParts, BusyOK DEF Typed, Rows, WorkerOK

LEMMA OrderInvSame ==
  ASSUME TypeInv, OrderInv, NoneMade,
         \A a \in Revisions : attempt'[a].order = attempt[a].order
  PROVE  OrderInv'
BY RowTypes DEF OrderInv, NoneMade, MadeNext, Made

\* A step of a handler that leaves the rows.
LEMMA KeptMove ==
  ASSUME TypeInv, Kept, Grow, NoneMade, UNCHANGED attempt,
         NEW w \in Workers, NEW u, worker' = [worker EXCEPT ![w] = u], Holds(u), Answers(u),
         u.at \in Executing => worker[w].at \in Executing /\ u.row = worker[w].row,
         \A s \in granted' : s \in granted \/ Recorded(s)
  PROVE  Kept'
<1>1. \A v \in Workers : worker'[v] = IF v = w THEN u ELSE worker[v]
  BY RowTypes
<1>2. RowInv'
  BY DEF Kept, RowInv, Exists
<1>3. \A t : Holds(t) => Holds(t)'
  BY DEF Holds, IsOf
<1>4. \A t : Answers(t) => Answers(t)'
  BY DEF Answers, IsOf, Exists
<1>5. HoldInv'
  <2>1. ASSUME NEW v \in Workers PROVE (Holds(worker[v]) /\ Answers(worker[v]))'
    <3>1. PICK t : t = worker'[v]
      OBVIOUS
    <3>2. Holds(t) /\ Answers(t)
      BY <1>1, <3>1 DEF Kept, HoldInv
    <3>3. Holds(t)' /\ Answers(t)'
      BY <1>3, <1>4, <3>2
    <3>4. QED BY <3>1, <3>3 DEF Holds, Answers, IsOf, Exists
  <2>2. QED BY <2>1 DEF HoldInv
<1>6. OrderInv'
  BY OrderInvSame DEF Kept
<1>7. OneExecutor'
  BY <1>1 DEF Kept, OneExecutor, Runs
<1>8. CompletedIsLinked'
  BY RowTypes DEF Kept, CompletedIsLinked, Grow
<1>9. SessionIsRecorded'
  BY DEF Kept, SessionIsRecorded, Recorded
<1>10. QED BY <1>2, <1>5, <1>6, <1>7, <1>8, <1>9 DEF Kept

\* A step of the world around the handlers.
LEMMA KeptStill ==
  ASSUME TypeInv, Kept, Grow, NoneMade, UNCHANGED <<attempt, worker, granted>>
  PROVE  Kept'
<1>1. RowInv' /\ HoldInv'
  BY DEF Kept, RowInv, Exists, HoldInv, Holds, Answers, IsOf
<1>2. OrderInv'
  BY OrderInvSame DEF Kept
<1>3. OneExecutor'
  BY DEF Kept, OneExecutor, Runs
<1>4. CompletedIsLinked'
  BY RowTypes DEF Kept, CompletedIsLinked, Grow
<1>5. SessionIsRecorded'
  BY DEF Kept, SessionIsRecorded
<1>6. QED BY <1>1, <1>2, <1>3, <1>4, <1>5 DEF Kept

\* What row a may become: its key is its own, it is completed with an order
\* the provider knows, and once completed it stays what it is.
Becomes(a, r) ==
  /\ r \in Rows
  /\ r.status # "NONE"
  /\ r.key \in Keys
  /\ \A b \in Revisions \ {a} : attempt[b].key # r.key
  /\ r.status = "COMPLETED" => r.order \in OrderIds /\ order'[r.order].linked
  /\ attempt[a].status = "COMPLETED" =>
       /\ r.status = "COMPLETED" /\ r.key = attempt[a].key
       /\ r.details = attempt[a].details /\ r.order = attempt[a].order

LEMMA RowsTouched ==
  ASSUME TypeInv, Kept, Grow, NEW a \in Revisions, NEW r, Becomes(a, r),
         attempt' = [attempt EXCEPT ![a] = r]
  PROVE  RowInv' /\ CompletedIsLinked' /\ \A s \in granted : Recorded(s)'
<1>1. \A b \in Revisions : attempt'[b] = IF b = a THEN r ELSE attempt[b]
  BY RowTypes
<1>2. RowInv'
  BY <1>1 DEF Kept, RowInv, Exists, Becomes
<1>3. CompletedIsLinked'
  <2>1. Nil \notin OrderIds
    BY DEF Nil, OrderIds
  <2>2. QED BY <1>1, <2>1, RowTypes DEF Kept, CompletedIsLinked, Becomes, Grow
<1>4. ASSUME NEW s \in granted PROVE Recorded(s)'
  BY <1>1 DEF Kept, SessionIsRecorded, Recorded, Becomes
<1>5. QED BY <1>2, <1>3, <1>4

\* A handler that does not run the row keeps what it has in hand.
LEMMA OthersHold ==
  ASSUME TypeInv, Kept, NEW a \in Revisions, NEW r, Becomes(a, r),
         attempt' = [attempt EXCEPT ![a] = r],
         NEW v \in Workers, ~Runs(v, a),
         \/ r.live
         \/ r.live = attempt[a].live /\ r.key = attempt[a].key
            /\ r.details = attempt[a].details
         \/ ~(At(v, "reclaim") /\ worker[v].row = a),
         NEW t, t = worker[v]
  PROVE  Holds(t)' /\ Answers(t)'
<1>1. \A b \in Revisions : attempt'[b] = IF b = a THEN r ELSE attempt[b]
  BY RowTypes
<1>2. InHand(t) /\ Holds(t) /\ Answers(t)
  BY RowTypes DEF Kept, HoldInv
<1>3. Holds(t)'
  BY <1>1, <1>2 DEF Holds, IsOf, Runs, InHand, Claimed
<1>4. Answers(t)'
  BY <1>1, <1>2 DEF Answers, IsOf, Exists, At, Becomes, InHand, Claimed
<1>5. QED BY <1>3, <1>4

\* A step of a handler on a row that no other handler runs.
LEMMA KeptTouch ==
  ASSUME TypeInv, Kept, Grow, NEW a \in Revisions, NEW r, Becomes(a, r),
         attempt' = [attempt EXCEPT ![a] = r],
         NEW w \in Workers, NEW u, worker' = [worker EXCEPT ![w] = u],
         \A v \in Workers \ {w} : ~Runs(v, a),
         \/ r.live
         \/ r.live = attempt[a].live /\ r.key = attempt[a].key
            /\ r.details = attempt[a].details,
         Holds(u)', Answers(u)', u.at \in Executing => u.row = a,
         OrderInv',
         \A s \in granted' : s \in granted \/ Recorded(s)'
  PROVE  Kept'
<1>1. \A v \in Workers : worker'[v] = IF v = w THEN u ELSE worker[v]
  BY RowTypes
<1>2. RowInv' /\ CompletedIsLinked' /\ \A s \in granted : Recorded(s)'
  BY RowsTouched
<1>3. HoldInv'
  <2>1. ASSUME NEW v \in Workers PROVE (Holds(worker[v]) /\ Answers(worker[v]))'
    <3>1. PICK t : t = worker'[v]
      OBVIOUS
    <3>2. Holds(t)' /\ Answers(t)'
      <4>1. CASE v = w
        BY <1>1, <3>1, <4>1
      <4>2. CASE v # w
        <5>1. t = worker[v] /\ ~Runs(v, a)
          BY <1>1, <3>1, <4>2
        <5>2. QED BY <5>1, OthersHold
      <4>3. QED BY <4>1, <4>2
    <3>3. QED BY <3>1, <3>2 DEF Holds, Answers, IsOf, Exists
  <2>2. QED BY <2>1 DEF HoldInv
<1>4. OneExecutor'
  BY <1>1 DEF Kept, OneExecutor, Runs
<1>5. SessionIsRecorded'
  BY <1>2 DEF SessionIsRecorded, Recorded
<1>6. QED BY <1>2, <1>3, <1>4, <1>5 DEF Kept

LEMMA HoldsIdle == Holds(Idle) /\ Answers(Idle) /\ Idle.at \notin Executing
BY DEF Holds, Answers, Idle, Executing

\* Someone who only answers.
LEMMA KeptReply ==
  ASSUME TypeInv, Kept, Grow, NoneMade, UNCHANGED attempt, NEW w \in Workers,
         NEW answer, NEW o, Reply(w, answer, o),
         answer = "session" => Recorded(<<worker[w].key, worker[w].details, o>>)
  PROVE  Kept'
<1>1. \A s \in granted' : s \in granted \/ Recorded(s)
  BY DEF Reply
<1>2. worker' = [worker EXCEPT ![w] = Idle]
  BY DEF Reply
<1>3. QED BY <1>1, <1>2, HoldsIdle, KeptMove

\* A step between places that need nothing of the row, or the same of it.
LEMMA KeptGoto ==
  ASSUME TypeInv, Kept, Grow, NoneMade, UNCHANGED <<attempt, granted>>, NEW w \in Workers,
         NEW place \in Places, Goto(w, place),
         \/ place \in {"byKey", "byCart", "recycle"}
         \/ /\ worker[w].at \in Executing /\ place \in Executing \ {"fresh"}
            /\ place = "reserve" => worker[w].at = "fresh"
            /\ place \in HasOrder => worker[w].at \in HasOrder
  PROVE  Kept'
<1>1. PICK t : t = worker[w] /\ t \in WorkerStates /\ InHand(t)
  BY BusyOK
<1>2. PICK u : u = [t EXCEPT !.at = place]
  OBVIOUS
<1>3. /\ worker' = [worker EXCEPT ![w] = u] /\ u.at = place /\ u.row = t.row
      /\ u.key = t.key /\ u.details = t.details /\ u.order = t.order
  BY <1>1, <1>2 DEF Goto, WorkerStates
<1>4. Holds(t)
  BY <1>1 DEF Kept, HoldInv
<1>5. Holds(u)
  BY <1>1, <1>3, <1>4 DEF Holds, IsOf, Executing
<1>6. Answers(u)
  BY <1>3 DEF Answers, Executing
<1>7. u.at \in Executing => t.at \in Executing /\ u.row = t.row
  <2>1. place \in {"byKey", "byCart", "recycle"} => place \notin Executing
    BY DEF Executing
  <2>2. QED BY <1>1, <1>3, <2>1
<1>8. QED BY <1>1, <1>3, <1>5, <1>6, <1>7, KeptMove

\* A row that exists has its key to itself.
LEMMA OwnKey ==
  ASSUME Kept, NEW a \in Revisions, Exists(a)
  PROVE  /\ attempt[a].key \in Keys
         /\ \A b \in Revisions \ {a} : attempt[b].key # attempt[a].key
<1>1. attempt[a].key \in Keys
  BY DEF Kept, RowInv
<1>2. ASSUME NEW b \in Revisions, attempt[b].key = attempt[a].key PROVE b = a
  <2>1. Exists(b)
    BY <1>1, <1>2 DEF Kept, RowInv, NoRow, Keys, Nil
  <2>2. QED BY <1>1, <1>2, <2>1 DEF Kept, RowInv
<1>3. QED BY <1>1, <1>2

LEMMA SameOrders == ASSUME TypeInv, UNCHANGED order PROVE Grow /\ NoneMade
BY DEF Grow, NoneMade, MadeNext, Made

\* An execution begins: nobody else runs the row that is claimed.
LEMMA KeptClaim ==
  ASSUME TypeInv, Kept, UNCHANGED <<order, granted>>, NEW a \in Revisions, NEW r,
         Becomes(a, r), r.status = "PROCESSING", r.live, r.order = attempt[a].order,
         attempt' = [attempt EXCEPT ![a] = r],
         attempt[a].status # "PROCESSING" \/ ~attempt[a].live,
         NEW w \in Workers, NEW u, worker' = [worker EXCEPT ![w] = u],
         u.at = "execute", u.row = a, u.key = r.key, u.details = r.details
  PROVE  Kept'
<1>1. \A v \in Workers : ~Runs(v, a)
  BY DEF Kept, HoldInv, Holds, Runs
<1>2. attempt'[a] = r /\ \A b \in Revisions : attempt'[b].order = attempt[b].order
  BY RowTypes
<1>3. Holds(u)'
  BY <1>2 DEF Holds, IsOf, HasOrder
<1>4. Answers(u)'
  BY DEF Answers
<1>5. OrderInv'
  BY <1>2, SameOrders, OrderInvSame DEF Kept
<1>6. QED BY <1>1, <1>3, <1>4, <1>5, SameOrders, KeptTouch

LEMMA KeptAcquire ==
  ASSUME TypeInv, Kept, NEW w \in Workers,
         ReadRevision(w) \/ InsertAttempt(w) \/ FindByKey(w) \/ FindByCart(w)
         \/ Recycle(w) \/ Reclaim(w)
  PROVE  Kept'
<1>1. PICK t : t = worker[w] /\ t \in WorkerStates /\ InHand(t)
  BY BusyOK
<1>2. UNCHANGED order /\ Grow /\ NoneMade
  BY SameOrders DEF ReadRevision, InsertAttempt, FindByKey, FindByCart, Recycle, Reclaim
<1>3. ASSUME UNCHANGED attempt, NEW answer \in {"refused", "retry"}, Reply(w, answer, Nil)
      PROVE  Kept'
  BY <1>2, <1>3, KeptReply
<1>4. ASSUME UNCHANGED attempt, Silent, NEW place \in {"byKey", "byCart", "recycle"},
             Goto(w, place)
      PROVE  Kept'
  BY <1>2, <1>4, KeptGoto DEF Silent, Places
<1>5. CASE ReadRevision(w)
  <2>1. PICK u : u = [t EXCEPT !.at = "insert", !.rev = cart.rev]
    OBVIOUS
  <2>2. worker' = [worker EXCEPT ![w] = u] /\ u.at = "insert"
    BY <1>1, <1>5, <2>1 DEF ReadRevision, WorkerStates
  <2>3. Holds(u) /\ Answers(u) /\ u.at \notin Executing
    BY <2>2 DEF Holds, Answers, Executing
  <2>4. QED BY <1>2, <1>5, <2>2, <2>3, KeptMove DEF ReadRevision, Silent
<1>6. CASE InsertAttempt(w)
  <2>1. t.at = "insert" /\ t.rev \in Revisions /\ t.key \in Keys /\ t.details \in Details /\ Silent
    BY <1>1, <1>6 DEF InsertAttempt, At, InHand
  <2>2. CASE /\ ~Exists(t.rev) /\ \A a \in Revisions : attempt[a].key # t.key
             /\ attempt' = [attempt EXCEPT ![t.rev] = Row(t.key, t.details, Nil)]
             /\ worker' = [worker EXCEPT ![w].at = "execute", ![w].row = t.rev]
    <3>1. PICK u : u = [t EXCEPT !.at = "execute", !.row = t.rev]
      OBVIOUS
    <3>2. /\ worker' = [worker EXCEPT ![w] = u] /\ u.at = "execute" /\ u.row = t.rev
          /\ u.key = t.key /\ u.details = t.details
      BY <1>1, <2>2, <3>1 DEF WorkerStates
    <3>3. PICK r : r = Row(t.key, t.details, Nil)
      OBVIOUS
    <3>4. r \in Rows
      BY <2>1, <3>3 DEF Row, Rows
    <3>5. /\ r.status = "PROCESSING" /\ r.live /\ r.order = Nil
          /\ r.key = t.key /\ r.details = t.details
      BY <3>3 DEF Row
    <3>6. attempt[t.rev] = NoRow
      BY <2>1, <2>2 DEF Kept, RowInv
    <3>7. attempt[t.rev].status = "NONE" /\ attempt[t.rev].order = Nil
      BY <3>6 DEF NoRow
    <3>8. Becomes(t.rev, r)
      BY <2>1, <2>2, <3>4, <3>5, <3>7 DEF Becomes
    <3>9. UNCHANGED <<order, granted>> /\ attempt[t.rev].status # "PROCESSING"
      BY <1>2, <2>1, <3>7 DEF Silent
    <3>10. /\ attempt' = [attempt EXCEPT ![t.rev] = r]
           /\ u.key = r.key /\ u.details = r.details /\ r.order = attempt[t.rev].order
      BY <2>2, <3>2, <3>3, <3>5, <3>7
    <3>11. QED BY <2>1, <3>2, <3>5, <3>8, <3>9, <3>10, KeptClaim
  <2>3. QED BY <1>1, <1>4, <1>6, <2>1, <2>2 DEF InsertAttempt
<1>7. CASE FindByKey(w)
  <2>1. PICK found : found = {a \in Revisions : attempt[a].key = t.key}
    OBVIOUS
  <2>2. PICK a : a = CHOOSE x \in found : TRUE
    OBVIOUS
  <2>3. found # {} => a \in Revisions /\ attempt[a].key = t.key
    BY <2>1, <2>2
  <2>4. t.at = "byKey" /\ UNCHANGED attempt
    BY <1>1, <1>7 DEF FindByKey, At
  <2>5. ASSUME found # {}, SameRequest(a, t.details), Silent, NEW place,
               \/ place = "replay" /\ attempt[a].status = "COMPLETED"
               \/ place = "reclaim" /\ attempt[a].status = "PROCESSING",
               worker' = [worker EXCEPT ![w].at = place, ![w].row = a]
        PROVE  Kept'
    <3>1. PICK u : u = [t EXCEPT !.at = place, !.row = a]
      OBVIOUS
    <3>2. /\ worker' = [worker EXCEPT ![w] = u] /\ u.at = place /\ u.row = a
          /\ u.key = t.key /\ u.details = t.details
      BY <1>1, <2>5, <3>1 DEF WorkerStates
    <3>3. Holds(u) /\ u.at \notin Executing
      BY <2>5, <3>2 DEF Holds, Executing
    <3>4. Answers(u)
      BY <2>3, <2>5, <3>2 DEF Answers, IsOf, SameRequest, Exists
    <3>5. QED BY <1>2, <2>4, <2>5, <3>2, <3>3, <3>4, KeptMove DEF Silent
  <2>6. \/ Goto(w, "byCart") /\ Silent
        \/ \E answer \in {"refused", "retry"} : Reply(w, answer, Nil)
        \/ /\ found # {} /\ SameRequest(a, t.details) /\ Silent
           /\ \E place : /\ \/ place = "replay" /\ attempt[a].status = "COMPLETED"
                            \/ place = "reclaim" /\ attempt[a].status = "PROCESSING"
                         /\ worker' = [worker EXCEPT ![w].at = place, ![w].row = a]
    BY <1>1, <1>7, <2>1, <2>2 DEF FindByKey
  <2>7. QED BY <1>3, <1>4, <2>4, <2>5, <2>6
<1>8. CASE FindByCart(w)
  BY <1>3, <1>4, <1>8 DEF FindByCart
<1>9. CASE Recycle(w)
  <2>1. t.at = "recycle" /\ t.rev \in Revisions /\ t.key \in Keys /\ t.details \in Details
    BY <1>1, <1>9 DEF Recycle, At, InHand
  <2>2. CASE Reply(w, "refused", Nil) /\ UNCHANGED attempt
    BY <1>3, <2>2
  <2>3. CASE /\ attempt[t.rev].status = "FAILED"
             /\ ~\E a \in Revisions \ {t.rev} : attempt[a].key = t.key
             /\ attempt' = [attempt EXCEPT ![t.rev] = Row(t.key, t.details, @.order)]
             /\ worker' = [worker EXCEPT ![w].at = "execute", ![w].row = t.rev]
             /\ Silent
    <3>1. PICK u : u = [t EXCEPT !.at = "execute", !.row = t.rev]
      OBVIOUS
    <3>2. /\ worker' = [worker EXCEPT ![w] = u] /\ u.at = "execute" /\ u.row = t.rev
          /\ u.key = t.key /\ u.details = t.details
      BY <1>1, <2>3, <3>1 DEF WorkerStates
    <3>3. PICK r : r = Row(t.key, t.details, attempt[t.rev].order)
      OBVIOUS
    <3>4. r \in Rows
      BY <2>1, <3>3, RowTypes DEF Row, Rows
    <3>5. /\ r.status = "PROCESSING" /\ r.live /\ r.order = attempt[t.rev].order
          /\ r.key = t.key /\ r.details = t.details
      BY <3>3 DEF Row
    <3>6. attempt' = [attempt EXCEPT ![t.rev] = r]
      BY <2>3, <3>3
    <3>7. Becomes(t.rev, r)
      BY <2>1, <2>3, <3>4, <3>5 DEF Becomes
    <3>8. UNCHANGED <<order, granted>> /\ attempt[t.rev].status # "PROCESSING"
      BY <1>2, <2>3 DEF Silent
    <3>9. u.key = r.key /\ u.details = r.details
      BY <3>2, <3>5
    <3>10. QED BY <2>1, <3>2, <3>5, <3>6, <3>7, <3>8, <3>9, KeptClaim
  <2>4. QED BY <1>1, <1>9, <2>2, <2>3 DEF Recycle
<1>10. CASE Reclaim(w)
  <2>1. t.at = "reclaim" /\ t.row \in Revisions
    BY <1>1, <1>10 DEF Reclaim, At, InHand, Claimed
  <2>2. CASE Reply(w, "retry", Nil) /\ UNCHANGED attempt
    BY <1>3, <2>2
  <2>3. CASE /\ Reclaimable(t.row) /\ attempt' = [attempt EXCEPT ![t.row].live = TRUE]
             /\ Goto(w, "execute") /\ Silent
    <3>1. PICK u : u = [t EXCEPT !.at = "execute"]
      OBVIOUS
    <3>2. /\ worker' = [worker EXCEPT ![w] = u] /\ u.at = "execute" /\ u.row = t.row
          /\ u.key = t.key /\ u.details = t.details
      BY <1>1, <2>3, <3>1 DEF WorkerStates, Goto
    <3>3. PICK r : r = [attempt[t.row] EXCEPT !.live = TRUE]
      OBVIOUS
    <3>4. attempt[t.row] \in Rows
      BY <2>1, RowTypes
    <3>5. /\ r \in Rows /\ r.status = attempt[t.row].status /\ r.live
          /\ r.order = attempt[t.row].order /\ r.key = attempt[t.row].key
          /\ r.details = attempt[t.row].details
      BY <3>3, <3>4 DEF Rows
    <3>6. IsOf(t.row, t) /\ attempt[t.row].status = "PROCESSING" /\ ~attempt[t.row].live
      BY <1>1, <2>1, <2>3 DEF Reclaimable, Kept, HoldInv, Answers
    <3>7. attempt[t.row].key \in Keys
          /\ \A b \in Revisions \ {t.row} : attempt[b].key # attempt[t.row].key
      BY <2>1, <3>6, OwnKey DEF Exists
    <3>8. Becomes(t.row, r)
      BY <2>1, <3>5, <3>6, <3>7 DEF Becomes
    <3>9. u.key = r.key /\ u.details = r.details
      BY <3>2, <3>5, <3>6 DEF IsOf
    <3>10. attempt' = [attempt EXCEPT ![t.row] = r]
      BY <2>3, <3>3
    <3>11. UNCHANGED <<order, granted>> /\ r.status = "PROCESSING"
      BY <1>2, <2>3, <3>5, <3>6 DEF Silent
    <3>12. QED BY <2>1, <3>2, <3>5, <3>6, <3>8, <3>9, <3>10, <3>11, KeptClaim
  <2>4. QED BY <1>1, <1>10, <2>2, <2>3 DEF Reclaim
<1>11. QED BY <1>5, <1>6, <1>7, <1>8, <1>9, <1>10

\* Who executes has the row of its request to itself.
LEMMA Alone ==
  ASSUME TypeInv, Kept, NEW w \in Workers, worker[w].at \in Executing,
         NEW t, t = worker[w]
  PROVE  /\ t \in WorkerStates /\ InHand(t) /\ t.row \in Revisions /\ Holds(t)
         /\ attempt[t.row] \in Rows /\ attempt[t.row].status = "PROCESSING"
         /\ IsOf(t.row, t)
         /\ attempt[t.row].key \in Keys
         /\ \A b \in Revisions \ {t.row} : attempt[b].key # attempt[t.row].key
         /\ \A v \in Workers \ {w} : ~Runs(v, t.row)
<1>1. t \in WorkerStates /\ InHand(t) /\ t.row \in Revisions
  BY BusyOK DEF InHand, Claimed
<1>2. Holds(t)
  BY DEF Kept, HoldInv
<1>3. attempt[t.row].status = "PROCESSING" /\ IsOf(t.row, t)
  BY <1>2 DEF Holds
<1>4. \A v \in Workers \ {w} : ~Runs(v, t.row)
  BY <1>1 DEF Kept, OneExecutor, Runs
<1>5. attempt[t.row] \in Rows
  BY <1>1, RowTypes
<1>6. Exists(t.row)
  BY <1>3 DEF Exists
<1>7. QED BY <1>1, <1>2, <1>3, <1>4, <1>5, <1>6, OwnKey

\* An execution ends, and the row it ran says so.
LEMMA KeptClose ==
  ASSUME TypeInv, Kept, Grow, NoneMade, NEW w \in Workers, worker[w].at \in Executing,
         NEW t, t = worker[w], NEW s \in {"COMPLETED", "FAILED"},
         attempt' = [attempt EXCEPT ![t.row].status = s],
         NEW u, worker' = [worker EXCEPT ![w] = u], u.at \notin Executing,
         u.at \notin {"replay", "reclaim"},
         u.at = "clear" => /\ s = "COMPLETED" /\ t.at \in HasOrder
                           /\ u.row = t.row /\ u.key = t.key /\ u.details = t.details
                           /\ u.order = t.order,
         s = "COMPLETED" => t.at \in HasOrder /\ order'[t.order].linked,
         \/ UNCHANGED granted
         \/ /\ s = "COMPLETED"
            /\ granted' = granted \cup {<<t.key, t.details, t.order>>}
  PROVE  Kept'
<1>1. PICK a : a = t.row
  OBVIOUS
<1>2. /\ t \in WorkerStates /\ InHand(t) /\ a \in Revisions /\ Holds(t)
      /\ attempt[a] \in Rows /\ attempt[a].status = "PROCESSING" /\ IsOf(a, t)
      /\ attempt[a].key \in Keys
      /\ \A b \in Revisions \ {a} : attempt[b].key # attempt[a].key
      /\ \A v \in Workers \ {w} : ~Runs(v, a)
  BY <1>1, Alone
<1>3. PICK r : r = [attempt[a] EXCEPT !.status = s]
  OBVIOUS
<1>4. /\ r \in Rows /\ r.status = s /\ r.key = attempt[a].key
      /\ r.details = attempt[a].details /\ r.order = attempt[a].order
      /\ r.live = attempt[a].live
  BY <1>2, <1>3 DEF Rows
<1>5. attempt' = [attempt EXCEPT ![a] = r]
  BY <1>1, <1>3
<1>6. t.at \in HasOrder => t.order \in OrderIds /\ r.order = t.order
  BY <1>1, <1>2, <1>4 DEF Holds, InHand
<1>7. Becomes(a, r)
  BY <1>2, <1>4, <1>6 DEF Becomes
<1>8. attempt'[a] = r /\ \A b \in Revisions : attempt'[b].order = attempt[b].order
  BY <1>2, <1>4, <1>5, RowTypes
<1>9. Holds(u)'
  BY DEF Holds
<1>10. Answers(u)'
  BY <1>1, <1>2, <1>4, <1>6, <1>8 DEF Answers, IsOf
<1>11. OrderInv'
  BY <1>8, OrderInvSame DEF Kept
<1>12. ASSUME NEW g \in granted' PROVE g \in granted \/ Recorded(g)'
  <2>1. CASE s = "COMPLETED" /\ g = <<t.key, t.details, t.order>>
    <3>1. g[1] = t.key /\ g[2] = t.details /\ g[3] = t.order
      BY <2>1
    <3>2. QED BY <1>2, <1>4, <1>6, <1>8, <2>1, <3>1 DEF Recorded, IsOf
  <2>2. QED BY <1>12, <2>1
<1>13. QED BY <1>2, <1>4, <1>5, <1>7, <1>9, <1>10, <1>11, <1>12, KeptTouch

\* The order and its attempt are tied in one transaction.
LEMMA KeptReserve ==
  ASSUME TypeInv, Kept, Grow, UNCHANGED granted, NEW w \in Workers, At(w, "reserve"),
         NEW t, t = worker[w], NEW o \in OrderIds, ~Made(o),
         order' = [order EXCEPT ![o] =
            [NoOrder EXCEPT !.status = "PENDING", !.key = t.key,
                            !.details = t.details, !.by = t.row]],
         attempt' = Pointed(t.row, o),
         worker' = [worker EXCEPT ![w].at = "provider", ![w].order = o]
  PROVE  Kept'
<1>1. PICK a : a = t.row
  OBVIOUS
<1>2. /\ t \in WorkerStates /\ a \in Revisions /\ Holds(t)
      /\ attempt[a] \in Rows /\ attempt[a].status = "PROCESSING" /\ IsOf(a, t)
      /\ attempt[a].key \in Keys
      /\ \A b \in Revisions \ {a} : attempt[b].key # attempt[a].key
      /\ \A v \in Workers \ {w} : ~Runs(v, a)
  BY <1>1, Alone DEF At, Executing
<1>3. PICK r : r = [attempt[a] EXCEPT !.order = o]
  OBVIOUS
<1>4. /\ r \in Rows /\ r.status = attempt[a].status /\ r.key = attempt[a].key
      /\ r.details = attempt[a].details /\ r.order = o /\ r.live = attempt[a].live
  BY <1>2, <1>3 DEF Rows
<1>5. attempt' = [attempt EXCEPT ![a] = r]
  BY <1>1, <1>3 DEF Pointed
<1>6. attempt[a].order = Nil /\ attempt[a].live
  BY <1>1, <1>2 DEF Holds, At, Executing
<1>7. PICK u : u = [t EXCEPT !.at = "provider", !.order = o]
  OBVIOUS
<1>8. /\ worker' = [worker EXCEPT ![w] = u] /\ u.at = "provider" /\ u.order = o
      /\ u.row = a /\ u.key = t.key /\ u.details = t.details
  BY <1>1, <1>2, <1>7 DEF WorkerStates
<1>9. \A b \in Revisions : attempt'[b] = IF b = a THEN r ELSE attempt[b]
  BY <1>5, RowTypes
<1>10. Becomes(a, r)
  BY <1>2, <1>4 DEF Becomes
<1>11. Holds(u)'
  <2>1. attempt'[u.row] = r
    BY <1>2, <1>8, <1>9
  <2>2. r.status = "PROCESSING" /\ r.live /\ r.order = u.order
        /\ r.key = u.key /\ r.details = u.details
    BY <1>2, <1>4, <1>6, <1>8 DEF IsOf
  <2>3. u.at \notin {"fresh", "reserve"}
    BY <1>8
  <2>4. QED BY <2>1, <2>2, <2>3 DEF Holds, IsOf
<1>12. Answers(u)'
  BY <1>8 DEF Answers
<1>13. OrderInv'
  <2>1. order \in [OrderIds -> OrderRows]
    BY TypeParts DEF Typed
  <2>2. order'[o].status = "PENDING" /\ order'[o].by = a
    BY <1>1, <2>1 DEF NoOrder
  <2>3. \A p \in OrderIds \ {o} : order'[p] = order[p]
    BY <2>1
  \* No order points to the row: its order was not made yet.
  <2>4. ASSUME NEW p \in OrderIds, order'[p].status # "NONE"
        PROVE  order'[p].by \in Revisions /\ attempt'[order'[p].by].order = p
    <3>1. CASE p = o
      BY <1>2, <1>4, <1>9, <2>2, <3>1
    <3>2. CASE p # o
      <4>1. order[p].by \in Revisions /\ attempt[order[p].by].order = p /\ order'[p] = order[p]
        BY <2>3, <2>4, <3>2 DEF Kept, OrderInv, Made
      <4>2. order[p].by # a
        BY <1>6, <4>1 DEF OrderIds, Nil
      <4>3. QED BY <1>9, <4>1, <4>2
    <3>3. QED BY <3>1, <3>2
  <2>5. ASSUME NEW b \in Revisions, attempt'[b].order # Nil
        PROVE  /\ order'[attempt'[b].order].status # "NONE"
               /\ order'[attempt'[b].order].by = b
    <3>1. CASE b = a
      BY <1>4, <1>9, <2>2, <3>1
    <3>2. CASE b # a
      <4>1. PICK p \in OrderIds : p = attempt[b].order /\ attempt'[b].order = p
        BY <1>9, <2>5, <3>2, RowTypes
      <4>2. Made(p) /\ order[p].by = b
        BY <4>1, <2>5, <3>2 DEF Kept, OrderInv
      <4>3. QED BY <2>3, <4>1, <4>2 DEF Made
    <3>3. QED BY <3>1, <3>2
  <2>6. QED BY <2>4, <2>5 DEF OrderInv, Made
<1>14. QED BY <1>2, <1>4, <1>5, <1>8, <1>10, <1>11, <1>12, <1>13, KeptTouch

LEMMA KeptSession ==
  ASSUME TypeInv, Kept, Grow, NEW w \in Workers,
         Execute(w) \/ Snapshot(w) \/ Reserve(w) \/ Resume(w) \/ CreateProviderOrder(w)
         \/ RefuseOrder(w) \/ Link(w) \/ ClearCart(w) \/ Replay(w) \/ Mark(w)
  PROVE  Kept'
<1>1. PICK t : t = worker[w] /\ t \in WorkerStates /\ InHand(t) /\ Holds(t) /\ Answers(t)
  BY BusyOK DEF Kept, HoldInv
<1>2. order \in [OrderIds -> OrderRows]
  BY TypeParts DEF Typed
<1> USE DEF At
\* A step to another place of the execution.
<1>3. ASSUME t.at \in Executing, UNCHANGED <<attempt, granted>>, NoneMade,
             NEW place \in {"reserve", "provider", "refuse", "link", "mark"}, Goto(w, place),
             place = "reserve" => t.at = "fresh", place \in HasOrder => t.at \in HasOrder
      PROVE  Kept'
  BY <1>1, <1>3, KeptGoto DEF Executing, Places
<1>4. CASE Execute(w)
  <2>1. t.at = "execute" /\ t.row \in Revisions /\ UNCHANGED <<attempt, order, granted>>
    BY <1>1, <1>4 DEF Execute, Silent, InHand, Claimed, Executing
  <2>2. PICK o : o = attempt[t.row].order
    OBVIOUS
  <2>3. PICK u : u = [t EXCEPT !.at = IF o = Nil THEN "fresh" ELSE "resume", !.order = o]
    OBVIOUS
  <2>4. /\ worker' = [worker EXCEPT ![w] = u] /\ u.order = o /\ u.row = t.row
        /\ u.at = (IF o = Nil THEN "fresh" ELSE "resume")
        /\ u.key = t.key /\ u.details = t.details
    BY <1>1, <1>4, <2>2, <2>3 DEF Execute, WorkerStates
  <2>5. attempt[t.row].status = "PROCESSING" /\ attempt[t.row].live /\ IsOf(t.row, t)
    BY <1>1, <2>1 DEF Holds, Executing
  <2>6. Holds(u)
    BY <2>2, <2>4, <2>5 DEF Holds, IsOf, HasOrder
  <2>7. Answers(u)
    BY <2>4 DEF Answers
  <2>8. t.at \in Executing
    BY <2>1 DEF Executing
  <2>9. QED BY <1>1, <2>1, <2>4, <2>6, <2>7, <2>8, SameOrders, KeptMove
<1>5. CASE Snapshot(w)
  BY <1>1, <1>3, <1>5, SameOrders DEF Snapshot, Silent, Executing, HasOrder
<1>6. CASE Reserve(w)
  <2>1. CASE Goto(w, "mark") /\ UNCHANGED <<order, attempt>>
    BY <1>1, <1>3, <1>6, <2>1, SameOrders DEF Reserve, Silent, Executing, HasOrder
  <2>2. ASSUME NEW o \in OrderIds, ~Made(o),
               order' = [order EXCEPT ![o] =
                  [NoOrder EXCEPT !.status = "PENDING", !.key = t.key,
                                  !.details = t.details, !.by = t.row]],
               attempt' = Pointed(t.row, o),
               worker' = [worker EXCEPT ![w].at = "provider", ![w].order = o]
        PROVE  Kept'
    <3>1. At(w, "reserve") /\ UNCHANGED granted
      BY <1>6 DEF Reserve, Silent
    <3>2. QED BY <1>1, <2>2, <3>1, KeptReserve
  <2>3. QED BY <1>1, <1>6, <2>1, <2>2 DEF Reserve
<1>7. CASE Resume(w)
  <2>1. /\ t.at = "resume" /\ t.at \in Executing /\ t.at \in HasOrder
        /\ t.order \in OrderIds /\ UNCHANGED order
    BY <1>1, <1>7 DEF Resume, InHand, Executing, HasOrder
  <2>2. CASE /\ order[t.order].linked
             /\ attempt' = [attempt EXCEPT ![t.row].status = "COMPLETED"]
             /\ Reply(w, "session", t.order)
    <3>1. /\ worker' = [worker EXCEPT ![w] = Idle]
          /\ granted' = granted \cup {<<t.key, t.details, t.order>>}
      BY <1>1, <2>2 DEF Reply
    <3>2. Idle.at = "idle"
      BY DEF Idle
    <3>3. order'[t.order].linked
      BY <2>1, <2>2
    <3>4. QED BY <1>1, <2>1, <2>2, <3>1, <3>2, <3>3, HoldsIdle, SameOrders, KeptClose
  <2>3. ASSUME NEW place \in {"provider", "mark"}, Goto(w, place), Silent, UNCHANGED attempt
        PROVE  Kept'
    BY <1>1, <1>3, <2>1, <2>3, SameOrders DEF Silent
  <2>4. QED BY <1>1, <1>7, <2>2, <2>3 DEF Resume
<1>8. CASE CreateProviderOrder(w)
  <2>1. t.at \in Executing /\ t.at \in HasOrder /\ t.at # "fresh" /\ UNCHANGED <<attempt, order, granted>>
    BY <1>1, <1>8 DEF CreateProviderOrder, Silent, Executing, HasOrder
  <2>2. QED BY <1>3, <1>8, <2>1, SameOrders DEF CreateProviderOrder
<1>9. CASE RefuseOrder(w)
  <2>1. NoneMade
    BY <1>2, <1>9 DEF RefuseOrder, NoneMade, MadeNext, Made, OrderRows
  <2>2. QED BY <1>1, <1>3, <1>9, <2>1 DEF RefuseOrder, Silent, Executing, HasOrder
<1>10. CASE Link(w)
  <2>1. /\ t.at = "link" /\ t.at \in Executing /\ t.at \in HasOrder
        /\ t.order \in OrderIds /\ UNCHANGED granted
    BY <1>1, <1>10 DEF Link, Silent, InHand, Executing, HasOrder
  <2>2. CASE Goto(w, "mark") /\ UNCHANGED <<order, attempt>>
    BY <1>3, <2>1, <2>2, SameOrders DEF HasOrder
  <2>3. CASE /\ order' = [order EXCEPT ![t.order].linked = TRUE]
             /\ attempt' = [attempt EXCEPT ![t.row].status = "COMPLETED"]
             /\ Goto(w, "clear")
    <3>1. PICK u : u = [t EXCEPT !.at = "clear"]
      OBVIOUS
    <3>2. /\ worker' = [worker EXCEPT ![w] = u] /\ u.at = "clear" /\ u.row = t.row
          /\ u.key = t.key /\ u.details = t.details /\ u.order = t.order
      BY <1>1, <2>3, <3>1 DEF Goto, WorkerStates
    <3>3. order'[t.order].linked /\ NoneMade
      BY <1>2, <2>1, <2>3 DEF NoneMade, MadeNext, Made, OrderRows
    <3>4. u.at \notin Executing
      BY <3>2 DEF Executing
    <3>5. QED BY <1>1, <2>1, <2>3, <3>2, <3>3, <3>4, KeptClose
  <2>4. QED BY <1>1, <1>10, <2>2, <2>3 DEF Link
\* The row of the request is completed with the order that is answered.
<1>11. ASSUME t.row \in Revisions, NEW o, attempt[t.row].order = o,
              attempt[t.row].status = "COMPLETED", IsOf(t.row, t),
              Reply(w, "session", o), UNCHANGED <<attempt, order>>
       PROVE  Kept'
  <2>1. PICK g : g = <<t.key, t.details, o>>
    OBVIOUS
  <2>2. g[1] = t.key /\ g[2] = t.details /\ g[3] = o
    BY <2>1
  <2>3. Recorded(g)
    BY <1>11, <2>2 DEF Recorded, IsOf
  <2>4. QED BY <1>1, <1>11, <2>1, <2>3, SameOrders, KeptReply
<1>12. CASE ClearCart(w)
  <2>1. t.at = "clear" /\ Reply(w, "session", t.order) /\ UNCHANGED <<attempt, order>>
    BY <1>1, <1>12 DEF ClearCart
  <2>2. QED BY <1>1, <1>11, <2>1 DEF InHand, Claimed, Answers
<1>13. CASE Replay(w)
  <2>1. t.at = "replay" /\ t.row \in Revisions /\ UNCHANGED <<attempt, order>>
    BY <1>1, <1>13 DEF Replay, InHand, Claimed
  <2>2. CASE Reply(w, "session", attempt[t.row].order)
    BY <1>1, <1>11, <2>1, <2>2 DEF Answers
  <2>3. CASE Reply(w, "refused", Nil)
    BY <2>1, <2>3, SameOrders, KeptReply
  <2>4. QED BY <1>1, <1>13, <2>2, <2>3 DEF Replay
<1>14. CASE Mark(w)
  <2>1. t.at = "mark" /\ t.at \in Executing /\ Reply(w, "refused", Nil) /\ UNCHANGED order
    BY <1>1, <1>14 DEF Mark, Executing
  <2>2. CASE UNCHANGED attempt
    BY <2>1, <2>2, SameOrders, KeptReply
  <2>3. CASE attempt' = [attempt EXCEPT ![t.row].status =
                           IF @ = "PROCESSING" THEN "FAILED" ELSE @]
    <3>1. attempt[t.row].status = "PROCESSING"
      BY <1>1, <2>1 DEF Holds
    <3>2. attempt' = [attempt EXCEPT ![t.row].status = "FAILED"]
      BY <2>3, <3>1
    <3>3. worker' = [worker EXCEPT ![w] = Idle] /\ UNCHANGED granted
      BY <2>1 DEF Reply
    <3>4. Idle.at = "idle"
      BY DEF Idle
    <3>5. QED BY <1>1, <2>1, <3>2, <3>3, <3>4, HoldsIdle, SameOrders, KeptClose
  <2>4. QED BY <1>1, <1>14, <2>2, <2>3 DEF Mark
<1>15. QED BY <1>4, <1>5, <1>6, <1>7, <1>8, <1>9, <1>10, <1>12, <1>13, <1>14

\* A lease that runs out while nobody runs its row takes nothing from anyone.
LEMMA KeptLease ==
  ASSUME TypeInv, Kept, NEW a \in Revisions, LeaseRunsOut(a)
  PROVE  Kept'
<1>1. /\ attempt[a].live /\ attempt' = [attempt EXCEPT ![a].live = FALSE]
      /\ UNCHANGED <<order, worker, granted>>
      /\ \A v \in Workers : ~Runs(v, a) /\ ~(At(v, "reclaim") /\ worker[v].row = a)
  BY DEF LeaseRunsOut, LeaseEnds
<1>2. PICK r : r = [attempt[a] EXCEPT !.live = FALSE]
  OBVIOUS
<1>3. attempt[a] \in Rows
  BY RowTypes
<1>4. /\ r \in Rows /\ r.status = attempt[a].status /\ r.key = attempt[a].key
      /\ r.details = attempt[a].details /\ r.order = attempt[a].order /\ ~r.live
  BY <1>2, <1>3 DEF Rows
<1>5. Exists(a)
  BY <1>1 DEF Kept, RowInv, NoRow
<1>6. r.status = "COMPLETED" => r.order \in OrderIds /\ order'[r.order].linked
  BY <1>1, <1>4, RowTypes DEF Kept, CompletedIsLinked
<1>7. Becomes(a, r)
  BY <1>4, <1>5, <1>6, OwnKey DEF Becomes, Exists
<1>8. attempt' = [attempt EXCEPT ![a] = r]
  BY <1>1, <1>2
<1>9. RowInv' /\ CompletedIsLinked' /\ \A s \in granted : Recorded(s)'
  BY <1>1, <1>7, <1>8, SameOrders, RowsTouched
<1>10. HoldInv'
  <2>1. ASSUME NEW v \in Workers PROVE (Holds(worker[v]) /\ Answers(worker[v]))'
    <3>1. PICK t : t = worker[v] /\ t = worker'[v]
      BY <1>1
    <3>2. Holds(t)' /\ Answers(t)'
      BY <1>1, <1>7, <1>8, <3>1, OthersHold
    <3>3. QED BY <3>1, <3>2 DEF Holds, Answers, IsOf, Exists
  <2>2. QED BY <2>1 DEF HoldInv
<1>11. OrderInv'
  <2>1. \A b \in Revisions : attempt'[b].order = attempt[b].order
    BY <1>4, <1>8, RowTypes
  <2>2. QED BY <1>1, <2>1, SameOrders, OrderInvSame DEF Kept
<1>12. OneExecutor'
  BY <1>1 DEF Kept, OneExecutor, Runs
<1>13. SessionIsRecorded'
  BY <1>1, <1>9 DEF SessionIsRecorded, Recorded
<1>14. QED BY <1>9, <1>10, <1>11, <1>12, <1>13 DEF Kept

LEMMA KeptStep == TypeInv /\ Always /\ Kept /\ [Next]_vars /\ ~late' => Kept'
<1> SUFFICES ASSUME TypeInv, Always, Kept, [Next]_vars, ~late' PROVE Kept'
  OBVIOUS
<1>1. Grow
  BY OrdersGrow
<1>2. order \in [OrderIds -> OrderRows]
  BY TypeParts DEF Typed
<1>3. ASSUME NoneMade, UNCHANGED <<attempt, worker, granted>> PROVE Kept'
  BY <1>1, <1>3, KeptStill
<1>4. ASSUME NEW t \in Tabs, Page(t) PROVE Kept'
  <2>1. ASSUME NEW w \in Workers, NEW d \in Details, PressPay(t, w, d) PROVE Kept'
    <3>1. PICK k : k = tab'[t].key
      OBVIOUS
    <3>2. PICK u : u = [Idle EXCEPT !.at = "revision", !.tab = t, !.key = k, !.details = d]
      OBVIOUS
    <3>3. worker' = [worker EXCEPT ![w] = u] /\ u.at = "revision"
      BY <2>1, <3>1, <3>2 DEF PressPay, Idle
    <3>4. Holds(u) /\ Answers(u) /\ u.at \notin Executing
      BY <3>3 DEF Holds, Answers, Executing
    <3>5. QED BY <1>1, <2>1, <3>3, <3>4, SameOrders, KeptMove DEF PressPay
  <2>2. CASE Pay(t)
    <3>1. NoneMade
      BY <1>2, <2>2 DEF Pay, OrderRows, NoneMade, MadeNext, Made
    <3>2. QED BY <1>3, <2>2, <3>1 DEF Pay
  <2>3. QED BY <1>3, <1>4, <2>1, <2>2, SameOrders DEF Page, LoseAnswer, Leave
<1>5. ASSUME NEW w \in Workers, Handle(w) PROVE Kept'
  BY <1>1, <1>5, KeptAcquire, KeptSession DEF Handle
<1>6. ASSUME NEW w \in Workers, Crash(w) PROVE Kept'
  BY <1>1, <1>6, SameOrders, KeptReply DEF Crash
<1>7. ASSUME NEW a \in Revisions, LeaseRunsOut(a) PROVE Kept'
  BY <1>7, KeptLease
<1>8. ASSUME NEW a \in Revisions, Outlive(a) PROVE Kept'
  BY <1>8 DEF Outlive
<1>9. ASSUME NEW o \in OrderIds, NEW expires \in BOOLEAN, EndOrder(o, expires) PROVE Kept'
  <2>1. NoneMade
    BY <1>2, <1>9 DEF EndOrder, OrderRows, NoneMade, MadeNext, Made
  <2>2. QED BY <1>3, <1>9, <2>1 DEF EndOrder
<1>10. ASSUME NEW full \in BOOLEAN, EditCart(full) PROVE Kept'
  BY <1>3, <1>10, SameOrders DEF EditCart
<1>11. CASE UNCHANGED vars
  BY <1>3, <1>11, SameOrders DEF vars
<1>12. QED BY <1>4, <1>5, <1>6, <1>7, <1>8, <1>9, <1>10, <1>11 DEF Next

LEMMA InitInv == Init => Inv
<1> SUFFICES ASSUME Init PROVE Inv
  OBVIOUS
<1>1. TypeInv
  BY InitType
<1>2. \A w \in Workers : worker[w] = Idle
  BY DEF Init
<1>3. \A o \in OrderIds : order[o].status = "NONE" /\ ~order[o].linked
  BY DEF Init, NoOrder
<1>4. \A a \in Revisions : attempt[a] = NoRow
  BY DEF Init
<1>5. Idle.at = "idle" /\ Idle.at \notin Executing /\ Idle.at \notin HasOrder
  BY DEF Idle, Executing, HasOrder
<1>6. NoRow.status = "NONE" /\ NoRow.order = Nil
  BY DEF NoRow
<1>7. Always
  BY <1>2, <1>3, <1>4, <1>5, <1>6
  DEF Init, Always, Clears, At, Pointers, SessionIsLinked
<1>8. RowInv /\ CompletedIsLinked
  BY <1>4, <1>6 DEF RowInv, CompletedIsLinked, Exists
<1>9. HoldInv
  BY <1>2, HoldsIdle DEF HoldInv
<1>10. OrderInv
  BY <1>3, <1>4, <1>6 DEF OrderInv, Made
<1>11. OneExecutor /\ SessionIsRecorded
  BY <1>2, <1>5 DEF Init, OneExecutor, Runs, SessionIsRecorded
<1>12. QED BY <1>1, <1>7, <1>8, <1>9, <1>10, <1>11 DEF Inv, Kept

\* A handler that has outlived its lease stays late.
LEMMA StaysLate == TypeInv /\ [Next]_vars /\ ~late' => ~late
<1> SUFFICES ASSUME TypeInv, [Next]_vars PROVE late' = late \/ late' = TRUE
  OBVIOUS
<1>1. ASSUME NEW w \in Workers, Handle(w) PROVE UNCHANGED late
  BY <1>1
  DEF Handle, ReadRevision, InsertAttempt, FindByKey, FindByCart, Recycle, Reclaim, Execute,
      Snapshot, Reserve, Resume, CreateProviderOrder, RefuseOrder, Link, ClearCart, Replay, Mark
<1>2. ASSUME NEW t \in Tabs, Page(t) PROVE UNCHANGED late
  BY <1>2 DEF Page, PressPay, LoseAnswer, Leave, Pay
<1>3. QED BY <1>1, <1>2 DEF Next, vars, Crash, LeaseRunsOut, Outlive, EditCart, EndOrder

\* One press of the pay button reserves stock once and opens one payment for
\* every number of pages, handlers, retries, crashes and lost answers
\* (acquireCheckoutAttempt and createCheckoutSession), as long as no handler
\* outlives its lease; and the payment opened is always one the provider knows.
THEOREM OnePaymentTheorem == Spec => []OnePaymentPerAttempt
<1>1. Inv /\ [Next]_vars => Inv'
  BY NextType, AlwaysKept, KeptStep, StaysLate DEF Inv
<1>2. Kept => OneOrderPerAttempt
  BY DEF Kept, OrderInv, OneOrderPerAttempt
<1>3. Inv => OnePaymentPerAttempt
  BY <1>2 DEF Inv, Always, Kept, OnePaymentPerAttempt
<1>4. QED BY <1>1, <1>3, InitInv, PTL DEF Spec
=============================================================================
