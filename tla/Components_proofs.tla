-------------------------- MODULE Components_proofs --------------------------
(***************************************************************************)
(* Proofs about components that share no state: each is an instance of its *)
(* module over the variables of its own names.                             *)
(*   Client   ProviderClient  what callers are told of orders and refunds  *)
(*   Bundles  BundleAdmin     what is stored after partial saves           *)
(*   Limits   RateLimit       what a window lets through                   *)
(*   Alerts   StockAlerts     who is told that a variant is back           *)
(*   Cache    TaggedCache     what an invalidation reaches                 *)
(*   Booking  CourierBooking  what a booking that is resumed comes to      *)
(*   Accounts AccountLifecycle  what a deletion of an account excludes     *)
(*   Parcel   ShipmentTracking  how parcels and their order move           *)
(*   Renewals Subscriptions   what a schedule of renewals has moved past   *)
(***************************************************************************)
EXTENDS Integers, Sequences, TLAPS

CONSTANTS
  Callers, MaxAttempts, MaxCalls, MaxBusy, Busy,
  Admins, Variants, Prices, TypedValues, MaxQuantity, Stocks, MaxTime, FirstRow, Edited,
  MaxEdits, MaxRequests, MaxMoves, MaxLost, Overlapping, None,
  Requests, Limit, Window, Base, BackoffMax, MaxFaults,
  Customers, MaxStock, MaxVersions, Releases,
  Keys, Ttl, Grace, Readers, Writers, MaxWrites, SlowLoads, SlowClears,
  Workers, MaxOrders, SlowCalls, Cancels,
  Users, Emails, Orders, FirstEmail, MaxRestores, SlowRestores, SlowCheckouts, Changes,
  Courier, Manual, Reported, MaxScans, Operations,
  Subs, Offers, Short, MaxPeriods, MaxChains, MaxControls, MaxOffers, SlowControls, SlowEnroll

VARIABLES
  refuses, orders, refunds, call, late, calls, busy,
  row, variant, now, page, edits, requests, moves, lost,
  count, violations, blocked, place, seen, served, faults,
  stock, alert, queued, delivered, asking, editing,
  data, cache, tag, worker,
  bookable, booking, shipments, created, awbs, pickups, cancelled, abandoned,
  status, due, email, pending, expired, identity, links, order, restores,
  setBy, scans, journey, refund, lock,
  plan, offer, nextDate, chains, passed, renewal, notified, controls, offers

Client == INSTANCE ProviderClient
Bundles == INSTANCE BundleAdmin
Limits == INSTANCE RateLimit WITH at <- place
Alerts == INSTANCE StockAlerts
Cache == INSTANCE TaggedCache
Booking == INSTANCE CourierBooking
Accounts == INSTANCE AccountLifecycle
Parcel == INSTANCE ShipmentTracking
Renewals == INSTANCE Subscriptions WITH next <- nextDate

-----------------------------------------------------------------------------
(* ProviderClient: the shape of a call and what its answer and result say. *)

Answers == [status : Nat, found : 0..1, odd : BOOLEAN]
Codes == {"unavailable", "timeout", "error", "contract"}
ClientCalls ==
  [at : {"idle", "sent", "answered", "pause", "done"}, op : {"none", "create", "refund"},
   step : {"none", "create", "refund", "lookup"}, attempt : Nat, answer : Answers,
   first : Codes \cup {"none"}, lookup : {"none", "answered", "failed"}, lost : BOOLEAN,
   result : Codes \cup {"none", "ok"}]

\* A call asks for what it is about, and looks up only what it asked to create.
StepOK(t) ==
  /\ t.at # "idle" => t.op \in {"create", "refund"} /\ t.step \in {t.op, "lookup"}
  /\ t.step = "lookup" => t.op = "create" /\ t.first \in Codes
  /\ t.at # "done" <=> t.result = "none"

\* An answer that was received, and a result, say what the provider did: it
\* refuses no, has made made orders and refunded the keys paid.
AnswerOK(t, no, made, paid) ==
  t.at = "answered" =>
    /\ t.answer.status \in {200, 400, 422} \cup Busy
    /\ t.answer.status = 200 /\ t.step = "create" => made = 1
    /\ t.answer.status = 200 /\ t.step = "refund" => paid # {}
    /\ t.answer.found = 1 => made = 1
    /\ t.answer.status = 400 => t.step = "create"
    /\ t.answer.status = 422 => t.step \in no
    /\ t.answer.odd => t.answer.status = 200

ResultOK(t, made, paid) ==
  t.result = "ok" => IF t.op = "create" THEN made = 1 ELSE paid # {}

\* Unless the provider puts requests off with 408 or 425, a refund fails for
\* good, and an order fails without a look at its receipt, only if refused.
Sure == Busy \subseteq {409, 429, 503}
RefusalOK(t, no) ==
  /\ Sure /\ t.op = "refund" /\ t.result = "error" => "refund" \in no
  /\ Sure /\ t.op = "create" /\ t.result \in Codes \ {"contract"} /\ t.lookup = "none" =>
       "create" \in no

CallOK(t, no, made, paid) ==
  StepOK(t) /\ AnswerOK(t, no, made, paid) /\ ResultOK(t, made, paid) /\ RefusalOK(t, no)

ProviderInv ==
  /\ refuses \subseteq {"create", "refund"}
  /\ orders \in 0..1 /\ ("create" \in refuses => orders = 0)
  /\ refunds \subseteq {0} /\ ("refund" \in refuses => refunds = {})
  /\ \A request \in late : request.step \in {"create", "refund"} /\ request.key = 0

ClientTyped == call \in [Callers -> ClientCalls]
ClientInv ==
  /\ ProviderInv /\ ClientTyped
  /\ \A c \in Callers : CallOK(call[c], refuses, orders, refunds)

\* What is made stays made.
Grows ==
  /\ refuses' = refuses
  /\ orders = 1 => orders' = 1
  /\ refunds # {} => refunds' # {}

LEMMA GrowsOK ==
  ASSUME NEW t, Grows, CallOK(t, refuses, orders, refunds)
  PROVE  CallOK(t, refuses', orders', refunds')
BY DEF Grows, CallOK, AnswerOK, ResultOK

\* A step of one call that leaves the others alone.
LEMMA CallStep ==
  ASSUME ClientInv, Grows, ProviderInv', NEW c \in Callers, NEW t \in ClientCalls,
         call' = [call EXCEPT ![c] = t], CallOK(t, refuses', orders', refunds')
  PROVE  ClientInv'
<1>1. ClientTyped'
  BY DEF ClientInv, ClientTyped
<1>2. ASSUME NEW d \in Callers PROVE CallOK(call'[d], refuses', orders', refunds')
  <2>1. CASE d = c
    BY <2>1 DEF ClientInv, ClientTyped
  <2>2. CASE d # c
    <3>1. call'[d] = call[d]
      BY <2>2 DEF ClientInv, ClientTyped
    <3> QED BY <3>1, GrowsOK DEF ClientInv
  <2> QED BY <2>1, <2>2
<1> QED BY <1>1, <1>2 DEF ClientInv

\* The provider serves a request, now or late.
LEMMA MadeOK ==
  ASSUME ProviderInv, NEW request, request.key = 0, Client!Made(request), refuses' = refuses,
         late' \subseteq late
  PROVE  /\ ProviderInv' /\ Grows
         /\ request.step = "create" /\ "create" \notin refuses => orders' = 1
         /\ request.step = "refund" /\ "refund" \notin refuses => refunds' # {}
<1>1. /\ orders' \in 0..1 /\ (orders = 1 => orders' = 1) /\ ("create" \in refuses => orders' = 0)
      /\ request.step = "create" /\ "create" \notin refuses => orders' = 1
  BY DEF ProviderInv, Client!Made
<1>2. /\ refunds' \subseteq {0} /\ (refunds # {} => refunds' # {})
      /\ "refund" \in refuses => refunds' = {}
      /\ request.step = "refund" /\ "refund" \notin refuses => refunds' # {}
  BY DEF ProviderInv, Client!Made
<1> QED BY <1>1, <1>2 DEF ProviderInv, Grows

LEMMA ProviderRests ==
  ASSUME ProviderInv, UNCHANGED <<refuses, orders, refunds>>,
         \A request \in late' : request.step \in {"create", "refund"} /\ request.key = 0
  PROVE  ProviderInv' /\ Grows
BY DEF ProviderInv, Grows

LEMMA AskOK ==
  ASSUME ClientInv, NEW c \in Callers, NEW op \in {"create", "refund"}, Client!Ask(c, op)
  PROVE  ClientInv'
<1>1. PICK t : t = Client!Begin(c, op, op)
  OBVIOUS
<1>2. /\ t \in ClientCalls /\ t.at = "sent" /\ t.op = op /\ t.step = op /\ t.result = "none"
  <2>1. t = [at |-> "sent", op |-> op, step |-> op, attempt |-> 1, answer |-> Client!NoAnswer,
             first |-> "none", lookup |-> "none", lost |-> FALSE, result |-> "none"]
    BY <1>1 DEF Client!Begin, Client!Idle
  <2>2. Client!NoAnswer \in Answers
    BY DEF Client!NoAnswer, Answers
  <2> QED BY <2>1, <2>2 DEF ClientCalls, Codes
<1>3. CallOK(t, refuses, orders, refunds)
  BY <1>2 DEF CallOK, StepOK, AnswerOK, ResultOK, RefusalOK, Codes
<1>4. ProviderInv' /\ Grows
  BY ProviderRests DEF Client!Ask, Client!provider, ClientInv, ProviderInv
<1> QED BY <1>1, <1>2, <1>3, <1>4, CallStep, GrowsOK DEF Client!Ask, Client!provider

LEMMA ServeOK ==
  ASSUME Client!ConstantsAssumption, ClientInv, NEW c \in Callers, Client!Serve(c)
  PROVE  ClientInv'
<1>0. PICK odd \in BOOLEAN :
        call' = [call EXCEPT ![c].at = "answered",
                   ![c].answer = [status |-> Client!Status(c), found |-> orders,
                                  odd |-> odd /\ Client!Status(c) = 200]]
  BY DEF Client!Serve
<1>1. PICK t :
        /\ t = [call[c] EXCEPT !.at = "answered",
                 !.answer = [status |-> Client!Status(c), found |-> orders,
                             odd |-> odd /\ Client!Status(c) = 200]]
        /\ call' = [call EXCEPT ![c] = t]
  BY <1>0 DEF ClientInv, ClientTyped, ClientCalls
<1>2. ProviderInv /\ call[c] \in ClientCalls /\ CallOK(call[c], refuses, orders, refunds)
      /\ call[c].at = "sent" /\ call[c].result = "none"
  BY DEF ClientInv, ClientTyped, Client!Serve, CallOK, StepOK
<1>3. Client!Request(c).step = call[c].step /\ Client!Request(c).key = 0
  BY DEF Client!Request, Client!Key
<1>4. /\ ProviderInv' /\ Grows /\ refuses' = refuses
      /\ call[c].step = "create" /\ "create" \notin refuses => orders' = 1
      /\ call[c].step = "refund" /\ "refund" \notin refuses => refunds' # {}
  BY <1>2, <1>3, MadeOK DEF Client!Serve
<1>5. /\ Client!Status(c) \in {200, 400, 422}
      /\ Client!Status(c) = 422 => call[c].step \in refuses
      /\ Client!Status(c) = 400 => call[c].step = "create"
      /\ Client!Status(c) = 200 => call[c].step \notin refuses
  BY DEF Client!Status
<1>6. /\ t.at = "answered" /\ t.step = call[c].step /\ t.op = call[c].op
      /\ t.first = call[c].first /\ t.result = "none" /\ t.lookup = call[c].lookup
      /\ t.answer = [status |-> Client!Status(c), found |-> orders,
                     odd |-> odd /\ Client!Status(c) = 200]
      /\ t.answer.status = Client!Status(c) /\ t.answer.found = orders
      /\ t.answer.odd => Client!Status(c) = 200
  BY <1>1, <1>2 DEF ClientCalls
<1>7. t \in ClientCalls
  <2>1. t.answer \in Answers
    BY <1>2, <1>5, <1>6 DEF Answers, ProviderInv
  <2> QED BY <1>1, <1>2, <1>6, <2>1 DEF ClientCalls
<1>8. CallOK(t, refuses', orders', refunds')
  <2>1. StepOK(t)
    BY <1>2, <1>6 DEF StepOK, CallOK
  <2>2. orders = 1 => orders' = 1
    BY <1>4 DEF Grows
  <2>3. AnswerOK(t, refuses', orders', refunds')
    BY <1>4, <1>5, <1>6, <2>2 DEF AnswerOK
  <2> QED BY <2>1, <2>3, <1>6 DEF CallOK, ResultOK, RefusalOK, Codes
<1> QED BY <1>1, <1>4, <1>7, <1>8, CallStep

LEMMA PutOffOK ==
  ASSUME Client!ConstantsAssumption, ClientInv, NEW c \in Callers, Client!PutOff(c)
  PROVE  ClientInv'
<1>0. PICK code \in Busy :
        call' = [call EXCEPT ![c].at = "answered",
                   ![c].answer = [Client!NoAnswer EXCEPT !.status = code],
                   ![c].lost = @ \/ code = 503]
  BY DEF Client!PutOff
<1> PICK gone \in BOOLEAN : gone = (call[c].lost \/ code = 503)
  OBVIOUS
<1> PICK answer : answer = [Client!NoAnswer EXCEPT !.status = code]
  OBVIOUS
<1>1. PICK t :
        /\ t = [call[c] EXCEPT !.at = "answered", !.answer = answer, !.lost = gone]
        /\ call' = [call EXCEPT ![c] = t]
  BY <1>0 DEF ClientInv, ClientTyped, ClientCalls
<1>2. ProviderInv /\ call[c] \in ClientCalls /\ CallOK(call[c], refuses, orders, refunds)
      /\ call[c].at = "sent" /\ call[c].result = "none"
  BY DEF ClientInv, ClientTyped, Client!PutOff, CallOK, StepOK
<1>3. Client!Request(c).step = call[c].step /\ Client!Request(c).key = 0
  BY DEF Client!Request, Client!Key
<1>4. ProviderInv' /\ Grows /\ refuses' = refuses
  <2>1. CASE UNCHANGED <<orders, refunds>>
    BY <2>1, <1>2, ProviderRests DEF Client!PutOff, ProviderInv
  <2>2. CASE Client!Made(Client!Request(c))
    BY <2>2, <1>2, <1>3, MadeOK DEF Client!PutOff
  <2> QED BY <2>1, <2>2 DEF Client!PutOff, Client!provider
<1>5. code \in Nat /\ code \in Busy /\ code \notin {200, 400, 422}
  BY DEF Client!ConstantsAssumption
<1>6. /\ t.at = "answered" /\ t.step = call[c].step /\ t.op = call[c].op
      /\ t.first = call[c].first /\ t.result = "none" /\ t.lookup = call[c].lookup
      /\ t.answer = [status |-> code, found |-> 0, odd |-> FALSE]
  BY <1>1, <1>2 DEF ClientCalls, Client!NoAnswer
<1>7. t \in ClientCalls
  <2>1. t.answer \in Answers
    BY <1>5, <1>6 DEF Answers
  <2> QED BY <1>1, <1>2, <1>6, <2>1 DEF ClientCalls
<1>8. CallOK(t, refuses', orders', refunds')
  <2>1. StepOK(t)
    BY <1>2, <1>6 DEF StepOK, CallOK
  <2>2. AnswerOK(t, refuses', orders', refunds')
    BY <1>5, <1>6 DEF AnswerOK
  <2> QED BY <2>1, <2>2, <1>6 DEF CallOK, ResultOK, RefusalOK, Codes
<1> QED BY <1>1, <1>4, <1>7, <1>8, CallStep

\* A caller that was done, retries, looks up the receipt, or is done with an
\* answer: what its call holds is still so.
LEMMA DoneOK ==
  ASSUME NEW c, call[c] \in ClientCalls, CallOK(call[c], refuses, orders, refunds),
         call[c].at \in {"sent", "answered"}, NEW result \in Codes \cup {"ok"},
         NEW lookup \in {call[c].lookup, "answered", "failed"},
         result = "ok" => IF call[c].op = "create" THEN orders = 1 ELSE refunds # {},
         Sure /\ call[c].op = "refund" /\ result = "error" => "refund" \in refuses,
         Sure /\ call[c].op = "create" /\ result \in Codes \ {"contract"} /\ lookup = "none" =>
           "create" \in refuses,
         NEW t, t = [Client!Done(c, result) EXCEPT !.lookup = lookup]
  PROVE  t \in ClientCalls /\ CallOK(t, refuses, orders, refunds)
<1>2. /\ t \in ClientCalls /\ t.at = "done" /\ t.result = result /\ t.lookup = lookup
      /\ t.op = call[c].op /\ t.step = call[c].step /\ t.first = call[c].first
  BY DEF Client!Done, ClientCalls, Codes
<1>3. StepOK(t)
  BY <1>2 DEF StepOK, CallOK, Codes
<1>4. CallOK(t, refuses, orders, refunds)
  BY <1>2, <1>3 DEF CallOK, AnswerOK, ResultOK, RefusalOK, Codes
<1> QED BY <1>2, <1>4

LEMMA DoneAsWas ==
  ASSUME NEW c, call[c] \in ClientCalls, NEW result \in Codes \cup {"ok"}
  PROVE  Client!Done(c, result) = [Client!Done(c, result) EXCEPT !.lookup = call[c].lookup]
BY DEF Client!Done, ClientCalls

LEMMA LookUpOK ==
  ASSUME NEW c, call[c] \in ClientCalls, CallOK(call[c], refuses, orders, refunds),
         call[c].at \in {"sent", "answered"}, call[c].step = "create", NEW code \in Codes
  PROVE  /\ Client!LookUp(c, code) \in ClientCalls
         /\ CallOK(Client!LookUp(c, code), refuses, orders, refunds)
<1>1. PICK t : t = Client!LookUp(c, code)
  OBVIOUS
<1>2. Client!NoAnswer \in Answers
  BY DEF Client!NoAnswer, Answers
<1>3. /\ t \in ClientCalls /\ t.at = "sent" /\ t.step = "lookup" /\ t.first = code
      /\ t.op = call[c].op /\ t.result = call[c].result
  BY <1>1, <1>2 DEF Client!LookUp, ClientCalls
<1>4. call[c].op = "create" /\ call[c].result = "none"
  BY DEF CallOK, StepOK
<1>5. CallOK(t, refuses, orders, refunds)
  BY <1>3, <1>4 DEF CallOK, StepOK, AnswerOK, ResultOK, RefusalOK, Codes
<1> QED BY <1>1, <1>3, <1>5

LEMMA FailedOK ==
  ASSUME NEW c, call[c] \in ClientCalls, CallOK(call[c], refuses, orders, refunds),
         call[c].at \in {"sent", "answered"}, NEW code \in Codes, NEW ambiguous \in BOOLEAN,
         Sure /\ call[c].op = "refund" /\ code = "error" => "refund" \in refuses,
         Sure /\ call[c].step = "create" /\ ~ambiguous /\ code # "contract" =>
           "create" \in refuses
  PROVE  /\ Client!Failed(c, code, ambiguous) \in ClientCalls
         /\ CallOK(Client!Failed(c, code, ambiguous), refuses, orders, refunds)
<1>1. StepOK(call[c])
  BY DEF CallOK
<1>2. CASE call[c].step = "lookup"
  <2>1. PICK result \in Codes : result = IF call[c].first = "timeout" THEN "timeout" ELSE code
    BY DEF Codes
  <2>2. call[c].op = "create"
    BY <1>1, <1>2 DEF StepOK
  <2>3. Client!Failed(c, code, ambiguous) = [Client!Done(c, result) EXCEPT !.lookup = "failed"]
    BY <1>2, <2>1 DEF Client!Failed, Client!LookupFailed
  <2> QED BY <2>1, <2>2, <2>3, DoneOK DEF Codes
<1>3. CASE call[c].step = "create" /\ ambiguous
  BY <1>3, LookUpOK DEF Client!Failed, Client!MainFailed
<1>4. CASE call[c].step # "lookup" /\ ~(call[c].step = "create" /\ ambiguous)
  <2>1. Client!Failed(c, code, ambiguous) = Client!Done(c, code)
    BY <1>4 DEF Client!Failed, Client!MainFailed
  <2>2. call[c].step = call[c].op /\ code # "ok"
    BY <1>1, <1>4 DEF StepOK, Codes
  <2>3. Sure /\ call[c].op = "create" /\ code \in Codes \ {"contract"} => "create" \in refuses
    BY <1>4, <2>2
  <2> QED BY <2>1, <2>2, <2>3, DoneOK, DoneAsWas
<1> QED BY <1>2, <1>3, <1>4

LEMMA SucceededOK ==
  ASSUME NEW c, call[c] \in ClientCalls, CallOK(call[c], refuses, orders, refunds),
         call[c].at = "answered", call[c].answer.status = 200
  PROVE  /\ Client!Succeeded(c) \in ClientCalls
         /\ CallOK(Client!Succeeded(c), refuses, orders, refunds)
<1>1. StepOK(call[c]) /\ AnswerOK(call[c], refuses, orders, refunds)
  BY DEF CallOK
<1>2. CASE call[c].step = "lookup"
  <2>1. call[c].op = "create" /\ call[c].first \in Codes
    BY <1>1, <1>2 DEF StepOK
  <2>2. PICK result \in Codes \cup {"ok"} :
          result = IF Client!Found(c) THEN "ok" ELSE call[c].first
    BY <2>1
  <2>3. result = "ok" => orders = 1
    BY <1>1, <2>1, <2>2 DEF AnswerOK, Client!Found, Codes
  <2>4. Client!Succeeded(c) = [Client!Done(c, result) EXCEPT !.lookup = "answered"]
    BY <1>2, <2>2 DEF Client!Succeeded
  <2> QED BY <2>1, <2>2, <2>3, <2>4, DoneOK
<1>3. CASE call[c].step # "lookup"
  <2>1. Client!Succeeded(c) = Client!Done(c, "ok")
    BY <1>3 DEF Client!Succeeded
  <2>2. IF call[c].op = "create" THEN orders = 1 ELSE refunds # {}
    BY <1>1, <1>3 DEF StepOK, AnswerOK
  <2> QED BY <2>1, <2>2, DoneOK, DoneAsWas DEF Codes
<1> QED BY <1>2, <1>3

LEMMA RetryOK ==
  ASSUME NEW c, call[c] \in ClientCalls, CallOK(call[c], refuses, orders, refunds),
         call[c].at \in {"sent", "answered"}
  PROVE  /\ Client!Retry(c) \in ClientCalls
         /\ CallOK(Client!Retry(c), refuses, orders, refunds)
<1>1. PICK t : t = Client!Retry(c)
  OBVIOUS
<1>2. Client!NoAnswer \in Answers
  BY DEF Client!NoAnswer, Answers
<1>3. /\ t \in ClientCalls /\ t.at = "pause" /\ t.step = call[c].step /\ t.first = call[c].first
      /\ t.op = call[c].op /\ t.result = call[c].result
  BY <1>1, <1>2 DEF Client!Retry, ClientCalls
<1>4. CallOK(t, refuses, orders, refunds)
  BY <1>3 DEF CallOK, StepOK, AnswerOK, ResultOK, RefusalOK, Codes
<1> QED BY <1>1, <1>3, <1>4

LEMMA LostOK ==
  ASSUME NEW t \in ClientCalls, CallOK(t, refuses, orders, refunds)
  PROVE  /\ [t EXCEPT !.lost = TRUE] \in ClientCalls
         /\ CallOK([t EXCEPT !.lost = TRUE], refuses, orders, refunds)
<1>1. PICK s : s = [t EXCEPT !.lost = TRUE]
  OBVIOUS
<1>2. /\ s \in ClientCalls /\ s.at = t.at /\ s.op = t.op /\ s.step = t.step /\ s.first = t.first
      /\ s.answer = t.answer /\ s.result = t.result /\ s.lookup = t.lookup
  BY <1>1 DEF ClientCalls
<1>3. CallOK(s, refuses, orders, refunds)
  BY <1>2 DEF CallOK, StepOK, AnswerOK, ResultOK, RefusalOK
<1> QED BY <1>1, <1>2, <1>3

LEMMA SureIsAmbiguous ==
  Sure => \A code \in Busy \cup {400} : code \in Client!Ambiguous
BY DEF Sure, Client!Ambiguous

LEMMA ReceiveOK ==
  ASSUME Client!ConstantsAssumption, ClientInv, NEW c \in Callers, Client!Receive(c)
  PROVE  ClientInv'
<1>1. /\ call[c] \in ClientCalls /\ CallOK(call[c], refuses, orders, refunds)
      /\ call[c].at = "answered" /\ StepOK(call[c])
      /\ AnswerOK(call[c], refuses, orders, refunds)
  BY DEF ClientInv, ClientTyped, Client!Receive, CallOK
<1>2. PICK t :
        /\ call' = [call EXCEPT ![c] = t]
        /\ t = IF call[c].answer.odd THEN Client!Failed(c, "contract", FALSE)
               ELSE IF call[c].answer.status = 200 THEN Client!Succeeded(c)
               ELSE IF call[c].answer.status \in Client!Retryable /\ Client!AttemptLeft(c)
                    THEN Client!Retry(c)
               ELSE Client!Failed(c, Client!CodeOf(call[c].answer.status),
                                  call[c].answer.status \in Client!Ambiguous)
  BY DEF Client!Receive
<1>3. t \in ClientCalls /\ CallOK(t, refuses, orders, refunds)
  <2>1. CASE t = Client!Failed(c, "contract", FALSE)
    BY <2>1, <1>1, FailedOK DEF Codes
  <2>2. CASE call[c].answer.status = 200 /\ t = Client!Succeeded(c)
    BY <2>2, <1>1, SucceededOK
  <2>3. CASE t = Client!Retry(c)
    BY <2>3, <1>1, RetryOK
  <2>4. ASSUME call[c].answer.status # 200,
               t = Client!Failed(c, Client!CodeOf(call[c].answer.status),
                                 call[c].answer.status \in Client!Ambiguous)
        PROVE  t \in ClientCalls /\ CallOK(t, refuses, orders, refunds)
    <3> PICK code : code = Client!CodeOf(call[c].answer.status)
      OBVIOUS
    <3>0. PICK ambiguous \in BOOLEAN :
            /\ ambiguous <=> call[c].answer.status \in Client!Ambiguous
            /\ t = Client!Failed(c, code, ambiguous)
      <4>1. CASE call[c].answer.status \in Client!Ambiguous
        <5>1. t = Client!Failed(c, code, TRUE)
          BY <2>4, <4>1, Zenon
        <5> QED BY <4>1, <5>1
      <4>2. CASE call[c].answer.status \notin Client!Ambiguous
        <5>1. (call[c].answer.status \in Client!Ambiguous) = FALSE
          BY <4>2
        <5>2. t = Client!Failed(c, code, FALSE)
          BY <2>4, <5>1, Zenon
        <5> QED BY <4>2, <5>2
      <4> QED BY <4>1, <4>2
    <3>1. code = Client!CodeOf(call[c].answer.status) /\ call[c].answer.status # 200
      BY <2>4
    <3>2. code \in Codes
      BY <3>1 DEF Client!CodeOf, Codes
    <3>3. Sure /\ call[c].op = "refund" /\ code = "error" => "refund" \in refuses
      <4>1. ASSUME Sure, call[c].op = "refund", code = "error" PROVE "refund" \in refuses
        <5>1. call[c].step = "refund"
          BY <1>1, <4>1 DEF StepOK
        <5>2. call[c].answer.status = 422
          <6>1. call[c].answer.status \in {200, 422} \cup Busy
            BY <1>1, <5>1 DEF AnswerOK
          <6> QED BY <3>1, <4>1, <6>1 DEF Sure, Client!CodeOf, Client!Unsure
        <5> QED BY <1>1, <5>1, <5>2 DEF AnswerOK
      <4> QED BY <4>1
    <3>4. Sure /\ call[c].step = "create" /\ ~ambiguous /\ code # "contract" =>
            "create" \in refuses
      <4>1. ASSUME Sure, call[c].step = "create", ~ambiguous PROVE "create" \in refuses
        <5>1. call[c].answer.status \notin Client!Ambiguous
          BY <3>0, <4>1
        <5>2. call[c].answer.status = 422
          <6>1. call[c].answer.status \in {200, 400, 422} \cup Busy
            BY <1>1 DEF AnswerOK
          <6> QED BY <3>1, <4>1, <5>1, <6>1, SureIsAmbiguous
        <5> QED BY <1>1, <4>1, <5>2 DEF AnswerOK
      <4> QED BY <4>1
    <3> QED BY <1>1, <3>0, <3>2, <3>3, <3>4, FailedOK
  <2> QED BY <1>2, <2>1, <2>2, <2>3, <2>4
<1>4. ProviderInv' /\ Grows
  BY ProviderRests DEF Client!Receive, Client!provider, ClientInv, ProviderInv
<1> QED BY <1>2, <1>3, <1>4, CallStep DEF Client!Receive, Client!provider

LEMMA TimeOutOK ==
  ASSUME ClientInv, NEW c \in Callers, Client!TimeOut(c)
  PROVE  ClientInv'
<1>1. /\ call[c] \in ClientCalls /\ CallOK(call[c], refuses, orders, refunds)
      /\ call[c].at \in {"sent", "answered"} /\ StepOK(call[c])
  BY DEF ClientInv, ClientTyped, Client!TimeOut, Client!Deadline, CallOK
<1>2. PICK s, t :
        /\ call' = [call EXCEPT ![c] = t] /\ t = [s EXCEPT !.lost = TRUE]
        /\ s = IF Client!AttemptLeft(c) THEN Client!Retry(c) ELSE Client!Failed(c, "timeout", TRUE)
  BY DEF Client!TimeOut
<1>3. s \in ClientCalls /\ CallOK(s, refuses, orders, refunds)
  <2>1. CASE s = Client!Retry(c)
    BY <1>1, <2>1, RetryOK
  <2>2. CASE s = Client!Failed(c, "timeout", TRUE)
    BY <1>1, <2>2, FailedOK DEF Codes
  <2> QED BY <1>2, <2>1, <2>2
<1>4. t \in ClientCalls /\ CallOK(t, refuses, orders, refunds)
  BY <1>2, <1>3, LostOK
<1>5. \A request \in late' : request.step \in {"create", "refund"} /\ request.key = 0
  <2>1. call[c].step \in {"create", "refund", "lookup"}
    BY <1>1 DEF StepOK
  <2>2. Client!Request(c).step = call[c].step /\ Client!Request(c).key = 0
    BY DEF Client!Request, Client!Key
  <2> QED BY <2>1, <2>2 DEF Client!TimeOut, ClientInv, ProviderInv
<1>6. ProviderInv' /\ Grows
  BY <1>5, ProviderRests DEF Client!TimeOut, Client!provider, ClientInv
<1> QED BY <1>2, <1>4, <1>6, CallStep DEF Client!TimeOut, Client!provider

LEMMA ResendOK ==
  ASSUME ClientInv, NEW c \in Callers, Client!Resend(c)
  PROVE  ClientInv'
<1>1. /\ call[c] \in ClientCalls /\ CallOK(call[c], refuses, orders, refunds)
      /\ call[c].at = "pause"
  BY DEF ClientInv, ClientTyped, Client!Resend
<1> PICK n : n = call[c].attempt + 1
  OBVIOUS
<1>0. n \in Nat
  BY <1>1 DEF ClientCalls
<1>2. PICK t :
        /\ t = [call[c] EXCEPT !.at = "sent", !.attempt = n]
        /\ call' = [call EXCEPT ![c] = t]
  BY DEF Client!Resend, ClientInv, ClientTyped, ClientCalls
<1>3. /\ t \in ClientCalls /\ t.at = "sent" /\ t.op = call[c].op /\ t.step = call[c].step
      /\ t.first = call[c].first /\ t.result = call[c].result /\ t.lookup = call[c].lookup
  BY <1>0, <1>1, <1>2 DEF ClientCalls
<1>4. CallOK(t, refuses, orders, refunds)
  BY <1>1, <1>3 DEF CallOK, StepOK, AnswerOK, ResultOK, RefusalOK, Codes
<1>5. ProviderInv' /\ Grows
  BY ProviderRests DEF Client!Resend, Client!provider, ClientInv, ProviderInv
<1> QED BY <1>2, <1>3, <1>4, <1>5, CallStep DEF Client!Resend, Client!provider

LEMMA LateOK == ASSUME ClientInv, Client!Arrives \/ Client!Vanishes PROVE ClientInv'
<1>1. ProviderInv' /\ Grows /\ call' = call /\ refuses' = refuses
  <2>1. CASE Client!Arrives
    <3>1. PICK request \in late :
            /\ Client!Made(request) /\ late' = late \ {request}
            /\ UNCHANGED <<refuses, call, calls, busy>>
      BY <2>1 DEF Client!Arrives
    <3>2. request.key = 0
      BY DEF ClientInv, ProviderInv
    <3> QED BY <3>1, <3>2, MadeOK DEF ClientInv
  <2>2. CASE Client!Vanishes
    BY <2>2, ProviderRests DEF Client!Vanishes, Client!provider, ClientInv, ProviderInv
  <2> QED BY <2>1, <2>2
<1>2. \A c \in Callers : CallOK(call'[c], refuses', orders', refunds')
  BY <1>1, GrowsOK DEF ClientInv
<1> QED BY <1>1, <1>2 DEF ClientInv, ClientTyped

LEMMA ClientInit == Client!ConstantsAssumption /\ Client!Init => ClientInv
<1> SUFFICES ASSUME Client!Init PROVE ClientInv
  OBVIOUS
<1>1. ProviderInv
  BY DEF Client!Init, ProviderInv
<1>2. /\ Client!Idle \in ClientCalls /\ Client!Idle.at = "idle" /\ Client!Idle.step = "none"
      /\ Client!Idle.result = "none" /\ Client!Idle.op = "none"
  <2>1. Client!NoAnswer \in Answers
    BY DEF Client!NoAnswer, Answers
  <2> QED BY <2>1 DEF Client!Idle, ClientCalls, Codes
<1>3. CallOK(Client!Idle, refuses, orders, refunds)
  BY <1>2 DEF CallOK, StepOK, AnswerOK, ResultOK, RefusalOK, Codes
<1> QED BY <1>1, <1>2, <1>3 DEF Client!Init, ClientInv, ClientTyped

LEMMA ClientStep ==
  Client!ConstantsAssumption /\ ClientInv /\ [Client!Next]_Client!vars => ClientInv'
<1> SUFFICES ASSUME Client!ConstantsAssumption, ClientInv, [Client!Next]_Client!vars
             PROVE  ClientInv'
  OBVIOUS
<1>1. ASSUME NEW c \in Callers, NEW op \in {"create", "refund"}, Client!Ask(c, op)
      PROVE  ClientInv'
  BY <1>1, AskOK
<1>2. ASSUME NEW c \in Callers,
             \/ Client!Serve(c) \/ Client!PutOff(c) \/ Client!Receive(c)
             \/ Client!TimeOut(c) \/ Client!Resend(c)
      PROVE  ClientInv'
  BY <1>2, ServeOK, PutOffOK, ReceiveOK, TimeOutOK, ResendOK
<1>3. CASE Client!Arrives \/ Client!Vanishes
  BY <1>3, LateOK
<1>4. CASE UNCHANGED Client!vars
  BY <1>4 DEF Client!vars, ClientInv, ProviderInv, ClientTyped
<1> QED BY <1>1, <1>2, <1>3, <1>4 DEF Client!Next

\* Whatever is lost, delayed and repeated between the client and the provider
\* (razorpay.ts requestWithRetry, createOrder, refundPayment), a caller told of
\* success has the order or the refund, and one intent makes one refund.
THEOREM ToldIsMade ==
  Client!ConstantsAssumption =>
    (Client!Spec => [](Client!OkIsMade /\ Client!OneRefund))
<1> SUFFICES ASSUME Client!ConstantsAssumption
             PROVE  Client!Spec => [](Client!OkIsMade /\ Client!OneRefund)
  OBVIOUS
<1>1. Client!Init => ClientInv
  BY ClientInit
<1>2. ClientInv /\ [Client!Next]_Client!vars => ClientInv'
  BY ClientStep
<1>3. ClientInv => Client!OkIsMade /\ Client!OneRefund
  <2> SUFFICES ASSUME ClientInv PROVE Client!OkIsMade /\ Client!OneRefund
    OBVIOUS
  <2>1. Client!OkIsMade
    BY DEF ClientInv, CallOK, ResultOK, Client!OkIsMade
  <2>2. Client!OneRefund
    BY DEF ClientInv, ProviderInv, Client!OneRefund
  <2> QED BY <2>1, <2>2
<1> QED BY <1>1, <1>2, <1>3, PTL DEF Client!Spec

\* Where the provider puts requests off with 409, 429 or 503 alone, a refund
\* that was reported as rejected for good was not made, and an order that may
\* have been made is not reported as failed before its receipt was looked up.
THEOREM FailedIsNotMade ==
  Client!ConstantsAssumption /\ Busy \subseteq {409, 429, 503} =>
    (Client!Spec => [](Client!LookedUpFirst /\ Client!RejectedIsNotMade))
<1> SUFFICES ASSUME Client!ConstantsAssumption, Sure
             PROVE  Client!Spec => [](Client!LookedUpFirst /\ Client!RejectedIsNotMade)
  BY DEF Sure
<1>1. Client!Init => ClientInv
  BY ClientInit
<1>2. ClientInv /\ [Client!Next]_Client!vars => ClientInv'
  BY ClientStep
<1>3. ClientInv => Client!LookedUpFirst /\ Client!RejectedIsNotMade
  <2> SUFFICES ASSUME ClientInv PROVE Client!LookedUpFirst /\ Client!RejectedIsNotMade
    OBVIOUS
  <2>1. \A c \in Callers : call[c] \in ClientCalls /\ RefusalOK(call[c], refuses)
                            /\ StepOK(call[c])
    BY DEF ClientInv, ClientTyped, CallOK
  <2>2. Client!LookedUpFirst
    <3> SUFFICES ASSUME NEW c \in Callers, Client!Reported(c, "create"),
                        call[c].result \notin {"ok", "contract"}, "create" \notin refuses
                 PROVE  call[c].lookup # "none"
      BY DEF Client!LookedUpFirst
    <3>1. call[c].result \in Codes \ {"contract"} /\ call[c].op = "create"
      BY <2>1 DEF StepOK, ClientCalls, Client!Reported
    <3> QED BY <2>1, <3>1 DEF RefusalOK
  <2>3. Client!RejectedIsNotMade
    BY <2>1 DEF RefusalOK, Client!RejectedIsNotMade, Client!Reported, ClientInv, ProviderInv
  <2> QED BY <2>2, <2>3
<1> QED BY <1>1, <1>2, <1>3, PTL DEF Client!Spec

\* What is done after a failed attempt was refused, or failed at its lookup.
LEMMA FailedEnds ==
  ASSUME NEW c, call[c] \in ClientCalls, NEW code \in Codes, NEW ambiguous \in BOOLEAN, NEW t,
         t = Client!Failed(c, code, ambiguous), t.at = "done", t.lookup # "failed"
  PROVE  call[c].step # "lookup" /\ ~(call[c].step = "create" /\ ambiguous) /\ t.result = code
<1>1. CASE call[c].step = "lookup"
  <2>1. \A result : [Client!Done(c, result) EXCEPT !.lookup = "failed"].lookup = "failed"
    BY DEF Client!Done, ClientCalls
  <2> QED BY <1>1, <2>1 DEF Client!Failed, Client!LookupFailed
<1>2. CASE call[c].step = "create" /\ ambiguous
  BY <1>2 DEF Client!Failed, Client!MainFailed, Client!LookUp, ClientCalls
<1>3. CASE call[c].step # "lookup" /\ ~(call[c].step = "create" /\ ambiguous)
  BY <1>3 DEF Client!Failed, Client!MainFailed, Client!Done, ClientCalls
<1> QED BY <1>1, <1>2, <1>3

LEMMA ReceivedNone ==
  ASSUME Client!ConstantsAssumption, Sure, ClientInv, NEW c \in Callers, Client!Receive(c),
         call'[c].at = "done", call'[c].op = "create",
         call'[c].result \in {"unavailable", "timeout", "error"}, call'[c].lookup # "failed"
  PROVE  orders' = 0 \/ call[c].answer.found # orders'
<1>1. /\ call[c] \in ClientCalls /\ ProviderInv /\ orders' = orders
      /\ StepOK(call[c]) /\ AnswerOK(call[c], refuses, orders, refunds)
      /\ call[c].at = "answered"
  BY DEF ClientInv, ClientTyped, CallOK, Client!Receive, Client!provider
<1>2. PICK t :
        /\ call' = [call EXCEPT ![c] = t]
        /\ t = IF call[c].answer.odd THEN Client!Failed(c, "contract", FALSE)
               ELSE IF call[c].answer.status = 200 THEN Client!Succeeded(c)
               ELSE IF call[c].answer.status \in Client!Retryable /\ Client!AttemptLeft(c)
                    THEN Client!Retry(c)
               ELSE Client!Failed(c, Client!CodeOf(call[c].answer.status),
                                  call[c].answer.status \in Client!Ambiguous)
  BY DEF Client!Receive
<1>3. /\ t.at = "done" /\ t.op = "create" /\ t.lookup # "failed"
      /\ t.result \in {"unavailable", "timeout", "error"}
  BY <1>2 DEF ClientInv, ClientTyped
<1>4. CASE t = Client!Failed(c, "contract", FALSE)
  <2>1. t.result = "contract"
    BY <1>1, <1>3, <1>4, FailedEnds DEF Codes
  <2> QED BY <1>3, <2>1
<1>5. CASE t = Client!Succeeded(c)
  <2>1. CASE call[c].step # "lookup"
    <3>1. t.result = "ok"
      BY <1>1, <1>5, <2>1 DEF Client!Succeeded, Client!Done, ClientCalls
    <3> QED BY <1>3, <3>1
  <2>2. CASE call[c].step = "lookup" /\ call[c].answer.found = 1
    <3>1. t.result = "ok"
      BY <1>1, <1>5, <2>2 DEF Client!Succeeded, Client!Found, Client!Done, ClientCalls
    <3> QED BY <1>3, <3>1
  <2>3. CASE call[c].answer.found # 1
    BY <1>1, <2>3 DEF ProviderInv
  <2> QED BY <2>1, <2>2, <2>3
<1>6. CASE t = Client!Retry(c)
  <2>1. t.at = "pause"
    BY <1>1, <1>6 DEF Client!Retry, ClientCalls
  <2> QED BY <1>3, <2>1
<1>7. ASSUME call[c].answer.status # 200,
             t = Client!Failed(c, Client!CodeOf(call[c].answer.status),
                               call[c].answer.status \in Client!Ambiguous)
      PROVE  orders' = 0
  <2>1. call[c].op = "create"
    <3>1. \A code, ambiguous : Client!Failed(c, code, ambiguous).op = call[c].op
      BY <1>1 DEF Client!Failed, Client!LookupFailed, Client!MainFailed, Client!LookUp,
                  Client!Done, ClientCalls
    <3> QED BY <1>3, <1>7, <3>1
  <2>2. PICK code \in Codes : code = Client!CodeOf(call[c].answer.status)
    BY DEF Client!CodeOf, Codes
  <2>3. PICK ambiguous \in BOOLEAN :
          /\ ambiguous <=> call[c].answer.status \in Client!Ambiguous
          /\ t = Client!Failed(c, code, ambiguous)
    <3>1. CASE call[c].answer.status \in Client!Ambiguous
      <4>1. t = Client!Failed(c, Client!CodeOf(call[c].answer.status), TRUE)
        BY <1>7, <3>1, Zenon
      <4> QED BY <2>2, <3>1, <4>1
    <3>2. CASE call[c].answer.status \notin Client!Ambiguous
      <4>1. (call[c].answer.status \in Client!Ambiguous) = FALSE
        BY <3>2
      <4>2. t = Client!Failed(c, Client!CodeOf(call[c].answer.status), FALSE)
        BY <1>7, <4>1, Zenon
      <4> QED BY <2>2, <3>2, <4>2
    <3> QED BY <3>1, <3>2
  <2>4. call[c].step # "lookup" /\ ~(call[c].step = "create" /\ ambiguous)
    BY <1>1, <1>3, <2>2, <2>3, FailedEnds
  <2>5. call[c].answer.status # 200
    BY <1>7
  <2>6. call[c].answer.status = 422
    <3>1. call[c].answer.status \in {200, 400, 422} \cup Busy
      BY <1>1 DEF AnswerOK
    <3>2. call[c].step = "create"
      BY <1>1, <2>1, <2>4 DEF StepOK
    <3>3. call[c].answer.status \notin Client!Ambiguous
      BY <2>3, <2>4, <3>2
    <3> QED BY <2>5, <3>1, <3>3, SureIsAmbiguous
  <2>7. call[c].step = "create"
    BY <1>1, <2>1, <2>4 DEF StepOK
  <2> QED BY <1>1, <2>6, <2>7 DEF AnswerOK, ProviderInv
<1> QED BY <1>2, <1>4, <1>5, <1>6, <1>7

LEMMA TimedOutLooks ==
  ASSUME ClientInv, NEW c \in Callers, Client!TimeOut(c), call'[c].at = "done",
         call'[c].op = "create"
  PROVE  call'[c].lookup = "failed"
<1>1. call[c] \in ClientCalls /\ StepOK(call[c]) /\ call[c].at \in {"sent", "answered"}
  BY DEF ClientInv, ClientTyped, CallOK, Client!TimeOut, Client!Deadline
<1>2. PICK s, t :
        /\ call' = [call EXCEPT ![c] = t] /\ t = [s EXCEPT !.lost = TRUE]
        /\ s = IF Client!AttemptLeft(c) THEN Client!Retry(c) ELSE Client!Failed(c, "timeout", TRUE)
  BY DEF Client!TimeOut
<1>3. call'[c] = t
  BY <1>2 DEF ClientInv, ClientTyped
<1>4. CASE s = Client!Retry(c)
  <2>1. t.at = "pause"
    BY <1>1, <1>2, <1>4 DEF Client!Retry, ClientCalls
  <2> QED BY <1>3, <2>1
<1>5. CASE s = Client!Failed(c, "timeout", TRUE)
  <2>1. CASE call[c].step = "lookup"
    <3>0. PICK result \in Codes :
            result = IF call[c].first = "timeout" THEN "timeout" ELSE "timeout"
      BY DEF Codes
    <3>1. PICK u : u = Client!Done(c, result) /\ s = [u EXCEPT !.lookup = "failed"]
      BY <1>5, <2>1, <3>0 DEF Client!Failed, Client!LookupFailed
    <3>2. u \in ClientCalls
      BY <1>1, <3>1 DEF Client!Done, ClientCalls
    <3>3. s \in ClientCalls /\ s.lookup = "failed"
      BY <3>1, <3>2 DEF ClientCalls
    <3>4. t = [s EXCEPT !.lost = TRUE]
      BY <1>2
    <3>5. t.lookup = s.lookup
      BY <3>3, <3>4 DEF ClientCalls
    <3> QED BY <1>3, <3>3, <3>5
  <2>2. CASE call[c].step = "create"
    <3>1. t.at = "sent"
      BY <1>1, <1>2, <1>5, <2>2
         DEF Client!Failed, Client!MainFailed, Client!LookUp, ClientCalls
    <3> QED BY <1>3, <3>1
  <2>3. CASE call[c].step = "refund"
    <3>1. t.op = call[c].op
      BY <1>1, <1>2, <1>5, <2>3 DEF Client!Failed, Client!MainFailed, Client!Done, ClientCalls
    <3> QED BY <1>1, <1>3, <2>3, <3>1 DEF StepOK
  <2> QED BY <1>1, <2>1, <2>2, <2>3 DEF StepOK
<1> QED BY <1>2, <1>4, <1>5

\* A caller told that its order failed, after a lookup that was answered, has
\* none at the provider (razorpay.ts:518 "Resolve the unique receipt before
\* reporting the ambiguous failure"): what was found is not what there is only
\* where a request arrived after the lookup was served.
THEOREM ToldFailedHasNone ==
  Client!ConstantsAssumption /\ Busy \subseteq {409, 429, 503} =>
    (Client!Spec => [][Client!FailedHasNone]_Client!vars)
<1> SUFFICES ASSUME Client!ConstantsAssumption, Sure
             PROVE  Client!Spec => [][Client!FailedHasNone]_Client!vars
  BY DEF Sure
<1>1. Client!Init => ClientInv
  BY ClientInit
<1>2. ClientInv /\ [Client!Next]_Client!vars => ClientInv'
  BY ClientStep
<1>3. ClientInv /\ [Client!Next]_Client!vars => [Client!FailedHasNone]_Client!vars
  <2> SUFFICES ASSUME ClientInv, Client!Next PROVE Client!FailedHasNone
    OBVIOUS
  <2> SUFFICES ASSUME NEW c \in Callers, call[c].at # "done", call'[c].at = "done",
                      call'[c].op = "create",
                      call'[c].result \in {"unavailable", "timeout", "error"},
                      call'[c].lookup # "failed"
               PROVE  orders' = 0 \/ call[c].answer.found # orders'
    BY DEF Client!FailedHasNone
  <2>1. ASSUME NEW d \in Callers, NEW t, call' = [call EXCEPT ![d] = t], t.at # "done"
        PROVE  FALSE
    BY <2>1 DEF ClientInv, ClientTyped
  <2>2. ASSUME NEW d \in Callers, NEW t, call' = [call EXCEPT ![d] = t] PROVE d = c
    BY <2>2 DEF ClientInv, ClientTyped
  <2>3. ASSUME NEW d \in Callers, NEW op \in {"create", "refund"}, Client!Ask(d, op) PROVE FALSE
    <3>1. Client!Begin(d, op, op).at = "sent"
      BY DEF Client!Begin, Client!Idle
    <3> QED BY <2>1, <2>3, <3>1 DEF Client!Ask
  <2>4. ASSUME NEW d \in Callers, Client!Serve(d) \/ Client!PutOff(d) \/ Client!Resend(d)
        PROVE  FALSE
    <3>1. CASE Client!Serve(d)
      BY <3>1 DEF Client!Serve, ClientInv, ClientTyped, ClientCalls
    <3>2. CASE Client!PutOff(d)
      <4>1. PICK code \in Busy :
              call' = [call EXCEPT ![d].at = "answered",
                         ![d].answer = [Client!NoAnswer EXCEPT !.status = code],
                         ![d].lost = @ \/ code = 503]
        BY <3>2 DEF Client!PutOff
      <4> PICK answer : answer = [Client!NoAnswer EXCEPT !.status = code]
        OBVIOUS
      <4> PICK gone : gone = (call[d].lost \/ code = 503)
        OBVIOUS
      <4>2. call' = [call EXCEPT ![d].at = "answered", ![d].answer = answer, ![d].lost = gone]
        BY <4>1
      <4> QED BY <4>2 DEF ClientInv, ClientTyped, ClientCalls
    <3>3. CASE Client!Resend(d)
      BY <3>3 DEF Client!Resend, ClientInv, ClientTyped, ClientCalls
    <3> QED BY <2>4, <3>1, <3>2, <3>3
  <2>5. ASSUME NEW d \in Callers, Client!TimeOut(d) PROVE FALSE
    <3>1. d = c
      BY <2>2, <2>5 DEF Client!TimeOut
    <3> QED BY <2>5, <3>1, TimedOutLooks
  <2>6. ASSUME NEW d \in Callers, Client!Receive(d)
        PROVE  orders' = 0 \/ call[c].answer.found # orders'
    <3>1. d = c
      BY <2>2, <2>6 DEF Client!Receive
    <3> QED BY <2>6, <3>1, ReceivedNone
  <2>7. CASE Client!Arrives \/ Client!Vanishes
    BY <2>7 DEF Client!Arrives, Client!Vanishes
  <2> QED BY <2>3, <2>4, <2>5, <2>6, <2>7 DEF Client!Next
<1> QED BY <1>1, <1>2, <1>3, PTL DEF Client!Spec

-----------------------------------------------------------------------------
(* BundleAdmin: the prices, for every total of the components.             *)

\* calculateBundlePrice asks for no less than a paisa where validateWrite lets
\* the value pass: a tenth of the total is left, and rounded up.
LEMMA TenthIsLeft ==
  ASSUME NEW total \in Nat \ {0}, NEW value \in 0..90
  PROVE  /\ (total * value) \div 100 \in Nat
         /\ (total * value) \div 100 < total
<1>1. total * value \in Nat /\ total * value <= total * 90
  OBVIOUS
<1> PICK product \in Nat : product = total * value
  BY <1>1
<1>2. product \div 100 \in Nat /\ 100 * (product \div 100) <= product
  OBVIOUS
<1> QED BY <1>1, <1>2

LEMMA PriceAboveZero ==
  ASSUME NEW total \in Nat, NEW type, NEW value \in Nat \ {0},
         type = "PERCENTAGE_OFF" => value <= 90, type \in Bundles!Types,
         Bundles!Saves(total, type, value)
  PROVE  Bundles!UnitPrice(total, type, value) > 0
<1>1. total # 0
  BY DEF Bundles!Saves, Bundles!UnitPrice
<1>2. Bundles!Requested(total, type, value) \in Nat \ {0}
  <2>1. CASE type = "FIXED_PRICE"
    BY <2>1 DEF Bundles!Requested
  <2>2. CASE type # "FIXED_PRICE"
    <3>1. value <= 90 /\ Bundles!AtMost(value, 100) = value
      BY <2>2 DEF Bundles!Types, Bundles!AtMost
    <3>2. Bundles!Requested(total, type, value) = total - (total * value) \div 100
      BY <2>2, <3>1 DEF Bundles!Requested
    <3>3. (total * value) \div 100 \in Nat /\ (total * value) \div 100 < total
      BY <1>1, <3>1, TenthIsLeft
    <3> PICK off \in Nat : off = (total * value) \div 100
      BY <3>3
    <3> QED BY <3>2, <3>3
  <2> QED BY <2>1, <2>2
<1>3. Bundles!UnitPrice(total, type, value) = Bundles!AtMost(total, Bundles!Requested(total, type, value))
  BY <1>1 DEF Bundles!UnitPrice
<1> QED BY <1>1, <1>2, <1>3 DEF Bundles!AtMost

-----------------------------------------------------------------------------
(* BundleAdmin: what a save holds of the row it was checked against.       *)

BundleRows == Bundles!Rows \cup {None}
Forms ==
  [active : BOOLEAN, type : Bundles!Types, typed : Nat, start : 0..MaxTime,
   end : 1..Bundles!Never, items : [Variants -> 0..MaxQuantity]]
BundlePages ==
  [listed : BundleRows, stale : BOOLEAN, editing : BundleRows, form : Forms,
   option : [Variants -> Prices]]
BundleCalls ==
  [at : {"idle", "sent", "read", "valid", "ok", "refused"},
   op : {"none", "create", "update", "delete"}, changed : SUBSET Bundles!Fields,
   body : BundleRows, current : BundleRows, resets : BOOLEAN]

\* A save that was checked holds a bundle that passed; unless saves overlap,
\* the row there is the one it was checked against.
Held(t, there) ==
  /\ t.at # "idle" => t.body \in Bundles!Rows
  /\ t.at = "read" => t.op = "update"
  /\ t.at = "valid" => t.op \in {"create", "update"}
  /\ t.at \in {"read", "valid"} /\ t.op = "update" =>
       t.current \in Bundles!Rows /\ (~Overlapping => t.current = there)
  /\ t.at = "valid" => Bundles!ValidFields(Bundles!Candidate(t))

Alone(r, saves) ==
  ~Overlapping => \A q \in Bundles!Requests \ {r} : saves[q].at \notin {"read", "valid"}

BundleTyped ==
  /\ row \in BundleRows /\ now \in 1..Bundles!Never /\ requests \in Nat
  /\ page \in [Admins -> BundlePages] /\ call \in [Bundles!Requests -> BundleCalls]
RowOK(there) == ~Overlapping /\ there # None => Bundles!ValidFields(there)

BundleInv ==
  /\ BundleTyped /\ RowOK(row)
  /\ \A r \in Bundles!Requests :
       Held(call[r], row) /\ (call[r].at \in {"read", "valid"} => Alone(r, call))

LEMMA BundleConstants ==
  ASSUME Bundles!ConstantsAssumption
  PROVE  /\ MaxTime \in Nat \ {0} /\ Bundles!Never \in Nat /\ Bundles!Never = MaxTime + 1
         /\ MaxQuantity \in Nat \ {0} /\ TypedValues \subseteq Nat
         /\ None \notin Bundles!Rows
BY DEF Bundles!ConstantsAssumption, Bundles!Never

\* A step of one call, at a row that stays or that no other save has read.
LEMMA BundleCallStep ==
  ASSUME BundleInv, NEW r \in Bundles!Requests, NEW t \in BundleCalls,
         call' = [call EXCEPT ![r] = t], Held(t, row'), row' \in BundleRows, RowOK(row'),
         t.at \in {"read", "valid"} => Alone(r, call), row' = row \/ Alone(r, call),
         now' = now, requests' \in Nat, page' \in [Admins -> BundlePages]
  PROVE  BundleInv'
<1>1. BundleTyped' /\ RowOK(row')
  BY DEF BundleInv, BundleTyped
<1>2. ASSUME NEW q \in Bundles!Requests
      PROVE  Held(call'[q], row') /\ (call'[q].at \in {"read", "valid"} => Alone(q, call'))
  <2>1. CASE q = r
    <3>1. call'[q] = t /\ \A p \in Bundles!Requests \ {r} : call'[p] = call[p]
      BY <2>1 DEF BundleInv, BundleTyped
    <3> QED BY <2>1, <3>1 DEF Alone
  <2>2. CASE q # r
    <3>1. call'[q] = call[q] /\ call'[r] = t
      BY <2>2 DEF BundleInv, BundleTyped
    <3>2. Held(call[q], row) /\ (call[q].at \in {"read", "valid"} => Alone(q, call))
      BY DEF BundleInv
    <3>3. Held(call[q], row')
      <4>1. CASE row' = row
        BY <3>2, <4>1
      <4>2. CASE Alone(r, call)
        BY <2>2, <3>2, <4>2 DEF Alone, Held
      <4> QED BY <4>1, <4>2
    <3>4. ASSUME call[q].at \in {"read", "valid"} PROVE Alone(q, call')
      <4> SUFFICES ASSUME ~Overlapping, NEW p \in Bundles!Requests \ {q}
                   PROVE  call'[p].at \notin {"read", "valid"}
        BY DEF Alone
      <4>1. ~Alone(r, call)
        BY <2>2, <3>4 DEF Alone
      <4>2. t.at \notin {"read", "valid"}
        BY <4>1
      <4>3. CASE p = r
        BY <3>1, <4>2, <4>3
      <4>4. CASE p # r
        <5>1. call'[p] = call[p]
          BY <4>4 DEF BundleInv, BundleTyped
        <5> QED BY <3>2, <3>4, <5>1 DEF Alone
      <4> QED BY <4>3, <4>4
    <3> QED BY <3>1, <3>3, <3>4
  <2> QED BY <2>1, <2>2
<1> QED BY <1>1, <1>2 DEF BundleInv

\* A step of the pages and of the clock.
LEMMA BundlePageStep ==
  ASSUME BundleInv, row' = row, call' = call, now' \in 1..Bundles!Never, requests' \in Nat,
         page' \in [Admins -> BundlePages]
  PROVE  BundleInv'
BY DEF BundleInv, BundleTyped

LEMMA BodyIsRow ==
  ASSUME NEW form \in Forms, NEW id \in Nat
  PROVE  Bundles!Body(form, id) \in Bundles!Rows
<1>1. (form.typed + 50) \div 100 \in Nat
  BY DEF Forms
<1>2. Bundles!Submitted(form) \in Nat
  BY <1>1 DEF Forms, Bundles!Submitted
<1> QED BY <1>2 DEF Forms, Bundles!Body, Bundles!Rows

LEMMA FormIsForm ==
  ASSUME NEW bundle \in Bundles!Rows
  PROVE  Bundles!FormOf(bundle) \in Forms
BY DEF Forms, Bundles!FormOf, Bundles!Rows

LEMMA BlankIsForm ==
  ASSUME Bundles!ConstantsAssumption
  PROVE  Bundles!Blank \in Forms
BY BundleConstants DEF Forms, Bundles!Blank, Bundles!Types

LEMMA MergedIsRow ==
  ASSUME NEW t \in BundleCalls, t.body \in Bundles!Rows, NEW bundle \in Bundles!Rows
  PROVE  /\ Bundles!Merged(t, bundle) \in Bundles!Rows
         /\ Bundles!Merged(t, bundle).id = bundle.id
         /\ \A f \in Bundles!Fields \ t.changed : Bundles!Merged(t, bundle)[f] = bundle[f]
<1>1. Bundles!Merged(t, bundle) \in Bundles!Rows
  BY DEF Bundles!Merged, Bundles!Rows
<1>2. /\ Bundles!Merged(t, bundle).id = bundle.id
      /\ "active" \notin t.changed => Bundles!Merged(t, bundle).active = bundle.active
      /\ "type" \notin t.changed => Bundles!Merged(t, bundle).type = bundle.type
      /\ "value" \notin t.changed => Bundles!Merged(t, bundle).value = bundle.value
      /\ "start" \notin t.changed => Bundles!Merged(t, bundle).start = bundle.start
      /\ "end" \notin t.changed => Bundles!Merged(t, bundle).end = bundle.end
      /\ "items" \notin t.changed => Bundles!Merged(t, bundle).items = bundle.items
  BY DEF Bundles!Merged
<1> QED BY <1>1, <1>2 DEF Bundles!Fields

LEMMA BundleInit ==
  ASSUME Bundles!ConstantsAssumption, Bundles!Init
  PROVE  BundleInv
<1>1. row \in BundleRows /\ RowOK(row)
  BY DEF Bundles!ConstantsAssumption, Bundles!Init, BundleRows, RowOK
<1>2. now \in 1..Bundles!Never /\ requests \in Nat
  BY BundleConstants DEF Bundles!Init
<1>3. page \in [Admins -> BundlePages]
  <2>1. [v \in Variants |-> variant[v].price] \in [Variants -> Prices]
    BY DEF Bundles!Init
  <2>2. None \in BundleRows
    BY DEF BundleRows
  <2> QED BY <1>1, <2>1, <2>2, BlankIsForm DEF Bundles!Init, BundlePages
<1>4. Bundles!Idle \in BundleCalls /\ Bundles!Idle.at = "idle"
  BY DEF Bundles!Idle, BundleCalls, BundleRows
<1>5. call = [r \in Bundles!Requests |-> Bundles!Idle]
  BY DEF Bundles!Init
<1>6. call \in [Bundles!Requests -> BundleCalls]
  BY <1>4, <1>5
<1>7. \A r \in Bundles!Requests : call[r].at = "idle"
  BY <1>4, <1>5
<1> QED BY <1>1, <1>2, <1>3, <1>6, <1>7 DEF BundleInv, BundleTyped, Held

LEMMA TypedOK ==
  ASSUME Bundles!ConstantsAssumption, BundleInv, NEW a \in Admins,
         Bundles!TypeField(a) \/ Bundles!TypeComponent(a)
  PROVE  BundleInv'
<1>1. page[a].form \in Forms
  BY DEF BundleInv, BundleTyped, BundlePages
<1>2. ASSUME NEW field, NEW form \in Forms, Bundles!Type(a, field, form) PROVE BundleInv'
  <2>1. page' \in [Admins -> BundlePages]
    BY <1>2 DEF BundleInv, BundleTyped, BundlePages, Bundles!Type
  <2> QED BY <1>2, <2>1, BundlePageStep DEF BundleInv, BundleTyped, Bundles!Type
<1>3. CASE Bundles!TypeField(a)
  <2>1. CASE \E active \in BOOLEAN :
               Bundles!Type(a, "active", [page[a].form EXCEPT !.active = active])
    <3>1. \A active \in BOOLEAN : [page[a].form EXCEPT !.active = active] \in Forms
      BY <1>1 DEF Forms
    <3> QED BY <1>2, <2>1, <3>1
  <2>2. CASE \E type \in Bundles!Types :
               Bundles!Type(a, "type", [page[a].form EXCEPT !.type = type])
    <3>1. \A type \in Bundles!Types : [page[a].form EXCEPT !.type = type] \in Forms
      BY <1>1 DEF Forms
    <3> QED BY <1>2, <2>2, <3>1
  <2>3. CASE \E typed \in TypedValues :
               Bundles!Type(a, "value", [page[a].form EXCEPT !.typed = typed])
    <3>1. \A typed \in TypedValues : [page[a].form EXCEPT !.typed = typed] \in Forms
      BY <1>1, BundleConstants DEF Forms
    <3> QED BY <1>2, <2>3, <3>1
  <2>4. CASE \E start \in 0..MaxTime :
               Bundles!Type(a, "start", [page[a].form EXCEPT !.start = start])
    <3>1. \A start \in 0..MaxTime : [page[a].form EXCEPT !.start = start] \in Forms
      BY <1>1 DEF Forms
    <3> QED BY <1>2, <2>4, <3>1
  <2>5. CASE \E end \in 1..Bundles!Never :
               Bundles!Type(a, "end", [page[a].form EXCEPT !.end = end])
    <3>1. \A end \in 1..Bundles!Never : [page[a].form EXCEPT !.end = end] \in Forms
      BY <1>1 DEF Forms
    <3> QED BY <1>2, <2>5, <3>1
  <2> QED BY <1>3, <2>1, <2>2, <2>3, <2>4, <2>5 DEF Bundles!TypeField
<1>4. CASE Bundles!TypeComponent(a)
  <2>1. \A v \in Variants, n \in 0..MaxQuantity :
          [page[a].form EXCEPT !.items[v] = n] \in Forms
    BY <1>1 DEF Forms
  <2>2. PICK v \in Variants, n \in 0..MaxQuantity :
          Bundles!Type(a, "items", [page[a].form EXCEPT !.items[v] = n])
    BY <1>4 DEF Bundles!TypeComponent
  <2> QED BY <1>2, <2>1, <2>2
<1> QED BY <1>3, <1>4

LEMMA OpenedOK ==
  ASSUME Bundles!ConstantsAssumption, BundleInv, NEW a \in Admins,
         Bundles!Edit(a) \/ Bundles!Cancel(a) \/ Bundles!Refetch(a)
  PROVE  BundleInv'
<1>1. page[a] \in BundlePages /\ page \in [Admins -> BundlePages] /\ row \in BundleRows
      /\ now \in 1..Bundles!Never /\ requests \in Nat
  BY DEF BundleInv, BundleTyped
<1>2. CASE Bundles!Edit(a)
  <2>1. Bundles!FormOf(page[a].listed) \in Forms
    BY <1>1, <1>2, FormIsForm DEF Bundles!Edit, BundlePages, BundleRows
  <2>2. page' \in [Admins -> BundlePages]
    BY <1>1, <1>2, <2>1 DEF Bundles!Edit, BundlePages
  <2> QED BY <1>1, <1>2, <2>2, BundlePageStep DEF Bundles!Edit
<1>3. CASE Bundles!Cancel(a)
  <2>1. Bundles!Reset(page[a]) \in BundlePages
    BY <1>1, BlankIsForm DEF Bundles!Reset, BundlePages, BundleRows
  <2>2. page' \in [Admins -> BundlePages]
    BY <1>1, <1>3, <2>1 DEF Bundles!Cancel
  <2> QED BY <1>1, <1>3, <2>2, BundlePageStep DEF Bundles!Cancel
<1>4. CASE Bundles!Refetch(a)
  <2>1. page' \in [Admins -> BundlePages]
    BY <1>1, <1>4 DEF Bundles!Refetch, BundlePages
  <2> QED BY <1>1, <1>4, <2>1, BundlePageStep DEF Bundles!Refetch
<1> QED BY <1>2, <1>3, <1>4

\* A request is sent: it was not under way, nor is it now.
LEMMA AskedOK ==
  ASSUME BundleInv, NEW r \in Bundles!Requests, NEW t \in BundleCalls, Bundles!Asks(r, t),
         t.at = "sent", t.body \in Bundles!Rows
  PROVE  BundleInv'
<1>1. Held(t, row') /\ RowOK(row') /\ row' \in BundleRows
  BY DEF Held, BundleInv, BundleTyped, Bundles!Asks
<1>2. /\ call' = [call EXCEPT ![r] = t] /\ row' = row /\ now' = now /\ requests' \in Nat
      /\ page' \in [Admins -> BundlePages]
  BY DEF Bundles!Asks, BundleInv, BundleTyped
<1> QED BY <1>1, <1>2, BundleCallStep

LEMMA SubmitOK ==
  ASSUME Bundles!ConstantsAssumption, BundleInv, NEW a \in Admins,
         Bundles!Submit(a)
  PROVE  BundleInv'
<1>1. page[a].form \in Forms /\ page[a].editing \in BundleRows /\ requests \in Nat
  BY DEF BundleInv, BundleTyped, BundlePages
<1>2. PICK id \in Nat :
        id = IF page[a].editing = None THEN requests + 1 ELSE page[a].editing.id
  BY <1>1 DEF BundleRows, Bundles!Rows
<1>3. PICK op \in {"create", "update"} :
        op = IF page[a].editing = None THEN "create" ELSE "update"
  OBVIOUS
<1>4. PICK changed : changed = Bundles!Changed(a)
  OBVIOUS
<1>5. changed \subseteq Bundles!Fields
  BY <1>4 DEF Bundles!Changed
<1>6. PICK body : body = Bundles!Body(page[a].form, id)
  OBVIOUS
<1>7. body \in Bundles!Rows
  BY <1>1, <1>6, BodyIsRow
<1>8. PICK t : /\ t = [Bundles!Idle EXCEPT !.at = "sent", !.changed = changed, !.op = op,
                                           !.body = body]
               /\ Bundles!Asks(Bundles!Save(a), t)
  BY <1>2, <1>3, <1>4, <1>6 DEF Bundles!Submit
<1>9. t \in BundleCalls /\ t.at = "sent" /\ t.body = body
  BY <1>5, <1>7, <1>8 DEF Bundles!Idle, BundleCalls, BundleRows
<1> QED BY <1>7, <1>8, <1>9, AskedOK DEF Bundles!Save, Bundles!Requests

LEMMA AskDeleteOK ==
  ASSUME Bundles!ConstantsAssumption, BundleInv, NEW a \in Admins, Bundles!AskDelete(a)
  PROVE  BundleInv'
<1>1. page[a].listed \in Bundles!Rows
  BY DEF BundleInv, BundleTyped, BundlePages, Bundles!AskDelete, BundleRows
<1>2. PICK resets \in BOOLEAN :
        resets = (page[a].editing # None /\ page[a].editing.id = page[a].listed.id)
  OBVIOUS
<1>3. PICK t : /\ t = [Bundles!Idle EXCEPT !.at = "sent", !.op = "delete",
                                           !.body = page[a].listed, !.resets = resets]
               /\ Bundles!Asks(Bundles!Delete(a), t)
  BY <1>2 DEF Bundles!AskDelete
<1>4. t \in BundleCalls /\ t.at = "sent" /\ t.body = page[a].listed
  BY <1>1, <1>3 DEF Bundles!Idle, BundleCalls, BundleRows
<1> QED BY <1>1, <1>3, <1>4, AskedOK DEF Bundles!Delete, Bundles!Requests

LEMMA AnsweredOK ==
  ASSUME Bundles!ConstantsAssumption, BundleInv, NEW r \in Bundles!Requests,
         Bundles!Answer(r) \/ Bundles!Lose(r)
  PROVE  BundleInv'
<1>1. Bundles!Idle \in BundleCalls /\ Bundles!Idle.at = "idle"
  BY DEF Bundles!Idle, BundleCalls, BundleRows
<1>2. /\ page \in [Admins -> BundlePages] /\ row' = row /\ now' = now
      /\ requests \in Nat /\ requests' = requests
      /\ call' = [call EXCEPT ![r] = Bundles!Idle] /\ row \in BundleRows /\ RowOK(row)
  BY DEF BundleInv, BundleTyped, Bundles!Answer, Bundles!Lose
<1>3. page' \in [Admins -> BundlePages]
  <2>1. r[1] \in Admins
    BY DEF Bundles!Requests
  <2>2. [page[r[1]] EXCEPT !.stale = TRUE] \in BundlePages
    BY <1>2, <2>1 DEF BundlePages
  <2>3. CASE Bundles!Answer(r)
    <3>1. \A shown \in BundlePages : Bundles!Reset(shown) \in BundlePages
      BY BlankIsForm DEF Bundles!Reset, BundlePages, BundleRows
    <3>2. PICK shown \in BundlePages : page' = [page EXCEPT ![r[1]] = shown]
      BY <2>2, <2>3, <3>1 DEF Bundles!Answer
    <3> QED BY <1>2, <2>1, <3>2
  <2>4. CASE Bundles!Lose(r)
    BY <1>2, <2>1, <2>2, <2>4 DEF Bundles!Lose
  <2> QED BY <2>3, <2>4
<1>4. Held(Bundles!Idle, row')
  BY <1>1 DEF Held
<1> QED BY <1>1, <1>2, <1>3, <1>4, BundleCallStep

\* The server moves a call on, and may change the row with it.
LEMMA HandledOK ==
  ASSUME BundleInv, NEW r \in Bundles!Requests, NEW t \in BundleCalls,
         call' = [call EXCEPT ![r] = t], Held(t, row'), row' \in BundleRows, RowOK(row'),
         t.at \in {"read", "valid"} => Alone(r, call), row' = row \/ Alone(r, call),
         Bundles!ServerOnly
  PROVE  BundleInv'
BY BundleCallStep DEF Bundles!ServerOnly, BundleInv, BundleTyped

LEMMA MayRunAlone ==
  ASSUME NEW r, Bundles!MayRun(r)
  PROVE  Alone(r, call)
BY DEF Bundles!MayRun, Alone, Bundles!UnderWay

LEMMA ReadOK ==
  ASSUME BundleInv, NEW r \in Bundles!Requests, Bundles!Read(r)
  PROVE  BundleInv'
<1>1. /\ call[r] \in BundleCalls /\ Held(call[r], row) /\ Alone(r, call) /\ row' = row
      /\ row \in BundleRows /\ RowOK(row) /\ Bundles!ServerOnly
      /\ call[r].at = "sent" /\ call[r].op = "update"
  BY MayRunAlone DEF BundleInv, BundleTyped, Bundles!Read
<1>2. CASE Bundles!Found(r) /\ call' = [call EXCEPT ![r].at = "read", ![r].current = row]
  <2>1. PICK t : t = [call[r] EXCEPT !.at = "read", !.current = row]
                 /\ call' = [call EXCEPT ![r] = t]
    BY <1>2 DEF BundleInv, BundleTyped, BundleCalls
  <2>2. t \in BundleCalls /\ t.at = "read" /\ t.current = row /\ t.body = call[r].body
        /\ t.op = "update"
    BY <1>1, <2>1 DEF BundleCalls
  <2>3. row \in Bundles!Rows
    BY <1>1, <1>2 DEF Bundles!Found, BundleRows
  <2>4. Held(t, row')
    BY <1>1, <2>2, <2>3 DEF Held
  <2> QED BY <1>1, <2>1, <2>2, <2>4, HandledOK
<1>3. CASE Bundles!Goes(r, "refused")
  <2>1. PICK t : t = [call[r] EXCEPT !.at = "refused"] /\ call' = [call EXCEPT ![r] = t]
    BY <1>3 DEF BundleInv, BundleTyped, BundleCalls, Bundles!Goes
  <2>2. t \in BundleCalls /\ t.at = "refused" /\ t.body = call[r].body
    BY <1>1, <2>1 DEF BundleCalls
  <2>3. Held(t, row')
    BY <1>1, <2>2 DEF Held
  <2> QED BY <1>1, <2>1, <2>2, <2>3, HandledOK
<1> QED BY <1>2, <1>3 DEF Bundles!Read

LEMMA CandidateStays ==
  ASSUME NEW s \in BundleCalls, NEW at, NEW t, t = [s EXCEPT !.at = at]
  PROVE  Bundles!Candidate(t) = Bundles!Candidate(s)
<1>1. t.op = s.op /\ t.body = s.body /\ t.changed = s.changed /\ t.current = s.current
  BY DEF BundleCalls
<1> QED BY <1>1 DEF Bundles!Candidate, Bundles!Merged

LEMMA ValidateOK ==
  ASSUME BundleInv, NEW r \in Bundles!Requests, Bundles!Validate(r)
  PROVE  BundleInv'
<1>1. /\ call[r] \in BundleCalls /\ Held(call[r], row) /\ row' = row
      /\ row \in BundleRows /\ RowOK(row) /\ Bundles!ServerOnly
      /\ \/ call[r].at = "sent" /\ call[r].op = "create"
         \/ call[r].at = "read" /\ call[r].op = "update"
  BY DEF BundleInv, BundleTyped, Bundles!Validate, Held
<1>2. Alone(r, call)
  BY MayRunAlone DEF Bundles!Validate, BundleInv
<1>3. CASE Bundles!Passes(Bundles!Candidate(call[r]))
  <2>1. PICK t : t = [call[r] EXCEPT !.at = "valid"] /\ call' = [call EXCEPT ![r] = t]
    BY <1>3 DEF BundleInv, BundleTyped, BundleCalls, Bundles!Goes, Bundles!Validate
  <2>2. t \in BundleCalls /\ t.at = "valid" /\ t.body = call[r].body /\ t.op = call[r].op
        /\ t.current = call[r].current
    BY <1>1, <2>1 DEF BundleCalls
  <2>3. Bundles!ValidFields(Bundles!Candidate(t))
    BY <1>1, <1>3, <2>1, CandidateStays DEF Bundles!Passes
  <2>4. Held(t, row')
    BY <1>1, <2>2, <2>3 DEF Held
  <2> QED BY <1>1, <1>2, <2>1, <2>2, <2>4, HandledOK
<1>4. CASE ~Bundles!Passes(Bundles!Candidate(call[r]))
  <2>1. PICK t : t = [call[r] EXCEPT !.at = "refused"] /\ call' = [call EXCEPT ![r] = t]
    BY <1>4 DEF BundleInv, BundleTyped, BundleCalls, Bundles!Goes, Bundles!Validate
  <2>2. t \in BundleCalls /\ t.at = "refused" /\ t.body = call[r].body
    BY <1>1, <2>1 DEF BundleCalls
  <2>3. Held(t, row')
    BY <1>1, <2>2 DEF Held
  <2> QED BY <1>1, <2>1, <2>2, <2>3, HandledOK
<1> QED BY <1>3, <1>4

LEMMA WriteOK ==
  ASSUME BundleInv, NEW r \in Bundles!Requests, Bundles!Write(r)
  PROVE  BundleInv'
<1>1. /\ call[r] \in BundleCalls /\ Held(call[r], row) /\ Alone(r, call)
      /\ row \in BundleRows /\ RowOK(row) /\ Bundles!ServerOnly /\ call[r].at = "valid"
      /\ call[r].body \in Bundles!Rows
      /\ Bundles!ValidFields(Bundles!Candidate(call[r]))
  BY DEF BundleInv, BundleTyped, Bundles!Write, Held
<1>2. ASSUME NEW at \in {"ok", "refused"}, Bundles!Goes(r, at), row' \in BundleRows, RowOK(row')
      PROVE  BundleInv'
  <2>1. PICK t : t = [call[r] EXCEPT !.at = at] /\ call' = [call EXCEPT ![r] = t]
    BY <1>2 DEF BundleInv, BundleTyped, BundleCalls, Bundles!Goes
  <2>2. t \in BundleCalls /\ t.at = at /\ t.body = call[r].body
    BY <1>1, <2>1 DEF BundleCalls
  <2>3. Held(t, row')
    BY <1>1, <2>2 DEF Held
  <2> QED BY <1>1, <1>2, <2>1, <2>2, <2>3, HandledOK
<1>3. CASE call[r].op = "create" /\ row = None /\ row' = call[r].body /\ Bundles!Goes(r, "ok")
  <2>1. row' \in BundleRows /\ RowOK(row')
    BY <1>1, <1>3 DEF BundleRows, RowOK, Bundles!Candidate
  <2> QED BY <1>2, <1>3, <2>1
<1>4. CASE /\ call[r].op = "update" /\ Bundles!Found(r)
           /\ row' = Bundles!Merged(call[r], row) /\ Bundles!Goes(r, "ok")
  <2>1. row \in Bundles!Rows
    BY <1>1, <1>4 DEF Bundles!Found, BundleRows
  <2>2. row' \in BundleRows
    BY <1>1, <1>4, <2>1, MergedIsRow DEF BundleRows
  <2>3. ~Overlapping => call[r].current = row
    BY <1>1, <1>4 DEF Held
  <2>4. RowOK(row')
    BY <1>1, <1>4, <2>3 DEF RowOK, Bundles!Candidate
  <2> QED BY <1>2, <1>4, <2>2, <2>4
<1>5. CASE row' = row /\ Bundles!Goes(r, "refused")
  BY <1>1, <1>2, <1>5
<1> QED BY <1>3, <1>4, <1>5 DEF Bundles!Write

LEMMA RemoveOK ==
  ASSUME BundleInv, NEW r \in Bundles!Requests, Bundles!Remove(r)
  PROVE  BundleInv'
<1>1. /\ call[r] \in BundleCalls /\ Held(call[r], row) /\ Alone(r, call)
      /\ row \in BundleRows /\ RowOK(row) /\ Bundles!ServerOnly /\ call[r].at = "sent"
  BY MayRunAlone DEF BundleInv, BundleTyped, Bundles!Remove
<1>2. row' \in {row, None}
  BY DEF Bundles!Remove
<1>3. row' \in BundleRows /\ RowOK(row')
  BY <1>1, <1>2 DEF BundleRows, RowOK
<1>4. PICK at \in {"ok", "refused"} : Bundles!Goes(r, at)
  BY DEF Bundles!Remove
<1>5. PICK t : t = [call[r] EXCEPT !.at = at] /\ call' = [call EXCEPT ![r] = t]
  BY <1>4 DEF BundleInv, BundleTyped, BundleCalls, Bundles!Goes
<1>6. t \in BundleCalls /\ t.at = at /\ t.body = call[r].body
  BY <1>1, <1>5 DEF BundleCalls
<1>7. Held(t, row')
  BY <1>1, <1>6 DEF Held
<1> QED BY <1>1, <1>3, <1>5, <1>6, <1>7, HandledOK

LEMMA BundleStep ==
  ASSUME Bundles!ConstantsAssumption, BundleInv, [Bundles!Next]_Bundles!vars
  PROVE  BundleInv'
<1>1. CASE Bundles!World
  <2>1. now' \in 1..Bundles!Never /\ UNCHANGED <<row, call, page, requests>>
    <3>1. CASE Bundles!Tick
      BY <3>1, BundleConstants DEF Bundles!Tick, BundleInv, BundleTyped
    <3>2. ASSUME NEW v \in Variants, Bundles!Move(v)
          PROVE  now' \in 1..Bundles!Never /\ UNCHANGED <<row, call, page, requests>>
      BY <3>2 DEF Bundles!Move, BundleInv, BundleTyped
    <3> QED BY <1>1, <3>1, <3>2 DEF Bundles!World
  <2> QED BY <2>1, BundlePageStep DEF BundleInv, BundleTyped
<1>2. ASSUME NEW a \in Admins, Bundles!Press(a) PROVE BundleInv'
  BY <1>2, OpenedOK, TypedOK, SubmitOK, AskDeleteOK DEF Bundles!Press
<1>3. ASSUME NEW r \in Bundles!Requests,
             Bundles!Handle(r) \/ Bundles!Answer(r) \/ Bundles!Lose(r)
      PROVE  BundleInv'
  BY <1>3, ReadOK, ValidateOK, WriteOK, RemoveOK, AnsweredOK DEF Bundles!Handle
<1>4. CASE UNCHANGED Bundles!vars
  BY <1>4, BundlePageStep DEF Bundles!vars, BundleInv, BundleTyped
<1> QED BY <1>1, <1>2, <1>3, <1>4 DEF Bundles!Next

\* However many partial saves made it, a stored bundle has two components, ends
\* after it starts, and is not a percentage above 90: validateWrite is asked of
\* the fields merged with the row (bundle.service.ts updateAdmin), which holds
\* as long as the row is still that one when the fields are written.
THEOREM SavedIsValid ==
  Bundles!ConstantsAssumption =>
    (Bundles!Spec => [](Bundles!TypeOK /\ Bundles!StoredIsValid))
<1> SUFFICES ASSUME Bundles!ConstantsAssumption
             PROVE  Bundles!Spec => [](Bundles!TypeOK /\ Bundles!StoredIsValid)
  OBVIOUS
<1>1. Bundles!Init => BundleInv
  BY BundleInit
<1>2. BundleInv /\ [Bundles!Next]_Bundles!vars => BundleInv'
  BY BundleStep
<1>3. BundleInv => Bundles!TypeOK /\ Bundles!StoredIsValid
  <2> SUFFICES ASSUME BundleInv PROVE Bundles!TypeOK /\ Bundles!StoredIsValid
    OBVIOUS
  <2>1. Bundles!StoredIsValid
    BY DEF BundleInv, RowOK, Bundles!StoredIsValid
  <2>2. ASSUME NEW a \in Admins
        PROVE  page[a].listed \in BundleRows /\ Bundles!Body(page[a].form, 0) \in Bundles!Rows
    <3>1. page[a].listed \in BundleRows /\ page[a].form \in Forms
      BY DEF BundleInv, BundleTyped, BundlePages
    <3> QED BY <3>1, BodyIsRow
  <2>3. \A r \in Bundles!Requests : call[r] \in BundleCalls
    BY DEF BundleInv, BundleTyped
  <2>4. ASSUME NEW r \in Bundles!Requests
        PROVE  /\ call[r].at \in {"idle", "sent", "read", "valid", "ok", "refused"}
               /\ call[r].body \in BundleRows /\ call[r].current \in BundleRows
               /\ call[r].changed \subseteq Bundles!Fields
    BY <2>3 DEF BundleCalls
  <2>5. Bundles!TypeOK
    BY <2>2, <2>4 DEF Bundles!TypeOK, BundleInv, BundleTyped, BundleRows
  <2> QED BY <2>1, <2>5
<1> QED BY <1>1, <1>2, <1>3, PTL DEF Bundles!Spec

\* Nor is a bundle sold for nothing, at whatever prices its components have
\* come to cost (bundlePolicy.ts calculateBundlePrice).
THEOREM NotForNothing ==
  Bundles!ConstantsAssumption =>
    (Bundles!Spec => [](Bundles!TotalNow(row) \in Nat => Bundles!NeverFree))
<1> SUFFICES ASSUME Bundles!ConstantsAssumption
             PROVE  Bundles!Spec => [](Bundles!TotalNow(row) \in Nat => Bundles!NeverFree)
  OBVIOUS
<1>1. Bundles!Init => BundleInv
  BY BundleInit
<1>2. BundleInv /\ [Bundles!Next]_Bundles!vars => BundleInv'
  BY BundleStep
<1>3. BundleInv => (Bundles!TotalNow(row) \in Nat => Bundles!NeverFree)
  <2> SUFFICES ASSUME BundleInv, Bundles!TotalNow(row) \in Nat, ~Overlapping, Bundles!ForCart
               PROVE  Bundles!PriceOf(row) > 0
    BY DEF Bundles!NeverFree
  <2>1. row \in Bundles!Rows /\ Bundles!ValidFields(row)
    BY DEF BundleInv, BundleTyped, BundleRows, RowOK, Bundles!ForCart, Bundles!Listed
  <2>2. /\ row.value \in Nat \ {0} /\ row.type \in Bundles!Types
        /\ row.type = "PERCENTAGE_OFF" => row.value <= 90
    BY <2>1 DEF Bundles!Rows, Bundles!ValidFields
  <2>3. Bundles!Saves(Bundles!TotalNow(row), row.type, row.value)
    BY DEF Bundles!ForCart, Bundles!HasSaving
  <2> QED BY <2>2, <2>3, PriceAboveZero DEF Bundles!PriceOf
<1> QED BY <1>1, <1>2, <1>3, PTL DEF Bundles!Spec

\* A save changes no field that its administrator did not change, whatever the
\* other one saves at the same time (changedFields.ts buildChangedFields and the
\* optional fields of patchBody).
THEOREM OthersFieldsStay ==
  Bundles!ConstantsAssumption =>
    (Bundles!Spec => [][Bundles!OnlyItsFields]_Bundles!vars)
<1> SUFFICES ASSUME Bundles!ConstantsAssumption
             PROVE  Bundles!Spec => [][Bundles!OnlyItsFields]_Bundles!vars
  OBVIOUS
<1>1. Bundles!Init => BundleInv
  BY BundleInit
<1>2. BundleInv /\ [Bundles!Next]_Bundles!vars => BundleInv'
  BY BundleStep
<1>3. BundleInv /\ [Bundles!Next]_Bundles!vars => [Bundles!OnlyItsFields]_Bundles!vars
  <2> SUFFICES ASSUME BundleInv, Bundles!Next PROVE Bundles!OnlyItsFields
    OBVIOUS
  <2> SUFFICES ASSUME NEW f \in Bundles!Fields, row # None, row' # None, row'[f] # row[f]
               PROVE  \E r \in Bundles!Requests :
                        call[r].at = "valid" /\ call'[r].at = "ok" /\ f \in call[r].changed
    BY DEF Bundles!OnlyItsFields
  <2>1. PICK r \in Bundles!Requests : Bundles!Write(r) /\ row' # row
    <3>1. CASE Bundles!World
      BY <3>1 DEF Bundles!World, Bundles!Tick, Bundles!Move
    <3>2. ASSUME NEW a \in Admins, Bundles!Press(a) PROVE row' = row
      BY <3>2 DEF Bundles!Press, Bundles!Edit, Bundles!Cancel, Bundles!TypeField,
                  Bundles!TypeComponent, Bundles!Type, Bundles!Submit, Bundles!AskDelete,
                  Bundles!Asks, Bundles!Refetch
    <3>3. ASSUME NEW q \in Bundles!Requests, Bundles!Read(q) \/ Bundles!Validate(q) \/
                   Bundles!Answer(q) \/ Bundles!Lose(q)
          PROVE  row' = row
      BY <3>3 DEF Bundles!Read, Bundles!Validate, Bundles!Answer, Bundles!Lose
    <3>4. ASSUME NEW q \in Bundles!Requests, Bundles!Remove(q) PROVE row' \in {row, None}
      BY <3>4 DEF Bundles!Remove
    <3> QED BY <3>1, <3>2, <3>3, <3>4 DEF Bundles!Next, Bundles!Handle
  <2>2. /\ call[r].op = "update" /\ Bundles!Found(r) /\ call[r].at = "valid"
        /\ row' = Bundles!Merged(call[r], row) /\ Bundles!Goes(r, "ok")
    BY <2>1 DEF Bundles!Write
  <2>3. call[r] \in BundleCalls /\ call[r].body \in Bundles!Rows /\ row \in Bundles!Rows
    BY <2>2 DEF BundleInv, BundleTyped, BundleRows, Held
  <2>4. f \in call[r].changed
    BY <2>2, <2>3, MergedIsRow
  <2>5. call'[r].at = "ok"
    BY <2>2 DEF BundleInv, BundleTyped, BundleCalls, Bundles!Goes
  <2> QED BY <2>2, <2>4, <2>5
<1> QED BY <1>1, <1>2, <1>3, PTL DEF Bundles!Spec

-----------------------------------------------------------------------------
(* RateLimit: the counter knows what its window let through.               *)

LimitInv ==
  /\ count.n \in 0..(Limit + 1) /\ count = [n |-> count.n, ttl |-> count.ttl]
  /\ count.n = 0 => count = Limits!NoKey
  /\ served = IF count.n <= Limit THEN count.n ELSE Limit

LEMMA LimitStep ==
  ASSUME Limits!ConstantsAssumption, LimitInv, [Limits!Next]_Limits!vars
  PROVE  LimitInv'
<1>0. Limit \in Nat \ {0}
  BY DEF Limits!ConstantsAssumption
<1>1. ASSUME NEW r \in Requests, Limits!Incr(r) PROVE LimitInv'
  <2>1. /\ count'.n \in 1..(Limit + 1) /\ count'.n = Limits!Smaller(count.n + 1, Limit + 1)
        /\ count' = [n |-> count'.n, ttl |-> count'.ttl]
    <3>1. CASE count = Limits!NoKey
      <4>1. count.n = 0 /\ count' = [n |-> 1, ttl |-> Limits!Forever]
        BY <1>1, <3>1 DEF Limits!Incr, Limits!Incremented, Limits!NoKey
      <4> QED BY <1>0, <4>1 DEF Limits!Smaller
    <3>2. CASE count # Limits!NoKey
      <4>1. Limits!Smaller(count.n + 1, Limit + 1) \in 1..(Limit + 1)
        BY <1>0 DEF LimitInv, Limits!Smaller
      <4>2. count' = [n |-> Limits!Smaller(count.n + 1, Limit + 1), ttl |-> count.ttl]
        BY <1>1, <3>2 DEF LimitInv, Limits!Incr, Limits!Incremented, Limits!MaxCount
      <4> QED BY <4>1, <4>2
    <3> QED BY <3>1, <3>2
  <2>2. served' = IF count'.n <= Limit THEN served + 1 ELSE served
    BY <1>1, <2>1 DEF Limits!Incr, Limits!Admits
  <2> QED BY <1>0, <2>1, <2>2 DEF LimitInv, Limits!Smaller
<1>2. ASSUME NEW r \in Requests, Limits!Expire(r) PROVE LimitInv'
  <2>1. count' = [n |-> count.n, ttl |-> IF count = Limits!NoKey THEN 0 ELSE Window]
    BY <1>2 DEF LimitInv, Limits!Expire, Limits!Expiring, Limits!NoKey
  <2>2. served' = served
    BY <1>2 DEF Limits!Expire
  <2> QED BY <2>1, <2>2 DEF LimitInv, Limits!NoKey
<1>3. CASE Limits!Tick
  <2>1. count' = Limits!Aged(count) /\ served' = IF count' = Limits!NoKey THEN 0 ELSE served
    BY <1>3 DEF Limits!Tick
  <2>2. CASE count' = Limits!NoKey
    BY <1>0, <2>1, <2>2 DEF LimitInv, Limits!NoKey
  <2>3. CASE count' # Limits!NoKey
    <3>1. PICK ttl : count' = [n |-> count.n, ttl |-> ttl]
      BY <2>1, <2>3 DEF LimitInv, Limits!Aged
    <3>2. count.n # 0
      BY <2>1, <2>3 DEF LimitInv, Limits!Aged, Limits!NoKey, Limits!Forever
    <3> QED BY <2>1, <2>3, <3>1, <3>2 DEF LimitInv
  <2> QED BY <2>2, <2>3
<1>4. ASSUME UNCHANGED <<count, served>> PROVE LimitInv'
  BY <1>4 DEF LimitInv
<1>5. ASSUME NEW r \in Requests,
             \/ Limits!Arrive(r) \/ Limits!CheckPause(r) \/ Limits!Decide(r) \/ Limits!Admit(r)
             \/ Limits!Violate(r) \/ Limits!ExpireViolations(r) \/ Limits!Block(r)
             \/ Limits!Fail(r)
      PROVE  UNCHANGED <<count, served>>
  BY <1>5 DEF Limits!Arrive, Limits!CheckPause, Limits!Decide, Limits!Admit, Limits!Violate,
              Limits!ExpireViolations, Limits!Block, Limits!Fail
<1>6. CASE UNCHANGED Limits!vars
  BY <1>4, <1>6 DEF Limits!vars
<1> QED BY <1>1, <1>2, <1>3, <1>4, <1>5, <1>6 DEF Limits!Next, Limits!Handle

\* However many requests interleave their commands, whichever of them fail, and
\* whenever the counter's life ends, a window's counter lets at most its limit
\* through (rateLimit.ts checkBucket).
THEOREM LimitTheorem ==
  Limits!ConstantsAssumption => (Limits!Spec => []Limits!LimitKept)
<1> SUFFICES ASSUME Limits!ConstantsAssumption PROVE Limits!Spec => []Limits!LimitKept
  OBVIOUS
<1>0. Limit \in Nat \ {0}
  BY DEF Limits!ConstantsAssumption
<1>1. Limits!Init => LimitInv
  BY <1>0 DEF Limits!Init, LimitInv, Limits!NoKey
<1>2. LimitInv /\ [Limits!Next]_Limits!vars => LimitInv'
  BY LimitStep
<1>3. LimitInv => Limits!LimitKept
  BY <1>0 DEF LimitInv, Limits!LimitKept
<1> QED BY <1>1, <1>2, <1>3, PTL DEF Limits!Spec

-----------------------------------------------------------------------------
(* StockAlerts: requests that do not overlap find each other done.         *)

AlertTyped ==
  /\ Alerts!TypeOK
  /\ \A c \in Customers : /\ alert[c].exists => alert[c].version >= 1
                          /\ c \in asking => alert[c].version < MaxVersions
Ended ==
  \A c \in Customers :
    alert[c].exists /\ ~alert[c].active => <<c, alert[c].version>> \in delivered
OneByOne ==
  ~Overlapping =>
    /\ asking # {} => stock = 0 /\ \A a \in Admins : editing[a] = -1
    /\ \A a \in Admins : editing[a] # -1 =>
         editing[a] = stock /\ \A b \in Admins \ {a} : editing[b] = -1
NoneLeft ==
  ~Overlapping /\ ~Releases /\ stock > 0 =>
    \A c \in Customers : Alerts!Wants(c) => <<c, alert[c].version>> \in queued
AlertInv == AlertTyped /\ Ended /\ OneByOne /\ NoneLeft

LEMMA AlertInit ==
  ASSUME Alerts!ConstantsAssumption, Alerts!Init
  PROVE  AlertInv
<1>1. AlertTyped
  BY DEF Alerts!ConstantsAssumption, Alerts!Init, AlertTyped, Alerts!TypeOK
<1>2. Ended /\ OneByOne /\ NoneLeft
  BY DEF Alerts!Init, Ended, OneByOne, NoneLeft
<1> QED BY <1>1, <1>2 DEF AlertInv

LEMMA SubscribeOK ==
  ASSUME Alerts!ConstantsAssumption, AlertInv, NEW c \in Customers,
         Alerts!StartSubscribe(c) \/ Alerts!FinishSubscribe(c) \/ Alerts!Unsubscribe(c)
  PROVE  AlertInv'
<1>1. CASE Alerts!StartSubscribe(c)
  <2>1. AlertTyped'
    BY <1>1 DEF AlertInv, AlertTyped, Alerts!TypeOK, Alerts!StartSubscribe
  <2>2. stock = 0
    BY <1>1 DEF AlertInv, AlertTyped, Alerts!TypeOK, Alerts!StartSubscribe,
                Alerts!ConstantsAssumption
  <2>3. OneByOne'
    <3>1. stock' = 0 /\ editing' = editing /\ (~Overlapping => Alerts!Quiet)
      BY <1>1, <2>2 DEF Alerts!StartSubscribe, Alerts!MayStart
    <3> QED BY <3>1 DEF OneByOne, Alerts!Quiet
  <2> QED BY <1>1, <2>1, <2>3 DEF AlertInv, Ended, NoneLeft, Alerts!StartSubscribe, Alerts!Wants
<1>2. CASE Alerts!FinishSubscribe(c)
  <2>1. PICK n \in 1..MaxVersions :
          alert' = [alert EXCEPT ![c] = [exists |-> TRUE, active |-> TRUE, version |-> n]]
    <3>1. alert[c].version + 1 \in 1..MaxVersions
      BY <1>2 DEF AlertInv, AlertTyped, Alerts!TypeOK, Alerts!FinishSubscribe,
                  Alerts!ConstantsAssumption
    <3>2. alert' = [alert EXCEPT ![c] = [exists |-> TRUE, active |-> TRUE,
                                         version |-> alert[c].version + 1]]
      BY <1>2 DEF AlertInv, AlertTyped, Alerts!TypeOK, Alerts!FinishSubscribe
    <3> QED BY <3>1, <3>2
  <2>2. \A d \in Customers :
          alert'[d] = IF d = c THEN [exists |-> TRUE, active |-> TRUE, version |-> n]
                      ELSE alert[d]
    BY <2>1 DEF AlertInv, AlertTyped, Alerts!TypeOK
  <2>3. AlertTyped'
    <3>1. Alerts!TypeOK'
      BY <1>2, <2>1 DEF AlertInv, AlertTyped, Alerts!TypeOK, Alerts!FinishSubscribe,
                        Alerts!ConstantsAssumption
    <3>2. asking' = asking \ {c}
      BY <1>2 DEF Alerts!FinishSubscribe
    <3> QED BY <2>2, <3>1, <3>2 DEF AlertInv, AlertTyped
  <2>4. Ended'
    BY <1>2, <2>2 DEF AlertInv, Ended, Alerts!FinishSubscribe
  <2>5. OneByOne'
    BY <1>2 DEF AlertInv, OneByOne, Alerts!FinishSubscribe
  <2>6. NoneLeft'
    BY <1>2 DEF AlertInv, OneByOne, NoneLeft, Alerts!FinishSubscribe
  <2> QED BY <2>3, <2>4, <2>5, <2>6 DEF AlertInv
<1>3. CASE Alerts!Unsubscribe(c)
  <2>1. \A d \in Customers :
          /\ alert'[d].version = alert[d].version /\ alert'[d].active = alert[d].active
          /\ alert'[d].exists = IF d = c THEN FALSE ELSE alert[d].exists
    BY <1>3 DEF AlertInv, AlertTyped, Alerts!TypeOK, Alerts!Unsubscribe
  <2>2. AlertTyped'
    <3>1. Alerts!TypeOK'
      BY <1>3 DEF AlertInv, AlertTyped, Alerts!TypeOK, Alerts!Unsubscribe
    <3> QED BY <1>3, <2>1, <3>1 DEF AlertInv, AlertTyped, Alerts!Unsubscribe
  <2>3. Ended' /\ NoneLeft'
    BY <1>3, <2>1 DEF AlertInv, Ended, NoneLeft, Alerts!Unsubscribe, Alerts!Wants
  <2>4. OneByOne'
    BY <1>3 DEF AlertInv, OneByOne, Alerts!Unsubscribe
  <2> QED BY <2>2, <2>3, <2>4 DEF AlertInv
<1> QED BY <1>1, <1>2, <1>3

LEMMA RestockOK ==
  ASSUME Alerts!ConstantsAssumption, AlertInv, NEW a \in Admins,
         Alerts!StartEdit(a) \/ \E next \in 0..MaxStock : Alerts!FinishEdit(a, next)
  PROVE  AlertInv'
<1>1. CASE Alerts!StartEdit(a)
  <2>1. AlertTyped'
    BY <1>1 DEF AlertInv, AlertTyped, Alerts!TypeOK, Alerts!StartEdit, Alerts!ConstantsAssumption
  <2>2. OneByOne'
    BY <1>1 DEF AlertInv, AlertTyped, Alerts!TypeOK, OneByOne, Alerts!StartEdit,
                Alerts!MayStart, Alerts!Quiet
  <2> QED BY <1>1, <2>1, <2>2 DEF AlertInv, Ended, NoneLeft, Alerts!StartEdit, Alerts!Wants
<1>2. ASSUME NEW next \in 0..MaxStock, Alerts!FinishEdit(a, next) PROVE AlertInv'
  <2>1. alert' = alert /\ delivered' = delivered /\ asking' = asking /\ stock' = next
        /\ editing' = [editing EXCEPT ![a] = -1] /\ editing[a] >= 0
        /\ queued' = IF Alerts!ShouldSend(editing[a], next)
                     THEN queued \cup Alerts!Waiting ELSE queued
    BY <1>2 DEF Alerts!FinishEdit, Alerts!AlertsQueued
  <2>2. Alerts!Waiting \subseteq Customers \X (1..MaxVersions)
    <3>1. \A c \in Customers : Alerts!Wants(c) => alert[c].version \in 1..MaxVersions
      BY DEF AlertInv, AlertTyped, Alerts!TypeOK, Alerts!Wants, Alerts!ConstantsAssumption
    <3> QED BY <3>1 DEF Alerts!Waiting
  <2>3. AlertTyped'
    <3>1. editing' \in [Admins -> -1..MaxStock]
      BY <2>1 DEF AlertInv, AlertTyped, Alerts!TypeOK, Alerts!ConstantsAssumption
    <3>2. delivered \subseteq queued' /\ queued' \subseteq Customers \X (1..MaxVersions)
      BY <2>1, <2>2 DEF AlertInv, AlertTyped, Alerts!TypeOK
    <3> QED BY <2>1, <3>1, <3>2 DEF AlertInv, AlertTyped, Alerts!TypeOK
  <2>4. OneByOne'
    <3>1. \A b \in Admins : editing'[b] = IF b = a THEN -1 ELSE editing[b]
      BY <2>1 DEF AlertInv, AlertTyped, Alerts!TypeOK
    <3>2. ~Overlapping => asking = {} /\ \A b \in Admins \ {a} : editing[b] = -1
      BY <2>1 DEF AlertInv, OneByOne
    <3> QED BY <2>1, <3>1, <3>2 DEF OneByOne
  <2>5. NoneLeft'
    <3> SUFFICES ASSUME ~Overlapping, ~Releases, next > 0, NEW c \in Customers, Alerts!Wants(c)
                 PROVE  <<c, alert[c].version>> \in queued'
      BY <2>1 DEF NoneLeft, Alerts!Wants
    <3>1. editing[a] = stock
      BY <2>1 DEF AlertInv, OneByOne
    <3>2. CASE stock > 0
      BY <2>1, <3>2 DEF AlertInv, NoneLeft
    <3>3. CASE ~(stock > 0)
      <4>1. <<c, alert[c].version>> \in Alerts!Waiting
        BY DEF Alerts!Waiting
      <4>2. stock \in 0..MaxStock
        BY DEF AlertInv, AlertTyped, Alerts!TypeOK
      <4>3. Alerts!ShouldSend(editing[a], next)
        BY <3>1, <3>3, <4>2 DEF Alerts!ShouldSend
      <4> QED BY <2>1, <4>1, <4>3
    <3> QED BY <3>2, <3>3
  <2>6. Ended'
    BY <2>1 DEF AlertInv, Ended
  <2> QED BY <2>3, <2>4, <2>5, <2>6 DEF AlertInv
<1> QED BY <1>1, <1>2

LEMMA DeliverOK ==
  ASSUME AlertInv, NEW c \in Customers, NEW v \in 1..MaxVersions, Alerts!Deliver(c, v)
  PROVE  AlertInv'
<1>1. /\ alert' = [alert EXCEPT ![c].active = FALSE] /\ delivered' = delivered \cup {<<c, v>>}
      /\ alert[c].version = v /\ <<c, v>> \in queued
      /\ UNCHANGED <<stock, queued, asking, editing>>
  BY DEF Alerts!Deliver
<1>2. \A d \in Customers :
        /\ alert'[d].version = alert[d].version /\ alert'[d].exists = alert[d].exists
        /\ alert'[d].active = IF d = c THEN FALSE ELSE alert[d].active
  BY <1>1 DEF AlertInv, AlertTyped, Alerts!TypeOK
<1>3. Alerts!TypeOK'
  BY <1>1 DEF AlertInv, AlertTyped, Alerts!TypeOK
<1>4. AlertTyped'
  BY <1>1, <1>2, <1>3 DEF AlertInv, AlertTyped
<1>5. Ended'
  BY <1>1, <1>2 DEF AlertInv, Ended
<1>6. OneByOne'
  BY <1>1 DEF AlertInv, OneByOne
<1>7. NoneLeft'
  BY <1>1, <1>2 DEF AlertInv, NoneLeft, Alerts!Wants
<1> QED BY <1>4, <1>5, <1>6, <1>7 DEF AlertInv

LEMMA StockMovesOK ==
  ASSUME Alerts!ConstantsAssumption, AlertInv, Alerts!Sell \/ Alerts!Release
  PROVE  AlertInv'
<1>1. /\ UNCHANGED <<alert, queued, delivered, asking, editing>> /\ stock' \in 0..MaxStock
      /\ stock' > 0 => stock > 0 \/ Releases
      /\ ~Overlapping => Alerts!Quiet
  BY DEF AlertInv, AlertTyped, Alerts!TypeOK, Alerts!Sell, Alerts!Release, Alerts!MayStart,
         Alerts!ConstantsAssumption
<1>2. AlertTyped'
  BY <1>1 DEF AlertInv, AlertTyped, Alerts!TypeOK
<1>3. OneByOne'
  BY <1>1 DEF OneByOne, Alerts!Quiet
<1> QED BY <1>1, <1>2, <1>3 DEF AlertInv, Ended, NoneLeft, Alerts!Wants

LEMMA AlertStep ==
  ASSUME Alerts!ConstantsAssumption, AlertInv, [Alerts!Next]_Alerts!vars
  PROVE  AlertInv'
<1>1. CASE UNCHANGED Alerts!vars
  BY <1>1 DEF Alerts!vars, AlertInv, AlertTyped, Alerts!TypeOK, Ended, OneByOne, NoneLeft,
              Alerts!Wants
<1> QED BY <1>1, SubscribeOK, RestockOK, DeliverOK, StockMovesOK DEF Alerts!Next

\* However requests, restocks, releases and deliveries overlap, a wish to be
\* told ends only by the customer or by an email that was delivered for it
\* (stockAlerts.service.ts, stockAlertEmail.service.ts).
THEOREM WishEndsByEmail ==
  Alerts!ConstantsAssumption => (Alerts!Spec => [](Alerts!TypeOK /\ Alerts!EndedByEmail))
<1> SUFFICES ASSUME Alerts!ConstantsAssumption
             PROVE  Alerts!Spec => [](Alerts!TypeOK /\ Alerts!EndedByEmail)
  OBVIOUS
<1>1. Alerts!Init => AlertInv
  BY AlertInit
<1>2. AlertInv /\ [Alerts!Next]_Alerts!vars => AlertInv'
  BY AlertStep
<1>3. AlertInv => Alerts!TypeOK /\ Alerts!EndedByEmail
  BY DEF AlertInv, AlertTyped, Ended, Alerts!EndedByEmail
<1> QED BY <1>1, <1>2, <1>3, PTL DEF Alerts!Spec

\* And where requests do not overlap and stock comes back by administrators
\* alone, everybody who waits has an email under way once the variant is back
\* (stockAlertPolicy.ts shouldSendBackInStock).
THEOREM NobodyForgotten ==
  Alerts!ConstantsAssumption /\ ~Overlapping /\ ~Releases =>
    (Alerts!Spec => []Alerts!NoneForgotten)
<1> SUFFICES ASSUME Alerts!ConstantsAssumption, ~Overlapping, ~Releases
             PROVE  Alerts!Spec => []Alerts!NoneForgotten
  OBVIOUS
<1>1. Alerts!Init => AlertInv
  BY AlertInit
<1>2. AlertInv /\ [Alerts!Next]_Alerts!vars => AlertInv'
  BY AlertStep
<1>3. AlertInv => Alerts!NoneForgotten
  BY DEF AlertInv, NoneLeft, Alerts!NoneForgotten
<1> QED BY <1>1, <1>2, <1>3, PTL DEF Alerts!Spec

-----------------------------------------------------------------------------
(* TaggedCache: what the tag knows, and what an invalidation clears.       *)

Clients == Readers \cup Writers
Entries == [version : Nat \cup {None}, left : Nat]
Jobs ==
  [at : {"idle", "fill", "members", "clear"}, key : Keys \cup {None},
   version : Nat \cup {None}, members : SUBSET Keys]

EntryOK(entry, ttl, written) ==
  /\ entry.left <= ttl /\ ((entry.version = None) <=> (entry.left = 0))
  /\ entry.left > 0 => entry.version <= written
JobOK(job, written) ==
  job.at = "fill" => job.key \in Keys /\ job.version \in Nat /\ job.version <= written

CacheTyped ==
  /\ data \in 0..MaxWrites /\ faults \in 0..MaxFaults
  /\ cache \in [Keys -> Entries] /\ tag \in [members : SUBSET Keys, left : Nat]
  /\ worker \in [Clients -> Jobs]
  /\ \A k \in Keys : EntryOK(cache[k], Ttl[k], data)
  /\ \A w \in Clients : JobOK(worker[w], data)

\* No key of the tag is given a longer life than the tag has after any other
\* key of it was filled.
LivesAgree == \A j, k \in Keys : Ttl[j] <= Ttl[k] + Grace

\* What was read of the tag is all there is to clear, as long as nobody else
\* comes between that read and the deletions.
ClearsAll ==
  \A w \in Clients : worker[w].at = "clear" =>
    \A k \in Keys : Cache!Cached(k) => k \in worker[w].members
TagInv == CacheTyped /\ Cache!Tracked /\ ClearsAll

LEMMA CacheConstants ==
  ASSUME Cache!ConstantsAssumption
  PROVE  /\ \A k \in Keys : Ttl[k] \in Nat \ {0}
         /\ Grace \in Nat /\ MaxWrites \in Nat /\ MaxFaults \in Nat
         /\ None \notin Nat /\ None \notin Keys
BY DEF Cache!ConstantsAssumption

LEMMA CacheInit ==
  ASSUME Cache!ConstantsAssumption, Cache!Init
  PROVE  TagInv
<1>1. Cache!Idle \in Jobs /\ Cache!Idle.at = "idle"
  BY DEF Cache!Idle, Jobs
<1>2. Cache!Uncached \in Entries /\ \A k \in Keys : EntryOK(Cache!Uncached, Ttl[k], data)
  BY CacheConstants DEF Cache!Uncached, Entries, EntryOK
<1>3. CacheTyped
  BY <1>1, <1>2, CacheConstants DEF Cache!Init, CacheTyped, JobOK, Clients, Cache!NoTag
<1>4. Cache!Tracked
  BY DEF Cache!Init, Cache!Tracked, Cache!Cached, Cache!Uncached
<1>5. ClearsAll
  BY <1>1 DEF Cache!Init, ClearsAll, Clients
<1> QED BY <1>3, <1>4, <1>5 DEF TagInv

\* A worker moves on and the cache stays.
LEMMA WorkStep ==
  ASSUME TagInv, NEW w \in Clients, NEW job \in Jobs, JobOK(job, data'), Cache!MayRun(w), ~SlowClears,
         job.at = "clear" => job.members = tag.members,
         worker' = [worker EXCEPT ![w] = job], data' \in data..MaxWrites,
         faults' \in 0..MaxFaults, UNCHANGED <<cache, tag>>
  PROVE  TagInv'
<1>1. data \in Nat /\ data' \in 0..MaxWrites /\ data <= data'
  BY DEF TagInv, CacheTyped
<1>2. ASSUME NEW u \in Clients PROVE JobOK(worker'[u], data')
  <2>1. CASE u = w
    BY <2>1 DEF TagInv, CacheTyped
  <2>2. CASE u # w
    <3>1. worker'[u] = worker[u] /\ JobOK(worker[u], data)
      BY <2>2 DEF TagInv, CacheTyped
    <3> QED BY <1>1, <3>1 DEF JobOK
  <2> QED BY <2>1, <2>2
<1>3. ASSUME NEW k \in Keys PROVE EntryOK(cache'[k], Ttl[k], data')
  <2>1. EntryOK(cache[k], Ttl[k], data) /\ cache'[k] = cache[k] /\ cache[k] \in Entries
    BY DEF TagInv, CacheTyped
  <2>2. cache[k].left > 0 => cache[k].version \in Nat
    BY <2>1 DEF EntryOK, Entries
  <2> QED BY <1>1, <2>1, <2>2 DEF EntryOK
<1>4. CacheTyped'
  BY <1>1, <1>2, <1>3 DEF TagInv, CacheTyped
<1>5. Cache!Tracked /\ Cache!Tracked'
  BY DEF TagInv, Cache!Tracked, Cache!Cached
<1>6. ClearsAll'
  <2> SUFFICES ASSUME NEW u \in Clients, worker'[u].at = "clear", NEW k \in Keys, cache[k].left > 0
               PROVE  k \in worker'[u].members
    BY DEF ClearsAll, Cache!Cached
  <2>1. u = w
    BY DEF TagInv, CacheTyped, Cache!MayRun, Cache!At, Clients
  <2>2. worker'[u] = job
    BY <2>1 DEF TagInv, CacheTyped
  <2> QED BY <1>5, <2>2 DEF Cache!Tracked, Cache!Cached
<1> QED BY <1>4, <1>5, <1>6 DEF TagInv

\* A worker is done, and the cache and its tag are new.
LEMMA StoreStep ==
  ASSUME TagInv, NEW w \in Clients, worker' = [worker EXCEPT ![w] = Cache!Idle],
         Cache!MayRun(w), ~SlowClears,
         cache' \in [Keys -> Entries], tag' \in [members : SUBSET Keys, left : Nat],
         \A k \in Keys : EntryOK(cache'[k], Ttl[k], data), Cache!Tracked', UNCHANGED <<data, faults>>
  PROVE  TagInv'
<1>1. Cache!Idle \in Jobs /\ Cache!Idle.at = "idle"
  BY DEF Cache!Idle, Jobs
<1>2. worker' \in [Clients -> Jobs] /\ \A u \in Clients : JobOK(worker'[u], data)
  BY <1>1 DEF TagInv, CacheTyped, JobOK
<1>3. \A u \in Clients : JobOK(worker'[u], data')
  BY <1>2 DEF JobOK
<1>4. \A k \in Keys : EntryOK(cache'[k], Ttl[k], data')
  BY DEF EntryOK
<1>5. \A u \in Clients : worker'[u].at # "clear"
  BY <1>1 DEF TagInv, CacheTyped, Cache!MayRun, Cache!At, Clients
<1> QED BY <1>2, <1>3, <1>4, <1>5 DEF TagInv, CacheTyped, ClearsAll

LEMMA LoadOK ==
  ASSUME Cache!ConstantsAssumption, TagInv, NEW w \in Readers, NEW k \in Keys,
         Cache!Load(w, k), Cache!MayRun(w), ~SlowClears
  PROVE  TagInv'
<1>1. PICK job : /\ job = [Cache!Idle EXCEPT !.at = "fill", !.key = k, !.version = data]
                 /\ worker' = [worker EXCEPT ![w] = job]
  BY DEF Cache!Load, Cache!Set
<1>2. /\ data \in 0..MaxWrites /\ faults \in 0..MaxFaults /\ MaxWrites \in Nat
      /\ UNCHANGED <<data, cache, tag, faults>>
  BY CacheConstants DEF TagInv, CacheTyped, Cache!Load
<1>3. job \in Jobs /\ job.at = "fill" /\ job.key = k /\ job.version = data
  <2>1. data \in Nat
    BY <1>2
  <2>2. job = [at |-> "fill", key |-> k, version |-> data, members |-> {}]
    BY <1>1 DEF Cache!Idle
  <2> QED BY <2>1, <2>2 DEF Jobs
<1>4. JobOK(job, data')
  BY <1>2, <1>3 DEF JobOK
<1>5. w \in Clients /\ data' \in data..MaxWrites /\ faults' \in 0..MaxFaults
  BY <1>2 DEF Clients
<1> QED BY <1>1, <1>2, <1>3, <1>4, <1>5, WorkStep

LEMMA FillOK ==
  ASSUME Cache!ConstantsAssumption, LivesAgree, TagInv, NEW w \in Readers, Cache!Fill(w),
         Cache!MayRun(w), ~SlowClears
  PROVE  TagInv'
<1> PICK k : k = worker[w].key
  OBVIOUS
<1> PICK version : version = worker[w].version
  OBVIOUS
<1>1. /\ k \in Keys /\ version \in Nat /\ version <= data
      /\ Ttl[k] \in Nat \ {0} /\ Grace \in Nat
  BY CacheConstants DEF TagInv, CacheTyped, JobOK, Cache!Fill, Cache!At, Clients
<1>2. /\ cache' = [cache EXCEPT ![k] = [version |-> version, left |-> Ttl[k]]]
      /\ tag' = [members |-> tag.members \cup {k}, left |-> Ttl[k] + Grace]
      /\ worker' = [worker EXCEPT ![w] = Cache!Idle] /\ UNCHANGED <<data, faults>>
  BY DEF Cache!Fill, Cache!Set, Cache!Life, Cache!MembersWith
<1>3. cache' \in [Keys -> Entries] /\ tag' \in [members : SUBSET Keys, left : Nat]
  BY <1>1, <1>2 DEF TagInv, CacheTyped, Entries
<1>4. ASSUME NEW j \in Keys PROVE EntryOK(cache'[j], Ttl[j], data)
  <2>1. CASE j = k
    <3>1. cache'[j] = [version |-> version, left |-> Ttl[k]]
      BY <1>2, <2>1 DEF TagInv, CacheTyped
    <3> QED BY <1>1, <2>1, <3>1, CacheConstants DEF EntryOK
  <2>2. CASE j # k
    BY <1>2, <2>2 DEF TagInv, CacheTyped
  <2> QED BY <2>1, <2>2
<1>5. Cache!Tracked'
  <2> SUFFICES ASSUME NEW j \in Keys, cache'[j].left > 0
               PROVE  j \in tag'.members /\ cache'[j].left <= tag'.left
    BY DEF Cache!Tracked, Cache!Cached
  <2>1. cache'[j].left <= Ttl[j] /\ Ttl[j] <= Ttl[k] + Grace /\ Ttl[j] \in Nat
    BY <1>1, <1>4, CacheConstants DEF EntryOK, LivesAgree
  <2>2. tag'.left = Ttl[k] + Grace /\ tag'.members = tag.members \cup {k}
    BY <1>2
  <2>3. cache'[j].left \in Nat
    BY <1>3 DEF Entries
  <2>4. j \in tag'.members
    <3>1. CASE j = k
      BY <2>2, <3>1
    <3>2. CASE j # k
      <4>1. cache[j].left > 0
        BY <1>2, <3>2 DEF TagInv, CacheTyped
      <4> QED BY <2>2, <4>1 DEF TagInv, Cache!Tracked, Cache!Cached
    <3> QED BY <3>1, <3>2
  <2> QED BY <1>1, <2>1, <2>2, <2>3, <2>4
<1> QED BY <1>2, <1>3, <1>4, <1>5, StoreStep DEF Clients

LEMMA InvalidateOK ==
  ASSUME Cache!ConstantsAssumption, TagInv, NEW w \in Writers,
         Cache!Write(w) \/ Cache!ReadMembers(w) \/ Cache!Clear(w), Cache!MayRun(w), ~SlowClears
  PROVE  TagInv'
<1>1. w \in Clients /\ data \in 0..MaxWrites /\ faults \in 0..MaxFaults /\ worker[w] \in Jobs
      /\ tag.members \subseteq Keys /\ MaxWrites \in Nat
  BY CacheConstants DEF Clients, TagInv, CacheTyped
<1>2. CASE Cache!Write(w)
  <2>1. PICK job : job = [Cache!Idle EXCEPT !.at = "members"] /\ worker' = [worker EXCEPT ![w] = job]
    BY <1>2 DEF Cache!Write, Cache!Set
  <2>2. job \in Jobs /\ job.at = "members"
    BY <2>1 DEF Cache!Idle, Jobs
  <2>3. data' \in data..MaxWrites
    BY <1>1, <1>2 DEF Cache!Write
  <2>4. JobOK(job, data')
    BY <2>2 DEF JobOK
  <2> QED BY <1>1, <1>2, <2>1, <2>2, <2>3, <2>4, WorkStep DEF Cache!Write
<1>3. CASE Cache!ReadMembers(w)
  <2>1. PICK job : /\ job = [worker[w] EXCEPT !.at = "clear", !.members = tag.members]
                   /\ worker' = [worker EXCEPT ![w] = job]
    BY <1>3 DEF Cache!ReadMembers, Cache!Set
  <2>2. job \in Jobs /\ job.at = "clear" /\ job.members = tag.members
    BY <1>1, <2>1 DEF Jobs
  <2>3. JobOK(job, data')
    BY <2>2 DEF JobOK
  <2>4. data' \in data..MaxWrites /\ UNCHANGED <<cache, tag, faults>>
    BY <1>1, <1>3 DEF Cache!ReadMembers
  <2> QED BY <1>1, <2>1, <2>2, <2>3, <2>4, WorkStep
<1>4. CASE Cache!Clear(w)
  <2>1. /\ cache' = [k \in Keys |-> IF k \in worker[w].members THEN Cache!Uncached ELSE cache[k]]
        /\ tag' = Cache!NoTag /\ worker' = [worker EXCEPT ![w] = Cache!Idle]
        /\ UNCHANGED <<data, faults>>
    BY <1>4 DEF Cache!Clear, Cache!Cleared, Cache!Set
  <2>2. Cache!Uncached \in Entries /\ \A k \in Keys : EntryOK(Cache!Uncached, Ttl[k], data)
    BY CacheConstants DEF Cache!Uncached, Entries, EntryOK
  <2>3. \A k \in Keys : ~(cache'[k].left > 0)
    <3>1. \A k \in Keys : cache[k].left > 0 => k \in worker[w].members
      BY <1>1, <1>4 DEF TagInv, ClearsAll, Cache!Cached, Cache!Clear, Cache!At
    <3> QED BY <2>1, <3>1 DEF Cache!Uncached
  <2>4. Cache!Tracked'
    BY <2>3 DEF Cache!Tracked, Cache!Cached
  <2>5. cache' \in [Keys -> Entries] /\ tag' \in [members : SUBSET Keys, left : Nat]
    BY <2>1, <2>2 DEF TagInv, CacheTyped, Cache!NoTag
  <2>6. \A k \in Keys : EntryOK(cache'[k], Ttl[k], data)
    BY <2>1, <2>2 DEF TagInv, CacheTyped
  <2> QED BY <1>1, <2>1, <2>4, <2>5, <2>6, StoreStep
<1> QED BY <1>2, <1>3, <1>4

LEMMA FaultOK ==
  ASSUME Cache!ConstantsAssumption, TagInv, NEW w \in Clients, Cache!Fault(w),
         Cache!MayRun(w), ~SlowClears
  PROVE  TagInv'
<1>0. PICK job : job = Cache!Idle
  OBVIOUS
<1>1. job \in Jobs /\ job.at = "idle"
  BY <1>0 DEF Cache!Idle, Jobs
<1>2. JobOK(job, data')
  BY <1>1 DEF JobOK
<1>3. data' \in data..MaxWrites /\ faults' \in 0..MaxFaults /\ UNCHANGED <<cache, tag>>
  BY CacheConstants DEF TagInv, CacheTyped, Cache!Fault
<1>4. worker' = [worker EXCEPT ![w] = job]
  BY <1>0 DEF Cache!Fault, Cache!Set
<1> QED BY <1>1, <1>2, <1>3, <1>4, WorkStep

LEMMA CacheTickOK ==
  ASSUME Cache!ConstantsAssumption, TagInv, Cache!Tick
  PROVE  TagInv'
<1>1. ASSUME NEW k \in Keys
      PROVE  /\ cache'[k] \in Entries /\ EntryOK(cache'[k], Ttl[k], data)
             /\ cache'[k].left > 0 => /\ cache[k].left = cache'[k].left + 1
                                      /\ cache'[k].version = cache[k].version
  <2>1. cache[k] \in Entries /\ EntryOK(cache[k], Ttl[k], data) /\ Ttl[k] \in Nat
    BY CacheConstants DEF TagInv, CacheTyped
  <2>2. CASE cache[k].left > 1
    <3>1. cache'[k] = [version |-> cache[k].version, left |-> cache[k].left - 1]
      BY <2>1, <2>2 DEF Cache!Tick, Cache!Aged, Entries
    <3> QED BY <2>1, <2>2, <3>1 DEF Entries, EntryOK
  <2>3. CASE ~(cache[k].left > 1)
    <3>1. cache'[k] = [version |-> None, left |-> 0]
      BY <2>3 DEF Cache!Tick, Cache!Aged, Cache!Uncached
    <3> QED BY <2>1, <3>1 DEF Entries, EntryOK
  <2> QED BY <2>2, <2>3
<1>2. cache' \in [Keys -> Entries] /\ UNCHANGED <<data, faults, worker>>
  BY <1>1 DEF Cache!Tick
<1>3. /\ tag' \in [members : SUBSET Keys, left : Nat]
      /\ tag.left > 1 => tag'.members = tag.members /\ tag'.left = tag.left - 1
  BY DEF Cache!Tick, Cache!NoTag, TagInv, CacheTyped
<1>4. CacheTyped'
  BY <1>1, <1>2, <1>3 DEF TagInv, CacheTyped, EntryOK, JobOK
<1>5. Cache!Tracked'
  <2> SUFFICES ASSUME NEW k \in Keys, cache'[k].left > 0
               PROVE  k \in tag'.members /\ cache'[k].left <= tag'.left
    BY DEF Cache!Tracked, Cache!Cached
  <2>1. cache'[k].left \in Nat /\ cache[k].left = cache'[k].left + 1 /\ tag.left \in Nat
    BY <1>1 DEF Entries, TagInv, CacheTyped
  <2>2. k \in tag.members /\ cache[k].left <= tag.left
    BY <2>1 DEF TagInv, Cache!Tracked, Cache!Cached
  <2> QED BY <1>3, <2>1, <2>2
<1>6. \A k \in Keys : cache'[k].left > 0 => cache[k].left > 0
  BY <1>1 DEF Entries
<1>7. ClearsAll'
  BY <1>2, <1>6 DEF TagInv, ClearsAll, Cache!Cached
<1> QED BY <1>4, <1>5, <1>7 DEF TagInv

LEMMA CacheStep ==
  ASSUME Cache!ConstantsAssumption, LivesAgree, ~SlowClears, TagInv, [Cache!Next]_Cache!vars
  PROVE  TagInv'
<1>1. ASSUME NEW w \in Readers, Cache!MayRun(w),
             (\E k \in Keys : Cache!Load(w, k)) \/ Cache!Fill(w) \/ Cache!Fault(w)
      PROVE  TagInv'
  BY <1>1, LoadOK, FillOK, FaultOK DEF Clients
<1>2. ASSUME NEW w \in Writers, Cache!MayRun(w),
             Cache!Write(w) \/ Cache!ReadMembers(w) \/ Cache!Clear(w) \/ Cache!Fault(w)
      PROVE  TagInv'
  BY <1>2, InvalidateOK, FaultOK DEF Clients
<1>3. CASE UNCHANGED Cache!vars
  BY <1>3 DEF Cache!vars, TagInv, CacheTyped, EntryOK, JobOK, ClearsAll, Cache!Tracked,
              Cache!Cached
<1> QED BY <1>1, <1>2, <1>3, CacheTickOK DEF Cache!Next

\* Between two steps of a reader or of an invalidation, where these are not
\* interrupted, what is cached is as new as the data, or is about to be cleared.
Loaded == \A w \in Clients : worker[w].at = "fill" => worker[w].version = data
Settled ==
  (\A w \in Clients : worker[w].at \notin {"members", "clear"}) =>
    \A k \in Keys : Cache!Cached(k) => cache[k].version = data
OneAtWork ==
  \A v, w \in Clients :
    worker[v].at \in {"fill", "clear"} /\ worker[w].at \in {"fill", "clear"} => v = w
RestInv == TagInv /\ Loaded /\ Settled /\ OneAtWork

LEMMA OneAtWorkStep ==
  ASSUME RestInv, NEW w \in Clients, NEW job, worker' = [worker EXCEPT ![w] = job],
         Cache!MayRun(w), ~SlowLoads, ~SlowClears
  PROVE  /\ OneAtWork'
         /\ \A u \in Clients : worker'[u] = IF u = w THEN job ELSE worker[u]
         /\ \A u \in Clients \ {w} : worker[u].at \notin {"fill", "clear"}
<1>1. \A u \in Clients : worker'[u] = IF u = w THEN job ELSE worker[u]
  BY DEF RestInv, TagInv, CacheTyped
<1>2. \A u \in Clients \ {w} : worker[u].at \notin {"fill", "clear"}
  BY DEF Cache!MayRun, Cache!At, Clients
<1> QED BY <1>1, <1>2 DEF OneAtWork

LEMMA RestStep ==
  ASSUME Cache!ConstantsAssumption, LivesAgree, ~SlowLoads, ~SlowClears, MaxFaults = 0,
         RestInv, [Cache!Next]_Cache!vars
  PROVE  RestInv'
<1>0. TagInv'
  BY CacheStep DEF RestInv
<1>1. ASSUME NEW w \in Clients, Cache!Fault(w) PROVE FALSE
  BY <1>1 DEF RestInv, TagInv, CacheTyped, Cache!Fault
<1>2. ASSUME NEW w \in Readers, Cache!MayRun(w), NEW k \in Keys, Cache!Load(w, k)
      PROVE  RestInv'
  <2>1. PICK job : /\ job = [Cache!Idle EXCEPT !.at = "fill", !.key = k, !.version = data]
                   /\ worker' = [worker EXCEPT ![w] = job]
    BY <1>2 DEF Cache!Load, Cache!Set
  <2>2. /\ job.at = "fill" /\ job.version = data /\ w \in Clients /\ worker[w].at = "idle"
        /\ UNCHANGED <<data, cache>>
    BY <1>2, <2>1 DEF Cache!Idle, Clients, Cache!Load, Cache!At
  <2>3. /\ OneAtWork' /\ \A u \in Clients : worker'[u] = IF u = w THEN job ELSE worker[u]
        /\ \A u \in Clients \ {w} : worker[u].at \notin {"fill", "clear"}
    <3>1. worker' = [worker EXCEPT ![w] = job]
      BY <2>1
    <3>2. w \in Clients
      BY <2>2
    <3> QED BY <1>2, <3>1, <3>2, OneAtWorkStep
  <2>4. Loaded'
    <3> SUFFICES ASSUME NEW u \in Clients, worker'[u].at = "fill" PROVE worker'[u].version = data
      BY <2>2 DEF Loaded
    <3>1. CASE u = w
      <4>1. worker'[u] = job
        BY <2>3, <3>1
      <4> QED BY <2>2, <4>1
    <3>2. CASE u # w
      <4>1. worker'[u] = worker[u]
        BY <2>3, <3>2
      <4> QED BY <2>3, <3>2, <4>1
    <3> QED BY <3>1, <3>2
  <2>5. Settled'
    BY <2>2, <2>3 DEF RestInv, Settled, Cache!Cached
  <2> QED BY <1>0, <2>3, <2>4, <2>5 DEF RestInv
<1>3. ASSUME NEW w \in Readers, Cache!MayRun(w), Cache!Fill(w) PROVE RestInv'
  <2>1. PICK k : k = worker[w].key
    OBVIOUS
  <2>2. /\ w \in Clients /\ worker[w].at = "fill" /\ worker[w].version = data /\ data' = data
        /\ cache' = [cache EXCEPT ![k] = [version |-> data, left |-> Ttl[k]]]
        /\ worker' = [worker EXCEPT ![w] = Cache!Idle]
    BY <1>3, <2>1 DEF Cache!Fill, Cache!Set, Cache!At, Cache!Life, Clients, RestInv, Loaded
  <2>3. /\ OneAtWork' /\ \A u \in Clients : worker'[u] = IF u = w THEN Cache!Idle ELSE worker[u]
        /\ \A u \in Clients \ {w} : worker[u].at \notin {"fill", "clear"}
    BY <1>3, <2>2, OneAtWorkStep
  <2>4. Cache!Idle.at = "idle"
    BY DEF Cache!Idle
  <2>5. Loaded'
    BY <2>2, <2>3, <2>4 DEF RestInv, Loaded
  <2>6. Settled'
    <3> SUFFICES ASSUME \A u \in Clients : worker'[u].at \notin {"members", "clear"},
                        NEW j \in Keys, cache'[j].left > 0
                 PROVE  cache'[j].version = data
      BY <2>2 DEF Settled, Cache!Cached
    <3>1. \A u \in Clients : worker[u].at \notin {"members", "clear"}
      BY <2>2, <2>3
    <3>2. CASE j = k
      BY <2>2, <3>2 DEF RestInv, TagInv, CacheTyped
    <3>3. CASE j # k
      <4>1. cache'[j] = cache[j]
        BY <2>2, <3>3 DEF RestInv, TagInv, CacheTyped
      <4> QED BY <3>1, <4>1 DEF RestInv, Settled, Cache!Cached
    <3> QED BY <3>2, <3>3
  <2> QED BY <1>0, <2>3, <2>5, <2>6 DEF RestInv
<1>4. ASSUME NEW w \in Writers, Cache!MayRun(w), Cache!Write(w) \/ Cache!ReadMembers(w)
      PROVE  RestInv'
  <2>1. w \in Clients /\ worker[w] \in Jobs
    BY DEF Clients, RestInv, TagInv, CacheTyped
  <2>2. PICK job : /\ worker' = [worker EXCEPT ![w] = job] /\ job.at \in {"members", "clear"}
    <3>1. [Cache!Idle EXCEPT !.at = "members"].at = "members"
      BY DEF Cache!Idle
    <3>2. [worker[w] EXCEPT !.at = "clear", !.members = tag.members].at = "clear"
      BY <2>1 DEF Jobs
    <3> QED BY <1>4, <3>1, <3>2 DEF Cache!Write, Cache!ReadMembers, Cache!Set
  <2>3. /\ OneAtWork' /\ \A u \in Clients : worker'[u] = IF u = w THEN job ELSE worker[u]
        /\ \A u \in Clients \ {w} : worker[u].at \notin {"fill", "clear"}
    BY <1>4, <2>1, <2>2, OneAtWorkStep
  <2>4. Loaded'
    BY <2>2, <2>3 DEF Loaded
  <2>5. Settled'
    BY <2>1, <2>2, <2>3 DEF Settled
  <2> QED BY <1>0, <2>3, <2>4, <2>5 DEF RestInv
<1>5. ASSUME NEW w \in Writers, Cache!MayRun(w), Cache!Clear(w) PROVE RestInv'
  <2>1. /\ w \in Clients /\ worker[w].at = "clear" /\ data' = data
        /\ worker' = [worker EXCEPT ![w] = Cache!Idle]
        /\ cache' = [k \in Keys |-> IF k \in worker[w].members THEN Cache!Uncached ELSE cache[k]]
    BY <1>5 DEF Clients, Cache!Clear, Cache!Cleared, Cache!Set, Cache!At
  <2>2. OneAtWork' /\ \A u \in Clients : worker'[u] = IF u = w THEN Cache!Idle ELSE worker[u]
    BY <1>5, <2>1, OneAtWorkStep
  <2>3. Cache!Idle.at = "idle"
    BY DEF Cache!Idle
  <2>4. Loaded'
    BY <2>1, <2>2, <2>3 DEF RestInv, Loaded
  <2>5. \A k \in Keys : ~(cache'[k].left > 0)
    <3>1. \A k \in Keys : cache[k].left > 0 => k \in worker[w].members
      BY <2>1 DEF RestInv, TagInv, ClearsAll, Cache!Cached
    <3> QED BY <2>1, <3>1 DEF Cache!Uncached
  <2>6. Settled'
    BY <2>5 DEF Settled, Cache!Cached
  <2> QED BY <1>0, <2>2, <2>4, <2>6 DEF RestInv
<1>6. CASE Cache!Tick
  <2>1. UNCHANGED <<data, worker>>
    BY <1>6 DEF Cache!Tick
  <2>2. \A k \in Keys : cache'[k].left > 0 =>
          cache[k].left > 0 /\ cache'[k].version = cache[k].version
    <3> SUFFICES ASSUME NEW k \in Keys, cache'[k].left > 0
                 PROVE  cache[k].left > 0 /\ cache'[k].version = cache[k].version
      OBVIOUS
    <3>1. cache[k] \in Entries /\ cache'[k] = Cache!Aged(k)
      BY <1>6 DEF RestInv, TagInv, CacheTyped, Cache!Tick
    <3>2. CASE cache[k].left > 1
      BY <3>1, <3>2 DEF Entries, Cache!Aged
    <3>3. CASE ~(cache[k].left > 1)
      <4>1. cache'[k].left = 0
        BY <3>1, <3>3 DEF Cache!Aged, Cache!Uncached
      <4> QED BY <4>1
    <3> QED BY <3>2, <3>3
  <2> QED BY <1>0, <2>1, <2>2 DEF RestInv, Loaded, Settled, OneAtWork, Cache!Cached
<1>7. CASE UNCHANGED Cache!vars
  BY <1>0, <1>7 DEF Cache!vars, RestInv, Loaded, Settled, OneAtWork, Cache!Cached
<1> QED BY <1>1, <1>2, <1>3, <1>4, <1>5, <1>6, <1>7 DEF Cache!Next, Clients

\* Where the deletions follow the read of the tag at once, and no key of a tag
\* outlives the life the tag is given with another, the tag knows every key
\* that is cached for as long as it is: the next invalidation reaches it, also
\* if it was filled with old data, or an earlier invalidation never ran
\* (cache.ts cacheSet, invalidateTag).
THEOREM TrackedTheorem ==
  Cache!ConstantsAssumption /\ LivesAgree /\ ~SlowClears =>
    (Cache!Spec => [](Cache!TypeOK /\ Cache!Tracked))
<1> SUFFICES ASSUME Cache!ConstantsAssumption, LivesAgree, ~SlowClears
             PROVE  Cache!Spec => [](Cache!TypeOK /\ Cache!Tracked)
  OBVIOUS
<1>1. Cache!Init => TagInv
  BY CacheInit
<1>2. TagInv /\ [Cache!Next]_Cache!vars => TagInv'
  BY CacheStep
<1>3. TagInv => Cache!TypeOK /\ Cache!Tracked
  <2> SUFFICES ASSUME TagInv PROVE Cache!TypeOK
    BY DEF TagInv
  <2>1. ASSUME NEW k \in Keys
        PROVE  /\ cache[k].left \in 0..Ttl[k]
               /\ (cache[k].version = None) = (cache[k].left = 0)
               /\ Cache!Cached(k) => cache[k].version <= data
    <3>1. cache[k] \in Entries /\ EntryOK(cache[k], Ttl[k], data) /\ Ttl[k] \in Nat
      BY CacheConstants DEF TagInv, CacheTyped
    <3>2. cache[k].left \in 0..Ttl[k]
      BY <3>1 DEF Entries, EntryOK
    <3>3. Cache!Cached(k) => cache[k].version <= data
      BY <3>1 DEF EntryOK, Cache!Cached
    <3>4. (cache[k].version = None) <=> (cache[k].left = 0)
      BY <3>1 DEF EntryOK
    <3> QED BY <3>2, <3>3, <3>4, Zenon
  <2> QED BY <2>1 DEF TagInv, CacheTyped, Cache!TypeOK
<1> QED BY <1>1, <1>2, <1>3, PTL DEF Cache!Spec

\* And where a fill follows its load at once too, and no invalidation fails,
\* what is cached once everybody is done was read after the last write.
THEOREM FreshTheorem ==
  Cache!ConstantsAssumption /\ LivesAgree /\ ~SlowLoads /\ ~SlowClears /\ MaxFaults = 0 =>
    (Cache!Spec => []Cache!FreshAtRest)
<1> SUFFICES ASSUME Cache!ConstantsAssumption, LivesAgree, ~SlowLoads, ~SlowClears,
                    MaxFaults = 0
             PROVE  Cache!Spec => []Cache!FreshAtRest
  OBVIOUS
<1>1. Cache!Init => RestInv
  <2> SUFFICES ASSUME Cache!Init PROVE RestInv
    OBVIOUS
  <2>1. \A w \in Clients : worker[w].at = "idle"
    BY DEF Cache!Init, Clients, Cache!Idle
  <2>2. \A k \in Keys : ~Cache!Cached(k)
    BY DEF Cache!Init, Cache!Cached, Cache!Uncached
  <2> QED BY <2>1, <2>2, CacheInit DEF RestInv, Loaded, Settled, OneAtWork
<1>2. RestInv /\ [Cache!Next]_Cache!vars => RestInv'
  BY RestStep
<1>3. RestInv => Cache!FreshAtRest
  BY DEF RestInv, Settled, Cache!FreshAtRest, Cache!At, Clients
<1> QED BY <1>1, <1>2, <1>3, PTL DEF Cache!Spec

-----------------------------------------------------------------------------
(* CourierBooking: how far a booking that one administrator resumes is.    *)

Lone == \E admin : Workers = {admin}

Progress ==
  {"NONE", "PENDING", "ORDER_CREATED", "AWB_ASSIGNED", "READY", "FAILED", "CANCELLED"}
Bookings == [status : Progress, po : Nat, awb : Nat, ship : Nat, label : BOOLEAN]
Parcels == [po : Nat, awb : Nat, status : {"LABEL_CREATED", "CANCELLED"}, label : BOOLEAN]
BookingJobs == [at : Booking!Places, row : Bookings, got : Nat]

\* The row shows the steps that are done in their order, and that the booking
\* is ready only when they all are.
StepsInOrder(b, asked) ==
  /\ b.awb \in {0, b.po} /\ b.ship \in {0, b.po}
  /\ b.ship # 0 => b.awb # 0
  /\ b.label => b.ship # 0
  /\ b.status = "NONE" => b.ship = 0
  /\ b.status = "READY" => b.label /\ b.po \in asked

\* The shipments and pickups are those of the row.
ShipmentsOf(b, there, asked) ==
  /\ b.ship = 0 => there = {}
  /\ b.ship # 0 => \E x \in Parcels : /\ there = {x} /\ x.po = b.ship /\ x.awb = b.awb
                                      /\ b.label => x.label
  /\ asked \subseteq {b.ship} \ {0}

\* A worker holds the row as it is, and is at the step the row is to have next.
WorkerOK(t, b, asked) ==
  /\ t.at \notin {"idle", "insert", "count", "saveCancel"} => t.row = b
  /\ t.at \notin {"idle", "insert"} => b.status # "NONE"
  /\ t.at \in {"find", "create", "saveOrder"} => b.po = 0
  /\ t.at = "saveOrder" => t.got # 0
  /\ t.at \in {"awb", "saveAwb"} => b.po # 0 /\ b.awb = 0
  /\ t.at = "saveAwb" => t.got = b.po
  /\ t.at = "ship" => b.awb # 0 /\ b.ship = 0
  /\ t.at = "label" => b.ship # 0
  /\ t.at = "pickup" => b.label
  /\ t.at = "saveReady" => b.label /\ b.po \in asked
  /\ t.at = "saveCancel" => b.ship # 0 /\ t.got = b.ship

\* The courier made one order if no call it had given up on came late.
OnceMade(t, made, given) ==
  ~SlowCalls => given = 0 /\ made <= 1 /\ (t.at = "create" => made = 0)

BookingInv ==
  /\ booking \in Bookings /\ worker \in [Workers -> BookingJobs]
  /\ created \in Nat /\ abandoned \in Nat
  /\ StepsInOrder(booking, pickups) /\ ShipmentsOf(booking, shipments, pickups)
  /\ \A w \in Workers : WorkerOK(worker[w], booking, pickups)
  /\ \A w \in Workers : OnceMade(worker[w], created, abandoned)

\* A step of the one worker.
LEMMA BookingWork ==
  ASSUME Lone, BookingInv, NEW w \in Workers, NEW t \in BookingJobs,
         worker' = [worker EXCEPT ![w] = t],
         booking' \in Bookings, created' \in Nat, abandoned' \in Nat,
         StepsInOrder(booking', pickups'), ShipmentsOf(booking', shipments', pickups'),
         WorkerOK(t, booking', pickups'), OnceMade(t, created', abandoned')
  PROVE  BookingInv'
<1>1. worker' \in [Workers -> BookingJobs] /\ \A v \in Workers : worker'[v] = t
  BY DEF Lone, BookingInv
<1> QED BY <1>1 DEF BookingInv

\* The same with a row, shipments and calls that stay as they are.
LEMMA BookingMoves ==
  ASSUME Lone, BookingInv, NEW w \in Workers, NEW t \in BookingJobs,
         worker' = [worker EXCEPT ![w] = t], UNCHANGED <<booking, shipments, Booking!courier>>,
         WorkerOK(t, booking, pickups), t.at = "create" => created = 0
  PROVE  BookingInv'
<1>1. OnceMade(t, created', abandoned')
  BY DEF BookingInv, OnceMade, Booking!courier
<1> QED BY <1>1, BookingWork DEF BookingInv, Booking!courier

\* The row an update returns, and the step that is next by it.
LEMMA ContinueOK ==
  ASSUME NEW b \in Bookings, NEW asked, StepsInOrder(b, asked), b.status # "NONE",
         NEW t, t = [at |-> Booking!NextStep(b), row |-> b, got |-> 0]
  PROVE  t \in BookingJobs /\ WorkerOK(t, b, asked) /\ t.at # "create"
<1>1. /\ t.row = b /\ t.got = 0
      /\ \/ t.at = "find" /\ b.po = 0
         \/ t.at = "awb" /\ b.po # 0 /\ b.awb = 0
         \/ t.at = "ship" /\ b.awb # 0 /\ b.ship = 0
         \/ t.at = "label" /\ b.ship # 0
         \/ t.at = "pickup" /\ b.label
  <2>1. t.at = Booking!NextStep(b) /\ t.row = b /\ t.got = 0
    OBVIOUS
  <2>2. CASE b.po = 0
    <3>1. Booking!NextStep(b) = "find"
      BY <2>2 DEF Booking!NextStep
    <3> QED BY <2>1, <2>2, <3>1
  <2>3. CASE b.po # 0 /\ b.awb = 0
    <3>1. Booking!NextStep(b) = "awb"
      BY <2>3 DEF Booking!NextStep
    <3> QED BY <2>1, <2>3, <3>1
  <2>4. CASE b.po # 0 /\ b.awb # 0 /\ b.ship = 0
    <3>1. Booking!NextStep(b) = "ship"
      BY <2>4 DEF Booking!NextStep
    <3> QED BY <2>1, <2>4, <3>1
  <2>5. CASE b.po # 0 /\ b.awb # 0 /\ b.ship # 0 /\ ~b.label
    <3>1. Booking!NextStep(b) = "label"
      BY <2>5 DEF Booking!NextStep
    <3> QED BY <2>1, <2>5, <3>1
  <2>6. CASE b.po # 0 /\ b.awb # 0 /\ b.ship # 0 /\ b.label
    <3>1. Booking!NextStep(b) = "pickup"
      BY <2>6 DEF Booking!NextStep
    <3> QED BY <2>1, <2>6, <3>1
  <2> QED BY <2>2, <2>3, <2>4, <2>5, <2>6
<1>2. t \in BookingJobs
  <2>1. t.at \in Booking!Places
    BY <1>1 DEF Booking!Places
  <2> QED BY <2>1 DEF BookingJobs
<1> QED BY <1>1, <1>2 DEF WorkerOK

LEMMA IdleOK ==
  ASSUME NEW b, NEW asked, NEW made \in Nat, NEW t, t = Booking!Idle
  PROVE  t \in BookingJobs /\ WorkerOK(t, b, asked) /\ t.at = "idle"
<1>1. Booking!NoBooking \in Bookings
  BY DEF Booking!NoBooking, Bookings, Progress
<1> QED BY <1>1 DEF Booking!Idle, BookingJobs, Booking!Places, WorkerOK

LEMMA BeginOK ==
  ASSUME Lone, BookingInv, NEW w \in Workers, Booking!Begin(w) \/ Booking!Stop(w)
  PROVE  BookingInv'
<1>1. UNCHANGED <<booking, shipments, Booking!courier>>
  BY DEF Booking!Begin, Booking!Stop
<1>2. CASE Booking!Begin(w)
  <2>1. PICK next : next = IF booking.status = "NONE" THEN "insert" ELSE "count"
    OBVIOUS
  <2>2. PICK t : t = [Booking!Idle EXCEPT !.at = next] /\ worker' = [worker EXCEPT ![w] = t]
    BY <1>2, <2>1 DEF Booking!Begin, Booking!Set
  <2>3. t = [at |-> next, row |-> Booking!NoBooking, got |-> 0]
    BY <2>2 DEF Booking!Idle
  <2>4. t \in BookingJobs /\ WorkerOK(t, booking, pickups) /\ t.at # "create"
    <3>1. Booking!NoBooking \in Bookings
      BY DEF Booking!NoBooking, Bookings, Progress
    <3> QED BY <2>1, <2>3, <3>1 DEF BookingJobs, Booking!Places, WorkerOK
  <2> QED BY <1>1, <2>2, <2>4, BookingMoves
<1>3. CASE Booking!Stop(w)
  <2>1. PICK t : t = Booking!Idle /\ worker' = [worker EXCEPT ![w] = t]
    BY <1>3 DEF Booking!Stop, Booking!Set
  <2>2. t \in BookingJobs /\ WorkerOK(t, booking, pickups) /\ t.at # "create"
    BY <2>1, IdleOK DEF BookingInv
  <2> QED BY <1>1, <2>1, <2>2, BookingMoves
<1> QED BY <1>2, <1>3

LEMMA InsertOK ==
  ASSUME Lone, BookingInv, NEW w \in Workers, Booking!Insert(w)
  PROVE  BookingInv'
<1>1. worker[w] \in BookingJobs /\ UNCHANGED <<shipments, Booking!courier>>
  BY DEF BookingInv, Booking!Insert
<1>2. CASE booking.status = "NONE"
  <2>1. PICK t : t = [worker[w] EXCEPT !.at = "count"] /\ worker' = [worker EXCEPT ![w] = t]
    BY <1>2 DEF Booking!Insert, Booking!Goto, BookingInv, BookingJobs
  <2>2. t \in BookingJobs /\ t.at = "count"
    BY <1>1, <2>1 DEF BookingJobs, Booking!Places
  <2>3. booking' = [status |-> "PENDING", po |-> 0, awb |-> 0, ship |-> 0, label |-> FALSE]
    BY <1>2 DEF Booking!Insert, Booking!NoBooking
  <2>4. booking' \in Bookings /\ StepsInOrder(booking', pickups')
    BY <2>3 DEF Bookings, Progress, StepsInOrder
  <2>5. ShipmentsOf(booking', shipments', pickups')
    BY <1>1, <1>2, <2>3 DEF BookingInv, StepsInOrder, ShipmentsOf, Booking!courier
  <2>6. WorkerOK(t, booking', pickups')
    BY <2>2, <2>3 DEF WorkerOK
  <2>7. created' = created /\ abandoned' = abandoned /\ OnceMade(t, created', abandoned')
    BY <1>1, <2>2 DEF BookingInv, OnceMade, Booking!courier
  <2>8. created' \in Nat /\ abandoned' \in Nat
    BY <2>7 DEF BookingInv
  <2> QED BY <2>1, <2>2, <2>4, <2>5, <2>6, <2>7, <2>8, BookingWork
<1>3. CASE booking.status # "NONE"
  <2>1. PICK t : t = Booking!Idle /\ worker' = [worker EXCEPT ![w] = t]
    BY <1>3 DEF Booking!Insert, Booking!Set
  <2>2. t \in BookingJobs /\ WorkerOK(t, booking, pickups) /\ t.at # "create"
    BY <2>1, IdleOK DEF BookingInv
  <2>3. booking' = booking
    BY <1>3 DEF Booking!Insert
  <2> QED BY <1>1, <2>1, <2>2, <2>3, BookingMoves
<1> QED BY <1>2, <1>3

\* What the courier is asked for before an order is stored.
LEMMA OrderingOK ==
  ASSUME Lone, BookingInv, NEW w \in Workers,
         Booking!CountAttempt(w) \/ Booking!FindOrder(w) \/ Booking!CreateOrder(w)
  PROVE  BookingInv'
<1>1. /\ worker[w] \in BookingJobs /\ booking \in Bookings /\ StepsInOrder(booking, pickups)
      /\ WorkerOK(worker[w], booking, pickups) /\ OnceMade(worker[w], created, abandoned)
      /\ created \in Nat
  BY DEF BookingInv
<1>2. CASE Booking!CountAttempt(w)
  <2>1. PICK t : /\ t = [at |-> Booking!NextStep(booking), row |-> booking, got |-> 0]
                 /\ worker' = [worker EXCEPT ![w] = t]
    BY <1>2 DEF Booking!CountAttempt, Booking!Continue, Booking!Set
  <2>2. booking.status # "NONE"
    BY <1>1, <1>2 DEF WorkerOK, Booking!CountAttempt, Booking!At
  <2>3. t \in BookingJobs /\ WorkerOK(t, booking, pickups) /\ t.at # "create"
    BY <1>1, <2>1, <2>2, ContinueOK
  <2>4. UNCHANGED <<booking, shipments, Booking!courier>>
    BY <1>2 DEF Booking!CountAttempt
  <2> QED BY <2>1, <2>3, <2>4, BookingMoves
<1>3. CASE Booking!FindOrder(w)
  <2>1. /\ worker[w].at = "find" /\ booking.po = 0 /\ worker[w].row = booking
        /\ booking.status # "NONE" /\ UNCHANGED <<booking, shipments, Booking!courier>>
    BY <1>1, <1>3 DEF Booking!FindOrder, Booking!At, WorkerOK
  <2>2. CASE created = 0
    <3>1. PICK t : t = [worker[w] EXCEPT !.at = "create"] /\ worker' = [worker EXCEPT ![w] = t]
      BY <1>3, <2>2 DEF Booking!FindOrder, Booking!Goto, BookingInv, BookingJobs
    <3>2. t \in BookingJobs /\ t.at = "create" /\ t.row = booking
      BY <1>1, <2>1, <3>1 DEF BookingJobs, Booking!Places
    <3>3. WorkerOK(t, booking, pickups)
      BY <2>1, <3>2 DEF WorkerOK
    <3> QED BY <2>1, <2>2, <3>1, <3>2, <3>3, BookingMoves
  <2>3. CASE created # 0
    <3>1. PICK po \in 1..created :
            Booking!Set(w, [worker[w] EXCEPT !.at = "saveOrder", !.got = po])
      BY <1>3, <2>3 DEF Booking!FindOrder
    <3>2. PICK t : /\ t = [worker[w] EXCEPT !.at = "saveOrder", !.got = po]
                   /\ worker' = [worker EXCEPT ![w] = t]
      BY <3>1 DEF Booking!Set
    <3>3. po \in Nat /\ po # 0
      BY <1>1
    <3>4. t \in BookingJobs /\ t.at = "saveOrder" /\ t.row = booking /\ t.got = po
      BY <1>1, <2>1, <3>2, <3>3 DEF BookingJobs, Booking!Places
    <3>5. WorkerOK(t, booking, pickups)
      BY <2>1, <3>3, <3>4 DEF WorkerOK
    <3> QED BY <2>1, <3>2, <3>4, <3>5, BookingMoves
  <2> QED BY <2>2, <2>3
<1>4. CASE Booking!CreateOrder(w)
  <2>1. /\ worker[w].at = "create" /\ booking.po = 0 /\ worker[w].row = booking
        /\ booking.status # "NONE" /\ created' = created + 1
        /\ UNCHANGED <<booking, shipments, pickups, abandoned>>
    BY <1>1, <1>4 DEF Booking!CreateOrder, Booking!Make, Booking!At, WorkerOK
  <2>2. PICK po \in Nat : po = created + 1 /\ po # 0
    BY <1>1
  <2>3. PICK t : /\ t = [worker[w] EXCEPT !.at = "saveOrder", !.got = po]
                 /\ worker' = [worker EXCEPT ![w] = t]
    BY <1>4, <2>2 DEF Booking!CreateOrder, Booking!Set
  <2>4. t \in BookingJobs /\ t.at = "saveOrder" /\ t.row = booking /\ t.got = po
    BY <1>1, <2>1, <2>2, <2>3 DEF BookingJobs, Booking!Places
  <2>5. WorkerOK(t, booking, pickups)
    BY <2>1, <2>2, <2>4 DEF WorkerOK
  <2>6. OnceMade(t, created', abandoned')
    BY <1>1, <2>1, <2>4 DEF OnceMade
  <2>7. created' \in Nat
    BY <1>1, <2>1
  <2> QED BY <2>1, <2>3, <2>5, <2>6, <2>7, <2>4, BookingWork DEF BookingInv
<1> QED BY <1>2, <1>3, <1>4

\* A row is stored, and the worker goes on with it.
LEMMA StoredOK ==
  ASSUME Lone, BookingInv, NEW w \in Workers, NEW b \in Bookings, booking' = b,
         b.status # "NONE", StepsInOrder(b, pickups), ShipmentsOf(b, shipments', pickups),
         Booking!Continue(w, b), UNCHANGED Booking!courier
  PROVE  BookingInv'
<1>1. PICK t : /\ t = [at |-> Booking!NextStep(b), row |-> b, got |-> 0]
               /\ worker' = [worker EXCEPT ![w] = t]
  BY DEF Booking!Continue, Booking!Set
<1>2. t \in BookingJobs /\ WorkerOK(t, b, pickups) /\ t.at # "create"
  BY <1>1, ContinueOK
<1>3. pickups' = pickups /\ OnceMade(t, created', abandoned')
      /\ created' \in Nat /\ abandoned' \in Nat
  BY <1>2 DEF BookingInv, OnceMade, Booking!courier
<1> QED BY <1>1, <1>2, <1>3, BookingWork

LEMMA SavedOK ==
  ASSUME Lone, BookingInv, NEW w \in Workers, Booking!SaveOrder(w) \/ Booking!SaveAwb(w)
  PROVE  BookingInv'
<1>1. /\ worker[w] \in BookingJobs /\ booking \in Bookings /\ StepsInOrder(booking, pickups)
      /\ ShipmentsOf(booking, shipments, pickups) /\ WorkerOK(worker[w], booking, pickups)
      /\ shipments' = shipments /\ UNCHANGED Booking!courier /\ worker[w].got \in Nat
  BY DEF BookingInv, Booking!SaveOrder, Booking!SaveAwb, BookingJobs
<1>2. CASE Booking!SaveOrder(w)
  <2>1. PICK b : b = [booking EXCEPT !.status = "ORDER_CREATED", !.po = worker[w].got]
                 /\ booking' = b /\ Booking!Continue(w, b)
    BY <1>2 DEF Booking!SaveOrder
  <2>2. booking.po = 0 /\ worker[w].got # 0
    BY <1>1, <1>2 DEF Booking!SaveOrder, Booking!At, WorkerOK
  <2>3. /\ b \in Bookings /\ b.status = "ORDER_CREATED" /\ b.po # 0
        /\ b.awb = booking.awb /\ b.ship = booking.ship /\ b.label = booking.label
    BY <1>1, <2>1, <2>2 DEF Bookings, Progress
  <2>4. b.awb = 0 /\ b.ship = 0
    BY <1>1, <2>2, <2>3 DEF StepsInOrder
  <2>5. StepsInOrder(b, pickups) /\ ShipmentsOf(b, shipments', pickups)
    BY <1>1, <2>3, <2>4 DEF StepsInOrder, ShipmentsOf
  <2> QED BY <1>1, <2>1, <2>3, <2>5, StoredOK
<1>3. CASE Booking!SaveAwb(w)
  <2>1. PICK b : b = [booking EXCEPT !.status = "AWB_ASSIGNED", !.awb = worker[w].got]
                 /\ booking' = b /\ Booking!Continue(w, b)
    BY <1>3 DEF Booking!SaveAwb
  <2>2. booking.po # 0 /\ booking.awb = 0 /\ worker[w].got = booking.po
    BY <1>1, <1>3 DEF Booking!SaveAwb, Booking!At, WorkerOK
  <2>3. /\ b \in Bookings /\ b.status = "AWB_ASSIGNED" /\ b.po = booking.po
        /\ b.awb = booking.po /\ b.ship = booking.ship /\ b.label = booking.label
    BY <1>1, <2>1, <2>2 DEF Bookings, Progress
  <2>4. b.ship = 0
    BY <1>1, <2>2, <2>3 DEF StepsInOrder
  <2>5. StepsInOrder(b, pickups) /\ ShipmentsOf(b, shipments', pickups)
    BY <1>1, <2>3, <2>4 DEF StepsInOrder, ShipmentsOf
  <2> QED BY <1>1, <2>1, <2>3, <2>5, StoredOK
<1> QED BY <1>2, <1>3

\* The shipment of the one there is.
LEMMA OneShipment ==
  ASSUME NEW x, shipments = {x}
  PROVE  /\ Booking!Shipment(x.po) = x
         /\ \A y : Booking!Update(x.po, y) = {y}
<1>1. Booking!Shipment(x.po) = x
  BY DEF Booking!Shipment
<1> QED BY <1>1 DEF Booking!Update

LEMMA ShippedOK ==
  ASSUME Lone, BookingInv, NEW w \in Workers, Booking!CreateShipment(w) \/ Booking!GetLabel(w)
  PROVE  BookingInv'
<1>1. /\ worker[w] \in BookingJobs /\ booking \in Bookings /\ StepsInOrder(booking, pickups)
      /\ ShipmentsOf(booking, shipments, pickups) /\ WorkerOK(worker[w], booking, pickups)
      /\ UNCHANGED Booking!courier
  BY DEF BookingInv, Booking!CreateShipment, Booking!GetLabel
<1>2. CASE Booking!CreateShipment(w)
  <2>1. booking.awb # 0 /\ booking.ship = 0 /\ worker[w].row = booking /\ booking.status # "NONE"
        /\ booking.awb = booking.po
    BY <1>1, <1>2 DEF Booking!CreateShipment, Booking!At, WorkerOK, StepsInOrder
  <2>2. shipments = {}
    BY <1>1, <2>1 DEF ShipmentsOf
  <2>3. PICK x : x = [po |-> booking.po, awb |-> booking.awb, status |-> "LABEL_CREATED",
                      label |-> FALSE]
    OBVIOUS
  <2>4. PICK b : b = [booking EXCEPT !.ship = booking.po] /\ booking' = b
                 /\ Booking!Continue(w, b) /\ shipments' = {x}
    BY <1>2, <2>1, <2>2, <2>3 DEF Booking!CreateShipment, Booking!Row
  <2>5. /\ b \in Bookings /\ b.status = booking.status /\ b.po = booking.po
        /\ b.awb = booking.awb /\ b.ship = booking.po /\ b.label = booking.label
    BY <1>1, <2>4 DEF Bookings
  <2>6. x \in Parcels /\ x.po = b.ship /\ x.awb = b.awb
    BY <1>1, <2>3, <2>5 DEF Parcels, Bookings
  <2>7. ~b.label
    BY <1>1, <2>1, <2>5 DEF StepsInOrder
  <2>8. StepsInOrder(b, pickups)
    BY <1>1, <2>1, <2>5 DEF StepsInOrder
  <2>9. ShipmentsOf(b, shipments', pickups)
    BY <1>1, <2>1, <2>4, <2>5, <2>6, <2>7 DEF ShipmentsOf
  <2> QED BY <1>1, <2>1, <2>4, <2>5, <2>8, <2>9, StoredOK
<1>3. CASE Booking!GetLabel(w)
  <2>1. booking.ship # 0 /\ worker[w].row = booking /\ booking.status # "NONE"
    BY <1>1, <1>3 DEF Booking!GetLabel, Booking!At, WorkerOK
  <2>2. PICK x \in Parcels : shipments = {x} /\ x.po = booking.ship /\ x.awb = booking.awb
    BY <1>1, <2>1 DEF ShipmentsOf
  <2>3. PICK y : y = [x EXCEPT !.label = TRUE]
    OBVIOUS
  <2>4. Booking!Shipment(booking.ship) = x /\ Booking!Update(booking.ship, y) = {y}
    BY <2>2, OneShipment
  <2>5. Booking!Row(w).ship = booking.ship
    BY <2>1 DEF Booking!Row
  <2>6. shipments' = {y}
    BY <1>3, <2>3, <2>4, <2>5 DEF Booking!GetLabel
  <2>7. PICK b : b = [booking EXCEPT !.label = TRUE] /\ booking' = b
                 /\ Booking!Continue(w, b) /\ shipments' = {y}
    BY <1>3, <2>6 DEF Booking!GetLabel
  <2>8. /\ b \in Bookings /\ b.status = booking.status /\ b.po = booking.po
        /\ b.awb = booking.awb /\ b.ship = booking.ship /\ b.label
    BY <1>1, <2>7 DEF Bookings
  <2>9. y \in Parcels /\ y.po = b.ship /\ y.awb = b.awb /\ y.label
    BY <2>2, <2>3, <2>8 DEF Parcels
  <2>10. StepsInOrder(b, pickups)
    BY <1>1, <2>1, <2>8 DEF StepsInOrder
  <2>11. ShipmentsOf(b, shipments', pickups)
    BY <1>1, <2>1, <2>7, <2>8, <2>9 DEF ShipmentsOf
  <2> QED BY <1>1, <2>1, <2>7, <2>8, <2>10, <2>11, StoredOK
<1> QED BY <1>2, <1>3

\* The worker is done: the row is ready, failed or cancelled.
LEMMA EndedOK ==
  ASSUME Lone, BookingInv, NEW w \in Workers, NEW b \in Bookings, booking' = b,
         StepsInOrder(b, pickups), ShipmentsOf(b, shipments', pickups),
         Booking!Set(w, Booking!Idle), UNCHANGED Booking!courier
  PROVE  BookingInv'
<1>1. PICK t : t = Booking!Idle /\ worker' = [worker EXCEPT ![w] = t]
  BY DEF Booking!Set
<1>2. t \in BookingJobs /\ WorkerOK(t, b, pickups) /\ t.at # "create"
  BY <1>1, IdleOK DEF BookingInv
<1>3. pickups' = pickups /\ OnceMade(t, created', abandoned')
      /\ created' \in Nat /\ abandoned' \in Nat
  BY <1>2 DEF BookingInv, OnceMade, Booking!courier
<1> QED BY <1>1, <1>2, <1>3, BookingWork

LEMMA FinishedOK ==
  ASSUME Lone, BookingInv, NEW w \in Workers,
         Booking!SaveReady(w) \/ Booking!SaveFailed(w) \/ Booking!SaveCancel(w)
  PROVE  BookingInv'
<1>1. /\ worker[w] \in BookingJobs /\ booking \in Bookings /\ StepsInOrder(booking, pickups)
      /\ ShipmentsOf(booking, shipments, pickups) /\ WorkerOK(worker[w], booking, pickups)
      /\ UNCHANGED Booking!courier /\ Booking!Set(w, Booking!Idle)
  BY DEF BookingInv, Booking!SaveReady, Booking!SaveFailed, Booking!SaveCancel
<1>2. ASSUME NEW reached \in Progress \ {"NONE"}, booking' = [booking EXCEPT !.status = reached],
             reached = "READY" => booking.label /\ booking.po \in pickups,
             ShipmentsOf(booking, shipments', pickups)
      PROVE  BookingInv'
  <2>1. PICK b : b = [booking EXCEPT !.status = reached] /\ booking' = b
    BY <1>2
  <2>2. /\ b \in Bookings /\ b.status = reached /\ b.po = booking.po
        /\ b.awb = booking.awb /\ b.ship = booking.ship /\ b.label = booking.label
    BY <1>1, <2>1 DEF Bookings
  <2>3. StepsInOrder(b, pickups)
    BY <1>1, <1>2, <2>2 DEF StepsInOrder
  <2>4. ShipmentsOf(b, shipments', pickups)
    BY <1>2, <2>2 DEF ShipmentsOf
  <2> QED BY <1>1, <2>1, <2>2, <2>3, <2>4, EndedOK
<1>3. CASE Booking!SaveReady(w)
  <2>1. booking.label /\ booking.po \in pickups
    BY <1>1, <1>3 DEF WorkerOK, Booking!SaveReady, Booking!At
  <2> QED BY <1>1, <1>2, <1>3, <2>1 DEF Booking!SaveReady, Progress
<1>4. CASE Booking!SaveFailed(w)
  BY <1>1, <1>2, <1>4 DEF Booking!SaveFailed, Booking!Failure, Progress
<1>5. CASE Booking!SaveCancel(w)
  <2>1. booking.ship # 0 /\ worker[w].got = booking.ship
    BY <1>1, <1>5 DEF WorkerOK, Booking!SaveCancel, Booking!At
  <2>2. PICK x \in Parcels : /\ shipments = {x} /\ x.po = booking.ship /\ x.awb = booking.awb
                             /\ booking.label => x.label
    BY <1>1, <2>1 DEF ShipmentsOf
  <2>3. PICK y : y = [x EXCEPT !.status = "CANCELLED"]
    OBVIOUS
  <2>4. y \in Parcels /\ y.po = x.po /\ y.awb = x.awb /\ y.label = x.label
    BY <2>3 DEF Parcels
  <2>5. shipments' = {y}
    BY <1>5, <2>1, <2>2, <2>3, OneShipment DEF Booking!SaveCancel
  <2>6. ShipmentsOf(booking, shipments', pickups)
    BY <1>1, <2>1, <2>2, <2>4, <2>5 DEF ShipmentsOf
  <2> QED BY <1>2, <1>5, <2>6 DEF Booking!SaveCancel, Progress
<1> QED BY <1>3, <1>4, <1>5

\* The AWB is assigned; the pickup of the parcel is asked for.
LEMMA AssignedOK ==
  ASSUME Lone, BookingInv, NEW w \in Workers, Booking!AssignAwb(w)
  PROVE  BookingInv'
<1>1. /\ worker[w] \in BookingJobs /\ booking \in Bookings
      /\ WorkerOK(worker[w], booking, pickups) /\ OnceMade(worker[w], created, abandoned)
  BY DEF BookingInv
<1>2. /\ worker[w].row = booking /\ booking.status # "NONE"
      /\ booking.po # 0 /\ booking.awb = 0
  BY <1>1 DEF WorkerOK, Booking!AssignAwb, Booking!At
<1>3. PICK po \in Nat : po = booking.po
  BY <1>1 DEF Bookings
<1>4. PICK t : /\ t = [worker[w] EXCEPT !.at = "saveAwb", !.got = po]
               /\ worker' = [worker EXCEPT ![w] = t]
  BY <1>2, <1>3 DEF Booking!AssignAwb, Booking!Set, Booking!Row
<1>5. t \in BookingJobs /\ t.at = "saveAwb" /\ t.row = booking /\ t.got = po
  BY <1>1, <1>2, <1>4 DEF BookingJobs, Booking!Places
<1>6. WorkerOK(t, booking, pickups)
  BY <1>2, <1>3, <1>5 DEF WorkerOK
<1>7. UNCHANGED <<booking, shipments, pickups, created, abandoned>>
  BY DEF Booking!AssignAwb
<1>8. OnceMade(t, created', abandoned')
  BY <1>1, <1>5, <1>7 DEF OnceMade
<1> QED BY <1>4, <1>5, <1>6, <1>7, <1>8, BookingWork DEF BookingInv

LEMMA PickupAsked ==
  ASSUME NEW b \in Bookings, NEW there, NEW asked, NEW more,
         StepsInOrder(b, asked), ShipmentsOf(b, there, asked), b.label,
         more = asked \cup {b.po}
  PROVE  StepsInOrder(b, more) /\ ShipmentsOf(b, there, more) /\ b.po \in more
<1>1. b.ship # 0 /\ b.ship = b.po
  BY DEF StepsInOrder
<1>2. b.po \in more
  OBVIOUS
<1>3. StepsInOrder(b, more)
  BY <1>2 DEF StepsInOrder
<1>4. more \subseteq {b.ship} \ {0}
  BY <1>1 DEF ShipmentsOf
<1>5. PICK x \in Parcels : /\ there = {x} /\ x.po = b.ship /\ x.awb = b.awb
                           /\ b.label => x.label
  BY <1>1 DEF ShipmentsOf
<1>6. ShipmentsOf(b, there, more)
  BY <1>1, <1>4, <1>5 DEF ShipmentsOf
<1> QED BY <1>2, <1>3, <1>6

LEMMA PickupOK ==
  ASSUME Lone, BookingInv, NEW w \in Workers, Booking!SchedulePickup(w)
  PROVE  BookingInv'
<1>1. /\ worker[w] \in BookingJobs /\ booking \in Bookings
      /\ StepsInOrder(booking, pickups) /\ ShipmentsOf(booking, shipments, pickups)
      /\ WorkerOK(worker[w], booking, pickups) /\ OnceMade(worker[w], created, abandoned)
  BY DEF BookingInv
<1>2. worker[w].row = booking /\ booking.status # "NONE" /\ booking.label
  BY <1>1 DEF WorkerOK, Booking!SchedulePickup, Booking!At
<1>3. PICK t : t = [worker[w] EXCEPT !.at = "saveReady"] /\ worker' = [worker EXCEPT ![w] = t]
  BY DEF Booking!SchedulePickup, Booking!Goto, BookingInv, BookingJobs
<1>4. t \in BookingJobs /\ t.at = "saveReady" /\ t.row = booking
  BY <1>1, <1>2, <1>3 DEF BookingJobs, Booking!Places
<1>5. /\ UNCHANGED <<booking, shipments, created, abandoned>>
      /\ pickups' = pickups \cup {booking.po}
  BY <1>2 DEF Booking!SchedulePickup, Booking!Row
<1>6. /\ StepsInOrder(booking', pickups') /\ ShipmentsOf(booking', shipments', pickups')
      /\ booking.po \in pickups'
  <2>1. /\ StepsInOrder(booking, pickups') /\ ShipmentsOf(booking, shipments, pickups')
        /\ booking.po \in pickups'
    BY <1>1, <1>2, <1>5, PickupAsked
  <2> QED BY <1>5, <2>1
<1>7. WorkerOK(t, booking', pickups')
  BY <1>2, <1>4, <1>5, <1>6 DEF WorkerOK
<1>8. OnceMade(t, created', abandoned')
  BY <1>1, <1>4, <1>5 DEF OnceMade
<1> QED BY <1>3, <1>4, <1>5, <1>6, <1>7, <1>8, BookingWork DEF BookingInv

LEMMA CancelOK ==
  ASSUME Lone, BookingInv, NEW w \in Workers, Booking!Cancel(w)
  PROVE  BookingInv'
<1>1. /\ booking \in Bookings /\ StepsInOrder(booking, pickups)
      /\ ShipmentsOf(booking, shipments, pickups) /\ OnceMade(worker[w], created, abandoned)
  BY DEF BookingInv
<1>2. PICK x \in shipments :
        /\ x.po = booking.ship
        /\ Booking!Set(w, [Booking!Idle EXCEPT !.at = "saveCancel", !.got = x.po])
  BY DEF Booking!Cancel
<1>3. booking.ship # 0 /\ booking.status # "NONE" /\ booking.ship \in Nat
  BY <1>1, <1>2 DEF ShipmentsOf, StepsInOrder, Bookings
<1>4. PICK po \in Nat : po = booking.ship
  BY <1>3
<1>5. PICK t : /\ t = [Booking!Idle EXCEPT !.at = "saveCancel", !.got = po]
               /\ worker' = [worker EXCEPT ![w] = t]
  BY <1>2, <1>4 DEF Booking!Set
<1>6. t = [at |-> "saveCancel", row |-> Booking!NoBooking, got |-> po]
  BY <1>5 DEF Booking!Idle
<1>7. t \in BookingJobs
  <2>1. Booking!NoBooking \in Bookings
    BY DEF Booking!NoBooking, Bookings, Progress
  <2> QED BY <1>6, <2>1 DEF BookingJobs, Booking!Places
<1>8. WorkerOK(t, booking, pickups)
  BY <1>3, <1>4, <1>6 DEF WorkerOK
<1>9. UNCHANGED <<booking, shipments, pickups, created, abandoned>>
  BY DEF Booking!Cancel
<1>10. OnceMade(t, created', abandoned')
  BY <1>1, <1>6, <1>9 DEF OnceMade
<1> QED BY <1>5, <1>7, <1>8, <1>9, <1>10, BookingWork DEF BookingInv

\* A call fails: what it did, it has done.
LEMMA CallFailsOK ==
  ASSUME Lone, BookingInv, NEW w \in Workers, Booking!CallFails(w)
  PROVE  BookingInv'
<1>1. /\ worker[w] \in BookingJobs /\ booking \in Bookings
      /\ StepsInOrder(booking, pickups) /\ ShipmentsOf(booking, shipments, pickups)
      /\ WorkerOK(worker[w], booking, pickups) /\ OnceMade(worker[w], created, abandoned)
      /\ created \in Nat /\ abandoned \in Nat
  BY DEF BookingInv
<1>2. /\ worker[w].at \in {"find", "create", "awb", "label", "pickup"}
      /\ UNCHANGED <<booking, shipments>>
  BY DEF Booking!CallFails, Booking!Calling
<1>3. worker[w].row = booking /\ booking.status # "NONE"
  BY <1>1, <1>2 DEF WorkerOK
<1>4. PICK t : t = [worker[w] EXCEPT !.at = "failed"] /\ worker' = [worker EXCEPT ![w] = t]
  BY DEF Booking!CallFails, Booking!Goto, BookingInv, BookingJobs
<1>5. t \in BookingJobs /\ t.at = "failed" /\ t.row = booking
  BY <1>1, <1>3, <1>4 DEF BookingJobs, Booking!Places
<1>6. \A asked : WorkerOK(t, booking, asked)
  BY <1>3, <1>5 DEF WorkerOK
<1>7. /\ created' \in Nat /\ abandoned' \in Nat
      /\ \/ created' = created
         \/ worker[w].at = "create" /\ created' = created + 1
      /\ abandoned' = abandoned \/ SlowCalls
  BY <1>1 DEF Booking!CallFails, Booking!Make, Booking!At, Booking!courier
<1>8. OnceMade(t, created', abandoned')
  BY <1>1, <1>5, <1>7 DEF OnceMade
<1>9. StepsInOrder(booking', pickups') /\ ShipmentsOf(booking', shipments', pickups')
  <2>1. CASE pickups' = pickups
    BY <1>1, <1>2, <2>1
  <2>2. CASE worker[w].at = "pickup" /\ pickups' = pickups \cup {booking.po}
    <3>1. booking.label
      BY <1>1, <2>2 DEF WorkerOK
    <3>2. StepsInOrder(booking, pickups') /\ ShipmentsOf(booking, shipments, pickups')
      BY <1>1, <2>2, <3>1, PickupAsked
    <3> QED BY <1>2, <3>2
  <2>3. pickups' = pickups \/ (worker[w].at = "pickup" /\ pickups' = pickups \cup {booking.po})
    BY <1>3 DEF Booking!CallFails, Booking!At, Booking!Row, Booking!courier
  <2> QED BY <2>1, <2>2, <2>3
<1>10. booking' \in Bookings /\ WorkerOK(t, booking', pickups')
  BY <1>1, <1>2, <1>6
<1> QED BY <1>4, <1>5, <1>7, <1>8, <1>9, <1>10, BookingWork

LEMMA LateOrderOK ==
  ASSUME BookingInv, Booking!LateOrder
  PROVE  BookingInv'
<1>1. /\ created \in Nat /\ abandoned \in Nat /\ abandoned > 0
      /\ created' = created + 1 /\ abandoned' = abandoned - 1
      /\ UNCHANGED <<booking, shipments, pickups, worker>>
  BY DEF BookingInv, Booking!LateOrder, Booking!Make
<1>2. created' \in Nat /\ abandoned' \in Nat
  BY <1>1
<1>3. \A w \in Workers : OnceMade(worker'[w], created', abandoned')
  BY <1>1 DEF BookingInv, OnceMade
<1> QED BY <1>1, <1>2, <1>3 DEF BookingInv

LEMMA BookingStep ==
  ASSUME Lone, BookingInv, [Booking!Next]_Booking!vars
  PROVE  BookingInv'
<1>1. ASSUME NEW w \in Workers, Booking!Step(w)
      PROVE  BookingInv'
  BY <1>1, BeginOK, InsertOK, OrderingOK, SavedOK, AssignedOK, ShippedOK, PickupOK, FinishedOK
     DEF Booking!Step
<1>2. ASSUME NEW w \in Workers, Booking!Cancel(w) \/ Booking!CallFails(w) \/ Booking!Stop(w)
      PROVE  BookingInv'
  BY <1>2, CancelOK, CallFailsOK, BeginOK
<1>3. CASE Booking!LateOrder
  BY <1>3, LateOrderOK
<1>4. CASE Booking!Leave \/ UNCHANGED Booking!vars
  <2>1. UNCHANGED <<booking, shipments, pickups, created, abandoned, worker>>
    BY <1>4 DEF Booking!Leave, Booking!vars, Booking!courier
  <2> QED BY <2>1 DEF BookingInv
<1> QED BY <1>1, <1>2, <1>3, <1>4 DEF Booking!Next

LEMMA BookingInit ==
  ASSUME Booking!Init
  PROVE  BookingInv
<1>1. booking = Booking!NoBooking /\ shipments = {} /\ pickups = {}
      /\ created = 0 /\ abandoned = 0
  BY DEF Booking!Init
<1>2. booking \in Bookings /\ StepsInOrder(booking, pickups)
      /\ ShipmentsOf(booking, shipments, pickups)
  BY <1>1 DEF Booking!NoBooking, Bookings, Progress, StepsInOrder, ShipmentsOf
<1>3. \A w \in Workers : /\ worker[w] \in BookingJobs /\ WorkerOK(worker[w], booking, pickups)
                         /\ worker[w].at = "idle"
  BY IdleOK DEF Booking!Init
<1>4. \A w \in Workers : OnceMade(worker[w], created, abandoned)
  BY <1>1, <1>3 DEF OnceMade
<1>5. worker \in [Workers -> BookingJobs]
  BY <1>3 DEF Booking!Init
<1> QED BY <1>1, <1>2, <1>3, <1>4, <1>5 DEF BookingInv

LEMMA BookingHolds == Lone => (Booking!Spec => []BookingInv)
<1> SUFFICES ASSUME Lone PROVE Booking!Spec => []BookingInv
  OBVIOUS
<1>1. Booking!Init => BookingInv
  BY BookingInit
<1>2. BookingInv /\ [Booking!Next]_Booking!vars => BookingInv'
  BY BookingStep
<1> QED BY <1>1, <1>2, PTL DEF Booking!Spec

\* When one administrator books, however often calls fail, answers are lost,
\* given up calls come late or the server stops, a booking that is answered as
\* ready has its shipment, AWB, label and pickup, all of the same courier's
\* order, and the courier is sent only for a parcel with a shipment
\* (bookOrderWithCourier, cancelCourierShipment, courierBooking.service.ts).
THEOREM BookedTheorem ==
  Lone => (Booking!Spec => [](Booking!ReadyIsComplete /\ Booking!PickupIsTracked))
<1>1. BookingInv => Booking!ReadyIsComplete
  <2> SUFFICES ASSUME BookingInv, booking.status = "READY"
               PROVE  /\ booking.po \in pickups
                      /\ \E x \in shipments : /\ x.po = booking.ship /\ x.label
                                              /\ x.po = booking.po /\ x.awb = booking.awb
                                              /\ booking.awb = booking.po
    BY DEF Booking!ReadyIsComplete
  <2>1. /\ booking.po \in pickups /\ booking.label /\ booking.ship # 0
        /\ booking.ship = booking.po /\ booking.awb = booking.po
    BY DEF BookingInv, StepsInOrder
  <2>2. PICK x \in Parcels : /\ shipments = {x} /\ x.po = booking.ship /\ x.awb = booking.awb
                             /\ booking.label => x.label
    BY <2>1 DEF BookingInv, ShipmentsOf
  <2> QED BY <2>1, <2>2
<1>2. BookingInv => Booking!PickupIsTracked
  BY DEF BookingInv, ShipmentsOf, Booking!PickupIsTracked
<1> QED BY <1>1, <1>2, BookingHolds, PTL

\* The order is made at the courier once, when one administrator books and no
\* call given up after its timeout is carried out later: findOrder finds the
\* order a lost answer was about before createOrder is called again
\* (courierBooking.service.ts).
THEOREM OneOrderTheorem ==
  Lone /\ ~SlowCalls => (Booking!Spec => [](created <= 1))
<1> SUFFICES ASSUME Lone, ~SlowCalls PROVE Booking!Spec => [](created <= 1)
  OBVIOUS
<1>1. BookingInv => created <= 1
  BY DEF BookingInv, Lone, OnceMade
<1> QED BY <1>1, BookingHolds, PTL

-----------------------------------------------------------------------------
(* AccountLifecycle: who works at an account, and what it holds meanwhile. *)

AccountPlaces ==
  {"idle", "email", "checkout", "delete", "restore", "lock", "identity", "redact", "erase"}
HoldsLock == {"delete", "identity", "redact", "erase"}
Visits == [at : AccountPlaces, user : Users \cup {None}, email : Emails \cup {None},
           late : BOOLEAN, orders : SUBSET Orders]

\* A request that holds the lock knows the state of its account; one to restore
\* knows that the grace has ended, unless it may wait past the end.
HeldOK(t, state, ended) ==
  /\ t.at # "idle" => t.user \in Users
  /\ t.at = "email" => t.email \in Emails
  /\ t.at = "delete" => state[t.user] = "ACTIVE"
  /\ t.at \in {"identity", "redact", "erase"} =>
       state[t.user] = "DELETION_PENDING" /\ ended[t.user]
  /\ t.at = "restore" /\ ~SlowRestores /\ ended[t.user] => t.late

IsActive(o, u) == o.user = u /\ o.state = "ACTIVE"

\* It knows the orders too, where no deletion is requested during a checkout.
OrdersOK(t, state, made) ==
  ~SlowCheckouts =>
    /\ t.at = "checkout" => state[t.user] = "ACTIVE"
    /\ t.at = "delete" => \A o \in Orders : ~IsActive(made[o], t.user)
    /\ t.at = "erase" => \A o \in Orders : made[o].user = t.user => o \in t.orders

\* One request holds an account, and no checkout runs beside a deletion.
Exclude(s, t) ==
  s.user = t.user /\ s.at \in HoldsLock =>
    /\ t.at \notin HoldsLock
    /\ ~SlowCheckouts /\ s.at = "delete" => t.at # "checkout"
Apart(jobs) == \A v, w \in Workers : v # w => Exclude(jobs[v], jobs[w])

\* An account without identity is gone, or about to be: the grace has ended,
\* and unless a request failed, one holds it.
Safe == MaxFaults = 0 \/ ~SlowRestores
Erasing(jobs, u) == \E w \in Workers : jobs[w].at \in {"redact", "erase"} /\ jobs[w].user = u
IdentityOK(jobs, state, ended, held) ==
  Safe => \A u \in Users : held[u] = None =>
    \/ state[u] = "GONE"
    \/ /\ state[u] = "DELETION_PENDING" /\ ended[u]
       /\ MaxFaults = 0 => Erasing(jobs, u)

PersonalOK(state, made) ==
  ~SlowCheckouts => \A o \in Orders :
    /\ made[o].state = "ACTIVE" /\ made[o].user # None => state[made[o].user] = "ACTIVE"
    /\ made[o].personal => made[o].user # None

AccountTyped == Accounts!TypeOK /\ worker \in [Workers -> Visits]
JobsOK(jobs, state, ended, made) ==
  \A w \in Workers : HeldOK(jobs[w], state, ended) /\ OrdersOK(jobs[w], state, made)

AccountInv ==
  /\ AccountTyped
  /\ JobsOK(worker, status, due, order)
  /\ Apart(worker)
  /\ IdentityOK(worker, status, due, identity)
  /\ PersonalOK(status, order)

\* The shape of the account stays: by an action that leaves it alone, ...
AccountRests == UNCHANGED <<status, due, email, pending, expired, identity, links, order>>

LEMMA RestsTyped ==
  ASSUME Accounts!TypeOK, AccountRests, faults' \in 0..MaxFaults, restores' \in 0..MaxRestores
  PROVE  Accounts!TypeOK'
BY DEF Accounts!TypeOK, AccountRests

\* ... and by those of the address.
LEMMA AddressTyped ==
  ASSUME Accounts!ConstantsAssumption, AccountInv, UNCHANGED <<status, due, order, faults, restores>>,
         NEW u \in Users,
         \/ \E w \in Workers, e \in Emails : Accounts!StartEmailChange(w, u, e)
         \/ \E w \in Workers : Accounts!FinishEmailChange(w) /\ u = worker[w].user
         \/ \E e \in Emails : Accounts!Confirm(u, e)
         \/ Accounts!SignIn(u) \/ Accounts!Expire(u)
  PROVE  Accounts!TypeOK'
<1>1. /\ status \in [Users -> {"ACTIVE", "DELETION_PENDING", "GONE"}]
      /\ due \in [Users -> BOOLEAN] /\ expired \in [Users -> BOOLEAN]
      /\ email \in [Users -> Emails \cup {None}] /\ pending \in [Users -> Emails \cup {None}]
      /\ identity \in [Users -> Emails \cup {None}]
      /\ links \subseteq Users \X Emails
      /\ \A v \in Users : status[v] = "GONE" <=> email[v] = None
      /\ \A v \in Users : expired[v] => pending[v] # None
  BY DEF AccountInv, AccountTyped, Accounts!TypeOK
<1>2. None \notin Emails
  BY DEF Accounts!ConstantsAssumption
<1>3. SUFFICES
        /\ expired' \in [Users -> BOOLEAN]
        /\ email' \in [Users -> Emails \cup {None}] /\ pending' \in [Users -> Emails \cup {None}]
        /\ identity' \in [Users -> Emails \cup {None}]
        /\ links' \subseteq Users \X Emails
        /\ \A v \in Users : status[v] = "GONE" <=> email'[v] = None
        /\ \A v \in Users : expired'[v] => pending'[v] # None
  BY DEF AccountInv, AccountTyped, Accounts!TypeOK
<1>4. ASSUME NEW w \in Workers, NEW e \in Emails, Accounts!StartEmailChange(w, u, e)
      PROVE  /\ pending' \in [Users -> Emails \cup {None}] /\ expired' \in [Users -> BOOLEAN]
             /\ UNCHANGED <<email, identity, links>>
             /\ \A v \in Users : expired'[v] => pending'[v] # None
  <2>1. /\ pending' = Accounts!Released(u, e) /\ expired' = Accounts!DatesOf(Accounts!Released(u, e))
        /\ UNCHANGED <<email, identity, links>>
    BY <1>4 DEF Accounts!StartEmailChange
  <2>2. pending' \in [Users -> Emails \cup {None}]
    BY <1>1, <2>1 DEF Accounts!Released
  <2>3. expired' = [v \in Users |-> expired[v] /\ pending'[v] # None]
    BY <2>1 DEF Accounts!DatesOf
  <2>4. expired' \in [Users -> BOOLEAN]
    BY <2>3, Zenon
  <2>5. ASSUME NEW v \in Users, expired'[v] PROVE pending'[v] # None
    BY <2>3, <2>5, Zenon
  <2> QED BY <2>1, <2>2, <2>4, <2>5
<1>5. ASSUME NEW w \in Workers, Accounts!FinishEmailChange(w), u = worker[w].user
      PROVE  /\ pending' \in [Users -> Emails \cup {None}] /\ expired' \in [Users -> BOOLEAN]
             /\ UNCHANGED <<email, identity>> /\ links' \subseteq Users \X Emails
             /\ \A v \in Users : expired'[v] => pending'[v] # None
  <2>1. UNCHANGED <<email, identity>> /\ worker[w].at = "email"
    BY <1>5 DEF Accounts!FinishEmailChange, Accounts!At
  <2>2. CASE UNCHANGED <<pending, expired, links>>
    BY <1>1, <2>1, <2>2
  <2>3. CASE /\ status[u] = "ACTIVE"
             /\ pending' = [pending EXCEPT ![u] = worker[w].email]
             /\ expired' = [expired EXCEPT ![u] = FALSE]
             /\ links' = links \cup {<<u, worker[w].email>>}
    <3>1. PICK e \in Emails : e = worker[w].email
      BY <2>1 DEF AccountInv, JobsOK, HeldOK
    <3>2. pending' = [pending EXCEPT ![u] = e] /\ links' = links \cup {<<u, e>>}
      BY <2>3, <3>1
    <3>3. expired' \in [Users -> BOOLEAN]
      BY <1>1, <2>3
    <3>4. ASSUME NEW v \in Users, expired'[v] PROVE pending'[v] # None
      BY <1>1, <1>2, <2>3, <3>2, <3>4
    <3>5. pending' \in [Users -> Emails \cup {None}] /\ links' \subseteq Users \X Emails
      BY <1>1, <3>2
    <3> QED BY <2>1, <3>3, <3>4, <3>5
  <2> QED BY <1>5, <2>2, <2>3 DEF Accounts!FinishEmailChange, Accounts!User
<1>6. ASSUME NEW e \in Emails, Accounts!Confirm(u, e)
      PROVE  /\ UNCHANGED <<email, pending, expired>> /\ links' \subseteq links
             /\ identity' \in [Users -> Emails \cup {None}]
  BY <1>1, <1>6 DEF Accounts!Confirm
<1>7. ASSUME Accounts!SignIn(u)
      PROVE  /\ UNCHANGED <<expired, identity, links>>
             /\ email' \in [Users -> Emails \cup {None}] /\ pending' \in [Users -> Emails \cup {None}]
             /\ \A v \in Users : status[v] = "GONE" <=> email'[v] = None
             /\ \A v \in Users : expired[v] => pending'[v] # None
  <2>1. /\ email' = [email EXCEPT ![u] = identity[u]] /\ pending' = [pending EXCEPT ![u] = None]
        /\ UNCHANGED <<expired, identity, links>>
        /\ identity[u] # None /\ status[u] = "ACTIVE" /\ ~expired[u]
    BY <1>7 DEF Accounts!SignIn
  <2> QED BY <1>1, <2>1
<1>8. ASSUME Accounts!Expire(u)
      PROVE  /\ UNCHANGED <<email, pending, identity, links>> /\ expired' \in [Users -> BOOLEAN]
             /\ \A v \in Users : expired'[v] => pending[v] # None
  BY <1>1, <1>8 DEF Accounts!Expire
<1> QED BY <1>1, <1>4, <1>5, <1>6, <1>7, <1>8

\* One request moves, and what it does leaves the others' view of things right.
LEMMA AccountWork ==
  ASSUME AccountInv, Accounts!TypeOK', NEW w \in Workers, NEW t \in Visits,
         worker' = [worker EXCEPT ![w] = t],
         HeldOK(t, status', due'), OrdersOK(t, status', order'),
         \A v \in Workers \ {w} : /\ HeldOK(worker[v], status', due')
                                  /\ OrdersOK(worker[v], status', order')
                                  /\ Exclude(worker[v], t) /\ Exclude(t, worker[v]),
         IdentityOK(worker', status', due', identity'), PersonalOK(status', order')
  PROVE  AccountInv'
<1>1. /\ worker' \in [Workers -> Visits] /\ worker'[w] = t
      /\ \A v \in Workers \ {w} : worker'[v] = worker[v]
  BY DEF AccountInv, AccountTyped
<1>2. ASSUME NEW v \in Workers
      PROVE  HeldOK(worker'[v], status', due') /\ OrdersOK(worker'[v], status', order')
  <2>1. CASE v = w
    BY <1>1, <2>1
  <2>2. CASE v # w
    BY <1>1, <2>2
  <2> QED BY <2>1, <2>2
<1>3. JobsOK(worker', status', due', order')
  BY <1>2 DEF JobsOK
<1>4. ASSUME NEW v \in Workers, NEW x \in Workers, v # x
      PROVE  Exclude(worker'[v], worker'[x])
  <2>1. CASE v = w
    BY <1>1, <1>4, <2>1
  <2>2. CASE x = w
    BY <1>1, <1>4, <2>2
  <2>3. CASE v # w /\ x # w
    BY <1>1, <1>4, <2>3 DEF AccountInv, Apart
  <2> QED BY <2>1, <2>2, <2>3
<1>5. Apart(worker')
  BY <1>4 DEF Apart
<1> QED BY <1>1, <1>3, <1>5 DEF AccountInv, AccountTyped

\* The deletions under way stay under way.
LEMMA ErasingStays ==
  ASSUME AccountInv, NEW w \in Workers, NEW t \in Visits, worker' = [worker EXCEPT ![w] = t],
         worker[w].at \in {"redact", "erase"} =>
           MaxFaults # 0 \/ (t.at \in {"redact", "erase"} /\ t.user = worker[w].user)
  PROVE  IdentityOK(worker', status, due, identity)
<1>1. SUFFICES ASSUME Safe, NEW u \in Users, identity[u] = None, status[u] # "GONE"
               PROVE  /\ status[u] = "DELETION_PENDING" /\ due[u]
                      /\ MaxFaults = 0 => Erasing(worker', u)
  BY DEF IdentityOK
<1>2. /\ status[u] = "DELETION_PENDING" /\ due[u]
      /\ MaxFaults = 0 => Erasing(worker, u)
  BY <1>1 DEF AccountInv, IdentityOK
<1>3. ASSUME MaxFaults = 0 PROVE Erasing(worker', u)
  <2>1. PICK v \in Workers : worker[v].at \in {"redact", "erase"} /\ worker[v].user = u
    BY <1>2, <1>3 DEF Erasing
  <2>2. worker \in [Workers -> Visits]
    BY DEF AccountInv, AccountTyped
  <2>3. CASE v = w
    BY <1>3, <2>1, <2>2, <2>3 DEF Erasing
  <2>4. CASE v # w
    <3>1. worker'[v] = worker[v]
      BY <2>2, <2>4
    <3> QED BY <2>1, <3>1 DEF Erasing
  <2> QED BY <2>3, <2>4
<1> QED BY <1>2, <1>3

\* A request that leaves the account as it is.
LEMMA AccountMoves ==
  ASSUME AccountInv, Accounts!TypeOK', NEW w \in Workers, NEW t \in Visits,
         worker' = [worker EXCEPT ![w] = t], UNCHANGED <<status, due, identity, order>>,
         HeldOK(t, status, due), OrdersOK(t, status, order),
         \A v \in Workers \ {w} : Exclude(worker[v], t) /\ Exclude(t, worker[v]),
         worker[w].at \in {"redact", "erase"} =>
           MaxFaults # 0 \/ (t.at \in {"redact", "erase"} /\ t.user = worker[w].user)
  PROVE  AccountInv'
<1>1. IdentityOK(worker', status', due', identity')
  <2>1. IdentityOK(worker', status, due, identity)
    BY ErasingStays
  <2> QED BY <2>1
<1>2. PersonalOK(status', order') /\ HeldOK(t, status', due') /\ OrdersOK(t, status', order')
  BY DEF AccountInv
<1>3. \A v \in Workers \ {w} : /\ HeldOK(worker[v], status', due')
                               /\ OrdersOK(worker[v], status', order')
  BY DEF AccountInv, JobsOK
<1> QED BY <1>1, <1>2, <1>3, AccountWork

\* Who holds nothing, and does not check out, is in nobody's way.
LEMMA FreeOK ==
  ASSUME NEW s, NEW t, t.at \notin HoldsLock, t.at # "checkout"
  PROVE  Exclude(s, t) /\ Exclude(t, s)
BY DEF Exclude

\* Nor is who takes an account that nobody holds.
LEMMA UnlockedOK ==
  ASSUME NEW w \in Workers, NEW u, ~Accounts!Locked(u), NEW t, t.user = u,
         t.at \in {"identity", "checkout"}
  PROVE  \A v \in Workers : Exclude(worker[v], t) /\ Exclude(t, worker[v])
<1> TAKE v \in Workers
<1>1. worker[v].user = u => worker[v].at \notin HoldsLock
  BY DEF Accounts!Locked, Accounts!User, HoldsLock
<1> QED BY <1>1 DEF Exclude, HoldsLock

LEMMA AloneOK ==
  ASSUME AccountInv, NEW w \in Workers, NEW v \in Workers \ {w}, NEW t,
         t.user = worker[w].user, t.at = worker[w].at \/ (t.at \in HoldsLock /\ worker[w].at \in HoldsLock \ {"delete"} /\ t.at # "delete")
  PROVE  Exclude(worker[v], t) /\ Exclude(t, worker[v])
<1>1. Exclude(worker[v], worker[w]) /\ Exclude(worker[w], worker[v])
  BY DEF AccountInv, Apart
<1> QED BY <1>1 DEF Exclude, HoldsLock

LEMMA NoVisit ==
  ASSUME NEW t, t = Accounts!Idle
  PROVE  /\ t \in Visits /\ t.at = "idle"
         /\ \A state, ended, made : HeldOK(t, state, ended) /\ OrdersOK(t, state, made)
         /\ \A s : Exclude(s, t) /\ Exclude(t, s)
<1>1. t = [at |-> "idle", user |-> None, email |-> None, late |-> FALSE, orders |-> {}]
  BY DEF Accounts!Idle
<1>2. t \in Visits /\ t.at = "idle"
  BY <1>1 DEF Visits, AccountPlaces
<1>3. \A state, ended, made : HeldOK(t, state, ended) /\ OrdersOK(t, state, made)
  BY <1>1 DEF HeldOK, OrdersOK
<1>4. \A s : Exclude(s, t) /\ Exclude(t, s)
  BY <1>1 DEF Exclude, HoldsLock
<1> QED BY <1>1, <1>2, <1>3, <1>4

\* A request starts.
LEMMA StartsOK ==
  ASSUME Accounts!ConstantsAssumption, AccountInv, NEW w \in Workers, NEW u \in Users,
         \/ Accounts!StartCheckout(w, u) \/ Accounts!StartDelete(w, u)
         \/ Accounts!StartRestore(w, u) \/ Accounts!StartFinalize(w, u)
  PROVE  AccountInv'
<1>1. worker \in [Workers -> Visits] /\ Accounts!TypeOK
  BY DEF AccountInv, AccountTyped
<1>2. AccountRests /\ faults' = faults /\ worker[w].at = "idle"
  BY DEF AccountRests, Accounts!StartCheckout, Accounts!StartDelete, Accounts!StartRestore,
         Accounts!StartFinalize, Accounts!account, Accounts!address, Accounts!outside, Accounts!At
<1>3. restores' \in 0..MaxRestores
  <2>1. restores \in 0..MaxRestores /\ MaxRestores \in Nat
    BY <1>1 DEF Accounts!TypeOK, Accounts!ConstantsAssumption
  <2>2. restores' = restores \/ (restores < MaxRestores /\ restores' = restores + 1)
    BY DEF Accounts!StartCheckout, Accounts!StartDelete, Accounts!StartRestore,
           Accounts!StartFinalize, Accounts!outside
  <2> QED BY <2>1, <2>2
<1>4. Accounts!TypeOK'
  <2>1. faults' \in 0..MaxFaults
    BY <1>1, <1>2 DEF Accounts!TypeOK
  <2> QED BY <1>1, <1>2, <1>3, <2>1, RestsTyped
<1>5. UNCHANGED <<status, due, identity, order>> /\ worker[w].at \notin {"redact", "erase"}
  BY <1>2 DEF AccountRests
<1>6. CASE Accounts!StartCheckout(w, u)
  <2>1. PICK t : /\ t = [Accounts!Idle EXCEPT !.at = "checkout", !.user = u]
                 /\ worker' = [worker EXCEPT ![w] = t]
    BY <1>6 DEF Accounts!StartCheckout, Accounts!Set
  <2>2. t = [at |-> "checkout", user |-> u, email |-> None, late |-> FALSE, orders |-> {}]
    BY <2>1 DEF Accounts!Idle
  <2>3. t \in Visits /\ t.at = "checkout" /\ t.user = u
    BY <2>2 DEF Visits, AccountPlaces
  <2>4. status[u] = "ACTIVE" /\ (SlowCheckouts \/ ~Accounts!Locked(u))
    BY <1>6 DEF Accounts!StartCheckout
  <2>5. HeldOK(t, status, due) /\ OrdersOK(t, status, order)
    BY <2>3, <2>4 DEF HeldOK, OrdersOK
  <2>6. \A v \in Workers \ {w} : Exclude(worker[v], t) /\ Exclude(t, worker[v])
    <3>1. CASE SlowCheckouts
      BY <2>3, <3>1 DEF Exclude, HoldsLock
    <3>2. CASE ~Accounts!Locked(u)
      BY <2>3, <3>2, UnlockedOK
    <3> QED BY <2>4, <3>1, <3>2
  <2> QED BY <1>4, <1>5, <2>1, <2>3, <2>5, <2>6, AccountMoves
<1>7. CASE Accounts!StartDelete(w, u)
  <2>1. PICK t : /\ t = [Accounts!Idle EXCEPT !.at = "delete", !.user = u]
                 /\ worker' = [worker EXCEPT ![w] = t]
    BY <1>7 DEF Accounts!StartDelete, Accounts!Set
  <2>2. t = [at |-> "delete", user |-> u, email |-> None, late |-> FALSE, orders |-> {}]
    BY <2>1 DEF Accounts!Idle
  <2>3. t \in Visits /\ t.at = "delete" /\ t.user = u
    BY <2>2 DEF Visits, AccountPlaces
  <2>4. /\ status[u] = "ACTIVE" /\ ~Accounts!Locked(u) /\ ~Accounts!HasActive(u)
        /\ ~SlowCheckouts => \A v \in Workers : ~(worker[v].at = "checkout" /\ worker[v].user = u)
    BY <1>7 DEF Accounts!StartDelete, Accounts!At, Accounts!User
  <2>5. \A o \in Orders : ~IsActive(order[o], u)
    BY <2>4 DEF Accounts!HasActive, Accounts!OrdersOf, IsActive
  <2>6. HeldOK(t, status, due) /\ OrdersOK(t, status, order)
    BY <2>3, <2>4, <2>5 DEF HeldOK, OrdersOK
  <2>7. ASSUME NEW v \in Workers \ {w} PROVE Exclude(worker[v], t) /\ Exclude(t, worker[v])
    <3>1. worker[v].user = u => worker[v].at \notin HoldsLock
      BY <2>4 DEF Accounts!Locked, Accounts!User, HoldsLock
    <3> QED BY <2>3, <2>4, <3>1 DEF Exclude, HoldsLock
  <2> QED BY <1>4, <1>5, <2>1, <2>3, <2>6, <2>7, AccountMoves
<1>8. CASE Accounts!StartRestore(w, u)
  <2>1. PICK ended \in BOOLEAN : ended = due[u]
    BY <1>1 DEF Accounts!TypeOK
  <2>2. PICK t : /\ t = [Accounts!Idle EXCEPT !.at = "restore", !.user = u, !.late = ended]
                 /\ worker' = [worker EXCEPT ![w] = t]
    BY <1>8, <2>1 DEF Accounts!StartRestore, Accounts!Set
  <2>3. t = [at |-> "restore", user |-> u, email |-> None, late |-> ended, orders |-> {}]
    BY <2>2 DEF Accounts!Idle
  <2>4. t \in Visits /\ t.at = "restore" /\ t.user = u /\ t.late = ended
    BY <2>3 DEF Visits, AccountPlaces
  <2>5. HeldOK(t, status, due) /\ OrdersOK(t, status, order)
    BY <2>1, <2>4 DEF HeldOK, OrdersOK
  <2>6. \A v \in Workers \ {w} : Exclude(worker[v], t) /\ Exclude(t, worker[v])
    BY <2>4, FreeOK DEF HoldsLock
  <2> QED BY <1>4, <1>5, <2>2, <2>4, <2>5, <2>6, AccountMoves
<1>9. CASE Accounts!StartFinalize(w, u)
  <2>1. PICK t : /\ t = [Accounts!Idle EXCEPT !.at = "lock", !.user = u]
                 /\ worker' = [worker EXCEPT ![w] = t]
    BY <1>9 DEF Accounts!StartFinalize, Accounts!Set
  <2>2. t = [at |-> "lock", user |-> u, email |-> None, late |-> FALSE, orders |-> {}]
    BY <2>1 DEF Accounts!Idle
  <2>3. t \in Visits /\ t.at = "lock" /\ t.user = u
    BY <2>2 DEF Visits, AccountPlaces
  <2>4. HeldOK(t, status, due) /\ OrdersOK(t, status, order)
    BY <2>3 DEF HeldOK, OrdersOK
  <2>5. \A v \in Workers \ {w} : Exclude(worker[v], t) /\ Exclude(t, worker[v])
    BY <2>3, FreeOK DEF HoldsLock
  <2> QED BY <1>4, <1>5, <2>1, <2>3, <2>4, <2>5, AccountMoves
<1> QED BY <1>6, <1>7, <1>8, <1>9

LEMMA AddressOK ==
  ASSUME Accounts!ConstantsAssumption, AccountInv, NEW w \in Workers, NEW u \in Users,
         \/ \E e \in Emails : Accounts!StartEmailChange(w, u, e)
         \/ Accounts!FinishEmailChange(w) /\ u = worker[w].user
  PROVE  AccountInv'
<1>1. UNCHANGED <<status, due, identity, order, faults, restores>>
  BY DEF Accounts!StartEmailChange, Accounts!FinishEmailChange, Accounts!account, Accounts!outside
<1>2. Accounts!TypeOK'
  BY <1>1, AddressTyped
<1>3. CASE \E e \in Emails : Accounts!StartEmailChange(w, u, e)
  <2>1. PICK e \in Emails : Accounts!StartEmailChange(w, u, e)
    BY <1>3
  <2>2. PICK t : /\ t = [Accounts!Idle EXCEPT !.at = "email", !.user = u, !.email = e]
                 /\ worker' = [worker EXCEPT ![w] = t]
    BY <2>1 DEF Accounts!StartEmailChange, Accounts!Set
  <2>3. t = [at |-> "email", user |-> u, email |-> e, late |-> FALSE, orders |-> {}]
    BY <2>2 DEF Accounts!Idle
  <2>4. t \in Visits /\ t.at = "email" /\ t.user = u /\ t.email = e
    BY <2>3 DEF Visits, AccountPlaces
  <2>5. HeldOK(t, status, due) /\ OrdersOK(t, status, order)
    BY <2>4 DEF HeldOK, OrdersOK
  <2>6. \A v \in Workers \ {w} : Exclude(worker[v], t) /\ Exclude(t, worker[v])
    BY <2>4, FreeOK DEF HoldsLock
  <2>7. worker[w].at = "idle"
    BY <2>1 DEF Accounts!StartEmailChange, Accounts!At
  <2> QED BY <1>1, <1>2, <2>2, <2>4, <2>5, <2>6, <2>7, AccountMoves
<1>4. CASE Accounts!FinishEmailChange(w)
  <2>1. PICK t : t = Accounts!Idle /\ worker' = [worker EXCEPT ![w] = t]
    BY <1>4 DEF Accounts!FinishEmailChange, Accounts!Set
  <2>2. worker[w].at = "email"
    BY <1>4 DEF Accounts!FinishEmailChange, Accounts!At
  <2>3. /\ t \in Visits /\ HeldOK(t, status, due) /\ OrdersOK(t, status, order)
        /\ \A v \in Workers \ {w} : Exclude(worker[v], t) /\ Exclude(t, worker[v])
    BY <2>1, NoVisit
  <2> QED BY <1>1, <1>2, <2>1, <2>2, <2>3, AccountMoves
<1> QED BY <1>3, <1>4

\* A deletion takes the lock and reads the orders; a request fails.
LEMMA FinalizeOK ==
  ASSUME Accounts!ConstantsAssumption, AccountInv, NEW w \in Workers,
         Accounts!Lock(w) \/ Accounts!ReadOrders(w) \/ Accounts!Stop(w)
  PROVE  AccountInv'
<1>1. worker \in [Workers -> Visits] /\ Accounts!TypeOK
  BY DEF AccountInv, AccountTyped
<1>2. AccountRests /\ restores' = restores
  BY DEF AccountRests, Accounts!Lock, Accounts!ReadOrders, Accounts!Stop,
         Accounts!account, Accounts!address, Accounts!outside
<1>3. faults' \in 0..MaxFaults /\ (Accounts!Stop(w) => MaxFaults # 0)
  <2>1. faults \in 0..MaxFaults /\ MaxFaults \in Nat
    BY <1>1 DEF Accounts!TypeOK, Accounts!ConstantsAssumption
  <2>2. /\ faults' = faults \/ (faults < MaxFaults /\ faults' = faults + 1)
        /\ Accounts!Stop(w) => faults < MaxFaults
    BY DEF Accounts!Lock, Accounts!ReadOrders, Accounts!Stop, Accounts!outside
  <2> QED BY <2>1, <2>2
<1>4. Accounts!TypeOK'
  <2>1. restores' \in 0..MaxRestores
    BY <1>1, <1>2 DEF Accounts!TypeOK
  <2> QED BY <1>1, <1>2, <1>3, <2>1, RestsTyped
<1>5. UNCHANGED <<status, due, identity, order>>
  BY <1>2 DEF AccountRests
<1>6. HeldOK(worker[w], status, due) /\ worker[w] \in Visits
  BY <1>1 DEF AccountInv, JobsOK
<1>7. ASSUME NEW t, t = Accounts!Idle, worker' = [worker EXCEPT ![w] = t],
             Accounts!Stop(w) \/ worker[w].at = "lock"
      PROVE  AccountInv'
  <2>1. /\ t \in Visits /\ HeldOK(t, status, due) /\ OrdersOK(t, status, order)
        /\ \A v \in Workers \ {w} : Exclude(worker[v], t) /\ Exclude(t, worker[v])
    BY <1>7, NoVisit
  <2> QED BY <1>3, <1>4, <1>5, <1>7, <2>1, AccountMoves
<1>8. CASE Accounts!Lock(w)
  <2>1. /\ worker[w].at = "lock" /\ ~Accounts!Locked(worker[w].user)
        /\ IF Accounts!StillDue(worker[w].user) THEN Accounts!Goto(w, "identity")
           ELSE Accounts!Set(w, Accounts!Idle)
    BY <1>8 DEF Accounts!Lock, Accounts!At, Accounts!User
  <2>2. CASE ~Accounts!StillDue(worker[w].user)
    <3>1. PICK t : t = Accounts!Idle /\ worker' = [worker EXCEPT ![w] = t]
      BY <2>1, <2>2 DEF Accounts!Set
    <3> QED BY <1>7, <2>1, <3>1
  <2>3. CASE Accounts!StillDue(worker[w].user)
    <3>1. PICK t : t = [worker[w] EXCEPT !.at = "identity"] /\ worker' = [worker EXCEPT ![w] = t]
      BY <1>1, <2>1, <2>3 DEF Accounts!Goto, Visits
    <3>2. PICK u \in Users : u = worker[w].user
      BY <1>6, <2>1 DEF HeldOK
    <3>3. t \in Visits /\ t.at = "identity" /\ t.user = u
      BY <1>6, <3>1, <3>2 DEF Visits, AccountPlaces
    <3>4. status[u] = "DELETION_PENDING" /\ due[u]
      BY <2>3, <3>2 DEF Accounts!StillDue, Accounts!Candidate
    <3>5. HeldOK(t, status, due) /\ OrdersOK(t, status, order)
      BY <3>3, <3>4 DEF HeldOK, OrdersOK
    <3>6. \A v \in Workers \ {w} : Exclude(worker[v], t) /\ Exclude(t, worker[v])
      BY <2>1, <3>2, <3>3, UnlockedOK
    <3> QED BY <1>4, <1>5, <2>1, <3>1, <3>3, <3>5, <3>6, AccountMoves
  <2> QED BY <2>2, <2>3
<1>9. CASE Accounts!ReadOrders(w)
  <2>1. worker[w].at = "redact"
    BY <1>9 DEF Accounts!ReadOrders, Accounts!At
  <2>2. PICK u \in Users : u = worker[w].user
    BY <1>6, <2>1 DEF HeldOK
  <2>3. PICK found : found = {o \in Orders : order[o].user = u}
    OBVIOUS
  <2>4. PICK t : /\ t = [worker[w] EXCEPT !.at = "erase", !.orders = found]
                 /\ worker' = [worker EXCEPT ![w] = t]
    BY <1>9, <2>2, <2>3 DEF Accounts!ReadOrders, Accounts!Set, Accounts!ToRedact,
                            Accounts!OrdersOf, Accounts!User
  <2>5. t \in Visits /\ t.at = "erase" /\ t.user = u /\ t.orders = found
    BY <1>6, <2>2, <2>3, <2>4 DEF Visits, AccountPlaces
  <2>6. HeldOK(t, status, due) /\ OrdersOK(t, status, order)
    BY <1>6, <2>1, <2>2, <2>3, <2>5 DEF HeldOK, OrdersOK
  <2>7. \A v \in Workers \ {w} : Exclude(worker[v], t) /\ Exclude(t, worker[v])
    BY <2>1, <2>2, <2>5, AloneOK DEF HoldsLock
  <2> QED BY <1>4, <1>5, <2>1, <2>2, <2>4, <2>5, <2>6, <2>7, AccountMoves
<1>10. CASE Accounts!Stop(w)
  <2>1. PICK t : t = Accounts!Idle /\ worker' = [worker EXCEPT ![w] = t]
    BY <1>10 DEF Accounts!Stop, Accounts!Set
  <2> QED BY <1>7, <1>10, <2>1
<1> QED BY <1>8, <1>9, <1>10

OrderRows ==
  [state : {"NONE", "ACTIVE", "DONE"}, user : Users \cup {None}, personal : BOOLEAN]

\* The conjuncts of the type invariant that actions of the account disturb.
LEMMA AccountShape ==
  ASSUME AccountInv
  PROVE  /\ status \in [Users -> {"ACTIVE", "DELETION_PENDING", "GONE"}]
         /\ due \in [Users -> BOOLEAN] /\ expired \in [Users -> BOOLEAN]
         /\ email \in [Users -> Emails \cup {None}] /\ pending \in [Users -> Emails \cup {None}]
         /\ identity \in [Users -> Emails \cup {None}]
         /\ order \in [Orders -> OrderRows]
         /\ \A v \in Users : status[v] = "GONE" <=> email[v] = None
         /\ \A v \in Users : expired[v] => pending[v] # None
         /\ worker \in [Workers -> Visits]
BY DEF AccountInv, AccountTyped, Accounts!TypeOK, OrderRows

LEMMA ShapeTyped ==
  ASSUME AccountInv, UNCHANGED <<links, faults, restores>>,
         status' \in [Users -> {"ACTIVE", "DELETION_PENDING", "GONE"}],
         due' \in [Users -> BOOLEAN], expired' \in [Users -> BOOLEAN],
         email' \in [Users -> Emails \cup {None}], pending' \in [Users -> Emails \cup {None}],
         identity' \in [Users -> Emails \cup {None}],
         order' \in [Orders -> OrderRows],
         \A v \in Users : status'[v] = "GONE" <=> email'[v] = None,
         \A v \in Users : expired'[v] => pending'[v] # None
  PROVE  Accounts!TypeOK'
BY DEF AccountInv, AccountTyped, Accounts!TypeOK, OrderRows

\* A checkout makes an order, and an order ends.
LEMMA FinishCheckoutOK ==
  ASSUME Accounts!ConstantsAssumption, AccountInv, NEW w \in Workers, NEW o \in Orders,
         Accounts!FinishCheckout(w, o)
  PROVE  AccountInv'
<1>1. /\ UNCHANGED <<status, due, email, pending, expired, identity, links, faults, restores>>
      /\ worker[w].at = "checkout" /\ order[o].state = "NONE"
  BY DEF Accounts!FinishCheckout, Accounts!account, Accounts!address, Accounts!outside, Accounts!At
<1>2. HeldOK(worker[w], status, due) /\ OrdersOK(worker[w], status, order)
  BY DEF AccountInv, JobsOK
<1>3. PICK u \in Users : u = worker[w].user
  BY <1>1, <1>2 DEF HeldOK
<1>4. PICK t : t = Accounts!Idle /\ worker' = [worker EXCEPT ![w] = t]
  BY DEF Accounts!FinishCheckout, Accounts!Set
<1>5. /\ t \in Visits /\ HeldOK(t, status, due) /\ OrdersOK(t, status, order')
      /\ \A v \in Workers \ {w} : Exclude(worker[v], t) /\ Exclude(t, worker[v])
  BY <1>4, NoVisit
<1>6. PICK new : new = [state |-> "ACTIVE", user |-> u, personal |-> TRUE]
  OBVIOUS
<1>7. order' = order \/ order' = [order EXCEPT ![o] = new]
  BY <1>3, <1>6 DEF Accounts!FinishCheckout, Accounts!User
<1>8. order' \in [Orders -> OrderRows]
  <2>1. new \in OrderRows
    BY <1>6 DEF OrderRows
  <2> QED BY <1>7, <2>1, AccountShape
<1>9. Accounts!TypeOK'
  BY <1>1, <1>8, AccountShape, ShapeTyped
<1>10. \A x \in Orders : order'[x] = order[x] \/ (order'[x].user = u /\ order'[x].state = "ACTIVE")
  BY <1>6, <1>7, AccountShape
<1>11. ASSUME NEW v \in Workers \ {w} PROVE OrdersOK(worker[v], status, order')
  <2>1. OrdersOK(worker[v], status, order) /\ HeldOK(worker[v], status, due)
    BY DEF AccountInv, JobsOK
  <2>2. SUFFICES ASSUME ~SlowCheckouts PROVE OrdersOK(worker[v], status, order')
    BY DEF OrdersOK
  <2>3. status[u] = "ACTIVE"
    BY <1>1, <1>2, <1>3, <2>2 DEF OrdersOK
  <2>4. worker[v].at = "delete" => worker[v].user # u
    <3>1. Exclude(worker[v], worker[w])
      BY DEF AccountInv, Apart
    <3> QED BY <1>1, <1>3, <2>2, <3>1 DEF Exclude, HoldsLock
  <2>5. worker[v].at = "erase" => worker[v].user # u
    BY <2>1, <2>3 DEF HeldOK
  <2> QED BY <1>10, <2>1, <2>2, <2>4, <2>5 DEF OrdersOK, IsActive
<1>12. PersonalOK(status, order')
  <2>1. SUFFICES ASSUME ~SlowCheckouts, NEW x \in Orders
                 PROVE  /\ order'[x].state = "ACTIVE" /\ order'[x].user # None =>
                             status[order'[x].user] = "ACTIVE"
                        /\ order'[x].personal => order'[x].user # None
    BY DEF PersonalOK
  <2>2. status[u] = "ACTIVE" /\ u # None
    BY <1>1, <1>2, <1>3, <2>1 DEF OrdersOK, Accounts!ConstantsAssumption
  <2>3. CASE order'[x] = order[x]
    BY <2>1, <2>3 DEF AccountInv, PersonalOK
  <2>4. CASE order'[x].user = u
    BY <2>2, <2>4
  <2> QED BY <1>10, <2>3, <2>4
<1>13. IdentityOK(worker', status, due, identity)
  BY <1>1, <1>4, <1>5, ErasingStays
<1>14. ASSUME NEW v \in Workers \ {w}
       PROVE  HeldOK(worker[v], status, due) /\ OrdersOK(worker[v], status, order')
  BY <1>11 DEF AccountInv, JobsOK
<1> QED BY <1>1, <1>4, <1>5, <1>9, <1>12, <1>13, <1>14, AccountWork

\* A deletion is scheduled, and taken back.
LEMMA FinishDeleteOK ==
  ASSUME Accounts!ConstantsAssumption, AccountInv, NEW w \in Workers, Accounts!FinishDelete(w)
  PROVE  AccountInv'
<1>1. /\ UNCHANGED <<email, identity, links, order, faults, restores>>
      /\ worker[w].at = "delete"
  BY DEF Accounts!FinishDelete, Accounts!outside, Accounts!At
<1>2. HeldOK(worker[w], status, due) /\ OrdersOK(worker[w], status, order)
  BY DEF AccountInv, JobsOK
<1>3. PICK u \in Users : u = worker[w].user
  BY <1>1, <1>2 DEF HeldOK
<1>4. /\ status' = [status EXCEPT ![u] = "DELETION_PENDING"] /\ due' = [due EXCEPT ![u] = FALSE]
      /\ pending' = [pending EXCEPT ![u] = None] /\ expired' = [expired EXCEPT ![u] = FALSE]
  BY <1>3 DEF Accounts!FinishDelete, Accounts!User
<1>5. /\ status[u] = "ACTIVE"
      /\ ~SlowCheckouts => \A o \in Orders : ~IsActive(order[o], u)
  BY <1>1, <1>2, <1>3 DEF HeldOK, OrdersOK
<1>6. PICK t : t = Accounts!Idle /\ worker' = [worker EXCEPT ![w] = t]
  BY DEF Accounts!FinishDelete, Accounts!Set
<1>7. /\ t \in Visits /\ HeldOK(t, status', due') /\ OrdersOK(t, status', order')
      /\ \A v \in Workers \ {w} : Exclude(worker[v], t) /\ Exclude(t, worker[v])
  BY <1>6, NoVisit
<1>8. /\ status'[u] = "DELETION_PENDING" /\ \A x \in Users \ {u} : status'[x] = status[x]
      /\ ~due'[u] /\ \A x \in Users \ {u} : due'[x] = due[x]
  BY <1>4, AccountShape
<1>9. Accounts!TypeOK'
  <2>1. /\ status' \in [Users -> {"ACTIVE", "DELETION_PENDING", "GONE"}]
        /\ due' \in [Users -> BOOLEAN] /\ expired' \in [Users -> BOOLEAN]
        /\ pending' \in [Users -> Emails \cup {None}]
    BY <1>4, AccountShape
  <2>2. \A v \in Users : status'[v] = "GONE" <=> email'[v] = None
    BY <1>1, <1>5, <1>8, AccountShape
  <2>3. \A v \in Users : expired'[v] => pending'[v] # None
    BY <1>4, AccountShape
  <2> QED BY <1>1, <2>1, <2>2, <2>3, AccountShape, ShapeTyped
<1>10. ASSUME NEW v \in Workers \ {w}
       PROVE  HeldOK(worker[v], status', due') /\ OrdersOK(worker[v], status', order')
  <2>1. HeldOK(worker[v], status, due) /\ OrdersOK(worker[v], status, order)
    BY DEF AccountInv, JobsOK
  <2>2. /\ worker[v].at \in HoldsLock => worker[v].user # u
        /\ ~SlowCheckouts /\ worker[v].at = "checkout" => worker[v].user # u
    <3>1. Exclude(worker[w], worker[v])
      BY DEF AccountInv, Apart
    <3> QED BY <1>1, <1>3, <3>1 DEF Exclude, HoldsLock
  <2>3. HeldOK(worker[v], status', due')
    BY <1>8, <2>1, <2>2 DEF HeldOK, HoldsLock
  <2>4. worker[v].at = "checkout" => worker[v].user \in Users
    BY <2>1 DEF HeldOK
  <2>5. OrdersOK(worker[v], status', order')
    BY <1>1, <1>8, <2>1, <2>2, <2>4 DEF OrdersOK
  <2> QED BY <2>3, <2>5
<1>11. IdentityOK(worker', status', due', identity')
  <2>1. IdentityOK(worker', status, due, identity)
    BY <1>1, <1>6, <1>7, ErasingStays
  <2> QED BY <1>1, <1>5, <1>8, <2>1 DEF IdentityOK
<1>12. PersonalOK(status', order')
  <2>1. PersonalOK(status, order)
    BY DEF AccountInv
  <2>2. \A o \in Orders : order[o].user \in Users \cup {None}
    BY AccountShape DEF OrderRows
  <2> QED BY <1>1, <1>5, <1>8, <2>1, <2>2 DEF PersonalOK, IsActive
<1> QED BY <1>6, <1>7, <1>9, <1>10, <1>11, <1>12, AccountWork

LEMMA FinishRestoreOK ==
  ASSUME Accounts!ConstantsAssumption, AccountInv, NEW w \in Workers, Accounts!FinishRestore(w)
  PROVE  AccountInv'
<1>1. /\ UNCHANGED <<email, pending, expired, identity, links, order, faults, restores>>
      /\ worker[w].at = "restore"
  BY DEF Accounts!FinishRestore, Accounts!address, Accounts!outside, Accounts!At
<1>2. HeldOK(worker[w], status, due)
  BY DEF AccountInv, JobsOK
<1>3. PICK u \in Users : u = worker[w].user
  BY <1>1, <1>2 DEF HeldOK
<1>4. ~Accounts!Locked(u)
  BY <1>3 DEF Accounts!FinishRestore, Accounts!User
<1>5. PICK t : t = Accounts!Idle /\ worker' = [worker EXCEPT ![w] = t]
  BY DEF Accounts!FinishRestore, Accounts!Set
<1>6. /\ t \in Visits /\ \A state, ended, made : HeldOK(t, state, ended) /\ OrdersOK(t, state, made)
      /\ \A v \in Workers \ {w} : Exclude(worker[v], t) /\ Exclude(t, worker[v])
  BY <1>5, NoVisit
<1>7. IdentityOK(worker', status, due, identity)
  BY <1>1, <1>5, <1>6, ErasingStays
<1>8. CASE UNCHANGED <<status, due>>
  <2>1. AccountRests /\ faults' \in 0..MaxFaults /\ restores' \in 0..MaxRestores
    BY <1>1, <1>8 DEF AccountRests, AccountInv, AccountTyped, Accounts!TypeOK
  <2>2. Accounts!TypeOK'
    BY <2>1, RestsTyped DEF AccountInv, AccountTyped
  <2>3. HeldOK(t, status, due) /\ OrdersOK(t, status, order)
    BY <1>6
  <2> QED BY <1>1, <1>5, <1>6, <1>8, <2>2, <2>3, AccountMoves
<1>9. CASE /\ status[u] = "DELETION_PENDING" /\ ~worker[w].late
           /\ status' = [status EXCEPT ![u] = "ACTIVE"] /\ due' = [due EXCEPT ![u] = FALSE]
  <2>1. /\ status'[u] = "ACTIVE" /\ \A x \in Users \ {u} : status'[x] = status[x]
        /\ ~due'[u] /\ \A x \in Users \ {u} : due'[x] = due[x]
    BY <1>9, AccountShape
  <2>2. Accounts!TypeOK'
    <3>1. /\ status' \in [Users -> {"ACTIVE", "DELETION_PENDING", "GONE"}]
          /\ due' \in [Users -> BOOLEAN]
      BY <1>9, AccountShape
    <3>2. \A v \in Users : status'[v] = "GONE" <=> email'[v] = None
      BY <1>1, <1>9, <2>1, AccountShape
    <3> QED BY <1>1, <3>1, <3>2, AccountShape, ShapeTyped
  <2>3. ASSUME NEW v \in Workers \ {w}
        PROVE  HeldOK(worker[v], status', due') /\ OrdersOK(worker[v], status', order')
    <3>1. HeldOK(worker[v], status, due) /\ OrdersOK(worker[v], status, order)
      BY DEF AccountInv, JobsOK
    <3>2. worker[v].at \in HoldsLock => worker[v].user # u
      BY <1>4 DEF Accounts!Locked, Accounts!User, HoldsLock
    <3>3. HeldOK(worker[v], status', due')
      BY <2>1, <3>1, <3>2 DEF HeldOK, HoldsLock
    <3>4. worker[v].at = "checkout" => worker[v].user \in Users
      BY <3>1 DEF HeldOK
    <3>5. OrdersOK(worker[v], status', order')
      BY <1>1, <2>1, <3>1, <3>4 DEF OrdersOK
    <3> QED BY <3>3, <3>5
  <2>4. ASSUME Safe PROVE identity[u] # None
    <3>1. SUFFICES ASSUME identity[u] = None PROVE FALSE
      OBVIOUS
    <3>2. due[u] /\ (MaxFaults = 0 => Erasing(worker, u))
      BY <1>9, <2>4, <3>1 DEF AccountInv, IdentityOK
    <3>3. ~Erasing(worker, u)
      BY <1>4 DEF Accounts!Locked, Accounts!User, Erasing
    <3>4. ~SlowRestores
      BY <2>4, <3>2, <3>3 DEF Safe
    <3> QED BY <1>1, <1>2, <1>3, <1>9, <3>2, <3>4 DEF HeldOK
  <2>5. IdentityOK(worker', status', due', identity')
    BY <1>1, <1>7, <2>1, <2>4 DEF IdentityOK
  <2>6. PersonalOK(status', order')
    <3>1. PersonalOK(status, order)
      BY DEF AccountInv
    <3>2. \A o \in Orders : order[o].user \in Users \cup {None}
      BY AccountShape DEF OrderRows
    <3> QED BY <1>1, <2>1, <3>1, <3>2 DEF PersonalOK
  <2>7. HeldOK(t, status', due') /\ OrdersOK(t, status', order')
    BY <1>6
  <2> QED BY <1>5, <1>6, <2>2, <2>3, <2>5, <2>6, <2>7, AccountWork
<1> QED BY <1>3, <1>8, <1>9 DEF Accounts!FinishRestore, Accounts!User, Accounts!account

\* The identity goes, and then the account.
LEMMA DeleteIdentityOK ==
  ASSUME Accounts!ConstantsAssumption, AccountInv, NEW w \in Workers,
         Accounts!DeleteIdentity(w)
  PROVE  AccountInv'
<1>1. /\ UNCHANGED <<status, due, email, pending, expired, links, order, faults, restores>>
      /\ worker[w].at = "identity"
  BY DEF Accounts!DeleteIdentity, Accounts!account, Accounts!address, Accounts!outside, Accounts!At
<1>2. /\ HeldOK(worker[w], status, due) /\ OrdersOK(worker[w], status, order)
      /\ worker[w] \in Visits
  BY DEF AccountInv, JobsOK, AccountTyped
<1>3. PICK u \in Users : u = worker[w].user
  BY <1>1, <1>2 DEF HeldOK
<1>4. identity' = [identity EXCEPT ![u] = None]
  BY <1>3 DEF Accounts!DeleteIdentity, Accounts!User
<1>5. PICK t : t = [worker[w] EXCEPT !.at = "redact"] /\ worker' = [worker EXCEPT ![w] = t]
  BY <1>2, AccountShape DEF Accounts!DeleteIdentity, Accounts!Goto, Visits
<1>6. t \in Visits /\ t.at = "redact" /\ t.user = u
  BY <1>2, <1>3, <1>5 DEF Visits, AccountPlaces
<1>7. status[u] = "DELETION_PENDING" /\ due[u]
  BY <1>1, <1>2, <1>3 DEF HeldOK
<1>8. HeldOK(t, status, due) /\ OrdersOK(t, status, order)
  BY <1>6, <1>7 DEF HeldOK, OrdersOK
<1>9. \A v \in Workers \ {w} : Exclude(worker[v], t) /\ Exclude(t, worker[v])
  BY <1>1, <1>3, <1>6, AloneOK DEF HoldsLock
<1>10. Accounts!TypeOK'
  BY <1>1, <1>4, AccountShape, ShapeTyped
<1>11. IdentityOK(worker', status, due, identity')
  <2>1. IdentityOK(worker', status, due, identity)
    BY <1>1, <1>5, <1>6, ErasingStays
  <2>2. \A x \in Users \ {u} : identity'[x] = identity[x]
    BY <1>4, AccountShape
  <2>3. worker'[w] = t
    BY <1>5, AccountShape
  <2>4. Erasing(worker', u)
    BY <1>6, <2>3 DEF Erasing
  <2> QED BY <1>7, <2>1, <2>2, <2>4 DEF IdentityOK
<1>12. \A v \in Workers \ {w} : HeldOK(worker[v], status, due) /\ OrdersOK(worker[v], status, order)
  BY DEF AccountInv, JobsOK
<1>13. PersonalOK(status, order)
  BY DEF AccountInv
<1> QED BY <1>1, <1>5, <1>6, <1>8, <1>9, <1>10, <1>11, <1>12, <1>13, AccountWork

LEMMA EraseOK ==
  ASSUME Accounts!ConstantsAssumption, AccountInv, NEW w \in Workers, Accounts!Erase(w)
  PROVE  AccountInv'
<1>1. UNCHANGED <<identity, links, faults, restores>> /\ worker[w].at = "erase"
  BY DEF Accounts!Erase, Accounts!outside, Accounts!At
<1>2. /\ HeldOK(worker[w], status, due) /\ OrdersOK(worker[w], status, order)
  BY DEF AccountInv, JobsOK
<1>3. PICK u \in Users : u = worker[w].user
  BY <1>1, <1>2 DEF HeldOK
<1>4. /\ status' = [status EXCEPT ![u] = "GONE"] /\ due' = [due EXCEPT ![u] = FALSE]
      /\ email' = [email EXCEPT ![u] = None] /\ pending' = [pending EXCEPT ![u] = None]
      /\ expired' = [expired EXCEPT ![u] = FALSE]
  BY <1>3 DEF Accounts!Erase, Accounts!User
<1>5. status[u] = "DELETION_PENDING" /\ due[u] /\ u # None /\ None \notin Emails
  BY <1>1, <1>2, <1>3 DEF HeldOK, Accounts!ConstantsAssumption
<1>6. order' = [o \in Orders |->
        [order[o] EXCEPT !.user = IF order[o].user = u THEN None ELSE order[o].user,
                         !.personal = order[o].personal /\ o \notin worker[w].orders]]
  BY <1>3 DEF Accounts!Erase, Accounts!User
<1>7. ASSUME NEW o \in Orders
      PROVE  /\ order'[o] \in OrderRows /\ order'[o].state = order[o].state
             /\ order'[o].user = IF order[o].user = u THEN None ELSE order[o].user
             /\ order'[o].personal => order[o].personal /\ o \notin worker[w].orders
  <2>1. order[o] \in OrderRows
    BY AccountShape
  <2>2. PICK owner \in Users \cup {None} :
          owner = IF order[o].user = u THEN None ELSE order[o].user
    BY <2>1 DEF OrderRows
  <2>3. PICK left \in BOOLEAN : left <=> order[o].personal /\ o \notin worker[w].orders
    OBVIOUS
  <2>4. (order[o].personal /\ o \notin worker[w].orders) = left
    BY <2>1, <2>3, Zenon DEF OrderRows
  <2>5. order'[o] = [order[o] EXCEPT !.user = owner, !.personal = left]
    BY <1>6, <2>2, <2>4
  <2>6. /\ order'[o] \in OrderRows /\ order'[o].state = order[o].state
        /\ order'[o].user = owner /\ order'[o].personal = left
    BY <2>1, <2>5 DEF OrderRows
  <2>7. order'[o].personal => order[o].personal /\ o \notin worker[w].orders
    BY <2>3, <2>6
  <2> QED BY <2>2, <2>6, <2>7
<1>8. order' \in [Orders -> OrderRows]
  BY <1>6, <1>7
<1>9. PICK t : t = Accounts!Idle /\ worker' = [worker EXCEPT ![w] = t]
  BY DEF Accounts!Erase, Accounts!Set
<1>10. /\ t \in Visits /\ HeldOK(t, status', due') /\ OrdersOK(t, status', order')
       /\ \A v \in Workers \ {w} : Exclude(worker[v], t) /\ Exclude(t, worker[v])
  BY <1>9, NoVisit
<1>11. /\ status'[u] = "GONE" /\ \A x \in Users \ {u} : status'[x] = status[x]
       /\ ~due'[u] /\ \A x \in Users \ {u} : due'[x] = due[x]
  BY <1>4, AccountShape
<1>12. Accounts!TypeOK'
  <2>1. /\ status' \in [Users -> {"ACTIVE", "DELETION_PENDING", "GONE"}]
        /\ due' \in [Users -> BOOLEAN] /\ expired' \in [Users -> BOOLEAN]
        /\ email' \in [Users -> Emails \cup {None}] /\ pending' \in [Users -> Emails \cup {None}]
    BY <1>4, AccountShape
  <2>2. \A v \in Users : status'[v] = "GONE" <=> email'[v] = None
    BY <1>4, AccountShape
  <2>3. \A v \in Users : expired'[v] => pending'[v] # None
    BY <1>4, AccountShape
  <2> QED BY <1>1, <1>8, <2>1, <2>2, <2>3, AccountShape, ShapeTyped
<1>13. ASSUME NEW v \in Workers \ {w}
       PROVE  HeldOK(worker[v], status', due') /\ OrdersOK(worker[v], status', order')
  <2>1. HeldOK(worker[v], status, due) /\ OrdersOK(worker[v], status, order)
    BY DEF AccountInv, JobsOK
  <2>2. worker[v].at \in HoldsLock => worker[v].user # u
    <3>1. Exclude(worker[w], worker[v])
      BY DEF AccountInv, Apart
    <3> QED BY <1>1, <1>3, <3>1 DEF Exclude, HoldsLock
  <2>3. HeldOK(worker[v], status', due')
    BY <1>11, <2>1, <2>2 DEF HeldOK, HoldsLock
  <2>4. worker[v].at # "idle" => worker[v].user \in Users /\ worker[v].user # None
    BY <2>1 DEF HeldOK, Accounts!ConstantsAssumption
  <2>5. SUFFICES ASSUME ~SlowCheckouts PROVE OrdersOK(worker[v], status', order')
    BY <2>3 DEF OrdersOK
  <2>6. worker[v].at = "checkout" => status'[worker[v].user] = "ACTIVE"
    BY <1>5, <1>11, <2>1, <2>4, <2>5 DEF OrdersOK
  <2>7. worker[v].at = "delete" => \A o \in Orders : ~IsActive(order'[o], worker[v].user)
    BY <1>7, <2>1, <2>4, <2>5 DEF OrdersOK, IsActive
  <2>8. worker[v].at = "erase" =>
          \A o \in Orders : order'[o].user = worker[v].user => o \in worker[v].orders
    BY <1>7, <2>1, <2>4, <2>5 DEF OrdersOK
  <2> QED BY <2>6, <2>7, <2>8 DEF OrdersOK
<1>14. IdentityOK(worker', status', due', identity')
  <2>1. SUFFICES ASSUME Safe, NEW x \in Users, identity[x] = None, x # u
                 PROVE  \/ status[x] = "GONE"
                        \/ /\ status[x] = "DELETION_PENDING" /\ due[x]
                           /\ MaxFaults = 0 => Erasing(worker', x)
    BY <1>1, <1>11 DEF IdentityOK
  <2>2. \/ status[x] = "GONE"
        \/ /\ status[x] = "DELETION_PENDING" /\ due[x]
           /\ MaxFaults = 0 => Erasing(worker, x)
    BY <2>1 DEF AccountInv, IdentityOK
  <2>3. Erasing(worker, x) => Erasing(worker', x)
    <3>1. SUFFICES ASSUME NEW v \in Workers, worker[v].at \in {"redact", "erase"},
                          worker[v].user = x
                   PROVE  Erasing(worker', x)
      BY DEF Erasing
    <3>2. v # w
      BY <1>3, <2>1, <3>1
    <3>3. worker'[v] = worker[v]
      BY <1>9, <3>2, AccountShape
    <3> QED BY <3>1, <3>3 DEF Erasing
  <2> QED BY <2>2, <2>3
<1>15. PersonalOK(status', order')
  <2>1. SUFFICES ASSUME ~SlowCheckouts, NEW o \in Orders
                 PROVE  /\ order'[o].state = "ACTIVE" /\ order'[o].user # None =>
                             status'[order'[o].user] = "ACTIVE"
                        /\ order'[o].personal => order'[o].user # None
    BY DEF PersonalOK
  <2>2. /\ order[o].state = "ACTIVE" /\ order[o].user # None => status[order[o].user] = "ACTIVE"
        /\ order[o].personal => order[o].user # None
    BY <2>1 DEF AccountInv, PersonalOK
  <2>3. order[o].user = u => o \in worker[w].orders
    BY <1>1, <1>2, <1>3, <2>1 DEF OrdersOK
  <2>4. order[o].user \in Users \cup {None}
    BY AccountShape DEF OrderRows
  <2> QED BY <1>7, <1>11, <2>2, <2>3, <2>4
<1> QED BY <1>9, <1>10, <1>12, <1>13, <1>14, <1>15, AccountWork

\* The address changes elsewhere, the grace and the orders end.
LEMMA ElsewhereOK ==
  ASSUME Accounts!ConstantsAssumption, AccountInv, NEW u \in Users,
         \/ \E e \in Emails : Accounts!Confirm(u, e)
         \/ Accounts!SignIn(u) \/ Accounts!Expire(u)
  PROVE  AccountInv'
<1>1. UNCHANGED <<status, due, order, faults, restores, worker>>
  BY DEF Accounts!Confirm, Accounts!SignIn, Accounts!Expire, Accounts!account, Accounts!outside
<1>2. Accounts!TypeOK'
  BY <1>1, AddressTyped
<1>3. \A x \in Users : identity'[x] = None => identity[x] = None
  <2>1. CASE identity' = identity
    BY <2>1
  <2>2. CASE \E e \in Emails : Accounts!Confirm(u, e)
    BY <2>2, AccountShape DEF Accounts!Confirm, Accounts!ConstantsAssumption
  <2> QED BY <2>1, <2>2 DEF Accounts!SignIn, Accounts!Expire
<1>4. IdentityOK(worker', status', due', identity')
  BY <1>1, <1>3 DEF AccountInv, IdentityOK
<1> QED BY <1>1, <1>2, <1>4 DEF AccountInv, AccountTyped

LEMMA GraceEndsOK ==
  ASSUME AccountInv, NEW u \in Users, Accounts!GraceEnds(u)
  PROVE  AccountInv'
<1>1. /\ UNCHANGED <<status, email, pending, expired, identity, links, order, faults, restores,
                     worker>>
      /\ due' = [due EXCEPT ![u] = TRUE]
  BY DEF Accounts!GraceEnds, Accounts!address, Accounts!outside
<1>2. due' \in [Users -> BOOLEAN]
  BY <1>1, AccountShape
<1>3. Accounts!TypeOK'
  BY <1>1, <1>2, AccountShape, ShapeTyped
<1>4. due'[u] /\ \A x \in Users \ {u} : due'[x] = due[x]
  BY <1>1, AccountShape
<1>5. ASSUME NEW w \in Workers PROVE HeldOK(worker[w], status, due')
  <2>1. HeldOK(worker[w], status, due)
    BY DEF AccountInv, JobsOK
  <2>2. ~SlowRestores => ~(worker[w].at = "restore" /\ worker[w].user = u)
    BY DEF Accounts!GraceEnds, Accounts!At, Accounts!User
  <2> QED BY <1>4, <2>1, <2>2 DEF HeldOK
<1>6. JobsOK(worker', status', due', order')
  BY <1>1, <1>5 DEF AccountInv, JobsOK
<1>7. IdentityOK(worker', status', due', identity')
  BY <1>1, <1>4 DEF AccountInv, IdentityOK
<1> QED BY <1>1, <1>3, <1>6, <1>7 DEF AccountInv, AccountTyped

LEMMA EndOrderOK ==
  ASSUME AccountInv, NEW o \in Orders, Accounts!EndOrder(o)
  PROVE  AccountInv'
<1>1. /\ UNCHANGED <<status, due, email, pending, expired, identity, links, faults, restores,
                     worker>>
      /\ order' = [order EXCEPT ![o].state = "DONE"]
  BY DEF Accounts!EndOrder, Accounts!account, Accounts!address, Accounts!outside
<1>2. PICK new : new = [order[o] EXCEPT !.state = "DONE"]
  OBVIOUS
<1>3. /\ new \in OrderRows /\ new.user = order[o].user /\ new.personal = order[o].personal
      /\ new.state = "DONE"
  BY <1>2, AccountShape DEF OrderRows
<1>4. order' = [order EXCEPT ![o] = new]
  BY <1>1, <1>2, AccountShape
<1>5. order' \in [Orders -> OrderRows]
  BY <1>3, <1>4, AccountShape
<1>6. Accounts!TypeOK'
  BY <1>1, <1>5, AccountShape, ShapeTyped
<1>7. \A x \in Orders : /\ order'[x].user = order[x].user /\ order'[x].personal = order[x].personal
                        /\ order'[x].state = "ACTIVE" => order[x].state = "ACTIVE"
  BY <1>3, <1>4, AccountShape
<1>8. ASSUME NEW w \in Workers PROVE OrdersOK(worker[w], status, order')
  <2>1. OrdersOK(worker[w], status, order)
    BY DEF AccountInv, JobsOK
  <2> QED BY <1>7, <2>1 DEF OrdersOK, IsActive
<1>9. JobsOK(worker', status', due', order')
  BY <1>1, <1>8 DEF AccountInv, JobsOK
<1>10. PersonalOK(status', order')
  BY <1>1, <1>7 DEF AccountInv, PersonalOK
<1> QED BY <1>1, <1>6, <1>9, <1>10 DEF AccountInv, AccountTyped

LEMMA AccountStep ==
  ASSUME Accounts!ConstantsAssumption, AccountInv, [Accounts!Next]_Accounts!vars
  PROVE  AccountInv'
<1>1. ASSUME NEW w \in Workers, Accounts!Step(w) \/ Accounts!Stop(w)
      PROVE  AccountInv'
  <2>1. CASE Accounts!FinishEmailChange(w)
    <3>1. worker[w].at = "email" /\ HeldOK(worker[w], status, due)
      BY <2>1 DEF Accounts!FinishEmailChange, Accounts!At, AccountInv, JobsOK
    <3>2. PICK u \in Users : u = worker[w].user
      BY <3>1 DEF HeldOK
    <3> QED BY <2>1, <3>2, AddressOK
  <2>2. CASE Accounts!Lock(w) \/ Accounts!ReadOrders(w) \/ Accounts!Stop(w)
    BY <2>2, FinalizeOK
  <2>3. CASE \E o \in Orders : Accounts!FinishCheckout(w, o)
    BY <2>3, FinishCheckoutOK
  <2>4. CASE Accounts!FinishDelete(w) \/ Accounts!FinishRestore(w)
    BY <2>4, FinishDeleteOK, FinishRestoreOK
  <2>5. CASE Accounts!DeleteIdentity(w) \/ Accounts!Erase(w)
    BY <2>5, DeleteIdentityOK, EraseOK
  <2> QED BY <1>1, <2>1, <2>2, <2>3, <2>4, <2>5 DEF Accounts!Step
<1>2. ASSUME NEW w \in Workers, NEW u \in Users,
             \/ Accounts!StartCheckout(w, u) \/ Accounts!StartDelete(w, u)
             \/ Accounts!StartRestore(w, u) \/ Accounts!StartFinalize(w, u)
             \/ \E e \in Emails : Accounts!StartEmailChange(w, u, e)
      PROVE  AccountInv'
  BY <1>2, StartsOK, AddressOK
<1>3. ASSUME NEW u \in Users,
             \/ Accounts!SignIn(u) \/ Accounts!Expire(u) \/ Accounts!GraceEnds(u)
             \/ \E e \in Emails : Accounts!Confirm(u, e)
      PROVE  AccountInv'
  BY <1>3, ElsewhereOK, GraceEndsOK
<1>4. ASSUME NEW o \in Orders, Accounts!EndOrder(o)
      PROVE  AccountInv'
  BY <1>4, EndOrderOK
<1>5. CASE UNCHANGED Accounts!vars
  <2>1. UNCHANGED <<status, due, email, pending, expired, identity, links, order, faults, restores,
                    worker>>
    BY <1>5 DEF Accounts!vars
  <2>2. Accounts!TypeOK'
    BY <2>1, AccountShape, ShapeTyped
  <2> QED BY <2>1, <2>2 DEF AccountInv, AccountTyped
<1> QED BY <1>1, <1>2, <1>3, <1>4, <1>5 DEF Accounts!Next

LEMMA AccountInit ==
  ASSUME Accounts!ConstantsAssumption, Accounts!Init
  PROVE  AccountInv
<1>1. /\ status = [u \in Users |-> "ACTIVE"] /\ due = [u \in Users |-> FALSE]
      /\ email = FirstEmail /\ identity = FirstEmail
      /\ pending = [u \in Users |-> None] /\ expired = [u \in Users |-> FALSE] /\ links = {}
      /\ order = [o \in Orders |-> [state |-> "NONE", user |-> None, personal |-> FALSE]]
      /\ faults = 0 /\ restores = 0
  BY DEF Accounts!Init
<1>2. FirstEmail \in [Users -> Emails] /\ None \notin Emails
      /\ MaxFaults \in Nat /\ MaxRestores \in Nat
  BY DEF Accounts!ConstantsAssumption
<1>3. ASSUME NEW w \in Workers
      PROVE  /\ worker[w] \in Visits /\ worker[w].at = "idle"
             /\ HeldOK(worker[w], status, due) /\ OrdersOK(worker[w], status, order)
             /\ \A x \in Workers : Exclude(worker[w], worker[x])
  <2>1. \A v \in Workers : worker[v] = Accounts!Idle
    BY DEF Accounts!Init
  <2> QED BY <2>1, NoVisit
<1>4. worker \in [Workers -> Visits]
  BY <1>3 DEF Accounts!Init
<1>5. Accounts!TypeOK
  <2>1. order \in [Orders -> OrderRows]
    BY <1>1 DEF OrderRows
  <2>2. due \in [Users -> BOOLEAN] /\ expired \in [Users -> BOOLEAN]
    BY <1>1
  <2>3. email \in [Users -> Emails \cup {None}] /\ pending \in [Users -> Emails \cup {None}]
        /\ identity \in [Users -> Emails \cup {None}] /\ links \subseteq Users \X Emails
        /\ status \in [Users -> {"ACTIVE", "DELETION_PENDING", "GONE"}]
    BY <1>1, <1>2
  <2>4. \A u \in Users : /\ status[u] = "GONE" <=> email[u] = None
                         /\ expired[u] => pending[u] # None
    BY <1>1, <1>2
  <2>5. faults \in 0..MaxFaults /\ restores \in 0..MaxRestores
    BY <1>1, <1>2
  <2> QED BY <2>1, <2>2, <2>3, <2>4, <2>5 DEF Accounts!TypeOK, OrderRows
<1>6. IdentityOK(worker, status, due, identity) /\ PersonalOK(status, order)
  BY <1>1, <1>2 DEF IdentityOK, PersonalOK
<1> QED BY <1>3, <1>4, <1>5, <1>6 DEF AccountInv, AccountTyped, JobsOK, Apart

LEMMA AccountHolds ==
  Accounts!ConstantsAssumption => (Accounts!Spec => []AccountInv)
<1> SUFFICES ASSUME Accounts!ConstantsAssumption PROVE Accounts!Spec => []AccountInv
  OBVIOUS
<1>1. Accounts!Init => AccountInv
  BY AccountInit
<1>2. AccountInv /\ [Accounts!Next]_Accounts!vars => AccountInv'
  BY AccountStep
<1> QED BY <1>1, <1>2, PTL DEF Accounts!Spec

\* An account that is active has its identity at the provider, and the customer
\* can sign in: whatever requests to restore wait for, as long as none that has
\* waited past the end of the grace meets a deletion whose transaction was
\* rolled back after the identity was deleted (account.service.ts
\* restoreAccount, finalizeAccountDeletion).
THEOREM RecoveredTheorem ==
  Accounts!ConstantsAssumption /\ (MaxFaults = 0 \/ ~SlowRestores) =>
    (Accounts!Spec => [](Accounts!TypeOK /\ Accounts!ActiveHasIdentity))
<1> SUFFICES ASSUME Accounts!ConstantsAssumption, MaxFaults = 0 \/ ~SlowRestores
             PROVE  Accounts!Spec => [](Accounts!TypeOK /\ Accounts!ActiveHasIdentity)
  OBVIOUS
<1>1. AccountInv => Accounts!TypeOK
  BY DEF AccountInv, AccountTyped
<1>2. AccountInv => Accounts!ActiveHasIdentity
  BY DEF AccountInv, IdentityOK, Safe, Accounts!ActiveHasIdentity
<1> QED BY <1>1, <1>2, AccountHolds, PTL

\* Where no deletion is requested while a checkout of the customer runs, no
\* account is on its way out with an active order, and what it leaves behind
\* names nobody (account.service.ts requestAccountDeletion,
\* finalizeAccountDeletion).
THEOREM DeletedTheorem ==
  Accounts!ConstantsAssumption /\ ~SlowCheckouts =>
    (Accounts!Spec => [](Accounts!NoActiveOrder /\ Accounts!DeletedIsRedacted))
<1> SUFFICES ASSUME Accounts!ConstantsAssumption, ~SlowCheckouts
             PROVE  Accounts!Spec => [](Accounts!NoActiveOrder /\ Accounts!DeletedIsRedacted)
  OBVIOUS
<1>1. AccountInv => Accounts!NoActiveOrder
  BY DEF AccountInv, PersonalOK, Accounts!NoActiveOrder, Accounts!OrdersOf,
         Accounts!ConstantsAssumption
<1>2. AccountInv => Accounts!DeletedIsRedacted
  BY DEF AccountInv, PersonalOK, Accounts!DeletedIsRedacted
<1> QED BY <1>1, <1>2, AccountHolds, PTL

-----------------------------------------------------------------------------
(* ShipmentTracking: what a report in hand knows of its parcel and order.    *)

HandedOver == {"PICKED_UP", "IN_TRANSIT", "OUT_FOR_DELIVERY", "DELIVERED"}
Reports == {"count", "apply", "commit"}

\* A report in hand, or one that moves the order first, is of a scan there is;
\* where it will not move the order, the order has left PAID if it must have.
ReportOK(t, state, trips) ==
  /\ t.at \in {"transition", "lock"} => t.to \in {"SHIPPED", "DELIVERED"}
  /\ t.at \in Reports => t.to \in {"none", "SHIPPED", "DELIVERED"}
  /\ t.at \in Reports \/ (t.at \in {"transition", "lock"} /\ t.s # Parcel!NoOne) =>
       t.s \in Courier /\ t.n \in DOMAIN trips[t.s]
  /\ t.at = "count" => state # "PAID"
  /\ t.at \in {"apply", "commit"} /\ t.to = "none" /\ trips[t.s][t.n] \in HandedOver =>
       state # "PAID"
  /\ t.at \in {"book", "cancel"} => t.s \in Parcel!Shipments
  /\ t.at = "cancel" => "cancel" \in Operations
  /\ \/ t.at = "admin"
     \/ t.at \in {"transition", "lock"} /\ t.s = Parcel!NoOne
     => (t.to = "DELIVERED" => "deliver" \in Operations)

Carried(t) == t \in [at : {t.at}, s : {t.s}, n : {t.n}, seen : {t.seen}, cur : {t.cur},
                     latest : {t.latest}, to : {t.to}]

ParcelInv ==
  /\ status \in [Parcel!Shipments -> Parcel!Statuses \cup {"NONE"}]
  /\ journey \in [Parcel!Shipments -> Seq(Parcel!Statuses \cap Reported)]
  /\ worker = [w \in Workers |-> worker[w]]
  /\ \A w \in Workers : Carried(worker[w]) /\ ReportOK(worker[w], order, journey)
  /\ \A s \in Parcel!Shipments : status[s] \in HandedOver => order # "PAID"
  /\ \A s \in Parcel!Shipments : status[s] = "RTO_IN_TRANSIT" => "RTO_IN_TRANSIT" \in Reported

LEMMA ParcelInit == Parcel!Init => ParcelInv
BY DEF Parcel!Init, ParcelInv, Parcel!Statuses, Parcel!Idle, Carried, ReportOK, HandedOver,
       Reports

LEMMA BeginsWith ==
  ASSUME NEW where, NEW s
  PROVE  LET t == [Parcel!Idle EXCEPT !.at = where, !.s = s] IN
         Carried(t) /\ t.at = where /\ t.s = s
BY DEF Carried, Parcel!Idle

\* A worker that goes on elsewhere, nothing else changing.
LEMMA JobGoesOn ==
  ASSUME Parcel!ConstantsAssumption, ParcelInv, NEW w \in Workers, NEW t,
         worker' = [worker EXCEPT ![w] = t], Carried(t), ReportOK(t, order, journey), UNCHANGED <<order, status, journey>>
  PROVE  ParcelInv'
BY DEF ParcelInv

\* The order is never PAID again.
LEMMA OthersReports ==
  ASSUME Parcel!ConstantsAssumption, ParcelInv, NEW w \in Workers, NEW t,
         worker' = [worker EXCEPT ![w] = t], Carried(t), ReportOK(t, order', journey), UNCHANGED journey,
         order # "PAID" => order' # "PAID"
  PROVE  /\ worker' = [v \in Workers |-> worker'[v]]
         /\ \A v \in Workers : Carried(worker'[v]) /\ ReportOK(worker'[v], order', journey')
<1>1. worker' = [v \in Workers |-> worker'[v]]
  BY DEF ParcelInv
<1>2. ASSUME NEW v \in Workers
      PROVE  Carried(worker'[v]) /\ ReportOK(worker'[v], order', journey')
  <2>1. CASE v = w
    BY <2>1 DEF ParcelInv
  <2>2. CASE v # w
    <3>1. worker'[v] = worker[v] /\ Carried(worker[v]) /\ ReportOK(worker[v], order, journey)
      BY <2>2 DEF ParcelInv
    <3>2. ReportOK(worker[v], order', journey)
      BY <3>1 DEF ReportOK
    <3> QED BY <3>1, <3>2
  <2> QED BY <2>1, <2>2
<1> QED BY <1>1, <1>2

LEMMA FindOK ==
  ASSUME Parcel!ConstantsAssumption, ParcelInv, NEW w \in Workers, NEW s \in Parcel!Shipments, NEW n \in Nat,
         Parcel!Find(w, s, n)
  PROVE  ParcelInv'
<1> DEFINE t == worker'[w]
<1>1. /\ s \in Courier /\ n \in DOMAIN journey[s] /\ UNCHANGED <<order, status, journey>>
      /\ worker' = [worker EXCEPT ![w] = t]
      /\ Carried(t) /\ t.s = s /\ t.n = n /\ t.at \in {"transition", "count", "apply"}
      /\ t.at = "transition" => t.to = "SHIPPED"
      /\ t.at # "transition" => t.to = "none"
      /\ t.at = "count" => order = "SHIPPED"
      /\ t.at = "apply" /\ journey[s][n] \in HandedOver => order # "PAID"
  BY DEF Parcel!Find, Parcel!CanStart, Parcel!Set, Parcel!Idle, Parcel!ScanStatus,
         Parcel!Handoff, ParcelInv, Carried, HandedOver
<1>2. ReportOK(t, order, journey)
  BY <1>1 DEF ReportOK, Reports
<1> QED BY <1>1, <1>2, JobGoesOn

LEMMA ReadsOK ==
  ASSUME Parcel!ConstantsAssumption, ParcelInv, NEW w \in Workers,
         \/ Parcel!ReadOrder(w) \/ Parcel!LockOrder(w) \/ Parcel!CountOpen(w)
         \/ Parcel!ReadShipment(w) \/ Parcel!RefuseDispatch(w) \/ Parcel!GiveUp(w)
  PROVE  ParcelInv'
<1>0. /\ ReportOK(worker[w], order, journey) /\ Carried(worker[w])
      /\ worker = [v \in Workers |-> worker[v]]
  BY DEF ParcelInv
<1>1. UNCHANGED <<order, status, journey>>
  BY DEF Parcel!ReadOrder, Parcel!LockOrder, Parcel!CountOpen, Parcel!ReadShipment,
         Parcel!RefuseDispatch, Parcel!GiveUp
<1>2. SUFFICES ASSUME NEW t, worker' = [worker EXCEPT ![w] = t]
               PROVE  Carried(t) /\ ReportOK(t, order, journey)
  <2>1. worker' = [worker EXCEPT ![w] = worker'[w]]
    BY <1>0 DEF Parcel!ReadOrder, Parcel!LockOrder, Parcel!CountOpen, Parcel!ReadShipment,
           Parcel!RefuseDispatch, Parcel!GiveUp, Parcel!Set, Parcel!Goto
  <2> QED BY <1>1, <1>2, <2>1, JobGoesOn
<1>3. t = worker'[w]
  BY <1>0, <1>2
<1>4. ReportOK(Parcel!Idle, order, journey) /\ Carried(Parcel!Idle)
  BY DEF ReportOK, Parcel!Idle, Reports, Carried
<1>5. CASE Parcel!ReadOrder(w)
  <2>1. \/ t = Parcel!Idle
        \/ t = [worker[w] EXCEPT !.at = "lock", !.seen = order]
    BY <1>0, <1>3, <1>5 DEF Parcel!ReadOrder, Parcel!Set
  <2>2. ASSUME t = [worker[w] EXCEPT !.at = "lock", !.seen = order]
        PROVE  Carried(t) /\ ReportOK(t, order, journey)
    <3>1. /\ Carried(t) /\ t.at = "lock" /\ t.s = worker[w].s /\ t.n = worker[w].n
          /\ t.to = worker[w].to /\ worker[w].at = "transition"
      BY <1>0, <1>5, <2>2 DEF Parcel!ReadOrder, Parcel!At, Carried
    <3> QED BY <1>0, <3>1 DEF ReportOK, Reports
  <2> QED BY <1>4, <2>1, <2>2
<1>6. CASE Parcel!LockOrder(w)
  BY <1>0, <1>2, <1>3, <1>4, <1>6
     DEF Parcel!LockOrder, Parcel!Set, Parcel!Goto, Parcel!At, ReportOK, Carried, Reports
<1>7. CASE Parcel!CountOpen(w)
  <2>1. \/ t = [worker[w] EXCEPT !.at = "transition", !.to = "DELIVERED"]
        \/ t = [worker[w] EXCEPT !.at = "apply", !.to = "none"]
    BY <1>0, <1>3, <1>7 DEF Parcel!CountOpen, Parcel!Set
  <2>2. worker[w].at = "count"
    BY <1>7 DEF Parcel!CountOpen, Parcel!At
  <2>3. PICK where, to :
          /\ \/ where = "transition" /\ to = "DELIVERED"
             \/ where = "apply" /\ to = "none"
          /\ t = [worker[w] EXCEPT !.at = where, !.to = to]
    BY <2>1
  <2>4. Carried(t) /\ t.at = where /\ t.to = to /\ t.s = worker[w].s /\ t.n = worker[w].n
    BY <1>0, <2>3 DEF Carried
  <2>5. ReportOK(t, order, journey)
    BY <1>0, <2>2, <2>3, <2>4
       DEF ReportOK, Reports, Parcel!ConstantsAssumption, Parcel!Shipments
  <2> QED BY <2>4, <2>5
<1>8. CASE Parcel!ReadShipment(w)
  <2>1. PICK where \in {"idle", "commit"} :
          \/ t = [worker[w] EXCEPT !.at = where, !.cur = "NONE"]
          \/ t = [worker[w] EXCEPT !.at = where, !.cur = status[worker[w].s],
                                   !.latest = Parcel!Newest(worker[w].s)]
    BY <1>0, <1>3, <1>8 DEF Parcel!ReadShipment, Parcel!Set
  <2>2. worker[w].at = "apply"
    BY <1>8 DEF Parcel!ReadShipment, Parcel!At
  <2>3. /\ Carried(t) /\ t.at = where /\ t.to = worker[w].to
        /\ t.s = worker[w].s /\ t.n = worker[w].n
    BY <1>0, <2>1 DEF Carried
  <2>4. ReportOK(t, order, journey)
    BY <1>0, <2>2, <2>3 DEF ReportOK, Reports
  <2> QED BY <2>3, <2>4
<1>9. CASE Parcel!RefuseDispatch(w) \/ Parcel!GiveUp(w)
  BY <1>0, <1>2, <1>3, <1>4, <1>9 DEF Parcel!RefuseDispatch, Parcel!GiveUp, Parcel!Set
<1> QED BY <1>5, <1>6, <1>7, <1>8, <1>9

\* The commit of a scan: the parcel moves to a status the courier reported,
\* and the order is PAID afterwards only if the parcel is still at the shop.
LEMMA CommitOK ==
  ASSUME Parcel!ConstantsAssumption, ParcelInv, NEW w \in Workers, Parcel!Commit(w)
  PROVE  ParcelInv'
<1> DEFINE t == worker[w]  st == journey[t.s][t.n]
<1>1. /\ t.at = "commit" /\ ReportOK(t, order, journey) /\ Carried(t) /\ t.s \in Courier
      /\ t.n \in DOMAIN journey[t.s] /\ t.s \in Parcel!Shipments /\ UNCHANGED journey
      /\ t.to \in {"none", "SHIPPED", "DELIVERED"}
      /\ worker = [v \in Workers |-> worker[v]]
  BY DEF ParcelInv, Parcel!Commit, Parcel!At, ReportOK, Reports, Parcel!Shipments
<1>2. journey[t.s] \in Seq(Parcel!Statuses \cap Reported) /\ st \in Parcel!Statuses \cap Reported
  BY <1>1 DEF ParcelInv
<1>3. CASE t.cur # "NONE" /\ t.n \in scans[t.s]
  <2>1. worker' = [worker EXCEPT ![w] = Parcel!Idle] /\ UNCHANGED <<order, status>>
    BY <1>3 DEF Parcel!Commit, Parcel!Set
  <2>2. ReportOK(Parcel!Idle, order, journey) /\ Carried(Parcel!Idle)
    BY DEF ReportOK, Parcel!Idle, Reports, Carried
  <2> QED BY <1>1, <2>1, <2>2, JobGoesOn
<1>4. CASE ~(t.cur # "NONE" /\ t.n \in scans[t.s])
  <2>1. /\ status' = status \/ status' = [status EXCEPT ![t.s] = st]
        /\ order' = IF t.to = "none" THEN order ELSE t.to
        /\ worker' = [worker EXCEPT ![w] = IF t.to = "SHIPPED" /\ st = "DELIVERED"
                        THEN [t EXCEPT !.at = "count"] ELSE Parcel!Idle]
    BY <1>4 DEF Parcel!Commit, Parcel!Set, Parcel!ScanStatus, Parcel!AfterShipped
  <2>2. order # "PAID" => order' # "PAID"
    BY <1>1, <2>1
  <2>3. PICK u : /\ u = IF t.to = "SHIPPED" /\ st = "DELIVERED"
                        THEN [t EXCEPT !.at = "count"] ELSE Parcel!Idle
                 /\ worker' = [worker EXCEPT ![w] = u]
    BY <2>1
  <2>4. Carried(u) /\ ReportOK(u, order', journey)
    BY <1>1, <2>1, <2>3 DEF ReportOK, Parcel!Idle, Reports, Carried
  <2>5. /\ worker' = [v \in Workers |-> worker'[v]]
        /\ \A v \in Workers : Carried(worker'[v]) /\ ReportOK(worker'[v], order', journey')
    BY <1>1, <2>2, <2>3, <2>4, OthersReports
  <2>6. status' \in [Parcel!Shipments -> Parcel!Statuses \cup {"NONE"}]
    BY <1>1, <1>2, <2>1 DEF ParcelInv
  <2>7. st \in HandedOver => order' # "PAID"
    BY <1>1, <2>1 DEF ReportOK
  <2>8. ASSUME NEW s \in Parcel!Shipments
        PROVE  /\ status'[s] \in HandedOver => order' # "PAID"
               /\ status'[s] = "RTO_IN_TRANSIT" => "RTO_IN_TRANSIT" \in Reported
    <3>1. status'[s] = status[s] \/ status'[s] = st
      BY <2>1 DEF ParcelInv
    <3> QED BY <1>2, <2>2, <2>7, <3>1 DEF ParcelInv
  <2> QED BY <1>1, <2>5, <2>6, <2>8 DEF ParcelInv
<1> QED BY <1>3, <1>4

\* Bookings, dispatches, deliveries by hand, cancellations.
LEMMA AdminOK ==
  ASSUME Parcel!ConstantsAssumption, ParcelInv, NEW w \in Workers,
         \/ \E s \in Parcel!Shipments : \/ Parcel!StartBook(w, s) \/ Parcel!StartCancel(w, s)
                                        \/ Parcel!Dispatch(w, s)
         \/ Parcel!FinishBook(w) \/ Parcel!FinishCancel(w) \/ Parcel!DeliverByHand(w)
         \/ Parcel!StartAdmin(w, "dispatch", "SHIPPED")
         \/ Parcel!StartAdmin(w, "deliver", "DELIVERED")
  PROVE  ParcelInv'
<1>0. /\ ReportOK(Parcel!Idle, order', journey) /\ Carried(Parcel!Idle)
      /\ worker = [v \in Workers |-> worker[v]] /\ ReportOK(worker[w], order, journey)
  BY DEF ParcelInv, ReportOK, Parcel!Idle, Reports, Carried
<1>1. CASE \E s \in Parcel!Shipments : Parcel!StartBook(w, s) \/ Parcel!StartCancel(w, s)
  <2>1. PICK s \in Parcel!Shipments, where \in {"book", "cancel"} :
          /\ worker' = [worker EXCEPT ![w] = [Parcel!Idle EXCEPT !.at = where, !.s = s]]
          /\ where = "cancel" => "cancel" \in Operations
          /\ UNCHANGED <<order, status, journey>>
    BY <1>1 DEF Parcel!StartBook, Parcel!StartCancel, Parcel!CanStart, Parcel!Set
  <2>2. PICK t : t = [Parcel!Idle EXCEPT !.at = where, !.s = s]
    OBVIOUS
  <2>3. Carried(t) /\ t.at = where /\ t.s = s
    BY <2>2, BeginsWith
  <2>4. ReportOK(t, order, journey)
    BY <2>1, <2>3 DEF ReportOK, Reports
  <2> QED BY <2>1, <2>2, <2>3, <2>4, JobGoesOn
<1>2. CASE \/ Parcel!StartAdmin(w, "dispatch", "SHIPPED")
           \/ Parcel!StartAdmin(w, "deliver", "DELIVERED")
  <2>1. PICK to \in {"SHIPPED", "DELIVERED"} :
          /\ worker' = [worker EXCEPT ![w] = [Parcel!Idle EXCEPT !.at = "transition", !.to = to]]
          /\ to = "DELIVERED" => "deliver" \in Operations
          /\ UNCHANGED <<order, status, journey>>
    BY <1>2 DEF Parcel!StartAdmin, Parcel!CanStart, Parcel!Set
  <2>2. PICK t : t = [Parcel!Idle EXCEPT !.at = "transition", !.to = to]
    OBVIOUS
  <2>3. Carried(t) /\ t.at = "transition" /\ t.s = Parcel!NoOne /\ t.to = to
    BY <2>2 DEF Carried, Parcel!Idle
  <2>4. ReportOK(t, order, journey)
    BY <2>1, <2>3 DEF ReportOK, Reports
  <2> QED BY <2>1, <2>2, <2>3, <2>4, JobGoesOn
<1>3. CASE \/ \E s \in Parcel!Shipments : Parcel!Dispatch(w, s)
           \/ Parcel!FinishBook(w) \/ Parcel!FinishCancel(w) \/ Parcel!DeliverByHand(w)
  <2>1. /\ worker' = [worker EXCEPT ![w] = Parcel!Idle] /\ UNCHANGED journey
        /\ order # "PAID" => order' # "PAID"
    BY <1>3 DEF Parcel!Dispatch, Parcel!FinishBook, Parcel!FinishCancel, Parcel!DeliverByHand,
                Parcel!Set
  <2>2. /\ worker' = [v \in Workers |-> worker'[v]]
        /\ \A v \in Workers : Carried(worker'[v]) /\ ReportOK(worker'[v], order', journey')
    BY <1>0, <2>1, OthersReports
  <2>3. /\ status' \in [Parcel!Shipments -> Parcel!Statuses \cup {"NONE"}]
        /\ \A s \in Parcel!Shipments :
             \/ status'[s] = status[s]
             \/ status'[s] \in HandedOver /\ order' # "PAID"
             \/ status'[s] \in {"LABEL_CREATED", "CANCELLED"}
    <3>1. CASE \E s \in Parcel!Shipments : Parcel!Dispatch(w, s)
      BY <3>1 DEF Parcel!Dispatch, ParcelInv, Parcel!Statuses, HandedOver
    <3>2. CASE Parcel!FinishBook(w) \/ Parcel!FinishCancel(w)
      BY <1>0, <3>2 DEF Parcel!FinishBook, Parcel!FinishCancel, ParcelInv, Parcel!Statuses,
                        Parcel!Booked, Parcel!At, ReportOK
    <3>3. CASE Parcel!DeliverByHand(w)
      BY <3>3 DEF Parcel!DeliverByHand, ParcelInv, Parcel!Statuses, HandedOver
    <3> QED BY <1>3, <3>1, <3>2, <3>3
  <2> QED BY <2>1, <2>2, <2>3 DEF ParcelInv, HandedOver
<1> QED BY <1>1, <1>2, <1>3

LEMMA TravelOK ==
  ASSUME Parcel!ConstantsAssumption, ParcelInv, NEW s \in Parcel!Shipments, NEW st \in Parcel!Statuses, Parcel!Travel(s, st)
  PROVE  ParcelInv'
<1> DEFINE Trips == Seq(Parcel!Statuses \cap Reported)
<1>1. /\ journey' = [journey EXCEPT ![s] = Append(journey[s], st)] /\ st \in Reported
      /\ UNCHANGED <<order, status, worker>>
  BY DEF Parcel!Travel
<1>2. journey \in [Parcel!Shipments -> Trips]
  BY DEF ParcelInv
<1>3. journey[s] \in Trips /\ Append(journey[s], st) \in Trips
  BY <1>1, <1>2
<1>4. journey' \in [Parcel!Shipments -> Trips]
  BY <1>1, <1>2, <1>3, Zenon
<1>5. ASSUME NEW x \in Parcel!Shipments, NEW n \in DOMAIN journey[x]
      PROVE  n \in DOMAIN journey'[x] /\ journey'[x][n] = journey[x][n]
  <2>1. CASE x = s
    BY <1>1, <1>2, <1>3, <2>1
  <2>2. CASE x # s
    BY <1>1, <1>2, <2>2
  <2> QED BY <2>1, <2>2
<1>6. ASSUME NEW w \in Workers PROVE ReportOK(worker[w], order, journey')
  <2>1. ReportOK(worker[w], order, journey)
    BY DEF ParcelInv
  <2> QED BY <1>5, <2>1 DEF ReportOK, Parcel!Shipments, Reports
<1> QED BY <1>1, <1>4, <1>6 DEF ParcelInv

LEMMA ParcelStep ==
  ASSUME Parcel!ConstantsAssumption, ParcelInv, [Parcel!Next]_Parcel!vars
  PROVE  ParcelInv'
<1>1. ASSUME NEW w \in Workers, Parcel!Start(w) \/ Parcel!Continue(w) \/ Parcel!GiveUp(w)
      PROVE  ParcelInv'
  <2>1. ASSUME NEW s \in Parcel!Shipments, NEW n \in 1..MaxScans, Parcel!Find(w, s, n)
        PROVE  ParcelInv'
    BY <2>1, FindOK
  <2> QED BY <1>1, <2>1, ReadsOK, CommitOK, AdminOK DEF Parcel!Start, Parcel!Continue
<1>2. CASE Parcel!StartRefund \/ Parcel!EndRefund
  <2>1. /\ UNCHANGED <<status, journey, worker>>
        /\ order # "PAID" => order' # "PAID"
    BY <1>2 DEF Parcel!StartRefund, Parcel!EndRefund
  <2>2. ASSUME NEW w \in Workers PROVE Carried(worker[w]) /\ ReportOK(worker[w], order', journey)
    <3>1. Carried(worker[w]) /\ ReportOK(worker[w], order, journey)
      BY DEF ParcelInv
    <3> QED BY <2>1, <3>1 DEF ReportOK
  <2> QED BY <2>1, <2>2 DEF ParcelInv
<1>3. CASE UNCHANGED Parcel!vars
  BY <1>3 DEF Parcel!vars, ParcelInv
<1> QED BY <1>1, <1>2, <1>3, TravelOK DEF Parcel!Next

\* Nobody cancels a shipment, and nobody delivers by hand one that may be on
\* its way back.
NoShortcut ==
  "cancel" \notin Operations /\ ("RTO_IN_TRANSIT" \notin Reported \/ "deliver" \notin Operations)

LEMMA AdvanceStep ==
  ASSUME Parcel!ConstantsAssumption, NoShortcut, ParcelInv, [Parcel!Next]_Parcel!vars
  PROVE  [Parcel!OnlyAdvances]_Parcel!vars
<1> SUFFICES ASSUME NEW s \in Parcel!Shipments, Parcel!Next, status[s] # "NONE"
             PROVE  Parcel!CanTransition(status[s], status'[s])
  BY DEF Parcel!OnlyAdvances, Parcel!Exists
<1>0. status \in [Parcel!Shipments -> Parcel!Statuses \cup {"NONE"}]
  BY DEF ParcelInv
<1>1. CASE UNCHANGED status
  BY <1>1 DEF Parcel!CanTransition
<1>2. ASSUME NEW w \in Workers, Parcel!Commit(w)
      PROVE  Parcel!CanTransition(status[s], status'[s])
  <2>1. \/ UNCHANGED status
        \/ /\ Parcel!Applied(worker[w])
           /\ status' = [status EXCEPT ![worker[w].s] =
                            Parcel!ScanStatus(worker[w].s, worker[w].n)]
    BY <1>2 DEF Parcel!Commit
  <2>2. CASE s = worker[w].s /\ Parcel!Applied(worker[w])
             /\ status' = [status EXCEPT ![s] = Parcel!ScanStatus(s, worker[w].n)]
    BY <1>0, <2>2 DEF Parcel!Applied, Parcel!StillAt
  <2>3. CASE s # worker[w].s
    BY <1>0, <2>1, <2>3 DEF Parcel!CanTransition
  <2> QED BY <1>1, <2>1, <2>2, <2>3
<1>3. ASSUME NEW w \in Workers, Parcel!FinishBook(w) \/ \E x \in Parcel!Shipments : Parcel!Dispatch(w, x)
      PROVE  status'[s] = status[s]
  BY <1>0, <1>3 DEF Parcel!FinishBook, Parcel!Dispatch, Parcel!Exists
<1>4. ASSUME NEW w \in Workers, Parcel!DeliverByHand(w)
      PROVE  Parcel!CanTransition(status[s], status'[s])
  <2>1. status[s] \in Parcel!Statuses /\ status[s] # "RTO_IN_TRANSIT"
    <3>1. ReportOK(worker[w], order, journey)
      BY DEF ParcelInv
    <3>2. "deliver" \in Operations
      BY <1>4, <3>1 DEF Parcel!DeliverByHand, Parcel!At, ReportOK
    <3> QED BY <1>0, <3>2 DEF NoShortcut, ParcelInv
  <2>2. \/ status'[s] = status[s]
        \/ status'[s] = "DELIVERED" /\ Parcel!Open(status[s]) /\ status[s] # "RETURNED"
    BY <1>4 DEF Parcel!DeliverByHand
  <2> QED BY <2>1, <2>2
          DEF Parcel!CanTransition, Parcel!Transitions, Parcel!Open, Parcel!Statuses
<1>5. ASSUME NEW w \in Workers PROVE ~Parcel!FinishCancel(w)
  BY DEF ParcelInv, ReportOK, NoShortcut, Parcel!FinishCancel, Parcel!At
<1>6. ASSUME NEW w \in Workers, Parcel!Start(w) \/ Parcel!Continue(w) \/ Parcel!GiveUp(w)
      PROVE  Parcel!CanTransition(status[s], status'[s])
  <2>1. CASE \/ Parcel!Start(w) \/ Parcel!GiveUp(w) \/ Parcel!ReadOrder(w) \/ Parcel!LockOrder(w)
             \/ Parcel!CountOpen(w) \/ Parcel!ReadShipment(w) \/ Parcel!RefuseDispatch(w)
    BY <1>1, <2>1
       DEF Parcel!Start, Parcel!GiveUp, Parcel!ReadOrder, Parcel!LockOrder, Parcel!CountOpen,
           Parcel!ReadShipment, Parcel!RefuseDispatch, Parcel!StartBook, Parcel!StartCancel,
           Parcel!Find, Parcel!StartAdmin
  <2> QED BY <1>2, <1>3, <1>4, <1>5, <1>6, <2>1 DEF Parcel!Continue, Parcel!CanTransition
<1> QED BY <1>1, <1>6 DEF Parcel!Next, Parcel!Travel, Parcel!StartRefund, Parcel!EndRefund

\* A parcel the courier has picked up belongs to an order that was shipped, in
\* whatever order scans of any number of parcels come, and whoever dispatches,
\* cancels or refunds meanwhile: a report that may move the order does so in its
\* own transaction (courierTracking.ts applyCourierEvent).
THEOREM HandoffTheorem ==
  Parcel!ConstantsAssumption => (Parcel!Spec => []Parcel!HandoffMeansShipped)
<1> SUFFICES ASSUME Parcel!ConstantsAssumption
             PROVE  Parcel!Spec => []Parcel!HandoffMeansShipped
  OBVIOUS
<1>1. Parcel!Init => ParcelInv
  BY ParcelInit
<1>2. ParcelInv /\ [Parcel!Next]_Parcel!vars => ParcelInv'
  BY ParcelStep
<1>3. ParcelInv => Parcel!HandoffMeansShipped
  BY DEF ParcelInv, Parcel!HandoffMeansShipped, HandedOver
<1> QED BY <1>1, <1>2, <1>3, PTL DEF Parcel!Spec

\* Where nobody cancels a shipment, and nobody delivers one by hand that may be
\* on its way back, parcels move along the transition table alone, however many
\* workers apply their reports: each commit re-checks the status it read
\* (courierTracking.ts applyEventInTransaction, fulfillment.policy.ts).
THEOREM AdvanceTheorem ==
  Parcel!ConstantsAssumption /\ NoShortcut =>
    (Parcel!Spec => [][Parcel!OnlyAdvances]_Parcel!vars)
<1> SUFFICES ASSUME Parcel!ConstantsAssumption, NoShortcut
             PROVE  Parcel!Spec => [][Parcel!OnlyAdvances]_Parcel!vars
  OBVIOUS
<1>1. Parcel!Init => ParcelInv
  BY ParcelInit
<1>2. ParcelInv /\ [Parcel!Next]_Parcel!vars => ParcelInv'
  BY ParcelStep
<1>3. ParcelInv /\ [Parcel!Next]_Parcel!vars => [Parcel!OnlyAdvances]_Parcel!vars
  BY AdvanceStep
<1> QED BY <1>1, <1>2, <1>3, PTL DEF Parcel!Spec

-----------------------------------------------------------------------------
(* Subscriptions: what the schedule has moved past, and what a request knows. *)

SubStates == {"NONE", "ACTIVE", "PAUSED", "CANCELLED"}
RenewalJobs ==
  [at : {"idle", "enroll", "control", "scan"}, sub : Subs \cup {None},
   action : Renewals!Actions \cup {None}, date : [chain : Nat, k : Nat], due : BOOLEAN,
   todo : SUBSET [sub : Subs, date : Renewals!Dates, offer : Offers]]

\* Every date of its chain before d has its renewal.
AllMade(made, d) ==
  \A x \in Renewals!Dates : x.chain = d.chain /\ x.k < d.k => made[x] # "NONE"

Before(x, d) == x.chain < d.chain \/ (x.chain = d.chain /\ x.k < d.k)

\* A subscription in state st whose next date is d, in one of its n chains, with
\* the renewals made and the emails written.
SubOK(st, d, n, made, mails) ==
  /\ st = "NONE" => d = Renewals!Nowhere
  /\ st # "NONE" => d \in Renewals!Dates /\ d.chain <= n
  /\ AllMade(made, d)
  /\ ~SlowControls => \A x \in Renewals!Dates :
       /\ made[x] # "NONE" \/ mails[x] # None => Before(x, d)
       /\ made[x] = "SKIPPED" => mails[x] = None

\* A request read a date the schedule had come to; if others do not run before
\* it writes, what it read still is so.
ControlOK(t, st, d, n, made) ==
  t.at = "control" =>
    /\ t.sub \in Subs /\ t.action \in Renewals!Actions
    /\ st[t.sub] # "NONE" /\ t.date \in Renewals!Dates /\ t.date.chain <= n[t.sub]
    /\ AllMade(made[t.sub], t.date)
    /\ ~SlowControls => t.date = d[t.sub] /\ Renewals!Allowed(t.action, st[t.sub])

LiveIn(st) == st \in {"ACTIVE", "PAUSED"}
NoOverlap == ~SlowControls /\ ~SlowEnroll
EnrollOK(t, st) == NoOverlap /\ t.at = "enroll" => \A s \in Subs : ~LiveIn(st[s])

RenewalTyped ==
  /\ offer \in Offers
  /\ status \in [Subs -> SubStates] /\ chains \in [Subs -> Nat]
  /\ nextDate \in [Subs -> [chain : Nat, k : Nat]]
  /\ renewal \in [Subs -> [Renewals!Dates -> {"NONE", "READY", "STOCK_BLOCKED", "SKIPPED"}]]
  /\ email \in [Subs -> [Renewals!Dates -> Offers \cup {None}]]
  /\ worker \in [Workers -> RenewalJobs]

RenewalInv ==
  /\ RenewalTyped
  /\ \A s \in Subs : SubOK(status[s], nextDate[s], chains[s], renewal[s], email[s])
  /\ \A w \in Workers : /\ ControlOK(worker[w], status, nextDate, chains, renewal)
                        /\ EnrollOK(worker[w], status)
  /\ ~SlowControls =>
       \A v, w \in Workers : worker[v].at = "control" /\ worker[w].at = "control" => v = w
  /\ NoOverlap =>
       /\ \A v, w \in Workers :
            worker[v].at = "enroll" /\ worker[w].at \in {"enroll", "control"} => v = w
       /\ \A s, r \in Subs : LiveIn(status[s]) /\ LiveIn(status[r]) => s = r

LEMMA RenewalInit == Renewals!ConstantsAssumption /\ Renewals!Init => RenewalInv
BY DEF Renewals!ConstantsAssumption, Renewals!Init, RenewalInv, RenewalTyped, Renewals!Idle,
       Renewals!Nowhere, RenewalJobs, SubStates, SubOK, AllMade, Renewals!Dates, ControlOK,
       EnrollOK, LiveIn

\* A worker's step that leaves the subscriptions alone.
LEMMA JobStep ==
  ASSUME Renewals!ConstantsAssumption, RenewalInv, NEW w \in Workers, Renewals!MayRun(w),
         worker' = [worker EXCEPT ![w] = worker'[w]], worker'[w] \in RenewalJobs,
         ControlOK(worker'[w], status, nextDate, chains, renewal), EnrollOK(worker'[w], status),
         UNCHANGED <<offer, status, nextDate, chains, renewal, email>>
  PROVE  RenewalInv'
<1>1. RenewalTyped'
  BY DEF RenewalInv, RenewalTyped
<1>2. ASSUME NEW v \in Workers
      PROVE  /\ ControlOK(worker'[v], status, nextDate, chains, renewal)
             /\ EnrollOK(worker'[v], status)
  BY DEF RenewalInv, RenewalTyped
<1>3. ASSUME NEW v \in Workers, v # w PROVE worker'[v] = worker[v]
  BY <1>3 DEF RenewalInv, RenewalTyped
<1>4. ASSUME ~SlowControls, NEW u \in Workers, NEW v \in Workers,
             worker'[u].at = "control", worker'[v].at = "control"
      PROVE  u = v
  BY <1>3, <1>4 DEF RenewalInv, Renewals!MayRun, Renewals!At
<1>5. ASSUME NoOverlap, NEW u \in Workers, NEW v \in Workers,
             worker'[u].at = "enroll", worker'[v].at \in {"enroll", "control"}
      PROVE  u = v
  BY <1>3, <1>5 DEF RenewalInv, Renewals!MayRun, Renewals!At, NoOverlap
<1> QED BY <1>1, <1>2, <1>4, <1>5 DEF RenewalInv

\* A worker that is done with its request, or goes on with its scan, after it
\* moved the subscription s.
LEMMA SubMoves ==
  ASSUME Renewals!ConstantsAssumption, RenewalInv, NEW w \in Workers, Renewals!MayRun(w),
         worker' = [worker EXCEPT ![w] = worker'[w]], worker'[w] \in RenewalJobs,
         worker'[w].at \in {"idle", "scan"}, UNCHANGED offer, RenewalTyped',
         NEW s \in Subs,
         \A r \in Subs \ {s} : /\ status'[r] = status[r] /\ nextDate'[r] = nextDate[r]
                               /\ chains'[r] = chains[r] /\ renewal'[r] = renewal[r]
                               /\ email'[r] = email[r],
         SubOK(status'[s], nextDate'[s], chains'[s], renewal'[s], email'[s]),
         status'[s] # "NONE", chains[s] <= chains'[s],
         \A d \in Renewals!Dates : renewal[s][d] # "NONE" => renewal'[s][d] # "NONE",
         NoOverlap /\ LiveIn(status'[s]) =>
           LiveIn(status[s]) \/ \A r \in Subs : ~LiveIn(status[r])
  PROVE  RenewalInv'
<1>0. /\ \A v \in Workers \ {w} : worker'[v] = worker[v]
      /\ \A r \in Subs : chains[r] \in Nat /\ chains'[r] \in Nat
  BY DEF RenewalInv, RenewalTyped
<1>1. \A r \in Subs : SubOK(status'[r], nextDate'[r], chains'[r], renewal'[r], email'[r])
  BY DEF RenewalInv
<1>2. ASSUME NEW v \in Workers
      PROVE  ControlOK(worker'[v], status', nextDate', chains', renewal')
  <2>1. CASE v = w
    BY <2>1 DEF ControlOK
  <2>2. CASE v # w /\ worker[v].at = "control"
    <3>1. ControlOK(worker[v], status, nextDate, chains, renewal) /\ worker'[v] = worker[v]
      BY <1>0, <2>2 DEF RenewalInv
    <3>2. SlowControls
      BY <2>2 DEF Renewals!MayRun, Renewals!At
    <3>3. worker[v].date.chain <= chains'[worker[v].sub]
      BY <1>0, <2>2, <3>1 DEF ControlOK, Renewals!Dates, Renewals!ConstantsAssumption
    <3>4. AllMade(renewal'[worker[v].sub], worker[v].date)
      BY <2>2, <3>1 DEF ControlOK, AllMade
    <3> QED BY <2>2, <3>1, <3>2, <3>3, <3>4 DEF ControlOK
  <2>3. CASE v # w /\ worker[v].at # "control"
    BY <1>0, <2>3 DEF ControlOK
  <2> QED BY <2>1, <2>2, <2>3
<1>3. ASSUME NEW v \in Workers PROVE EnrollOK(worker'[v], status')
  BY <1>0 DEF EnrollOK, NoOverlap, Renewals!MayRun, Renewals!At
<1>4. ASSUME ~SlowControls, NEW u \in Workers, NEW v \in Workers,
             worker'[u].at = "control", worker'[v].at = "control"
      PROVE  u = v
  BY <1>0, <1>4 DEF RenewalInv
<1>5. ASSUME NoOverlap, NEW u \in Workers, NEW v \in Workers,
             worker'[u].at = "enroll", worker'[v].at \in {"enroll", "control"}
      PROVE  u = v
  BY <1>0, <1>5 DEF RenewalInv
<1>6. ASSUME NoOverlap, NEW r \in Subs, NEW x \in Subs,
             LiveIn(status'[r]), LiveIn(status'[x])
      PROVE  r = x
  BY <1>6 DEF RenewalInv
<1> QED BY <1>1, <1>2, <1>3, <1>4, <1>5, <1>6 DEF RenewalInv

LEMMA EnrollStep ==
  ASSUME Renewals!ConstantsAssumption, RenewalInv, NEW w \in Workers, Renewals!MayRun(w),
         Renewals!StartEnroll(w) \/ Renewals!FinishEnroll(w)
  PROVE  RenewalInv'
<1>1. RenewalTyped /\ Renewals!Idle \in RenewalJobs
  BY DEF RenewalInv, RenewalJobs, Renewals!Idle, Renewals!Nowhere
<1>2. CASE Renewals!StartEnroll(w)
  <2>1. /\ worker' = [worker EXCEPT ![w] = [Renewals!Idle EXCEPT !.at = "enroll"]]
        /\ UNCHANGED <<offer, status, nextDate, chains, renewal, email>>
        /\ \A s \in Subs : ~LiveIn(status[s])
    BY <1>2 DEF Renewals!StartEnroll, Renewals!Set, Renewals!subscription, Renewals!renewals,
                Renewals!outside, Renewals!Existing, Renewals!Live, LiveIn
  <2>2. worker'[w] \in RenewalJobs /\ worker'[w].at = "enroll"
    BY <1>1, <2>1 DEF RenewalTyped, RenewalJobs
  <2> QED BY <1>1, <2>1, <2>2, JobStep DEF RenewalTyped, ControlOK, EnrollOK
<1>3. CASE Renewals!FinishEnroll(w)
  <2>1. /\ worker' = [worker EXCEPT ![w] = Renewals!Idle] /\ worker[w].at = "enroll"
        /\ UNCHANGED <<offer, renewal, email>> /\ worker'[w] = Renewals!Idle
    BY <1>1, <1>3 DEF Renewals!FinishEnroll, Renewals!Set, Renewals!At, Renewals!renewals,
                      Renewals!outside, RenewalTyped
  <2>2. CASE UNCHANGED <<status, chains, nextDate>>
    <3>1. /\ ControlOK(worker'[w], status, nextDate, chains, renewal)
          /\ EnrollOK(worker'[w], status)
      BY <2>1 DEF ControlOK, EnrollOK, Renewals!Idle
    <3>2. worker' = [worker EXCEPT ![w] = worker'[w]] /\ worker'[w] \in RenewalJobs
      BY <1>1, <2>1
    <3>3. UNCHANGED <<offer, status, nextDate, chains, renewal, email>>
      BY <2>1, <2>2
    <3> QED BY <3>1, <3>2, <3>3, JobStep
  <2>3. ASSUME NEW s \in Subs, status[s] = "NONE", status' = [status EXCEPT ![s] = "ACTIVE"],
               Renewals!BeginChain(s)
        PROVE  RenewalInv'
    <3>1. /\ chains[s] < MaxChains /\ chains' = [chains EXCEPT ![s] = @ + 1]
          /\ nextDate' = [nextDate EXCEPT ![s] = [chain |-> chains[s] + 1, k |-> 1]]
      BY <2>3 DEF Renewals!BeginChain, Renewals!FirstDate
    <3>2. /\ chains[s] \in Nat /\ nextDate'[s] = [chain |-> chains[s] + 1, k |-> 1]
          /\ chains'[s] = chains[s] + 1 /\ status'[s] = "ACTIVE"
      BY <1>1, <2>3, <3>1 DEF RenewalTyped
    <3>3. nextDate'[s] \in Renewals!Dates /\ nextDate'[s] \in [chain : Nat, k : Nat]
      BY <3>1, <3>2 DEF Renewals!Dates, Renewals!ConstantsAssumption
    <3>4. SubOK("NONE", nextDate[s], chains[s], renewal[s], email[s])
      BY <2>3 DEF RenewalInv
    <3>5. SubOK("ACTIVE", nextDate'[s], chains'[s], renewal'[s], email'[s])
      BY <2>1, <3>2, <3>3, <3>4
         DEF SubOK, AllMade, Before, Renewals!Nowhere, Renewals!Dates, Renewals!ConstantsAssumption
    <3>6. RenewalTyped'
      BY <1>1, <2>1, <2>3, <3>1, <3>2, <3>3 DEF RenewalTyped, SubStates
    <3>7. NoOverlap => \A r \in Subs : ~LiveIn(status[r])
      BY <2>1 DEF RenewalInv, EnrollOK
    <3>8. \A x \in Subs \ {s} :
            /\ status'[x] = status[x] /\ nextDate'[x] = nextDate[x] /\ chains'[x] = chains[x]
            /\ renewal'[x] = renewal[x] /\ email'[x] = email[x]
      BY <1>1, <2>1, <2>3, <3>1 DEF RenewalTyped
    <3>9. worker'[w].at = "idle" /\ worker'[w] \in RenewalJobs
      BY <1>1, <2>1 DEF Renewals!Idle
    <3>10. worker' = [worker EXCEPT ![w] = worker'[w]]
      BY <2>1
    <3>11. /\ \A d \in Renewals!Dates : renewal[s][d] # "NONE" => renewal'[s][d] # "NONE"
           /\ UNCHANGED offer /\ status'[s] # "NONE" /\ chains[s] <= chains'[s]
      BY <2>1, <3>2
    <3>12. SubOK(status'[s], nextDate'[s], chains'[s], renewal'[s], email'[s])
      BY <3>2, <3>5
    <3> QED BY <3>6, <3>7, <3>8, <3>9, <3>10, <3>11, <3>12, SubMoves
  <2> QED BY <1>3, <2>2, <2>3 DEF Renewals!FinishEnroll
<1> QED BY <1>2, <1>3

LEMMA StartControlStep ==
  ASSUME Renewals!ConstantsAssumption, RenewalInv, NEW w \in Workers, Renewals!MayRun(w),
         NEW s \in Subs, NEW action \in Renewals!Actions, Renewals!StartControl(w, s, action)
  PROVE  RenewalInv'
<1>1. RenewalTyped
  BY DEF RenewalInv
<1>2. /\ worker' = [worker EXCEPT ![w] =
           [Renewals!Idle EXCEPT !.at = "control", !.sub = s, !.action = action,
                                 !.date = nextDate[s], !.due = Renewals!IsPast(s, nextDate[s])]]
      /\ UNCHANGED <<offer, status, nextDate, chains, renewal, email>>
      /\ Renewals!Allowed(action, status[s])
  BY DEF Renewals!StartControl, Renewals!Set, Renewals!subscription, Renewals!renewals,
         Renewals!outside
<1>3. status[s] # "NONE"
  BY <1>2 DEF Renewals!Allowed, Renewals!Actions
<1>4. SubOK(status[s], nextDate[s], chains[s], renewal[s], email[s])
  BY DEF RenewalInv
<1>5. PICK t : /\ worker' = [worker EXCEPT ![w] = t]
               /\ t = [Renewals!Idle EXCEPT !.at = "control", !.sub = s, !.action = action,
                         !.date = nextDate[s], !.due = Renewals!IsPast(s, nextDate[s])]
  BY <1>2
<1>8. Renewals!Idle \in RenewalJobs
  BY DEF RenewalJobs, Renewals!Idle, Renewals!Nowhere
<1>9. nextDate[s] \in [chain : Nat, k : Nat] /\ Renewals!IsPast(s, nextDate[s]) \in BOOLEAN
  BY <1>1 DEF RenewalTyped, Renewals!IsPast
<1>10. /\ t.at = "control" /\ t.sub = s /\ t.action = action /\ t.date = nextDate[s]
       /\ t \in RenewalJobs
  BY <1>5, <1>8, <1>9 DEF RenewalJobs, Renewals!Idle
<1>6. /\ worker'[w] = t /\ t \in RenewalJobs
      /\ t.at = "control" /\ t.sub = s /\ t.action = action /\ t.date = nextDate[s]
  BY <1>1, <1>5, <1>10 DEF RenewalTyped
<1>7. ControlOK(t, status, nextDate, chains, renewal) /\ EnrollOK(t, status)
  BY <1>2, <1>3, <1>4, <1>6 DEF ControlOK, EnrollOK, SubOK
<1> QED BY <1>2, <1>5, <1>6, <1>7, JobStep

\* A chain of dates begins after all there were.
LEMMA ChainBegins ==
  ASSUME Renewals!ConstantsAssumption, RenewalTyped, NEW s \in Subs, Renewals!BeginChain(s),
         SubOK(status[s], nextDate[s], chains[s], renewal[s], email[s])
  PROVE  /\ chains' \in [Subs -> Nat] /\ nextDate' \in [Subs -> [chain : Nat, k : Nat]]
         /\ chains[s] <= chains'[s]
         /\ \A r \in Subs \ {s} : nextDate'[r] = nextDate[r] /\ chains'[r] = chains[r]
         /\ SubOK("ACTIVE", nextDate'[s], chains'[s], renewal[s], email[s])
<1>1. /\ chains[s] < MaxChains /\ chains' = [chains EXCEPT ![s] = @ + 1]
      /\ nextDate' = [nextDate EXCEPT ![s] = [chain |-> chains[s] + 1, k |-> 1]]
  BY DEF Renewals!BeginChain, Renewals!FirstDate
<1>2. /\ chains[s] \in Nat /\ nextDate'[s] = [chain |-> chains[s] + 1, k |-> 1]
      /\ chains'[s] = chains[s] + 1
  BY <1>1 DEF RenewalTyped
<1>3. nextDate'[s] \in Renewals!Dates /\ nextDate'[s] \in [chain : Nat, k : Nat]
  BY <1>1, <1>2 DEF Renewals!Dates, Renewals!ConstantsAssumption
<1>4. SubOK("ACTIVE", nextDate'[s], chains'[s], renewal[s], email[s])
  BY <1>2, <1>3
     DEF SubOK, AllMade, Before, Renewals!Nowhere, Renewals!Dates, Renewals!ConstantsAssumption
<1> QED BY <1>1, <1>2, <1>3, <1>4 DEF RenewalTyped

\* The date after another, and the renewal of a date the schedule then moves past.
NextDate(d, e) == /\ d \in Renewals!Dates /\ e \in Renewals!Dates /\ e \in [chain : Nat, k : Nat]
                  /\ e.chain = d.chain /\ e.k = d.k + 1

LEMMA FollowingDate ==
  ASSUME Renewals!ConstantsAssumption, NEW d \in Renewals!Dates, d.k <= MaxPeriods
  PROVE  NextDate(d, Renewals!Following(d))
BY DEF NextDate, Renewals!Following, Renewals!Dates, Renewals!ConstantsAssumption

LEMMA DateMade ==
  ASSUME Renewals!ConstantsAssumption, NEW d, NEW e, NextDate(d, e),
         NEW st, st # "NONE", NEW at, NEW n, NEW made, NEW mails, SubOK(st, at, n, made, mails),
         d.chain <= n, AllMade(made, d), ~SlowControls => d = at,
         NEW made2, NEW mails2, made2[d] # "NONE",
         \A x \in Renewals!Dates \ {d} : made2[x] = made[x] /\ mails2[x] = mails[x],
         ~SlowControls /\ made2[d] = "SKIPPED" => mails2[d] = None
  PROVE  SubOK(st, e, n, made2, mails2)
<1>1. AllMade(made2, e)
  BY DEF AllMade, NextDate, Renewals!Dates, Renewals!ConstantsAssumption
<1>2. ASSUME ~SlowControls, NEW x \in Renewals!Dates
      PROVE  /\ made2[x] # "NONE" \/ mails2[x] # None => Before(x, e)
             /\ made2[x] = "SKIPPED" => mails2[x] = None
  BY <1>2 DEF SubOK, NextDate, Before, Renewals!Dates, Renewals!ConstantsAssumption
<1> QED BY <1>1, <1>2 DEF SubOK, NextDate

LEMMA FinishControlStep ==
  ASSUME Renewals!ConstantsAssumption, RenewalInv, NEW w \in Workers, Renewals!MayRun(w),
         Renewals!FinishControl(w)
  PROVE  RenewalInv'
<1> DEFINE s == worker[w].sub
           d == worker[w].date
<1>1. RenewalTyped /\ Renewals!Idle \in RenewalJobs
  BY DEF RenewalInv, RenewalJobs, Renewals!Idle, Renewals!Nowhere
<1>2. /\ worker' = [worker EXCEPT ![w] = Renewals!Idle] /\ worker[w].at = "control"
      /\ UNCHANGED <<offer, email>>
  BY DEF Renewals!FinishControl, Renewals!Set, Renewals!At, Renewals!outside
<1>3. /\ worker' = [worker EXCEPT ![w] = worker'[w]] /\ worker'[w] \in RenewalJobs
      /\ worker'[w].at \in {"idle", "scan"} /\ worker' \in [Workers -> RenewalJobs]
  BY <1>1, <1>2 DEF RenewalTyped, Renewals!Idle
<1>4. ControlOK(worker[w], status, nextDate, chains, renewal)
  BY DEF RenewalInv
<1>5. /\ s \in Subs /\ status[s] # "NONE" /\ d \in Renewals!Dates /\ d.chain <= chains[s]
      /\ AllMade(renewal[s], d)
      /\ ~SlowControls => d = nextDate[s] /\ Renewals!Allowed(worker[w].action, status[s])
  BY <1>2, <1>4 DEF ControlOK
<1>6. SubOK(status[s], nextDate[s], chains[s], renewal[s], email[s])
  BY <1>5 DEF RenewalInv
<1>13. d \in [chain : Nat, k : Nat]
  BY <1>5 DEF Renewals!Dates
<1> HIDE DEF s, d
<1>7. CASE worker[w].action = "pause" /\ Renewals!Pause(s)
  <2>1. status' = [status EXCEPT ![s] = "PAUSED"] /\ UNCHANGED <<nextDate, chains, renewal>>
    BY <1>7 DEF Renewals!Pause
  <2>2. /\ RenewalTyped' /\ status'[s] = "PAUSED"
        /\ \A r \in Subs \ {s} : status'[r] = status[r]
    BY <1>1, <1>2, <1>3, <1>5, <2>1 DEF RenewalTyped, SubStates
  <2>3. SubOK(status'[s], nextDate'[s], chains'[s], renewal'[s], email'[s])
    BY <1>2, <1>5, <1>6, <2>1, <2>2 DEF SubOK
  <2>4. NoOverlap => LiveIn(status[s])
    BY <1>5, <1>7 DEF NoOverlap, LiveIn, Renewals!Allowed
  <2>5. chains[s] <= chains'[s]
    BY <1>1, <1>5, <2>1 DEF RenewalTyped
  <2> QED BY <1>2, <1>3, <1>5, <2>1, <2>2, <2>3, <2>4, <2>5, SubMoves
<1>8. CASE worker[w].action = "cancel" /\ Renewals!Cancel(s)
  <2>1. status' = [status EXCEPT ![s] = "CANCELLED"] /\ UNCHANGED <<nextDate, chains, renewal>>
    BY <1>8 DEF Renewals!Cancel
  <2>2. /\ RenewalTyped' /\ status'[s] = "CANCELLED"
        /\ \A r \in Subs \ {s} : status'[r] = status[r]
    BY <1>1, <1>2, <1>3, <1>5, <2>1 DEF RenewalTyped, SubStates
  <2>3. SubOK(status'[s], nextDate'[s], chains'[s], renewal'[s], email'[s])
    BY <1>2, <1>5, <1>6, <2>1, <2>2 DEF SubOK
  <2>4. ~LiveIn(status'[s])
    BY <2>2 DEF LiveIn
  <2>5. chains[s] <= chains'[s]
    BY <1>1, <1>5, <2>1 DEF RenewalTyped
  <2> QED BY <1>2, <1>3, <1>5, <2>1, <2>2, <2>3, <2>4, <2>5, SubMoves
<1>9. CASE worker[w].action = "resume" /\ Renewals!Resume(s, d, worker[w].due)
  <2>1. status' = [status EXCEPT ![s] = "ACTIVE"] /\ UNCHANGED renewal
    BY <1>9 DEF Renewals!Resume
  <2>2. /\ status' \in [Subs -> SubStates] /\ status'[s] = "ACTIVE"
        /\ \A r \in Subs \ {s} : status'[r] = status[r]
    BY <1>1, <1>5, <2>1 DEF RenewalTyped, SubStates
  <2>3. NoOverlap => LiveIn(status[s])
    BY <1>5, <1>9 DEF NoOverlap, LiveIn, Renewals!Allowed
  <2>4. /\ chains' \in [Subs -> Nat] /\ nextDate' \in [Subs -> [chain : Nat, k : Nat]]
        /\ chains[s] <= chains'[s]
        /\ \A r \in Subs \ {s} : nextDate'[r] = nextDate[r] /\ chains'[r] = chains[r]
        /\ SubOK("ACTIVE", nextDate'[s], chains'[s], renewal[s], email[s])
    <3>1. CASE Renewals!BeginChain(s)
      BY <1>1, <1>5, <1>6, <3>1, ChainBegins
    <3>2. CASE nextDate' = [nextDate EXCEPT ![s] = d] /\ UNCHANGED chains
      <4>1. /\ nextDate'[s] = d /\ nextDate' \in [Subs -> [chain : Nat, k : Nat]]
            /\ \A r \in Subs \ {s} : nextDate'[r] = nextDate[r]
            /\ chains[s] \in Nat /\ chains' \in [Subs -> Nat]
        BY <1>1, <1>5, <1>13, <3>2 DEF RenewalTyped
      <4>2. SubOK("ACTIVE", d, chains[s], renewal[s], email[s])
        BY <1>5, <1>6 DEF SubOK
      <4> QED BY <3>2, <4>1, <4>2
    <3> QED BY <1>9, <3>1, <3>2 DEF Renewals!Resume
  <2>5. RenewalTyped'
    BY <1>1, <1>2, <1>3, <2>1, <2>2, <2>4 DEF RenewalTyped
  <2>6. SubOK(status'[s], nextDate'[s], chains'[s], renewal'[s], email'[s])
    BY <1>2, <2>1, <2>2, <2>4
  <2> QED BY <1>2, <1>3, <1>5, <2>1, <2>2, <2>3, <2>4, <2>5, <2>6, SubMoves
<1>10. CASE worker[w].action = "skip" /\ Renewals!Skip(s, d)
  <2>1. /\ d.k <= MaxPeriods /\ UNCHANGED <<status, chains>>
        /\ renewal' = [renewal EXCEPT ![s][d] = "SKIPPED"]
        /\ nextDate' = [nextDate EXCEPT ![s] = Renewals!Following(d)]
    BY <1>10 DEF Renewals!Skip, Renewals!Skipped
  <2>2. NextDate(d, Renewals!Following(d))
    BY <1>5, <2>1, FollowingDate
  <2>3. /\ nextDate' \in [Subs -> [chain : Nat, k : Nat]] /\ nextDate'[s] = Renewals!Following(d)
        /\ \A r \in Subs \ {s} : nextDate'[r] = nextDate[r]
    BY <1>1, <1>5, <2>1, <2>2 DEF RenewalTyped, NextDate
  <2>4. /\ renewal'[s] = [renewal[s] EXCEPT ![d] = "SKIPPED"]
        /\ renewal[s] \in [Renewals!Dates -> {"NONE", "READY", "STOCK_BLOCKED", "SKIPPED"}]
        /\ \A r \in Subs \ {s} : renewal'[r] = renewal[r]
    BY <1>1, <1>5, <2>1 DEF RenewalTyped
  <2>5. /\ renewal' \in [Subs -> [Renewals!Dates -> {"NONE", "READY", "STOCK_BLOCKED", "SKIPPED"}]]
        /\ renewal'[s][d] = "SKIPPED"
        /\ \A x \in Renewals!Dates \ {d} : renewal'[s][x] = renewal[s][x]
    BY <1>1, <1>5, <2>1, <2>4 DEF RenewalTyped
  <2>6. RenewalTyped'
    BY <1>1, <1>2, <1>3, <2>1, <2>3, <2>5 DEF RenewalTyped
  <2>7. NoOverlap => LiveIn(status[s])
    BY <1>5, <1>10 DEF NoOverlap, LiveIn, Renewals!Allowed
  <2>11. ~SlowControls => email[s][d] = None
    BY <1>5, <1>6 DEF SubOK, Before, Renewals!Dates, Renewals!ConstantsAssumption
  <2>8. SubOK(status[s], nextDate'[s], chains[s], renewal'[s], email[s])
    BY <1>5, <1>6, <2>2, <2>3, <2>5, <2>11, DateMade
  <2>9. chains[s] <= chains'[s]
    BY <1>1, <1>5, <2>1 DEF RenewalTyped
  <2>10. SubOK(status'[s], nextDate'[s], chains'[s], renewal'[s], email'[s])
    BY <1>2, <2>1, <2>8
  <2> QED BY <1>2, <1>3, <1>5, <2>1, <2>3, <2>4, <2>5, <2>6, <2>7, <2>9, <2>10, SubMoves
<1>11. \/ worker[w].action = "pause" /\ Renewals!Pause(s)
       \/ worker[w].action = "resume" /\ Renewals!Resume(s, d, worker[w].due)
       \/ worker[w].action = "cancel" /\ Renewals!Cancel(s)
       \/ worker[w].action = "skip" /\ Renewals!Skip(s, d)
  BY DEF Renewals!FinishControl, s, d
<1> QED BY <1>7, <1>8, <1>9, <1>10, <1>11

RenewalStates == {"NONE", "READY", "STOCK_BLOCKED", "SKIPPED"}

LEMMA RestOK ==
  ASSUME RenewalTyped, NEW w \in Workers, worker[w].at = "scan", NEW x
  PROVE  Renewals!Rest(w, x) \in RenewalJobs /\ Renewals!Rest(w, x).at \in {"idle", "scan"}
<1>1. Renewals!Idle \in RenewalJobs /\ Renewals!Idle.at = "idle" /\ worker[w] \in RenewalJobs
  BY DEF RenewalTyped, RenewalJobs, Renewals!Idle, Renewals!Nowhere
<1>2. PICK t : t = [worker[w] EXCEPT !.todo = worker[w].todo \ {x}]
  OBVIOUS
<1>3. t \in RenewalJobs /\ t.at = "scan"
  BY <1>1, <1>2 DEF RenewalJobs
<1> QED BY <1>1, <1>2, <1>3 DEF Renewals!Rest

\* What a scan has in hand of a subscription that is still due.
LEMMA RenewStep ==
  ASSUME Renewals!ConstantsAssumption, RenewalInv, NEW w \in Workers, Renewals!MayRun(w),
         NEW x \in worker[w].todo, Renewals!Renew(w, x)
  PROVE  RenewalInv'
<1> DEFINE s == x.sub
           d == x.date
           made == IF renewal[s][d] # "NONE" THEN renewal[s][d]
                   ELSE IF x.offer = Short THEN "STOCK_BLOCKED" ELSE "READY"
           mail == IF d \in notified[s] \/ email[s][d] # None THEN email[s][d] ELSE x.offer
<1>1. RenewalTyped
  BY DEF RenewalInv
<1>2. s \in Subs /\ d \in Renewals!Dates /\ x.offer \in Offers
  BY <1>1 DEF RenewalTyped, RenewalJobs
<1>3. Renewals!Rest(w, x) \in RenewalJobs /\ Renewals!Rest(w, x).at \in {"idle", "scan"}
  BY <1>1, RestOK DEF Renewals!Renew, Renewals!At
<1>4. /\ worker' = [worker EXCEPT ![w] = worker'[w]] /\ worker'[w] \in RenewalJobs
      /\ worker'[w].at \in {"idle", "scan"} /\ worker' \in [Workers -> RenewalJobs]
  BY <1>1, <1>3 DEF RenewalTyped, Renewals!Renew, Renewals!Set
<1>5. /\ d.k <= MaxPeriods /\ nextDate[s] = d /\ status[s] = "ACTIVE"
      /\ nextDate' = [nextDate EXCEPT ![s] = Renewals!Following(d)]
      /\ UNCHANGED <<offer, status, chains>>
  BY DEF Renewals!Renew, Renewals!StillDue, Renewals!outside
<1>6. /\ renewal[s] \in [Renewals!Dates -> RenewalStates]
      /\ email[s] \in [Renewals!Dates -> Offers \cup {None}]
      /\ made \in RenewalStates \ {"NONE"} /\ mail \in Offers \cup {None}
  BY <1>1, <1>2 DEF RenewalTyped, RenewalStates
<1>7. /\ renewal' = [renewal EXCEPT ![s] = [renewal[s] EXCEPT ![d] = made]]
      /\ email' = [email EXCEPT ![s] = [email[s] EXCEPT ![d] = mail]]
  BY DEF Renewals!Renew
<1>8. SubOK(status[s], nextDate[s], chains[s], renewal[s], email[s])
  BY <1>2 DEF RenewalInv
<1>9. ~SlowControls => made # "SKIPPED"
  BY <1>2, <1>5, <1>8 DEF SubOK, Before, Renewals!Dates, Renewals!ConstantsAssumption
<1> HIDE DEF s, d, made, mail
<1>10. NextDate(d, Renewals!Following(d))
  BY <1>2, <1>5, FollowingDate
<1>11. /\ nextDate' \in [Subs -> [chain : Nat, k : Nat]] /\ nextDate'[s] = Renewals!Following(d)
       /\ \A r \in Subs \ {s} : nextDate'[r] = nextDate[r]
  BY <1>1, <1>2, <1>5, <1>10 DEF RenewalTyped, NextDate
<1>12. /\ renewal'[s] = [renewal[s] EXCEPT ![d] = made]
       /\ email'[s] = [email[s] EXCEPT ![d] = mail]
       /\ \A r \in Subs \ {s} : renewal'[r] = renewal[r] /\ email'[r] = email[r]
  BY <1>1, <1>2, <1>7 DEF RenewalTyped
<1>13. /\ renewal' \in [Subs -> [Renewals!Dates -> RenewalStates]]
       /\ email' \in [Subs -> [Renewals!Dates -> Offers \cup {None}]]
  BY <1>1, <1>2, <1>6, <1>7 DEF RenewalTyped, RenewalStates
<1>14. /\ renewal'[s][d] = made /\ email'[s][d] = mail
       /\ \A y \in Renewals!Dates \ {d} :
            renewal'[s][y] = renewal[s][y] /\ email'[s][y] = email[s][y]
  BY <1>2, <1>6, <1>12
<1>15. RenewalTyped'
  BY <1>1, <1>4, <1>5, <1>11, <1>13 DEF RenewalTyped, RenewalStates
<1>16. d.chain <= chains[s] /\ AllMade(renewal[s], d)
  BY <1>5, <1>8 DEF SubOK
<1>17. SubOK(status[s], Renewals!Following(d), chains[s], renewal'[s], email'[s])
  BY <1>5, <1>6, <1>8, <1>9, <1>10, <1>14, <1>16, DateMade
<1>18. SubOK(status'[s], nextDate'[s], chains'[s], renewal'[s], email'[s])
  BY <1>5, <1>11, <1>17
<1>19. chains[s] <= chains'[s] /\ LiveIn(status[s])
  BY <1>1, <1>2, <1>5 DEF RenewalTyped, LiveIn
<1>20. \A y \in Renewals!Dates : renewal[s][y] # "NONE" => renewal'[s][y] # "NONE"
  BY <1>6, <1>14
<1>21. s \in Subs /\ status'[s] # "NONE" /\ UNCHANGED offer
  BY <1>2, <1>5
<1>22. \A r \in Subs \ {s} :
         /\ status'[r] = status[r] /\ nextDate'[r] = nextDate[r] /\ chains'[r] = chains[r]
         /\ renewal'[r] = renewal[r] /\ email'[r] = email[r]
  BY <1>5, <1>11, <1>12
<1>23. /\ worker' = [worker EXCEPT ![w] = worker'[w]] /\ worker'[w] \in RenewalJobs
       /\ worker'[w].at \in {"idle", "scan"}
  BY <1>4
<1> QED BY <1>15, <1>18, <1>19, <1>20, <1>21, <1>22, <1>23, SubMoves

LEMMA ScanStep ==
  ASSUME Renewals!ConstantsAssumption, RenewalInv, NEW w \in Workers, Renewals!MayRun(w),
         Renewals!Scans(w)
  PROVE  RenewalInv'
<1>1. RenewalTyped /\ Renewals!Idle \in RenewalJobs /\ Renewals!Idle.at = "idle"
  BY DEF RenewalInv, RenewalJobs, Renewals!Idle, Renewals!Nowhere
<1>2. ASSUME NEW t \in RenewalJobs, t.at \in {"idle", "scan"}, worker' = [worker EXCEPT ![w] = t],
             UNCHANGED <<offer, status, nextDate, chains, renewal, email>>
      PROVE  RenewalInv'
  <2>1. worker'[w] = t
    BY <1>1, <1>2 DEF RenewalTyped
  <2>2. ControlOK(t, status, nextDate, chains, renewal) /\ EnrollOK(t, status)
    BY <1>2 DEF ControlOK, EnrollOK
  <2> QED BY <1>2, <2>1, <2>2, JobStep
<1>3. CASE Renewals!StartScan(w)
  <2> DEFINE todo == {[sub |-> s, date |-> nextDate[s], offer |-> offer] : s \in {r \in Subs : Renewals!Due(r)}}
  <2>1. /\ worker' = [worker EXCEPT ![w] = [Renewals!Idle EXCEPT !.at = "scan", !.todo = todo]]
        /\ UNCHANGED <<offer, status, nextDate, chains, renewal, email>>
    BY <1>3 DEF Renewals!StartScan, Renewals!Set, Renewals!subscription, Renewals!renewals,
                Renewals!outside
  <2>2. ASSUME NEW s \in Subs, Renewals!Due(s) PROVE nextDate[s] \in Renewals!Dates
    BY <2>2 DEF RenewalInv, SubOK, Renewals!Due
  <2>3. todo \in SUBSET [sub : Subs, date : Renewals!Dates, offer : Offers]
    BY <1>1, <2>2 DEF RenewalTyped
  <2> HIDE DEF todo
  <2>4. PICK t : /\ worker' = [worker EXCEPT ![w] = t]
                 /\ t = [Renewals!Idle EXCEPT !.at = "scan", !.todo = todo]
    BY <2>1
  <2>5. t \in RenewalJobs /\ t.at = "scan"
    BY <1>1, <2>3, <2>4 DEF RenewalJobs
  <2> QED BY <1>2, <2>1, <2>4, <2>5
<1>4. ASSUME NEW x \in worker[w].todo, Renewals!Renew(w, x) PROVE RenewalInv'
  BY <1>4, RenewStep
<1>5. ASSUME NEW x \in worker[w].todo, Renewals!PassOver(w, x) PROVE RenewalInv'
  <2>1. Renewals!Rest(w, x) \in RenewalJobs /\ Renewals!Rest(w, x).at \in {"idle", "scan"}
    BY <1>1, <1>5, RestOK DEF Renewals!PassOver, Renewals!At
  <2>2. /\ worker' = [worker EXCEPT ![w] = Renewals!Rest(w, x)]
        /\ UNCHANGED <<offer, status, nextDate, chains, renewal, email>>
    BY <1>5 DEF Renewals!PassOver, Renewals!Set, Renewals!subscription, Renewals!renewals,
                Renewals!outside
  <2> QED BY <1>2, <2>1, <2>2
<1>6. ASSUME NEW x \in worker[w].todo, Renewals!ScanFails(w, x) PROVE RenewalInv'
  <2>1. /\ worker' = [worker EXCEPT ![w] = Renewals!Idle]
        /\ UNCHANGED <<offer, status, nextDate, chains, renewal, email>>
    BY <1>6 DEF Renewals!ScanFails, Renewals!Set, Renewals!subscription, Renewals!renewals,
                Renewals!outside
  <2> QED BY <1>1, <1>2, <2>1
<1> QED BY <1>3, <1>4, <1>5, <1>6 DEF Renewals!Scans, Renewals!Scanning

\* The calendar, the outbox and the administrators leave subscriptions alone.
LEMMA AroundStep ==
  ASSUME RenewalInv, UNCHANGED <<status, nextDate, chains, renewal, email, worker>>,
         offer' \in Offers
  PROVE  RenewalInv'
<1>1. RenewalTyped'
  BY DEF RenewalInv, RenewalTyped
<1> QED BY <1>1 DEF RenewalInv

LEMMA RenewalStep ==
  Renewals!ConstantsAssumption /\ RenewalInv /\ [Renewals!Next]_Renewals!vars => RenewalInv'
<1> SUFFICES ASSUME Renewals!ConstantsAssumption, RenewalInv, [Renewals!Next]_Renewals!vars
             PROVE  RenewalInv'
  OBVIOUS
<1>0. offer \in Offers
  BY DEF RenewalInv, RenewalTyped
<1>1. CASE UNCHANGED Renewals!vars
  BY <1>0, <1>1, AroundStep DEF Renewals!vars
<1>2. ASSUME NEW w \in Workers, Renewals!MayRun(w),
             Renewals!StartEnroll(w) \/ Renewals!FinishEnroll(w)
      PROVE  RenewalInv'
  BY <1>2, EnrollStep
<1>3. ASSUME NEW w \in Workers, Renewals!MayRun(w), Renewals!FinishControl(w) PROVE RenewalInv'
  BY <1>3, FinishControlStep
<1>4. ASSUME NEW w \in Workers, Renewals!MayRun(w), Renewals!Scans(w) PROVE RenewalInv'
  BY <1>4, ScanStep
<1>5. ASSUME NEW w \in Workers, Renewals!MayRun(w), NEW s \in Subs,
             NEW action \in Renewals!Actions, Renewals!StartControl(w, s, action)
      PROVE  RenewalInv'
  BY <1>5, StartControlStep
<1>6. ASSUME NEW s \in Subs, Renewals!Tick(s) PROVE RenewalInv'
  BY <1>0, <1>6, AroundStep DEF Renewals!Tick, Renewals!renewals, Renewals!outside
<1>7. ASSUME NEW s \in Subs, NEW d \in Renewals!Dates, Renewals!Send(s, d) PROVE RenewalInv'
  BY <1>0, <1>7, AroundStep DEF Renewals!Send, Renewals!subscription, Renewals!outside
<1>8. ASSUME NEW o \in Offers, Renewals!ChangeOffer(o) PROVE RenewalInv'
  BY <1>8, AroundStep DEF Renewals!ChangeOffer, Renewals!subscription, Renewals!renewals
<1>9. CASE Renewals!DeletePlan
  BY <1>0, <1>9, AroundStep DEF Renewals!DeletePlan, Renewals!subscription, Renewals!renewals
<1> QED BY <1>1, <1>2, <1>3, <1>4, <1>5, <1>6, <1>7, <1>8, <1>9 DEF Renewals!Next

LEMMA RenewalInvariance ==
  ASSUME Renewals!ConstantsAssumption PROVE Renewals!Spec => []RenewalInv
<1>1. Renewals!Init => RenewalInv
  BY RenewalInit
<1>2. RenewalInv /\ [Renewals!Next]_Renewals!vars => RenewalInv'
  BY RenewalStep
<1> QED BY <1>1, <1>2, PTL DEF Renewals!Spec

\* Whoever moves a schedule on, a scan, another at the same time, or the
\* customer from a date read long before, no date is passed over without its
\* renewal, for any number of subscriptions, scans and requests
\* (processDueSubscriptions' re-read in its transaction, controlSubscription).
THEOREM MissedTheorem ==
  Renewals!ConstantsAssumption => (Renewals!Spec => []Renewals!NoneMissed)
<1> SUFFICES ASSUME Renewals!ConstantsAssumption PROVE Renewals!Spec => []Renewals!NoneMissed
  OBVIOUS
<1>1. RenewalInv => Renewals!NoneMissed
  BY DEF RenewalInv, SubOK, AllMade, Renewals!NoneMissed
<1> QED BY <1>1, RenewalInvariance, PTL

\* Where nothing runs between a customer's read and write, a renewal the
\* customer skipped is not announced, however many scans run and fail
\* (controlSubscription "skip", enqueueEmail).
THEOREM SkippedTheorem ==
  Renewals!ConstantsAssumption /\ ~SlowControls =>
    (Renewals!Spec => []Renewals!SkippedNotAnnounced)
<1> SUFFICES ASSUME Renewals!ConstantsAssumption, ~SlowControls
             PROVE  Renewals!Spec => []Renewals!SkippedNotAnnounced
  OBVIOUS
<1>1. RenewalInv => Renewals!SkippedNotAnnounced
  BY DEF RenewalInv, SubOK, Renewals!SkippedNotAnnounced
<1> QED BY <1>1, RenewalInvariance, PTL

\* ... and if nothing runs between the reads of an enrolment and its row either,
\* a customer has one live subscription to a plan (enrollSubscription looks for
\* one before it inserts).
THEOREM SubscribedOnce ==
  Renewals!ConstantsAssumption /\ NoOverlap => (Renewals!Spec => []Renewals!OneSubscription)
<1> SUFFICES ASSUME Renewals!ConstantsAssumption, NoOverlap
             PROVE  Renewals!Spec => []Renewals!OneSubscription
  OBVIOUS
<1>1. RenewalInv => Renewals!OneSubscription
  BY DEF RenewalInv, LiveIn, Renewals!OneSubscription, Renewals!Live
<1> QED BY <1>1, RenewalInvariance, PTL

LEMMA CancelledStep ==
  ASSUME ~SlowControls, RenewalInv, [Renewals!Next]_Renewals!vars
  PROVE  Renewals!CancelledStays
<1>1. RenewalTyped
  BY DEF RenewalInv
<1>2. CASE UNCHANGED status
  BY <1>2 DEF Renewals!CancelledStays
<1>3. ASSUME NEW w \in Workers, Renewals!FinishEnroll(w) PROVE Renewals!CancelledStays
  BY <1>1, <1>3 DEF Renewals!FinishEnroll, Renewals!CancelledStays, RenewalTyped
<1>4. ASSUME NEW w \in Workers, Renewals!FinishControl(w) PROVE Renewals!CancelledStays
  <2> DEFINE s == worker[w].sub
  <2>1. Renewals!Allowed(worker[w].action, status[s]) /\ worker[w].action \in Renewals!Actions
    BY <1>4 DEF RenewalInv, ControlOK, Renewals!FinishControl, Renewals!At
  <2>2. status[s] # "CANCELLED"
    BY <2>1 DEF Renewals!Allowed, Renewals!Actions
  <2>3. \A r \in Subs \ {s} : status'[r] = status[r]
    BY <1>1, <1>4 DEF RenewalTyped, Renewals!FinishControl, Renewals!Pause, Renewals!Resume,
                      Renewals!Cancel, Renewals!Skip
  <2> QED BY <2>2, <2>3 DEF Renewals!CancelledStays
<1>5. ASSUME NEW w \in Workers,
             \/ Renewals!StartEnroll(w) \/ Renewals!Scans(w)
             \/ \E s \in Subs, action \in Renewals!Actions : Renewals!StartControl(w, s, action)
      PROVE  UNCHANGED status
  BY <1>5 DEF Renewals!StartEnroll, Renewals!StartControl, Renewals!Scans, Renewals!Scanning,
              Renewals!StartScan, Renewals!Renew, Renewals!PassOver, Renewals!ScanFails,
              Renewals!subscription
<1>6. ASSUME \/ \E s \in Subs : Renewals!Tick(s) \/ \E d \in Renewals!Dates : Renewals!Send(s, d)
             \/ \E o \in Offers : Renewals!ChangeOffer(o)
             \/ Renewals!DeletePlan
      PROVE  UNCHANGED status
  BY <1>6 DEF Renewals!Tick, Renewals!Send, Renewals!ChangeOffer, Renewals!DeletePlan,
              Renewals!subscription
<1> QED BY <1>2, <1>3, <1>4, <1>5, <1>6 DEF Renewals!Next, Renewals!vars

\* Where nothing runs between a customer's read and write, a cancelled
\* subscription stays cancelled (controlSubscription writes by id alone).
THEOREM CancelledTheorem ==
  Renewals!ConstantsAssumption /\ ~SlowControls =>
    (Renewals!Spec => [][Renewals!CancelledStays]_Renewals!vars)
<1> SUFFICES ASSUME Renewals!ConstantsAssumption, ~SlowControls
             PROVE  Renewals!Spec => [][Renewals!CancelledStays]_Renewals!vars
  OBVIOUS
<1>1. RenewalInv /\ [Renewals!Next]_Renewals!vars => [Renewals!CancelledStays]_Renewals!vars
  BY CancelledStep
<1> QED BY <1>1, RenewalInvariance, PTL DEF Renewals!Spec
=============================================================================
