--------------------------- MODULE ProviderClient ---------------------------
(***************************************************************************)
(* The payment provider's HTTP client: what its callers are told of an     *)
(* order or a refund they asked for over a network that loses and delays.  *)
(*   backend lib/razorpay.ts  requestWithRetry, findOrderByReceipt,        *)
(*                            createOrder, refundPayment, fetchRefund,     *)
(*                            the parse functions and the error codes      *)
(*   modules/refunds/refund.service.ts  isDefinitiveProviderFailure        *)
(* All calls are about one order (its id is the receipt) and one refund    *)
(* intent (its key makes a repeated request harmless).  A request that     *)
(* timed out may still reach the provider.  Waiting times are left out.    *)
(***************************************************************************)
EXTENDS Naturals

CONSTANTS
  Callers,      \* requests of checkouts, administrators and jobs
  MaxAttempts,  \* RAZORPAY_HTTP_MAX_ATTEMPTS
  MaxCalls,     \* bound: calls of the client
  MaxBusy,      \* bound: answers by which the provider puts a request off
  Busy          \* their status codes

ConstantsAssumption ==
  /\ MaxAttempts \in Nat \ {0} /\ {MaxCalls, MaxBusy} \subseteq Nat
  /\ Busy \subseteq {408, 409, 425, 429, 503}

VARIABLES
  refuses,   \* kinds of request the provider has a reason to refuse for good
  orders,    \* provider: orders made with the receipt
  refunds,   \* provider: keys of the refunds made
  call,      \* the calls of the client
  late,      \* requests nobody waits for that can still arrive
  calls, busy

vars == <<refuses, orders, refunds, call, late, calls, busy>>
provider == <<orders, refunds>>

NoAnswer == [status |-> 0, found |-> 0, odd |-> FALSE]
Idle == [at |-> "idle", op |-> "none", step |-> "none", attempt |-> 0,
         answer |-> NoAnswer, first |-> "none", lookup |-> "none",
         lost |-> FALSE, result |-> "none"]

Init ==
  /\ refuses \in SUBSET {"create", "refund"}
  /\ orders = 0 /\ refunds = {}
  /\ call = [c \in Callers |-> Idle]
  /\ late = {} /\ calls = 0 /\ busy = 0

----------------------------------------------------------------------------
(* The provider. *)

\* The idempotency key is the intent's, whatever the attempt.
Key(c) == 0

Request(c) == [step |-> call[c].step, key |-> Key(c), of |-> c,
               attempt |-> call[c].attempt]

\* A receipt names one order; a key names one refund.
Made(request) ==
  /\ orders' = IF request.step = "create" /\ "create" \notin refuses THEN 1
               ELSE orders
  /\ refunds' = IF request.step = "refund" /\ "refund" \notin refuses
                THEN refunds \union {request.key} ELSE refunds

Status(c) ==
  IF call[c].step \in refuses THEN 422
  ELSE IF call[c].step = "create" /\ orders > 0 THEN 400
  ELSE 200

\* The answer may be one that the client cannot read.
Serve(c) ==
  /\ call[c].at = "sent"
  /\ Made(Request(c))
  /\ \E odd \in BOOLEAN :
       /\ odd => busy < MaxBusy
       /\ busy' = IF odd THEN busy + 1 ELSE busy
       /\ call' = [call EXCEPT ![c].at = "answered",
                     ![c].answer = [status |-> Status(c), found |-> orders,
                                    odd |-> odd /\ Status(c) = 200]]
  /\ UNCHANGED <<refuses, late, calls>>

\* 503 can come from a gateway before or after the request was served.
PutOff(c) ==
  /\ call[c].at = "sent" /\ busy < MaxBusy
  /\ busy' = busy + 1
  /\ \E status \in Busy :
       /\ call' = [call EXCEPT ![c].at = "answered",
                     ![c].answer = [NoAnswer EXCEPT !.status = status],
                     ![c].lost = @ \/ status = 503]
       /\ \/ UNCHANGED provider
          \/ status = 503 /\ Made(Request(c))
  /\ UNCHANGED <<refuses, late, calls>>

Arrives ==
  \E request \in late :
    /\ Made(request) /\ late' = late \ {request}
    /\ UNCHANGED <<refuses, call, calls, busy>>

\* Or it never does.
Vanishes ==
  \E request \in late :
    /\ late' = late \ {request}
    /\ UNCHANGED <<refuses, provider, call, calls, busy>>

----------------------------------------------------------------------------
(* The client. *)

Begin(c, op, step) == [Idle EXCEPT !.at = "sent", !.op = op, !.step = step,
                                   !.attempt = 1]

Ask(c, op) ==
  /\ call[c].at \in {"idle", "done"} /\ calls < MaxCalls
  /\ calls' = calls + 1
  /\ call' = [call EXCEPT ![c] = Begin(c, op, op)]
  /\ UNCHANGED <<refuses, provider, late, busy>>

\* providerHttpError, and the codes of a transport failure.
Unsure == {409, 429, 503}
CodeOf(status) == IF status \in Unsure THEN "unavailable" ELSE "error"

Done(c, result) == [call[c] EXCEPT !.at = "done", !.result = result]

\* Whatever createOrder learned is not final before the receipt was looked up.
LookUp(c, code) ==
  [call[c] EXCEPT !.at = "sent", !.step = "lookup", !.attempt = 1,
                  !.first = code, !.answer = NoAnswer]

\* An order made by an attempt whose answer was lost answers the next one 400.
Ambiguous == {400, 408, 409, 429, 503}

\* The last attempt of createOrder or refundPayment failed.
MainFailed(c, code, ambiguous) ==
  IF call[c].step = "create" /\ ambiguous THEN LookUp(c, code) ELSE Done(c, code)

\* The lookup failed: a transport failure before it is reported, not its own.
LookupFailed(c, code) ==
  [Done(c, IF call[c].first = "timeout" THEN "timeout" ELSE code)
     EXCEPT !.lookup = "failed"]

Failed(c, code, ambiguous) ==
  IF call[c].step = "lookup" THEN LookupFailed(c, code)
  ELSE MainFailed(c, code, ambiguous)

FoundMany(c) == call[c].answer.found > 1
Found(c) == call[c].answer.found = 1

Succeeded(c) ==
  IF call[c].step # "lookup" THEN Done(c, "ok")
  ELSE [Done(c, IF Found(c) THEN "ok" ELSE call[c].first)
          EXCEPT !.lookup = "answered"]

AttemptLeft(c) == call[c].attempt < MaxAttempts

Retryable == {408, 409, 425, 429, 500, 502, 503, 504}
Retry(c) == [call[c] EXCEPT !.at = "pause", !.answer = NoAnswer]

Receive(c) ==
  /\ call[c].at = "answered"
  /\ LET answer == call[c].answer IN
     call' = [call EXCEPT ![c] =
       IF answer.odd THEN Failed(c, "contract", FALSE)
       ELSE IF answer.status = 200 THEN Succeeded(c)
       ELSE IF answer.status \in Retryable /\ AttemptLeft(c)
            THEN Retry(c)
       ELSE Failed(c, CodeOf(answer.status), answer.status \in Ambiguous)]
  /\ UNCHANGED <<refuses, provider, late, calls, busy>>

\* AbortSignal.timeout, or a lost connection; before the request was served it
\* may still be under way.
Deadline(c) == call[c].at \in {"sent", "answered"}

TimeOut(c) ==
  /\ Deadline(c)
  /\ late' = IF call[c].at = "sent" /\ call[c].step # "lookup"
             THEN late \union {Request(c)} ELSE late
  /\ call' = [call EXCEPT ![c] =
       IF AttemptLeft(c) THEN [Retry(c) EXCEPT !.lost = TRUE]
       ELSE [Failed(c, "timeout", TRUE) EXCEPT !.lost = TRUE]]
  /\ UNCHANGED <<refuses, provider, calls, busy>>

Resend(c) ==
  /\ call[c].at = "pause"
  /\ call' = [call EXCEPT ![c].at = "sent", ![c].attempt = @ + 1]
  /\ UNCHANGED <<refuses, provider, late, calls, busy>>

Next ==
  \/ \E c \in Callers :
       \/ \E op \in {"create", "refund"} : Ask(c, op)
       \/ Serve(c) \/ PutOff(c) \/ Receive(c) \/ TimeOut(c) \/ Resend(c)
  \/ Arrives \/ Vanishes

Spec == Init /\ [][Next]_vars

----------------------------------------------------------------------------
(* Properties. *)

Results == {"none", "ok", "unavailable", "timeout", "error", "contract"}

TypeOK ==
  /\ orders \in 0..1
  /\ \A c \in Callers :
       /\ call[c].at \in {"idle", "sent", "answered", "pause", "done"}
       /\ call[c].attempt \in 0..MaxAttempts
       /\ call[c].result \in Results
       /\ call[c].at = "done" <=> call[c].result # "none"
  /\ \A request \in late : request.step \in {"create", "refund"}

Reported(c, op) == call[c].at = "done" /\ call[c].op = op

\* "Resolve the unique receipt before reporting the ambiguous failure"
\* (razorpay.ts:518): a caller told that its order failed, after a lookup that
\* was answered, has no order at the provider; only a request that was
\* delayed beyond its timeout can still make one.
FailedHasNone ==
  \A c \in Callers :
    /\ call[c].at # "done"
    /\ call'[c].at = "done" /\ call'[c].op = "create"
    /\ call'[c].result \in {"unavailable", "timeout", "error"}
    /\ call'[c].lookup # "failed"
    => orders' = 0 \/ call[c].answer.found # orders'

\* An attempt that may have made the order is not reported as a failure
\* without the receipt having been looked up (razorpay.ts:518), unless the
\* provider refuses the order itself.
LookedUpFirst ==
  \A c \in Callers :
    /\ Reported(c, "create") /\ call[c].lost
    /\ call[c].result \notin {"ok", "contract"} /\ "create" \notin refuses
    => call[c].lookup # "none"

\* A refund reported as rejected for good (razorpay.ts:233 "Payment provider
\* rejected the request", on which isDefinitiveProviderFailure ends the
\* intent) was not made, and is not made later.
RejectedIsNotMade ==
  (\E c \in Callers : Reported(c, "refund") /\ call[c].result = "error")
    => refunds = {}

\* One intent makes one refund, however often it is repeated by attempts, by
\* callers and by requests that come late.
OneRefund == \A k, l \in refunds : k = l

\* A refund reported as made is made.
OkIsMade ==
  \A c \in Callers :
    call[c].result = "ok" =>
      IF call[c].op = "create" THEN orders = 1 ELSE refunds # {}

\* A call goes on until it has an answer, or none for good.
Calling(c) == call[c].at # "idle"
HasEnded(c) == call[c].at = "done"
=============================================================================
