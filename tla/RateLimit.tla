----------------------------- MODULE RateLimit -----------------------------
(***************************************************************************)
(* The limit on requests of one client: a bucket in Redis, counted in      *)
(* fixed windows, with a pause that doubles on every violation.            *)
(*                                                                         *)
(*   checkBucket, rateLimit              middleware/rateLimit.ts           *)
(*                                                                         *)
(* One action is one Redis command; commands of concurrent requests        *)
(* interleave.  Redis may fail at any command: the request is then let     *)
(* through.  The bucket of the address and the bucket of the account have  *)
(* separate keys and are alike; this is one of them.                       *)
(***************************************************************************)
EXTENDS Integers

CONSTANTS
  Requests,    \* request handlers of the client, each handles one at a time
  Limit,       \* opts.max
  Window,      \* opts.windowSec
  Base,        \* opts.backoffBaseSec
  BackoffMax,  \* opts.backoffMaxSec
  MaxFaults    \* bound on Redis commands that fail

ConstantsAssumption ==
  /\ {Limit, Window, Base, BackoffMax} \subseteq Nat \ {0}
  /\ Base <= BackoffMax
  /\ MaxFaults \in Nat

VARIABLES
  count,       \* the counter of the window
  violations,  \* the violations in a row
  blocked,     \* remaining life of the pause, 0: there is none
  at,          \* the next command of each request
  seen,        \* what its last INCR answered
  served,      \* requests this window's counter lets through
  faults

vars == <<count, violations, blocked, at, seen, served, faults>>

\* A key that has been incremented lives until it is given a time to live.
Forever == -1
NoKey == [n |-> 0, ttl |-> 0]

\* No decision tells larger counters apart.
MaxCount == Limit + 1
MaxViolations == BackoffMax + 1

Places ==
  {"idle", "ttl", "incr", "expire", "decide", "del", "violate", "expire violations", "block"}

Init ==
  /\ count = NoKey
  /\ violations = NoKey
  /\ blocked = 0
  /\ at = [r \in Requests |-> "idle"]
  /\ seen = [r \in Requests |-> 0]
  /\ served = 0
  /\ faults = 0

Smaller(m, n) == IF m < n THEN m ELSE n

\* INCR makes a key that is missing, without a time to live.
Incremented(key, max) ==
  IF key = NoKey THEN [n |-> 1, ttl |-> Forever]
  ELSE [key EXCEPT !.n = Smaller(key.n + 1, max)]

\* EXPIRE of a key that is gone does nothing.
Expiring(key, ttl) == IF key = NoKey THEN NoKey ELSE [key EXCEPT !.ttl = ttl]

Goto(r, place) == at' = [at EXCEPT ![r] = place]

\* A request comes in.
Arrive(r) ==
  /\ at[r] = "idle"
  /\ Goto(r, "ttl")
  /\ UNCHANGED <<count, violations, blocked, seen, served, faults>>

\* TTL of the pause: while it lasts the request is refused uncounted.
CheckPause(r) ==
  /\ at[r] = "ttl"
  /\ Goto(r, IF blocked > 0 THEN "idle" ELSE "incr")
  /\ UNCHANGED <<count, violations, blocked, seen, served, faults>>

AdmitsOneMore(n) == n <= Limit + 1

\* count <= max
Admits(n) == n <= Limit

\* The first request of a window gives the counter its life.
AfterIncr(n) == IF n = 1 THEN "expire" ELSE "decide"

\* INCR of the counter.
Incr(r) ==
  /\ at[r] = "incr"
  /\ count' = Incremented(count, MaxCount)
  /\ seen' = [seen EXCEPT ![r] = count'.n]
  /\ served' = IF Admits(count'.n) THEN served + 1 ELSE served
  /\ Goto(r, AfterIncr(count'.n))
  /\ UNCHANGED <<violations, blocked, faults>>

\* EXPIRE of the counter.
Expire(r) ==
  /\ at[r] = "expire"
  /\ count' = Expiring(count, Window)
  /\ Goto(r, "decide")
  /\ UNCHANGED <<violations, blocked, seen, served, faults>>

Decide(r) ==
  /\ at[r] = "decide"
  /\ Goto(r, IF Admits(seen[r]) THEN "del" ELSE "violate")
  /\ UNCHANGED <<count, violations, blocked, seen, served, faults>>

\* DEL of the violations; the request goes on to its route.
Admit(r) ==
  /\ at[r] = "del"
  /\ violations' = NoKey
  /\ Goto(r, "idle")
  /\ UNCHANGED <<count, blocked, seen, served, faults>>

\* INCR of the violations.
Violate(r) ==
  /\ at[r] = "violate"
  /\ violations' = Incremented(violations, MaxViolations)
  /\ seen' = [seen EXCEPT ![r] = violations'.n]
  /\ Goto(r, IF violations'.n = 1 THEN "expire violations" ELSE "block")
  /\ UNCHANGED <<count, blocked, served, faults>>

ExpireViolations(r) ==
  /\ at[r] = "expire violations"
  /\ violations' = Expiring(violations, BackoffMax)
  /\ Goto(r, "block")
  /\ UNCHANGED <<count, blocked, seen, served, faults>>

Backoff(attempts) == Smaller(BackoffMax, Base * 2 ^ (attempts - 1))

\* SET of the pause; the request is refused.
Block(r) ==
  /\ at[r] = "block"
  /\ blocked' = Backoff(seen[r])
  /\ Goto(r, "idle")
  /\ UNCHANGED <<count, violations, seen, served, faults>>

\* A Redis command fails, done or not: the request is let through.
Fail(r) ==
  /\ at[r] # "idle"
  /\ faults < MaxFaults
  /\ faults' = faults + 1
  /\ Goto(r, "idle")
  /\ UNCHANGED <<count, violations, blocked, seen, served>>

Aged(key) ==
  CASE key.ttl = Forever -> key
    [] key.ttl > 1       -> [key EXCEPT !.ttl = key.ttl - 1]
    [] OTHER             -> NoKey

\* A second passes in Redis.
Tick ==
  /\ count' = Aged(count)
  /\ violations' = Aged(violations)
  /\ blocked' = IF blocked > 0 THEN blocked - 1 ELSE 0
  /\ served' = IF count' = NoKey THEN 0 ELSE served
  /\ UNCHANGED <<at, seen, faults>>

Handle(r) ==
  \/ CheckPause(r) \/ Incr(r) \/ Expire(r) \/ Decide(r) \/ Admit(r)
  \/ Violate(r) \/ ExpireViolations(r) \/ Block(r)

Next ==
  \/ \E r \in Requests : Arrive(r) \/ Handle(r) \/ Fail(r)
  \/ Tick

Spec == Init /\ [][Next]_vars

-----------------------------------------------------------------------------

\* Types of the keys and of the requests.
TypeOK ==
  /\ count \in [n : 0..MaxCount, ttl : {Forever} \cup 0..Window]
  /\ violations \in [n : 0..MaxViolations, ttl : {Forever} \cup 0..BackoffMax]
  /\ blocked \in 0..BackoffMax
  /\ at \in [Requests -> Places]
  /\ served \in Nat

\* However concurrent requests interleave their commands, a window's counter lets
\* at most its limit through (checkBucket decides by what its own INCR answered).
LimitKept == served <= Limit

\* A request is being served.
Serves == \E r \in Requests : at[r] = "del"

=============================================================================
