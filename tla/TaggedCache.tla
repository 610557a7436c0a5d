----------------------------- MODULE TaggedCache -----------------------------
(***************************************************************************)
(* The Redis cache of the catalogue and of the site's configuration: keys  *)
(* filled by readers, registered under one tag, and cleared by whoever     *)
(* changes what they were made from.                                       *)
(*   lib/cache.ts                        cacheGet, cacheSet, cacheWrap,    *)
(*                                       invalidateTag                     *)
(*   products/products.service.ts        listProducts, getProductBySlug,   *)
(*                                       listCategories, invalidateCatalog *)
(*   search/search.service.ts            searchProducts                    *)
(*   siteConfig/siteConfig.service.ts    getPublicSiteConfig and updates   *)
(*   admin/adminCatalog.routes.ts        the writes of an administrator    *)
(* What a loader reads is the version of the data it reads.  Time is       *)
(* counted in steps shorter than the shortest life of a key.               *)
(***************************************************************************)
EXTENDS Naturals

CONSTANTS
  Keys,
  Ttl,            \* the life each key is given: ttlSec
  Grace,          \* how much longer its tag is given: 300 seconds
  Readers, Writers,
  MaxWrites,      \* bound on the changes of the data
  MaxFaults,      \* bound on invalidations that never run
  SlowLoads,      \* whether others run between a load and its cacheSet
  SlowClears,     \* whether others run between SMEMBERS and the deletions
  None

ConstantsAssumption ==
  /\ Ttl \in [Keys -> Nat \ {0}] /\ Grace \in Nat
  /\ MaxWrites \in Nat /\ MaxFaults \in Nat
  /\ SlowLoads \in BOOLEAN /\ SlowClears \in BOOLEAN
  /\ None \notin Keys \cup Nat /\ Readers \cap Writers = {}

VARIABLES
  data,      \* the version of the data in the database
  cache,     \* cache:<key>: a version and the time left, or None
  tag,       \* cache:tag:<tag>: its members and the time left
  faults,
  worker

vars == <<data, cache, tag, faults, worker>>

Uncached == [version |-> None, left |-> 0]
NoTag == [members |-> {}, left |-> 0]
Idle == [at |-> "idle", key |-> None, version |-> None, members |-> {}]

Init ==
  /\ data = 0
  /\ cache = [k \in Keys |-> Uncached]
  /\ tag = NoTag
  /\ faults = 0
  /\ worker = [w \in Readers \cup Writers |-> Idle]

At(w, place) == worker[w].at = place
Set(w, t) == worker' = [worker EXCEPT ![w] = t]
Cached(k) == cache[k].left > 0
MayRun(w) ==
  \A u \in (Readers \cup Writers) \ {w} :
    /\ At(u, "fill") => SlowLoads
    /\ At(u, "clear") => SlowClears

-----------------------------------------------------------------------------
\* cacheWrap finds nothing and its loader reads the database.
Load(w, k) ==
  /\ At(w, "idle") /\ ~Cached(k)
  /\ Set(w, [Idle EXCEPT !.at = "fill", !.key = k, !.version = data])
  /\ UNCHANGED <<data, cache, tag, faults>>

Life(k) == Ttl[k]
UntaggedMembers(k) == tag.members
MembersWith(k) == tag.members \cup {k}

\* cacheSet: the key and its tag in one MULTI.
Fill(w) ==
  LET k == worker[w].key IN
  /\ At(w, "fill")
  /\ cache' = [cache EXCEPT ![k] = [version |-> worker[w].version, left |-> Life(k)]]
  /\ tag' = [members |-> MembersWith(k), left |-> Ttl[k] + Grace]
  /\ Set(w, Idle)
  /\ UNCHANGED <<data, faults>>

-----------------------------------------------------------------------------
\* An administrator's request, or the redaction of an account, commits.
Write(w) ==
  /\ At(w, "idle") /\ data < MaxWrites
  /\ data' = data + 1
  /\ Set(w, [Idle EXCEPT !.at = "members"])
  /\ UNCHANGED <<cache, tag, faults>>

\* invalidateTag: SMEMBERS, then the deletions and the tag's in one MULTI.
ReadMembers(w) ==
  /\ At(w, "members")
  /\ Set(w, [worker[w] EXCEPT !.at = "clear", !.members = tag.members])
  /\ UNCHANGED <<data, cache, tag, faults>>

Cleared(members) == members

Clear(w) ==
  /\ At(w, "clear")
  /\ cache' = [k \in Keys |-> IF k \in Cleared(worker[w].members) THEN Uncached ELSE cache[k]]
  /\ tag' = NoTag
  /\ Set(w, Idle)
  /\ UNCHANGED <<data, faults>>

\* The process ends, or Redis fails, after the commit.
Fault(w) ==
  /\ worker[w].at \in {"members", "fill"} /\ faults < MaxFaults
  /\ faults' = faults + 1
  /\ Set(w, Idle)
  /\ UNCHANGED <<data, cache, tag>>

Aged(k) == IF cache[k].left > 1 THEN [cache[k] EXCEPT !.left = @ - 1] ELSE Uncached

\* Keys run out, and the tag with its members.
Tick ==
  /\ (\E k \in Keys : Cached(k)) \/ tag.left > 0
  /\ cache' = [k \in Keys |-> Aged(k)]
  /\ tag' = IF tag.left > 1 THEN [tag EXCEPT !.left = @ - 1] ELSE NoTag
  /\ UNCHANGED <<data, faults, worker>>

Next ==
  \/ \E w \in Readers : MayRun(w) /\ ((\E k \in Keys : Load(w, k)) \/ Fill(w) \/ Fault(w))
  \/ \E w \in Writers : MayRun(w) /\ (Write(w) \/ ReadMembers(w) \/ Clear(w) \/ Fault(w))
  \/ Tick

Spec == Init /\ [][Next]_vars

-----------------------------------------------------------------------------
\* Types: no entry outlives what it was given, no tag its longest key's.
TypeOK ==
  /\ data \in 0 .. MaxWrites /\ tag.members \subseteq Keys
  /\ \A k \in Keys :
       /\ cache[k].left \in 0 .. Ttl[k]
       /\ (cache[k].version = None) = (cache[k].left = 0)
       /\ Cached(k) => cache[k].version <= data

\* The tag knows every key that is cached, for as long as it is: the next
\* invalidation reaches it, also when it was filled with old data or an
\* earlier invalidation never ran (cacheSet, invalidateTag).
Tracked == \A k \in Keys : Cached(k) => k \in tag.members /\ cache[k].left <= tag.left

\* Once the writers have invalidated, what is cached was read after the last
\* write (cacheWrap, invalidateTag).
FreshAtRest ==
  (\A w \in Readers \cup Writers : At(w, "idle"))
    => \A k \in Keys : Cached(k) => cache[k].version = data

\* What is cached under a key is older than the data.
IsStale(k) == Cached(k) /\ cache[k].version < data
=============================================================================
