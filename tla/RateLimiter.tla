---------------------------- MODULE RateLimiter ----------------------------
(***************************************************************************)
(* The per-IP token-bucket limiter (internal/middleware/ratelimit.go):     *)
(* concurrent handlers that look a bucket up or create it, and the         *)
(* goroutine that evicts idle buckets.  The buckets are in a sync.Map, so  *)
(* each map operation is a step; lastSeen is read and written without a    *)
(* lock.                                                                   *)
(*                                                                         *)
(* A step of time is the part of a second in which rate.Limiter (external) *)
(* earns one token, 1/PerSecond of it; a bucket holds at most PerSecond    *)
(* tokens, its burst being its rate.  Requests are counted over a second   *)
(* that may begin at any step, whatever the buckets hold by then.  The     *)
(* real bucket earns fractions of a token; only whole ones can be spent.   *)
(*                                                                         *)
(* A handler and the sweep may be interrupted anywhere.  lastSeen is       *)
(* modelled by the bucket's age; a torn read of it cannot matter, because  *)
(* Sub uses the monotonic word alone.  A limit of 0 or less, which turns   *)
(* the middleware into a no-op, is left out.                               *)
(***************************************************************************)
EXTENDS Integers, FiniteSets

CONSTANTS IPs, Handlers,
          Buckets,     \* bucket objects; a dropped one is collected and reused
          None,
          PerSecond,   \* tokens per second, and the burst
          MaxAge       \* steps without a request after which a bucket is idle

ASSUME LimiterAssumption ==
    /\ PerSecond \in Nat \ {0}
    /\ MaxAge \in Nat /\ MaxAge > PerSecond    \* five minutes, and one second
    /\ None \notin IPs \cup Buckets
    /\ IsFiniteSet(Buckets) /\ IsFiniteSet(Handlers) /\ IsFiniteSet(IPs)
    /\ Cardinality(Buckets) > Cardinality(Handlers) + Cardinality(IPs)

VARIABLES buckets,   \* the sync.Map: ip -> bucket or None
          tokens,    \* bucket -> tokens left
          age,       \* bucket -> steps since lastSeen, up to MaxAge + 1
          pc,        \* handler -> idle, store (after a miss) or allow
          client,    \* handler -> the ip it serves
          held,      \* handler -> the bucket it will ask
          toVisit,   \* the sweep: keys not visited yet
          doomed,    \* the sweep: a key found idle and not deleted yet
          elapsed,   \* steps since the measured second began, up to PerSecond
          admitted,  \* ip -> requests its bucket let through in the measured second
          wasted,    \* ip -> requests a bucket it lost let through in that second
          touched,   \* auxiliary: the doomed bucket was used since it was found idle
          lost       \* auxiliary: ip -> bucket in use that the sweep took in the
                     \* measured second, or from which it still spends, or None

handlerVars == <<pc, client, held>>
sweepVars == <<toVisit, doomed>>
secondVars == <<elapsed, admitted, wasted>>
vars == <<buckets, tokens, age, handlerVars, sweepVars, secondVars, touched, lost>>

Init ==
    /\ buckets = [ip \in IPs |-> None]
    /\ tokens = [b \in Buckets |-> PerSecond]
    /\ age = [b \in Buckets |-> 0]
    /\ pc = [h \in Handlers |-> "idle"]
    /\ client = [h \in Handlers |-> None]
    /\ held = [h \in Handlers |-> None]
    /\ toVisit = {} /\ doomed = None
    /\ elapsed = 0 /\ admitted = [ip \in IPs |-> 0] /\ wasted = [ip \in IPs |-> 0]
    /\ touched = FALSE /\ lost = [ip \in IPs |-> None]

Holds(b) == \E h \in Handlers : held[h] = b
Fresh(b) == (\A ip \in IPs : buckets[ip] # b) /\ ~Holds(b)

\* rl.lastSeen = now, seen by a sweep that has found the bucket idle.
Touch(b) ==
    /\ age' = [age EXCEPT ![b] = 0]
    /\ touched' = (touched \/ (doomed # None /\ buckets[doomed] = b))

-----------------------------------------------------------------------------
\* A fault: only the request that creates a bucket is seen.
LoadHitUnseen(h, ip) ==
    /\ pc[h] = "idle"
    /\ buckets[ip] # None
    /\ pc' = [pc EXCEPT ![h] = "allow"]
    /\ client' = [client EXCEPT ![h] = ip]
    /\ held' = [held EXCEPT ![h] = buckets[ip]]
    /\ UNCHANGED <<buckets, tokens, age, sweepVars, secondVars, touched, lost>>

\* A request arrives, and get's Load finds a bucket.
LoadHit(h, ip) ==
    /\ pc[h] = "idle"
    /\ buckets[ip] # None
    /\ pc' = [pc EXCEPT ![h] = "allow"]
    /\ client' = [client EXCEPT ![h] = ip]
    /\ held' = [held EXCEPT ![h] = buckets[ip]]
    /\ Touch(buckets[ip])
    /\ UNCHANGED <<buckets, tokens, sweepVars, secondVars, lost>>

LoadMiss(h, ip) ==
    /\ pc[h] = "idle"
    /\ buckets[ip] = None
    /\ pc' = [pc EXCEPT ![h] = "store"]
    /\ client' = [client EXCEPT ![h] = ip]
    /\ UNCHANGED <<buckets, tokens, age, held, sweepVars, secondVars, touched, lost>>

\* A fault: the new bucket is stored whether or not there is one by now.
StoreBlindly(h) ==
    /\ pc[h] = "store"
    /\ \E b \in Buckets :
          /\ Fresh(b)
          /\ buckets' = [buckets EXCEPT ![client[h]] = b]
          /\ tokens' = [tokens EXCEPT ![b] = PerSecond]
          /\ held' = [held EXCEPT ![h] = b]
          /\ Touch(b)
    /\ pc' = [pc EXCEPT ![h] = "allow"]
    /\ UNCHANGED <<client, sweepVars, secondVars, lost>>

\* LoadOrStore: a fresh bucket, unless another handler was faster.
LoadOrStore(h) ==
    /\ pc[h] = "store"
    /\ LET fresh == CHOOSE b \in Buckets : Fresh(b)
           there == buckets[client[h]]
           b == IF there # None THEN there ELSE fresh
       IN  /\ buckets' = [buckets EXCEPT ![client[h]] = b]
           /\ tokens' = IF there # None THEN tokens ELSE [tokens EXCEPT ![b] = PerSecond]
           /\ held' = [held EXCEPT ![h] = b]
           /\ Touch(b)
    /\ pc' = [pc EXCEPT ![h] = "allow"]
    /\ UNCHANGED <<client, sweepVars, secondVars, lost>>

\* handler: Allow takes a token, or the request is answered 429.
Allow(h) ==
    /\ pc[h] = "allow"
    /\ \/ /\ tokens[held[h]] > 0
          /\ tokens' = [tokens EXCEPT ![held[h]] = @ - 1]
          /\ IF held[h] = buckets[client[h]]
             THEN admitted' = [admitted EXCEPT ![client[h]] = @ + 1] /\ UNCHANGED wasted
             ELSE wasted' = [wasted EXCEPT ![client[h]] = @ + 1] /\ UNCHANGED admitted
       \/ tokens[held[h]] = 0 /\ UNCHANGED <<tokens, admitted, wasted>>
    /\ pc' = [pc EXCEPT ![h] = "idle"]
    /\ client' = [client EXCEPT ![h] = None]
    /\ held' = [held EXCEPT ![h] = None]
    /\ UNCHANGED <<buckets, age, sweepVars, elapsed, touched, lost>>

Arrive(h, ip) == LoadHit(h, ip) \/ LoadMiss(h, ip)
Handle(h) == LoadOrStore(h) \/ Allow(h)

-----------------------------------------------------------------------------
(* evictIdle *)

\* The ticker fires; Range goes over the keys in some order.
BeginSweep ==
    /\ toVisit = {} /\ doomed = None
    /\ toVisit' = {ip \in IPs : buckets[ip] # None}
    /\ UNCHANGED <<buckets, tokens, age, handlerVars, doomed, secondVars, touched, lost>>

\* A fault: being visited counts as being used.
VisitTouches(ip) ==
    /\ ip \in toVisit /\ doomed = None
    /\ toVisit' = toVisit \ {ip}
    /\ doomed' = IF buckets[ip] # None /\ age[buckets[ip]] > MaxAge THEN ip ELSE None
    /\ age' = IF buckets[ip] # None THEN [age EXCEPT ![buckets[ip]] = 0] ELSE age
    /\ touched' = FALSE
    /\ UNCHANGED <<buckets, tokens, handlerVars, secondVars, lost>>

\* A fault: the age is compared with the wrong bound.
VisitEager(ip) ==
    /\ ip \in toVisit /\ doomed = None
    /\ toVisit' = toVisit \ {ip}
    /\ doomed' = IF buckets[ip] # None THEN ip ELSE None
    /\ touched' = FALSE
    /\ UNCHANGED <<buckets, tokens, age, handlerVars, secondVars, lost>>

\* lastSeen is read: is the bucket idle?  A Range skips a key deleted meanwhile.
Visit(ip) ==
    /\ ip \in toVisit /\ doomed = None
    /\ toVisit' = toVisit \ {ip}
    /\ doomed' = IF buckets[ip] # None /\ age[buckets[ip]] > MaxAge THEN ip ELSE None
    /\ touched' = FALSE
    /\ UNCHANGED <<buckets, tokens, age, handlerVars, secondVars, lost>>

\* Delete removes whatever is under the key now, be it in use or not.
Evict ==
    /\ doomed # None
    /\ buckets' = [buckets EXCEPT ![doomed] = None]
    /\ \/ /\ touched \/ Holds(buckets[doomed])
          /\ lost' = [lost EXCEPT ![doomed] = buckets[doomed]]
          /\ wasted' = [wasted EXCEPT ![doomed] = @ + admitted[doomed]]
          /\ admitted' = [admitted EXCEPT ![doomed] = 0]
       \/ /\ ~touched /\ ~Holds(buckets[doomed])
          /\ UNCHANGED <<lost, wasted, admitted>>
    /\ doomed' = None
    /\ touched' = FALSE
    /\ UNCHANGED <<tokens, age, handlerVars, toVisit, elapsed>>

Sweep == BeginSweep \/ (\E ip \in IPs : Visit(ip)) \/ Evict

-----------------------------------------------------------------------------
\* A request of ip is about to spend from a bucket that is no longer its own.
Orphaned(ip) ==
    \E h \in Handlers : client[h] = ip /\ held[h] # None /\ held[h] # buckets[ip]

\* Time passes, every bucket earns a token, and requests may be counted anew.
\* A handler asks its bucket (the next statement) well before the bucket could
\* count as idle: minutes pass in the code.
Tick ==
    /\ \A h \in Handlers : held[h] # None => age[held[h]] + PerSecond < MaxAge
    /\ tokens' = [b \in Buckets |-> IF Fresh(b) \/ tokens[b] = PerSecond
                                    THEN PerSecond ELSE tokens[b] + 1]
    /\ age' = [b \in Buckets |-> CASE Fresh(b) -> 0
                                  [] ~Fresh(b) /\ age[b] > MaxAge -> age[b]
                                  [] OTHER -> age[b] + 1]
    /\ \/ /\ elapsed < PerSecond
          /\ elapsed' = elapsed + 1
          /\ UNCHANGED <<admitted, wasted, lost>>
       \/ /\ elapsed' = 0
          /\ admitted' = [ip \in IPs |-> 0] /\ wasted' = [ip \in IPs |-> 0]
          /\ lost' = [ip \in IPs |-> IF Orphaned(ip) THEN lost[ip] ELSE None]
    /\ UNCHANGED <<buckets, handlerVars, sweepVars, touched>>

-----------------------------------------------------------------------------
Next == \/ \E h \in Handlers : Handle(h) \/ \E ip \in IPs : Arrive(h, ip)
        \/ Sweep
        \/ Tick

Spec == Init /\ [][Next]_vars

\* Handlers and the sweep run, time passes; clients owe nothing.
FairSpec == /\ Spec
            /\ \A h \in Handlers : WF_vars(Handle(h))
            /\ \A ip \in IPs : WF_vars(Visit(ip))
            /\ WF_vars(BeginSweep) /\ WF_vars(Evict) /\ WF_vars(Tick)

-----------------------------------------------------------------------------
TypeOK ==
    /\ buckets \in [IPs -> Buckets \cup {None}]
    /\ tokens \in [Buckets -> 0..PerSecond]
    /\ age \in [Buckets -> 0..(MaxAge + 1)]
    /\ pc \in [Handlers -> {"idle", "store", "allow"}]
    /\ client \in [Handlers -> IPs \cup {None}]
    /\ held \in [Handlers -> Buckets \cup {None}]
    /\ toVisit \subseteq IPs
    /\ doomed \in IPs \cup {None}
    /\ elapsed \in 0..PerSecond
    /\ admitted \in [IPs -> Nat] /\ wasted \in [IPs -> Nat]
    /\ touched \in BOOLEAN
    /\ lost \in [IPs -> Buckets \cup {None}]

\* No bucket ever serves two clients, and requests of one client that are in
\* progress together share its bucket, unless the sweep took it from under them
\* (ratelimit.go:82-84: only one bucket even under concurrent first requests).
OneBucketPerClient ==
    \A g, h \in Handlers :
        pc[g] = "allow" /\ pc[h] = "allow" =>
            /\ client[g] = client[h] /\ lost[client[g]] = None => held[g] = held[h]
            /\ held[g] = held[h] => client[g] = client[h]

\* In any second a client gets no more than a full bucket and what the bucket
\* earns meanwhile, twice the configured rate, whatever is created, evicted and
\* created again, as long as the sweep deletes no bucket in use.
BudgetUnlessStale ==
    \A ip \in IPs : lost[ip] = None => admitted[ip] + wasted[ip] <= 2 * PerSecond

\* A lastSeen that is out of date when the bucket is deleted costs at most what
\* one bucket more can give: it cannot happen to a client twice in a second, nor
\* while requests still spend from the bucket it lost before.
StaleCostsOneBucket == \A ip \in IPs : admitted[ip] + wasted[ip] <= 4 * PerSecond

\* ratelimit.go:7-9: a client that never comes back does not keep its bucket.
Quiet(ip) == \A h \in Handlers : client[h] # ip
IdleIsEvicted == \A ip \in IPs : <>[]Quiet(ip) => <>[](buckets[ip] = None)
=============================================================================
