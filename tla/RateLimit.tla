----------------------------- MODULE RateLimit ------------------------------
(***************************************************************************)
(* internal/middleware in front of the public listener: a token bucket per  *)
(* rule and client, a cap on the buckets of a rule, a goroutine that drops   *)
(* idle buckets, and the recovery of panics.                                *)
(*                                                                          *)
(* One mutex guards the buckets.  allow reads the clock twice under it, once *)
(* for the bucket's last use and once inside the limiter, and time may pass  *)
(* in between.  The eviction loop compares with the time its tick was SENT,  *)
(* which is older than the moment it gets the lock.                         *)
(*                                                                          *)
(* golang.org/x/time/rate is external: a bucket refills continuously up to   *)
(* its burst.  A limiter is modelled by the time at which it will be full:   *)
(* a token costs Cost[rule] ticks of refill, an empty bucket takes           *)
(* Full(rule) ticks.                                                         *)
(***************************************************************************)
EXTENDS Integers, Sequences, FiniteSets

CONSTANTS
    Routes,             \* sequence of [method, paths]: cfg.Routes in order, a
                        \* prefix given by the paths that start with it
    Burst, Cost,        \* rule -> RateRule: burst, ticks of refill per token
    MaxBucketsPerRule,
    IdleEvictAfter,     \* in ticks
    TrustXFF,
    Requests,           \* [method, path, remote, xff] that clients send
    Clients,            \* bucket keys
    Null,               \* no bucket, no header, no tick, no caller
    Procs,              \* slots for concurrent calls
    MaxDelay,           \* bound: ticks between a call's two clock readings
    MaxLag,             \* bound: ticks between a ticker's send and the sweep
    MaxTime             \* bound: the clock stops here

\* Rule 0 is the default, the others are numbered as in Routes.
Rules == 0 .. Len(Routes)
Full(rule) == Burst[rule] * Cost[rule]

\* time.NewTicker(IdleEvictAfter / 2)
Interval == IdleEvictAfter \div 2

ASSUME RulesAssumption ==
    /\ Routes \in Seq([method : STRING, paths : SUBSET STRING])
    /\ Burst \in [Rules -> Nat \ {0}] /\ Cost \in [Rules -> Nat \ {0}]
ASSUME LimitsAssumption ==
    /\ MaxBucketsPerRule \in Nat \ {0} /\ IdleEvictAfter \in Nat /\ Interval > 0
    /\ MaxDelay \in Nat /\ MaxLag \in Nat /\ MaxTime \in Nat
    /\ TrustXFF \in BOOLEAN
\* A bucket is full again before it may be dropped: 2 s, 60 s, 60 s and 60 s
\* for the four rules of cmd/interchange against ten minutes.
ASSUME RefillAssumption ==
    \A rule \in Rules : Full(rule) + MaxDelay <= IdleEvictAfter
ASSUME RequestsAssumption ==
    /\ \A r \in Requests : /\ r.remote \in Clients
                           /\ r.xff \in Clients \cup {Null}
    /\ Null \notin Clients /\ Null \notin Procs /\ Null \notin Int
    /\ Null \notin [last : Nat, full : Nat]

VARIABLES
    clock,
    keyMap,    \* rule -> client -> bucket or Null
    mu,        \* the holder of the mutex, or Null
    call,      \* the calls on the public listener
    ticks,     \* the ticker's channel of capacity 1: a time or Null
    evictor,   \* the eviction goroutine
    stop,      \* is rl.stop closed?
    account    \* history: rule -> client -> a limiter that is never dropped

limiterVars == <<clock, keyMap, mu, call, ticks, evictor, stop, account>>

Bucket == [last : Nat, full : Nat]
Call == [pc : {"lock", "make", "take", "serve", "done"},
         rule : Rules, client : Clients \cup {Null}]
At(pc) == [pc |-> pc, rule |-> 0, client |-> Null]

\* rate.Limiter: may a limiter that is full at time f spend a token at t,
\* and when is it full again if it does.
Affords(rule, f, t) == f + Cost[rule] <= t + Full(rule)
Spent(rule, f, t) == (IF f > t THEN f ELSE t) + Cost[rule]

LimiterInit ==
    /\ clock = 0
    /\ keyMap = [rule \in Rules |-> [c \in Clients |-> Null]]
    /\ mu = Null
    /\ call = [p \in Procs |-> At("done")]
    /\ ticks = Null
    /\ evictor = [pc |-> "select", now |-> 0]
    /\ stop = FALSE
    /\ account = [rule \in Rules |-> [c \in Clients |-> 0]]

-----------------------------------------------------------------------------
(* A call passes the limiter. *)

\* The first route whose method (empty: any) and prefix match.
matchRule(r) ==
    LET hits == {i \in DOMAIN Routes :
                    /\ Routes[i].method \in {"", r.method}
                    /\ r.path \in Routes[i].paths} IN
    IF hits = {} THEN 0 ELSE CHOOSE i \in hits : \A j \in hits : i <= j

\* The first hop of X-Forwarded-For if that is trusted, else the peer.
clientIP(r) == IF TrustXFF /\ r.xff # Null THEN r.xff ELSE r.remote

BucketsOf(rule) == {c \in Clients : keyMap[rule][c] # Null}

\* A slot whose call is answered takes the next one.
arrive(p) ==
    /\ call[p].pc = "done"
    /\ \E r \in Requests :
          call' = [call EXCEPT ![p] =
                    [pc |-> "lock", rule |-> matchRule(r), client |-> clientIP(r)]]
    /\ UNCHANGED <<clock, keyMap, mu, ticks, evictor, stop, account>>

AtCap(rule) == Cardinality(BucketsOf(rule)) >= MaxBucketsPerRule

\* Mutant of allow: the mutex is given up between the look at the cap and the
\* insertion of the bucket.
allowUnlocked(p) ==
    /\ call[p].pc = "lock" /\ mu = Null
    /\ LET rule == call[p].rule
           c == call[p].client IN
       \/ /\ keyMap[rule][c] = Null /\ AtCap(rule)
          /\ call' = [call EXCEPT ![p] = At("done")]
          /\ UNCHANGED <<keyMap, mu>>
       \/ /\ keyMap[rule][c] = Null /\ ~AtCap(rule)
          /\ call' = [call EXCEPT ![p].pc = "make"]
          /\ UNCHANGED <<keyMap, mu>>
       \/ /\ keyMap[rule][c] # Null
          /\ keyMap' = [keyMap EXCEPT ![rule][c].last = clock]
          /\ call' = [call EXCEPT ![p].pc = "take"]
          /\ mu' = p
    /\ UNCHANGED <<clock, ticks, evictor, stop, account>>

\* allow takes the mutex and looks for the bucket: a new client is refused at
\* the cap and gets a bucket below it; a found bucket is used now.
allow(p) ==
    /\ call[p].pc = "lock" /\ mu = Null
    /\ LET rule == call[p].rule
           c == call[p].client IN
       \/ /\ keyMap[rule][c] = Null /\ AtCap(rule)
          /\ call' = [call EXCEPT ![p] = At("done")]
          /\ UNCHANGED <<keyMap, mu>>
       \/ /\ keyMap[rule][c] = Null /\ ~AtCap(rule)
          /\ call' = [call EXCEPT ![p].pc = "make"]
          /\ mu' = p
          /\ UNCHANGED keyMap
       \/ /\ keyMap[rule][c] # Null
          /\ keyMap' = [keyMap EXCEPT ![rule][c].last = clock]
          /\ call' = [call EXCEPT ![p].pc = "take"]
          /\ mu' = p
    /\ UNCHANGED <<clock, ticks, evictor, stop, account>>

\* The rest of allow for a new client: a full bucket, used now, joins the
\* rule's map.
makeBucket(p) ==
    /\ call[p].pc = "make"
    /\ keyMap' = [keyMap EXCEPT ![call[p].rule][call[p].client] =
                    [last |-> clock, full |-> clock]]
    /\ call' = [call EXCEPT ![p].pc = "take"]
    /\ UNCHANGED <<clock, mu, ticks, evictor, stop, account>>

\* Mutant of take: a refused call keeps the mutex.
takeLocked(p) ==
    /\ call[p].pc = "take"
    /\ LET rule == call[p].rule
           c == call[p].client
           f == keyMap[rule][c].full IN
       \/ /\ Affords(rule, f, clock)
          /\ keyMap' = [keyMap EXCEPT ![rule][c].full = Spent(rule, f, clock)]
          /\ account' = [account EXCEPT ![rule][c] = Spent(rule, @, clock)]
          /\ call' = [call EXCEPT ![p] = At("serve")]
          /\ mu' = Null
       \/ /\ ~Affords(rule, f, clock)
          /\ call' = [call EXCEPT ![p] = At("done")]
          /\ UNCHANGED <<keyMap, account, mu>>
    /\ UNCHANGED <<clock, ticks, evictor, stop>>

\* Mutant of take: a refused call is charged as well.
takeCharging(p) ==
    /\ call[p].pc = "take"
    /\ LET rule == call[p].rule
           c == call[p].client
           f == keyMap[rule][c].full IN
       /\ keyMap' = [keyMap EXCEPT ![rule][c].full = Spent(rule, f, clock)]
       /\ \/ /\ Affords(rule, f, clock)
             /\ account' = [account EXCEPT ![rule][c] = Spent(rule, @, clock)]
             /\ call' = [call EXCEPT ![p] = At("serve")]
          \/ /\ ~Affords(rule, f, clock)
             /\ call' = [call EXCEPT ![p] = At("done")]
             /\ UNCHANGED account
    /\ mu' = Null
    /\ UNCHANGED <<clock, ticks, evictor, stop>>

\* b.limiter.Allow() with its own reading of the clock; the mutex released.
\* A refusal leaves the limiter as it is.
take(p) ==
    /\ call[p].pc = "take"
    /\ LET rule == call[p].rule
           c == call[p].client
           f == keyMap[rule][c].full IN
       \/ /\ Affords(rule, f, clock)
          /\ keyMap' = [keyMap EXCEPT ![rule][c].full = Spent(rule, f, clock)]
          /\ account' = [account EXCEPT ![rule][c] = Spent(rule, @, clock)]
          /\ call' = [call EXCEPT ![p] = At("serve")]
       \/ /\ ~Affords(rule, f, clock)
          /\ call' = [call EXCEPT ![p] = At("done")]
          /\ UNCHANGED <<keyMap, account>>
    /\ mu' = Null
    /\ UNCHANGED <<clock, ticks, evictor, stop>>

\* next.ServeHTTP answers; if it panics, Recover answers 500.
serve(p) ==
    /\ call[p].pc = "serve"
    /\ call' = [call EXCEPT ![p] = At("done")]
    /\ UNCHANGED <<clock, keyMap, mu, ticks, evictor, stop, account>>

-----------------------------------------------------------------------------
(* The eviction loop. *)

evictRecv ==
    /\ evictor.pc = "select" /\ ticks # Null
    /\ evictor' = [pc |-> "lock", now |-> ticks]
    /\ ticks' = Null
    /\ UNCHANGED <<clock, keyMap, mu, call, stop, account>>

\* Mutant of Expired: the ticker's period for the idle time.
ExpiredTooSoon(b, now) == b # Null /\ now - b.last > Interval

Expired(b, now) == b # Null /\ now - b.last > IdleEvictAfter

\* Mutant of evictSweep: only one rule is visited.
evictSweepDefault ==
    /\ evictor.pc = "lock" /\ mu = Null
    /\ keyMap' = [keyMap EXCEPT ![0] = [c \in Clients |->
            IF Expired(@[c], evictor.now) THEN Null ELSE @[c]]]
    /\ evictor' = [pc |-> "select", now |-> 0]
    /\ UNCHANGED <<clock, mu, call, ticks, stop, account>>

\* The whole map is swept under the mutex; a rule without buckets is as if
\* its map were deleted.
evictSweep ==
    /\ evictor.pc = "lock" /\ mu = Null
    /\ keyMap' = [rule \in Rules |-> [c \in Clients |->
            IF Expired(keyMap[rule][c], evictor.now) THEN Null
            ELSE keyMap[rule][c]]]
    /\ evictor' = [pc |-> "select", now |-> 0]
    /\ UNCHANGED <<clock, mu, call, ticks, stop, account>>

\* select takes either ready case.
evictStop ==
    /\ evictor.pc = "select" /\ stop
    /\ evictor' = [pc |-> "stopped", now |-> 0]
    /\ UNCHANGED <<clock, keyMap, mu, call, ticks, stop, account>>

\* The shutdown function: close(rl.stop).
rateShutdown ==
    /\ ~stop
    /\ stop' = TRUE
    /\ UNCHANGED <<clock, keyMap, mu, call, ticks, evictor, account>>

\* Time passes.  The runtime sends the time to the ticker's channel unless
\* the last tick is still in it.  The scheduling bounds: a call that holds
\* the mutex gets its token within MaxDelay; a tick is swept within MaxLag.
LimiterTick ==
    /\ clock < MaxTime
    /\ \A p \in Procs :
          call[p].pc = "take" =>
              clock < keyMap[call[p].rule][call[p].client].last + MaxDelay
    /\ ticks # Null /\ evictor.pc # "stopped" => clock < ticks + MaxLag
    /\ evictor.pc = "lock" => clock < evictor.now + MaxLag
    /\ clock' = clock + 1
    /\ ticks' = IF (clock + 1) % Interval = 0 /\ ticks = Null
                   /\ evictor.pc # "stopped"
                THEN clock + 1 ELSE ticks
    /\ UNCHANGED <<keyMap, mu, call, evictor, stop, account>>

LimiterCall(p) ==
    arrive(p) \/ allow(p) \/ makeBucket(p) \/ take(p) \/ serve(p)

LimiterNext ==
    \/ \E p \in Procs : LimiterCall(p)
    \/ evictRecv \/ evictSweep \/ evictStop \/ rateShutdown
    \/ LimiterTick

LimiterSpec == LimiterInit /\ [][LimiterNext]_limiterVars

-----------------------------------------------------------------------------
(* Properties. *)

\* Type invariant of the limiter; whoever holds the mutex is between its look
\* for a bucket and the limiter's answer.
LimiterTypeOK ==
    /\ clock \in Nat
    /\ keyMap \in [Rules -> [Clients -> Bucket \cup {Null}]]
    /\ mu \in Procs \cup {Null}
    /\ \A p \in Procs : mu = p => call[p].pc \in {"make", "take"}
    /\ call \in [Procs -> Call]
    /\ ticks \in Nat \cup {Null}
    /\ evictor \in [pc : {"select", "lock", "stopped"}, now : Nat]
    /\ stop \in BOOLEAN
    /\ account \in [Rules -> [Clients -> Nat]]

\* Buckets are dropped and made anew with a full burst, by a loop whose idea
\* of the time is old, while calls use them.  Still no client is ever served
\* beyond one burst and its refill: its account, which every served call is
\* charged to and which is never dropped, is never overdrawn.
NeverOverspent ==
    \A rule \in Rules, c \in Clients : account[rule][c] <= clock + Full(rule)

\* A client is told 429 by its bucket only when its account is empty: no
\* other client, rule or dropped bucket uses up its tokens.
RefusedWhenEmpty ==
    [][\A p \in Procs :
         (call[p].pc = "take" /\ call'[p].pc = "done") =>
            ~Affords(call[p].rule, account[call[p].rule][call[p].client],
                     clock)]_limiterVars

\* The cap of a rule holds although every call looks at the size of the map in
\* one step and adds its bucket in a later one, while other calls do the same
\* and the eviction loop empties the map.
WithinCap ==
    \A rule \in Rules : Cardinality(BucketsOf(rule)) <= MaxBucketsPerRule

\* A rule at its cap refuses new clients, so idle buckets must go: while the
\* loop runs, a bucket outlives its last use by the idle time, two periods of
\* the ticker (a tick may be lost to a full channel) and the loop's lag.
IdleBucketsGo ==
    evictor.pc # "stopped" =>
        \A rule \in Rules, c \in Clients :
            keyMap[rule][c] # Null =>
                clock <= keyMap[rule][c].last + IdleEvictAfter
                            + 2 * Interval + MaxLag
=============================================================================
