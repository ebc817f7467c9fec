-------------------------- MODULE RateLimitProofs ---------------------------
(***************************************************************************)
(* The limiter's guarantees, for any rules, clients, requests and bounds.   *)
(*                                                                          *)
(* Safe ties a bucket to the account of its client: while the bucket lives,  *)
(* the two limiters answer alike; when it is absent the account is full, so  *)
(* that a new bucket's full burst is nothing the client did not have.  That  *)
(* an evicted bucket is full again needs the bound on b.full, which needs    *)
(* the bound on a call's time under the mutex.                              *)
(*                                                                          *)
(* Prompt counts the periods of the ticker that a bucket has survived.      *)
(***************************************************************************)
EXTENDS RateLimit, NatLemmas, FiniteSetTheorems, TLAPS

\* A call that goes to the mutex has a client.  Between its look for a bucket
\* and the limiter's answer it holds the mutex: it still has no bucket, or one
\* whose last use is at most MaxDelay old.
CallShape ==
    \A p \in Procs :
        /\ call[p].pc \in {"lock", "make", "take"} => call[p].client \in Clients
        /\ call[p].pc \in {"make", "take"} => mu = p
        /\ call[p].pc = "make" => keyMap[call[p].rule][call[p].client] = Null
        /\ call[p].pc = "take" =>
              /\ keyMap[call[p].rule][call[p].client] # Null
              /\ clock <= keyMap[call[p].rule][call[p].client].last + MaxDelay

\* No tick lies in the future.
TicksPast ==
    /\ ticks # Null => ticks <= clock
    /\ evictor.now <= clock

\* A limiter that is full at f and one that is full at g answer alike from
\* time t on.
Alike(f, g, t) == f = g \/ (f <= t /\ g <= t)

\* The bucket b, or its absence, against the account a of its client.
Matches(rule, b, a, t) ==
    IF b = Null THEN a <= t
    ELSE /\ b.last <= t
         /\ b.full <= b.last + MaxDelay + Full(rule)
         /\ Alike(b.full, a, t)

Accounts ==
    \A rule \in Rules, c \in Clients :
        Matches(rule, keyMap[rule][c], account[rule][c], clock)

Safe == LimiterTypeOK /\ CallShape /\ TicksPast /\ Accounts /\ NeverOverspent

\* The buckets of a rule can be counted, and the cap holds.  What a call saw of
\* the cap is still so when it adds its bucket.
Counted ==
    /\ WithinCap
    /\ \A p \in Procs : call[p].pc = "make" => ~AtCap(call[p].rule)
    /\ \A rule \in Rules : IsFiniteSet(BucketsOf(rule))

\* The last multiple of the period, and whether a tick of time t is in the
\* channel or in the hands of the loop.
Due == clock - (clock % Interval)
Pending(t) == ticks = t \/ (evictor.pc = "lock" /\ evictor.now = t)

\* How many periods of the ticker the pending ticks let a bucket survive.
Allowance ==
    IF Pending(Due - Interval) THEN 3 * Interval
    ELSE IF Pending(Due) THEN 2 * Interval ELSE Interval

\* A pending tick is the last one or the one before, and within the lag.
\* Every bucket has survived at most the periods that the pending ticks allow.
Prompt ==
    evictor.pc # "stopped" =>
        /\ ticks # Null => /\ ticks \in {Due, Due - Interval}
                           /\ clock <= ticks + MaxLag
        /\ evictor.pc = "lock" => /\ evictor.now \in {Due, Due - Interval}
                                  /\ clock <= evictor.now + MaxLag
        /\ \A rule \in Rules, c \in Clients :
              keyMap[rule][c] # Null =>
                  Due <= keyMap[rule][c].last + IdleEvictAfter + Allowance

-----------------------------------------------------------------------------
(* The operators. *)

\* A rule's numbers: a token costs no more than the whole burst, and a bucket
\* that was emptied MaxDelay after its last use is full when it may be dropped.
LEMMA RuleFacts ==
    ASSUME NEW rule \in Rules
    PROVE  /\ Cost[rule] \in Nat \ {0} /\ Full(rule) \in Nat
           /\ Cost[rule] <= Full(rule)
           /\ Full(rule) + MaxDelay <= IdleEvictAfter
<1>1. Cost[rule] \in Nat \ {0} /\ Burst[rule] \in Nat \ {0}
  BY RulesAssumption
<1>2. \A a, b \in Nat \ {0} : a * b \in Nat /\ b <= a * b
  OBVIOUS
<1>3. Full(rule) \in Nat /\ Cost[rule] <= Full(rule)
  BY <1>1, <1>2 DEF Full
<1> QED BY <1>1, <1>3, RefillAssumption

\* matchRule's first matching route is a rule.
LEMMA matchRuleType == \A r \in Requests : matchRule(r) \in Rules
<1> TAKE r \in Requests
<1> DEFINE hits == {i \in DOMAIN Routes : /\ Routes[i].method \in {"", r.method}
                                          /\ r.path \in Routes[i].paths}
<1>1. DOMAIN Routes = 1 .. Len(Routes) /\ Len(Routes) \in Nat
  BY RulesAssumption
<1>2. hits \in SUBSET Nat /\ \A i \in hits : i \in Rules
  <2>1. hits \subseteq 1 .. Len(Routes) BY <1>1
  <2>2. \A i \in 1 .. Len(Routes) : i \in Nat /\ i \in Rules
    BY <1>1 DEF Rules
  <2> QED BY <2>1, <2>2
<1>3. 0 \in Rules
  BY <1>1 DEF Rules
<1> HIDE DEF hits
<1>4. ASSUME hits # {}
      PROVE  (CHOOSE i \in hits : \A j \in hits : i <= j) \in hits
  BY <1>2, <1>4, HasMin
<1>5. (IF hits = {} THEN 0 ELSE CHOOSE i \in hits : \A j \in hits : i <= j)
          \in Rules
  BY <1>2, <1>3, <1>4
<1> QED BY <1>5 DEF matchRule, hits

\* clientIP's key is a client.
LEMMA clientIPType == \A r \in Requests : clientIP(r) \in Clients
BY RequestsAssumption DEF clientIP

\* A call that is served or answered.
LEMMA AtType == At("serve") \in Call /\ At("done") \in Call
<1>1. 0 \in Rules
  BY RulesAssumption DEF Rules
<1> QED BY <1>1 DEF At, Call

\* A bucket is never Null, and its fields are times.
LEMMA BucketFacts ==
    ASSUME NEW b \in Bucket
    PROVE  b # Null /\ b.last \in Nat /\ b.full \in Nat
BY RequestsAssumption DEF Bucket

\* What a served call spends: two limiters that answer alike at t do so after
\* both are charged, and neither is overdrawn.
LEMMA SpentFacts ==
    ASSUME NEW rule \in Rules, NEW f \in Nat, NEW g \in Nat, NEW t \in Nat
    PROVE  /\ Spent(rule, f, t) \in Nat
           /\ Affords(rule, f, t) => Spent(rule, f, t) <= t + Full(rule)
           /\ Alike(f, g, t) => /\ Spent(rule, f, t) = Spent(rule, g, t)
                                /\ Affords(rule, f, t) = Affords(rule, g, t)
<1>1. Cost[rule] \in Nat /\ Full(rule) \in Nat /\ Cost[rule] <= Full(rule)
  BY RuleFacts
<1>2. Spent(rule, f, t) \in Nat
  BY <1>1 DEF Spent
<1>3. ASSUME Affords(rule, f, t) PROVE Spent(rule, f, t) <= t + Full(rule)
  BY <1>1, <1>3 DEF Spent, Affords
<1>4. ASSUME Alike(f, g, t)
      PROVE  /\ Spent(rule, f, t) = Spent(rule, g, t)
             /\ Affords(rule, f, t) = Affords(rule, g, t)
  BY <1>1, <1>4 DEF Spent, Affords, Alike
<1> QED BY <1>2, <1>3, <1>4

-----------------------------------------------------------------------------
(* The accounts. *)

\* Updating one entry of a two-level map.
LEMMA Update2 ==
    ASSUME NEW A, NEW B, NEW C, NEW f \in [A -> [B -> C]],
           NEW a \in A, NEW b \in B, NEW v \in C,
           NEW g, g = [f EXCEPT ![a][b] = v]
    PROVE  /\ g \in [A -> [B -> C]]
           /\ \A x \in A, y \in B :
                 g[x][y] = IF x = a /\ y = b THEN v ELSE f[x][y]
OBVIOUS

\* What take does: the caller's bucket and account are charged alike, or
\* nothing is.
LEMMA TakeStep ==
    ASSUME Safe, NEW p \in Procs, take(p)
    PROVE  \E rule \in Rules, c \in Clients, b \in Bucket, nb \in Bucket,
              a \in Nat :
           /\ rule = call[p].rule /\ c = call[p].client
           /\ b = keyMap[rule][c] /\ a = account[rule][c]
           /\ clock <= b.last + MaxDelay
           /\ nb.last = b.last /\ nb.full = Spent(rule, b.full, clock)
           /\ Spent(rule, a, clock) \in Nat
           /\ \/ /\ Affords(rule, b.full, clock)
                 /\ keyMap' = [keyMap EXCEPT ![rule][c] = nb]
                 /\ account' = [account EXCEPT ![rule][c] = Spent(rule, a, clock)]
                 /\ call' = [call EXCEPT ![p] = At("serve")]
              \/ /\ ~Affords(rule, b.full, clock)
                 /\ UNCHANGED <<keyMap, account>>
                 /\ call' = [call EXCEPT ![p] = At("done")]
<1>0. PICK rule, c, f : /\ rule = call[p].rule /\ c = call[p].client
                        /\ f = keyMap[rule][c].full
  OBVIOUS
<1>1. call[p].pc = "take" BY DEF take
<1>2. rule \in Rules BY <1>0 DEF Safe, LimiterTypeOK, Call
<1>3. /\ c \in Clients /\ keyMap[rule][c] # Null
      /\ clock <= keyMap[rule][c].last + MaxDelay
  BY <1>0, <1>1 DEF Safe, CallShape
<1> USE <1>2, <1>3
<1>4. PICK b \in Bucket : b = keyMap[rule][c]
  BY <1>2, <1>3 DEF Safe, LimiterTypeOK
<1>5. PICK a \in Nat : a = account[rule][c]
  BY <1>2, <1>3 DEF Safe, LimiterTypeOK
<1>6. clock \in Nat /\ f \in Nat /\ f = b.full
  BY <1>0, <1>4, BucketFacts DEF Safe, LimiterTypeOK
<1>7. Spent(rule, f, clock) \in Nat /\ Spent(rule, a, clock) \in Nat
  BY <1>2, <1>6, SpentFacts
<1>8. PICK nb \in Bucket : nb = [b EXCEPT !.full = Spent(rule, f, clock)]
  BY <1>7 DEF Bucket
<1>9. nb.last = b.last /\ nb.full = Spent(rule, f, clock)
  BY <1>8 DEF Bucket
<1>10. \/ /\ Affords(rule, f, clock)
          /\ keyMap' = [keyMap EXCEPT ![rule][c].full = Spent(rule, f, clock)]
          /\ account' = [account EXCEPT ![rule][c] = Spent(rule, @, clock)]
          /\ call' = [call EXCEPT ![p] = At("serve")]
       \/ /\ ~Affords(rule, f, clock)
          /\ call' = [call EXCEPT ![p] = At("done")]
          /\ UNCHANGED <<keyMap, account>>
  BY <1>0 DEF take
<1>11. [keyMap EXCEPT ![rule][c].full = Spent(rule, f, clock)]
         = [keyMap EXCEPT ![rule][c] = nb]
  BY <1>4, <1>8
<1>12. [account EXCEPT ![rule][c] = Spent(rule, @, clock)]
         = [account EXCEPT ![rule][c] = Spent(rule, a, clock)]
  BY <1>5
<1>13. \/ /\ Affords(rule, b.full, clock)
          /\ keyMap' = [keyMap EXCEPT ![rule][c] = nb]
          /\ account' = [account EXCEPT ![rule][c] = Spent(rule, a, clock)]
          /\ call' = [call EXCEPT ![p] = At("serve")]
       \/ /\ ~Affords(rule, b.full, clock)
          /\ UNCHANGED <<keyMap, account>>
          /\ call' = [call EXCEPT ![p] = At("done")]
  BY <1>6, <1>10, <1>11, <1>12
<1>14. rule = call[p].rule /\ c = call[p].client BY <1>0
<1>15. clock <= b.last + MaxDelay BY <1>3, <1>4
<1>16. nb.last = b.last /\ nb.full = Spent(rule, b.full, clock) BY <1>6, <1>9
<1> WITNESS rule \in Rules, c \in Clients, b \in Bucket, nb \in Bucket, a \in Nat
<1> QED BY <1>4, <1>5, <1>7, <1>13, <1>14, <1>15, <1>16

\* What allow does: it refuses, goes on to make a bucket, or uses the one it
\* found.
LEMMA AllowStep ==
    ASSUME Safe, NEW p \in Procs, allow(p)
    PROVE  \E rule \in Rules, c \in Clients, nb \in Bucket :
           /\ rule = call[p].rule /\ c = call[p].client
           /\ nb.last = clock
           /\ keyMap[rule][c] # Null => nb.full = keyMap[rule][c].full
           /\ \/ /\ call' = [call EXCEPT ![p] = At("done")]
                 /\ UNCHANGED <<keyMap, mu>>
              \/ /\ keyMap[rule][c] = Null /\ ~AtCap(rule)
                 /\ keyMap' = keyMap /\ mu' = p
                 /\ call' = [call EXCEPT ![p].pc = "make"]
              \/ /\ keyMap[rule][c] # Null
                 /\ keyMap' = [keyMap EXCEPT ![rule][c] = nb]
                 /\ mu' = p
                 /\ call' = [call EXCEPT ![p].pc = "take"]
<1>0. PICK rule, c : rule = call[p].rule /\ c = call[p].client
  OBVIOUS
<1>1. call[p].pc = "lock" BY DEF allow
<1>2. rule \in Rules /\ c \in Clients
  BY <1>0, <1>1 DEF Safe, LimiterTypeOK, Call, CallShape
<1>3. PICK old \in Bucket \cup {Null} : old = keyMap[rule][c]
  BY <1>2 DEF Safe, LimiterTypeOK
<1>4. PICK nb : nb = IF old = Null THEN [last |-> clock, full |-> clock]
                     ELSE [old EXCEPT !.last = clock]
  OBVIOUS
<1>5. /\ nb \in Bucket /\ nb.last = clock
      /\ old # Null => nb.full = old.full
  BY <1>3, <1>4 DEF Safe, LimiterTypeOK, Bucket
<1>6. \/ /\ call' = [call EXCEPT ![p] = At("done")]
         /\ UNCHANGED <<keyMap, mu>>
      \/ /\ keyMap[rule][c] = Null /\ ~AtCap(rule)
         /\ keyMap' = keyMap /\ mu' = p
         /\ call' = [call EXCEPT ![p].pc = "make"]
      \/ /\ keyMap[rule][c] # Null
         /\ keyMap' = [keyMap EXCEPT ![rule][c].last = clock]
         /\ mu' = p
         /\ call' = [call EXCEPT ![p].pc = "take"]
  BY <1>0 DEF allow
<1>7. old # Null => [keyMap EXCEPT ![rule][c].last = clock]
                      = [keyMap EXCEPT ![rule][c] = nb]
  BY <1>3, <1>4
<1> QED BY <1>0, <1>2, <1>3, <1>5, <1>6, <1>7

\* What makeBucket does: a full bucket, used now, where there was none.
LEMMA MakeStep ==
    ASSUME Safe, NEW p \in Procs, makeBucket(p)
    PROVE  \E rule \in Rules, c \in Clients, nb \in Bucket :
           /\ rule = call[p].rule /\ c = call[p].client
           /\ keyMap[rule][c] = Null
           /\ nb.last = clock /\ nb.full = clock
           /\ keyMap' = [keyMap EXCEPT ![rule][c] = nb]
           /\ call' = [call EXCEPT ![p].pc = "take"]
           /\ mu = p
<1>0. PICK rule, c : rule = call[p].rule /\ c = call[p].client
  OBVIOUS
<1>1. call[p].pc = "make" BY DEF makeBucket
<1>2. rule \in Rules /\ c \in Clients /\ keyMap[rule][c] = Null /\ mu = p
  BY <1>0, <1>1 DEF Safe, LimiterTypeOK, Call, CallShape
<1>3. PICK nb : nb = [last |-> clock, full |-> clock]
  OBVIOUS
<1>4. nb \in Bucket /\ nb.last = clock /\ nb.full = clock
  BY <1>3 DEF Safe, LimiterTypeOK, Bucket
<1>5. /\ keyMap' = [keyMap EXCEPT ![rule][c] = nb]
      /\ call' = [call EXCEPT ![p].pc = "take"]
  BY <1>0, <1>3 DEF makeBucket
<1> QED BY <1>0, <1>2, <1>4, <1>5

\* The type invariant and the shape of the calls are preserved.
LEMMA TypeInductive ==
    ASSUME Safe, [LimiterNext]_limiterVars
    PROVE  LimiterTypeOK'
<1>1. ASSUME NEW p \in Procs, arrive(p) PROVE LimiterTypeOK'
  <2>1. PICK r \in Requests : call' = [call EXCEPT ![p] =
                    [pc |-> "lock", rule |-> matchRule(r), client |-> clientIP(r)]]
    BY <1>1 DEF arrive
  <2>2. [pc |-> "lock", rule |-> matchRule(r), client |-> clientIP(r)] \in Call
    BY matchRuleType, clientIPType DEF Call
  <2>3. call' \in [Procs -> Call] BY <2>1, <2>2 DEF Safe, LimiterTypeOK
  <2>4. \A q \in Procs : mu' = q => call'[q].pc \in {"make", "take"}
    BY <1>1, <2>1 DEF arrive, Safe, LimiterTypeOK
  <2> QED BY <1>1, <2>3, <2>4 DEF arrive, Safe, LimiterTypeOK
<1>2. ASSUME NEW p \in Procs, allow(p) PROVE LimiterTypeOK'
  <2>1. PICK rule \in Rules, c \in Clients, nb \in Bucket :
            \/ /\ call' = [call EXCEPT ![p] = At("done")]
               /\ UNCHANGED <<keyMap, mu>>
            \/ /\ keyMap' = keyMap
               /\ mu' = p
               /\ call' = [call EXCEPT ![p].pc = "make"]
            \/ /\ keyMap' = [keyMap EXCEPT ![rule][c] = nb]
               /\ mu' = p
               /\ call' = [call EXCEPT ![p].pc = "take"]
    BY <1>2, AllowStep
  <2>2. mu = Null /\ UNCHANGED <<clock, ticks, evictor, stop, account>>
    BY <1>2 DEF allow
  <2>3. call \in [Procs -> Call] BY DEF Safe, LimiterTypeOK
  <2>4. /\ [call[p] EXCEPT !.pc = "take"] \in Call
        /\ [call[p] EXCEPT !.pc = "make"] \in Call
    BY <2>3 DEF Call
  <2>5. call' \in [Procs -> Call]
    BY <2>1, <2>3, <2>4, AtType
  <2>6. keyMap' \in [Rules -> [Clients -> Bucket \cup {Null}]]
    <3>1. keyMap \in [Rules -> [Clients -> Bucket \cup {Null}]]
      BY DEF Safe, LimiterTypeOK
    <3>2. CASE keyMap' = [keyMap EXCEPT ![rule][c] = nb]
      BY <3>1, <3>2, Update2
    <3> QED BY <2>1, <3>1, <3>2
  <2>7. mu' \in Procs \cup {Null}
        /\ \A q \in Procs : mu' = q => call'[q].pc \in {"make", "take"}
    <3>1. CASE mu' = mu
      BY <2>2, <3>1, RequestsAssumption
    <3>2. CASE mu' = p /\ \/ call' = [call EXCEPT ![p].pc = "make"]
                          \/ call' = [call EXCEPT ![p].pc = "take"]
      <4>1. call'[p].pc \in {"make", "take"}
        BY <2>3, <3>2 DEF Call
      <4> QED BY <3>2, <4>1
    <3> QED BY <2>1, <3>1, <3>2
  <2> QED BY <2>2, <2>5, <2>6, <2>7 DEF Safe, LimiterTypeOK
<1>10. ASSUME NEW p \in Procs, makeBucket(p) PROVE LimiterTypeOK'
  <2>1. PICK rule \in Rules, c \in Clients, nb \in Bucket :
            /\ keyMap' = [keyMap EXCEPT ![rule][c] = nb]
            /\ call' = [call EXCEPT ![p].pc = "take"]
            /\ mu = p
    BY <1>10, MakeStep
  <2>2. UNCHANGED <<clock, mu, ticks, evictor, stop, account>>
    BY <1>10 DEF makeBucket
  <2>3. call \in [Procs -> Call] BY DEF Safe, LimiterTypeOK
  <2>4. [call[p] EXCEPT !.pc = "take"] \in Call BY <2>3 DEF Call
  <2>5. call' \in [Procs -> Call] /\ call'[p].pc = "take"
    BY <2>1, <2>3, <2>4 DEF Call
  <2>6. keyMap' \in [Rules -> [Clients -> Bucket \cup {Null}]]
    BY <2>1, Update2 DEF Safe, LimiterTypeOK
  <2>7. \A q \in Procs : mu' = q => call'[q].pc \in {"make", "take"}
    BY <2>1, <2>2, <2>5
  <2> QED BY <2>2, <2>5, <2>6, <2>7 DEF Safe, LimiterTypeOK
<1>3. ASSUME NEW p \in Procs, take(p) PROVE LimiterTypeOK'
  <2>1. PICK rule \in Rules, c \in Clients, nb \in Bucket, n \in Nat :
            \/ /\ keyMap' = [keyMap EXCEPT ![rule][c] = nb]
               /\ account' = [account EXCEPT ![rule][c] = n]
               /\ call' = [call EXCEPT ![p] = At("serve")]
            \/ /\ UNCHANGED <<keyMap, account>>
               /\ call' = [call EXCEPT ![p] = At("done")]
    <3>1. PICK rule \in Rules, c \in Clients, nb \in Bucket, a \in Nat :
            /\ Spent(rule, a, clock) \in Nat
            /\ \/ /\ keyMap' = [keyMap EXCEPT ![rule][c] = nb]
                  /\ account' = [account EXCEPT ![rule][c] = Spent(rule, a, clock)]
                  /\ call' = [call EXCEPT ![p] = At("serve")]
               \/ /\ UNCHANGED <<keyMap, account>>
                  /\ call' = [call EXCEPT ![p] = At("done")]
      BY <1>3, TakeStep
    <3> Spent(rule, a, clock) \in Nat BY <3>1
    <3> WITNESS rule \in Rules, c \in Clients, nb \in Bucket,
                Spent(rule, a, clock) \in Nat
    <3> QED BY <3>1
  <2>2. /\ call[p].pc = "take" /\ mu' = Null
        /\ UNCHANGED <<clock, ticks, evictor, stop>>
    BY <1>3 DEF take
  <2>3. keyMap' \in [Rules -> [Clients -> Bucket \cup {Null}]]
    <3>1. keyMap \in [Rules -> [Clients -> Bucket \cup {Null}]]
      BY DEF Safe, LimiterTypeOK
    <3>2. CASE keyMap' = [keyMap EXCEPT ![rule][c] = nb]
      BY <3>1, <3>2, Update2
    <3> QED BY <2>1, <3>1, <3>2
  <2>4. account' \in [Rules -> [Clients -> Nat]]
    <3>1. account \in [Rules -> [Clients -> Nat]]
      BY DEF Safe, LimiterTypeOK
    <3>2. CASE account' = [account EXCEPT ![rule][c] = n]
      BY <3>1, <3>2, Update2
    <3> QED BY <2>1, <3>1, <3>2
  <2>5. call' \in [Procs -> Call]
    BY <2>1, AtType DEF Safe, LimiterTypeOK
  <2>6. \A q \in Procs : mu' = q => call'[q].pc \in {"make", "take"}
    BY <2>2, RequestsAssumption
  <2> QED BY <2>2, <2>3, <2>4, <2>5, <2>6 DEF Safe, LimiterTypeOK
<1>4. ASSUME NEW p \in Procs, serve(p) PROVE LimiterTypeOK'
  <2>1. call' \in [Procs -> Call]
    BY <1>4, AtType DEF serve, Safe, LimiterTypeOK
  <2>2. \A q \in Procs : mu' = q => call'[q].pc \in {"make", "take"}
    BY <1>4 DEF serve, Safe, LimiterTypeOK, At
  <2> QED BY <1>4, <2>1, <2>2 DEF serve, Safe, LimiterTypeOK
<1>5. CASE evictRecv
  BY <1>5 DEF evictRecv, Safe, LimiterTypeOK
<1>6. CASE evictSweep
  <2>1. keyMap' \in [Rules -> [Clients -> Bucket \cup {Null}]]
    BY <1>6 DEF evictSweep, Safe, LimiterTypeOK
  <2> QED BY <1>6, <2>1 DEF evictSweep, Safe, LimiterTypeOK
<1>7. CASE evictStop \/ rateShutdown
  <2>1. CASE evictStop BY <2>1 DEF evictStop, Safe, LimiterTypeOK
  <2>2. CASE rateShutdown BY <2>2 DEF rateShutdown, Safe, LimiterTypeOK
  <2> QED BY <1>7, <2>1, <2>2
<1>8. CASE LimiterTick
  <2>1. clock' \in Nat /\ ticks' \in Nat \cup {Null}
    BY <1>8 DEF LimiterTick, Safe, LimiterTypeOK
  <2> QED BY <1>8, <2>1 DEF LimiterTick, Safe, LimiterTypeOK
<1>9. CASE UNCHANGED limiterVars
  BY <1>9 DEF limiterVars, Safe, LimiterTypeOK
<1> QED BY <1>1, <1>2, <1>3, <1>4, <1>5, <1>6, <1>7, <1>8, <1>9, <1>10
        DEF LimiterNext, LimiterCall

\* The mutex keeps a call's bucket, and the time it has, from everyone else.
LEMMA ShapeInductive ==
    ASSUME Safe, [LimiterNext]_limiterVars, LimiterTypeOK'
    PROVE  CallShape'
<1> SUFFICES ASSUME NEW q \in Procs
             PROVE  LET nb == keyMap'[call'[q].rule][call'[q].client] IN
                    /\ call'[q].pc \in {"lock", "make", "take"} =>
                          call'[q].client \in Clients
                    /\ call'[q].pc \in {"make", "take"} => mu' = q
                    /\ call'[q].pc = "make" => nb = Null
                    /\ call'[q].pc = "take" =>
                          nb # Null /\ clock' <= nb.last + MaxDelay
  BY DEF CallShape
<1> DEFINE b == keyMap[call[q].rule][call[q].client]
           Goal == LET nb == keyMap'[call'[q].rule][call'[q].client] IN
                   /\ call'[q].pc \in {"lock", "make", "take"} =>
                         call'[q].client \in Clients
                   /\ call'[q].pc \in {"make", "take"} => mu' = q
                   /\ call'[q].pc = "make" => nb = Null
                   /\ call'[q].pc = "take" =>
                         nb # Null /\ clock' <= nb.last + MaxDelay
<1>0. /\ call[q].pc \in {"lock", "make", "take"} => call[q].client \in Clients
      /\ call[q].pc \in {"make", "take"} => mu = q
      /\ call[q].pc = "make" => b = Null
      /\ call[q].pc = "take" => b # Null /\ clock <= b.last + MaxDelay
      /\ call[q] \in Call /\ call \in [Procs -> Call]
      /\ MaxDelay \in Nat /\ clock \in Nat
  BY LimitsAssumption DEF Safe, CallShape, LimiterTypeOK
<1>1. ASSUME NEW p \in Procs, arrive(p) PROVE Goal
  <2>1. PICK r \in Requests : call' = [call EXCEPT ![p] =
                    [pc |-> "lock", rule |-> matchRule(r), client |-> clientIP(r)]]
    BY <1>1 DEF arrive
  <2>2. CASE p = q BY <1>0, <2>1, <2>2, clientIPType
  <2>3. CASE p # q
    <3>1. call'[q] = call[q] /\ UNCHANGED <<keyMap, clock, mu>>
      BY <1>1, <2>1, <2>3 DEF arrive
    <3> QED BY <1>0, <3>1
  <2> QED BY <2>2, <2>3
<1>2. ASSUME NEW p \in Procs, allow(p) PROVE Goal
  <2>1. PICK rule \in Rules, c \in Clients, nb \in Bucket :
            /\ rule = call[p].rule /\ c = call[p].client
            /\ nb.last = clock
            /\ \/ /\ call' = [call EXCEPT ![p] = At("done")]
                  /\ UNCHANGED <<keyMap, mu>>
               \/ /\ keyMap[rule][c] = Null /\ keyMap' = keyMap
                  /\ mu' = p
                  /\ call' = [call EXCEPT ![p].pc = "make"]
               \/ /\ keyMap' = [keyMap EXCEPT ![rule][c] = nb]
                  /\ mu' = p
                  /\ call' = [call EXCEPT ![p].pc = "take"]
    BY <1>2, AllowStep
  <2>2. mu = Null /\ clock' = clock /\ call[q].pc \notin {"make", "take"}
    BY <1>0, <1>2, RequestsAssumption DEF allow
  <2>3. CASE p # q
    <3>1. call'[q] = call[q] BY <1>0, <2>1, <2>3
    <3> QED BY <1>0, <2>2, <3>1
  <2>4. CASE p = q /\ call' = [call EXCEPT ![p] = At("done")]
    BY <1>0, <2>4 DEF At
  <2>5. CASE /\ p = q /\ mu' = p
             /\ keyMap' = [keyMap EXCEPT ![rule][c] = nb]
             /\ call' = [call EXCEPT ![p].pc = "take"]
    <3>1. call'[q].rule = rule /\ call'[q].client = c /\ call'[q].pc = "take"
      BY <1>0, <2>1, <2>5 DEF Call
    <3>2. keyMap'[rule][c] = nb
      BY <2>5 DEF Safe, LimiterTypeOK
    <3> QED BY <1>0, <2>1, <2>2, <2>5, <3>1, <3>2, BucketFacts
  <2>6. CASE /\ p = q /\ mu' = p
             /\ keyMap[rule][c] = Null /\ keyMap' = keyMap
             /\ call' = [call EXCEPT ![p].pc = "make"]
    <3>1. call'[q].rule = rule /\ call'[q].client = c /\ call'[q].pc = "make"
      BY <1>0, <2>1, <2>6 DEF Call
    <3> QED BY <2>1, <2>6, <3>1
  <2> QED BY <2>1, <2>3, <2>4, <2>5, <2>6
<1>8. ASSUME NEW p \in Procs, makeBucket(p) PROVE Goal
  <2>1. PICK rule \in Rules, c \in Clients, nb \in Bucket :
            /\ rule = call[p].rule /\ c = call[p].client
            /\ nb.last = clock
            /\ keyMap' = [keyMap EXCEPT ![rule][c] = nb]
            /\ call' = [call EXCEPT ![p].pc = "take"]
            /\ mu = p
    BY <1>8, MakeStep
  <2>2. clock' = clock /\ mu' = mu BY <1>8 DEF makeBucket
  <2>3. CASE p # q
    <3>1. call'[q] = call[q] /\ call[q].pc \notin {"make", "take"}
      BY <1>0, <2>1, <2>3
    <3> QED BY <1>0, <3>1
  <2>4. CASE p = q
    <3>1. call'[q].rule = rule /\ call'[q].client = c /\ call'[q].pc = "take"
      BY <1>0, <2>1, <2>4 DEF Call
    <3>2. keyMap'[rule][c] = nb
      BY <2>1 DEF Safe, LimiterTypeOK
    <3> QED BY <1>0, <2>1, <2>2, <2>4, <3>1, <3>2, BucketFacts
  <2> QED BY <2>3, <2>4
<1>3. ASSUME NEW p \in Procs, take(p) PROVE Goal
  <2>1. mu = p BY <1>3 DEF take, Safe, CallShape
  <2>2. call' = [call EXCEPT ![p] = At("serve")]
        \/ call' = [call EXCEPT ![p] = At("done")]
    BY <1>3 DEF take
  <2>3. CASE p = q BY <1>0, <2>2, <2>3 DEF At
  <2>4. CASE p # q
    <3>1. call'[q] = call[q] /\ call[q].pc \notin {"make", "take"}
      BY <1>0, <2>1, <2>2, <2>4
    <3> QED BY <1>0, <3>1
  <2> QED BY <2>3, <2>4
<1>4. ASSUME NEW p \in Procs, serve(p) PROVE Goal
  <2>1. call' = [call EXCEPT ![p] = At("done")] /\ UNCHANGED <<keyMap, clock, mu>>
    BY <1>4 DEF serve
  <2>2. CASE p = q BY <1>0, <2>1, <2>2 DEF At
  <2>3. CASE p # q
    <3>1. call'[q] = call[q] BY <1>0, <2>1, <2>3
    <3> QED BY <1>0, <2>1, <3>1
  <2> QED BY <2>2, <2>3
<1>5. CASE evictSweep
  <2>1. call' = call /\ mu = Null BY <1>5 DEF evictSweep
  <2> QED BY <1>0, <2>1, RequestsAssumption
<1>6. CASE evictRecv \/ evictStop \/ rateShutdown \/ UNCHANGED limiterVars
  <2>1. UNCHANGED <<call, keyMap, clock, mu>>
    BY <1>6 DEF evictRecv, evictStop, rateShutdown, limiterVars
  <2> QED BY <1>0, <2>1
<1>7. CASE LimiterTick
  <2>1. /\ UNCHANGED <<call, keyMap, mu>> /\ clock' = clock + 1
        /\ call[q].pc = "take" => clock < b.last + MaxDelay
    BY <1>7 DEF LimiterTick
  <2>2. call[q].pc = "take" => b.last \in Nat
    BY <1>0, BucketFacts DEF Safe, LimiterTypeOK, Call
  <2> QED BY <1>0, <2>1, <2>2
<1> QED BY <1>1, <1>2, <1>3, <1>4, <1>5, <1>6, <1>7, <1>8
        DEF LimiterNext, LimiterCall

\* The accounts follow the buckets through every step: a bucket is made when
\* the account is full, charged with it, and dropped when it is full again.
LEMMA AccountsInductive ==
    ASSUME Safe, [LimiterNext]_limiterVars
    PROVE  Accounts' /\ NeverOverspent'
<1> SUFFICES ASSUME NEW r \in Rules, NEW k \in Clients
             PROVE  /\ Matches(r, keyMap'[r][k], account'[r][k], clock')
                    /\ account'[r][k] <= clock' + Full(r)
  BY DEF Accounts, NeverOverspent
<1> DEFINE Goal == /\ Matches(r, keyMap'[r][k], account'[r][k], clock')
                   /\ account'[r][k] <= clock' + Full(r)
<1>0. /\ clock \in Nat /\ account[r][k] \in Nat
      /\ keyMap[r][k] \in Bucket \cup {Null}
      /\ Matches(r, keyMap[r][k], account[r][k], clock)
      /\ account[r][k] <= clock + Full(r)
      /\ Full(r) \in Nat /\ MaxDelay \in Nat
  BY RuleFacts, LimitsAssumption
     DEF Safe, LimiterTypeOK, Accounts, NeverOverspent
<1>1. ASSUME UNCHANGED <<keyMap, account, clock>> PROVE Goal
  BY <1>0, <1>1
<1>2. ASSUME NEW p \in Procs, allow(p) PROVE Goal
  <2>1. PICK rule \in Rules, c \in Clients, nb \in Bucket :
            /\ nb.last = clock
            /\ keyMap[rule][c] # Null => nb.full = keyMap[rule][c].full
            /\ \/ keyMap' = keyMap
               \/ /\ keyMap[rule][c] # Null
                  /\ keyMap' = [keyMap EXCEPT ![rule][c] = nb]
    BY <1>2, AllowStep
  <2>2. UNCHANGED <<clock, account>> BY <1>2 DEF allow
  <2>3. CASE keyMap'[r][k] = keyMap[r][k] BY <1>0, <2>2, <2>3
  <2>4. CASE keyMap'[r][k] = nb /\ rule = r /\ c = k /\ keyMap[r][k] # Null
    <3>1. nb # Null /\ nb.last \in Nat /\ nb.full \in Nat
      BY BucketFacts
    <3>2. PICK b \in Bucket : b = keyMap[r][k]
      BY <1>0, <2>4
    <3>3. b.last \in Nat /\ b.full \in Nat BY BucketFacts
    <3>4. /\ b.last <= clock /\ nb.full = b.full
          /\ b.full <= b.last + MaxDelay + Full(r)
          /\ Alike(b.full, account[r][k], clock)
      BY <1>0, <2>1, <2>4, <3>2 DEF Matches
    <3>5. b.full <= clock + MaxDelay + Full(r)
      BY <1>0, <3>3, <3>4
    <3> QED BY <1>0, <2>1, <2>2, <2>4, <3>1, <3>4, <3>5 DEF Matches
  <2>5. keyMap \in [Rules -> [Clients -> Bucket \cup {Null}]]
    BY DEF Safe, LimiterTypeOK
  <2>6. \/ keyMap'[r][k] = keyMap[r][k]
        \/ keyMap'[r][k] = nb /\ rule = r /\ c = k /\ keyMap[r][k] # Null
    <3>1. CASE /\ keyMap[rule][c] # Null
               /\ keyMap' = [keyMap EXCEPT ![rule][c] = nb]
      BY <2>5, <3>1, Update2
    <3> QED BY <2>1, <3>1
  <2> QED BY <2>3, <2>4, <2>6
<1>8. ASSUME NEW p \in Procs, makeBucket(p) PROVE Goal
  <2>1. PICK rule \in Rules, c \in Clients, nb \in Bucket :
            /\ keyMap[rule][c] = Null
            /\ nb.last = clock /\ nb.full = clock
            /\ keyMap' = [keyMap EXCEPT ![rule][c] = nb]
    BY <1>8, MakeStep
  <2>2. UNCHANGED <<clock, account>> BY <1>8 DEF makeBucket
  <2>3. keyMap \in [Rules -> [Clients -> Bucket \cup {Null}]]
    BY DEF Safe, LimiterTypeOK
  <2>4. keyMap'[r][k] = IF r = rule /\ k = c THEN nb ELSE keyMap[r][k]
    BY <2>1, <2>3, Update2
  <2>5. CASE ~(r = rule /\ k = c) BY <1>0, <2>2, <2>4, <2>5
  <2>6. CASE r = rule /\ k = c
    <3>1. nb # Null BY BucketFacts
    <3>2. account[r][k] <= clock BY <1>0, <2>1, <2>6 DEF Matches
    <3> QED BY <1>0, <2>1, <2>2, <2>4, <2>6, <3>1, <3>2 DEF Matches, Alike
  <2> QED BY <2>5, <2>6
<1>3. ASSUME NEW p \in Procs, take(p) PROVE Goal
  <2>1. PICK rule \in Rules, c \in Clients, b \in Bucket, nb \in Bucket,
             a \in Nat :
           /\ rule = call[p].rule /\ c = call[p].client
           /\ b = keyMap[rule][c] /\ a = account[rule][c]
           /\ clock <= b.last + MaxDelay
           /\ nb.last = b.last /\ nb.full = Spent(rule, b.full, clock)
           /\ Spent(rule, a, clock) \in Nat
           /\ \/ /\ Affords(rule, b.full, clock)
                 /\ keyMap' = [keyMap EXCEPT ![rule][c] = nb]
                 /\ account' = [account EXCEPT ![rule][c] = Spent(rule, a, clock)]
                 /\ call' = [call EXCEPT ![p] = At("serve")]
              \/ /\ ~Affords(rule, b.full, clock)
                 /\ UNCHANGED <<keyMap, account>>
                 /\ call' = [call EXCEPT ![p] = At("done")]
    BY <1>3, TakeStep
  <2>2. clock' = clock BY <1>3 DEF take
  <2>3. CASE UNCHANGED <<keyMap, account>> BY <1>1, <2>2, <2>3
  <2>4. CASE /\ Affords(rule, b.full, clock)
             /\ keyMap' = [keyMap EXCEPT ![rule][c] = nb]
             /\ account' = [account EXCEPT ![rule][c] = Spent(rule, a, clock)]
    <3>1. /\ keyMap \in [Rules -> [Clients -> Bucket \cup {Null}]]
          /\ account \in [Rules -> [Clients -> Nat]]
      BY DEF Safe, LimiterTypeOK
    <3>2. /\ keyMap'[r][k] = IF r = rule /\ k = c THEN nb ELSE keyMap[r][k]
          /\ account'[r][k] = IF r = rule /\ k = c THEN Spent(rule, a, clock)
                              ELSE account[r][k]
      BY <2>1, <2>4, <3>1, Update2
    <3>3. CASE ~(r = rule /\ k = c) BY <1>0, <2>2, <3>2, <3>3
    <3>4. CASE r = rule /\ k = c
      <4>1. /\ nb # Null /\ nb.last \in Nat /\ nb.full \in Nat
            /\ b # Null /\ b.last \in Nat /\ b.full \in Nat
        BY BucketFacts
      <4>2. b.last <= clock /\ Alike(b.full, a, clock)
        BY <1>0, <2>1, <3>4, <4>1 DEF Matches
      <4>3. /\ Spent(rule, b.full, clock) = Spent(rule, a, clock)
            /\ Spent(rule, b.full, clock) <= clock + Full(rule)
        BY <1>0, <2>4, <4>1, <4>2, SpentFacts
      <4>4. nb.full <= nb.last + MaxDelay + Full(r)
        BY <1>0, <2>1, <3>4, <4>1, <4>3
      <4> QED
        BY <1>0, <2>1, <2>2, <3>2, <3>4, <4>1, <4>2, <4>3, <4>4
           DEF Matches, Alike
    <3> QED BY <3>3, <3>4
  <2> QED BY <2>1, <2>3, <2>4
<1>4. CASE evictSweep
  <2>1. /\ keyMap'[r][k] = IF Expired(keyMap[r][k], evictor.now) THEN Null
                           ELSE keyMap[r][k]
        /\ UNCHANGED <<account, clock>>
    BY <1>4 DEF evictSweep
  <2>2. CASE ~Expired(keyMap[r][k], evictor.now) BY <1>0, <2>1, <2>2
  <2>3. CASE Expired(keyMap[r][k], evictor.now)
    <3>1. PICK b \in Bucket : b = keyMap[r][k]
      BY <1>0, <2>3 DEF Expired
    <3>2. b # Null /\ b.last \in Nat /\ b.full \in Nat BY BucketFacts
    <3>3. evictor.now \in Nat /\ evictor.now <= clock
      BY DEF Safe, LimiterTypeOK, TicksPast
    <3>4. /\ evictor.now - b.last > IdleEvictAfter
          /\ b.full <= b.last + MaxDelay + Full(r)
          /\ Alike(b.full, account[r][k], clock)
      BY <1>0, <2>3, <3>1, <3>2 DEF Expired, Matches
    <3>5. IdleEvictAfter \in Nat /\ Full(r) + MaxDelay <= IdleEvictAfter
      BY RuleFacts, LimitsAssumption
    <3>6. b.full <= clock BY <1>0, <3>2, <3>3, <3>4, <3>5
    <3>7. account[r][k] <= clock BY <3>4, <3>6 DEF Alike
    <3> QED BY <1>0, <2>1, <2>3, <3>7 DEF Matches
  <2> QED BY <2>2, <2>3
<1>5. CASE LimiterTick
  <2>1. clock' = clock + 1 /\ UNCHANGED <<keyMap, account>>
    BY <1>5 DEF LimiterTick
  <2>2. CASE keyMap[r][k] = Null BY <1>0, <2>1, <2>2 DEF Matches
  <2>3. CASE keyMap[r][k] # Null
    <3>1. PICK b \in Bucket : b = keyMap[r][k] BY <1>0, <2>3
    <3>2. b.last \in Nat /\ b.full \in Nat BY BucketFacts
    <3> QED BY <1>0, <2>1, <2>3, <3>1, <3>2 DEF Matches, Alike
  <2> QED BY <2>2, <2>3
<1>6. ASSUME NEW p \in Procs, arrive(p) \/ serve(p) PROVE Goal
  BY <1>1, <1>6 DEF arrive, serve
<1>7. CASE evictRecv \/ evictStop \/ rateShutdown \/ UNCHANGED limiterVars
  BY <1>1, <1>7 DEF evictRecv, evictStop, rateShutdown, limiterVars
<1> QED BY <1>2, <1>3, <1>4, <1>5, <1>6, <1>7, <1>8
        DEF LimiterNext, LimiterCall

\* Time does not run backwards, and a tick carries the time it was sent.
LEMMA TicksInductive ==
    ASSUME Safe, [LimiterNext]_limiterVars
    PROVE  TicksPast'
<1>1. /\ clock \in Nat /\ ticks \in Nat \cup {Null}
      /\ evictor.now \in Nat
      /\ ticks # Null => ticks <= clock
      /\ evictor.now <= clock
  BY DEF Safe, LimiterTypeOK, TicksPast
<1>2. CASE evictRecv BY <1>1, <1>2 DEF evictRecv, TicksPast
<1>3. CASE evictSweep \/ evictStop
  <2>1. evictor'.now = 0 /\ UNCHANGED <<ticks, clock>>
    BY <1>3 DEF evictSweep, evictStop
  <2> QED BY <1>1, <2>1 DEF TicksPast
<1>4. CASE LimiterTick BY <1>1, <1>4 DEF LimiterTick, TicksPast
<1>5. CASE rateShutdown \/ UNCHANGED limiterVars
  BY <1>1, <1>5 DEF rateShutdown, limiterVars, TicksPast
<1>6. ASSUME NEW p \in Procs, LimiterCall(p) PROVE TicksPast'
  <2>1. UNCHANGED <<clock, ticks, evictor>>
    BY <1>6 DEF LimiterCall, arrive, allow, makeBucket, take, serve
  <2> QED BY <1>1, <2>1 DEF TicksPast
<1> QED BY <1>2, <1>3, <1>4, <1>5, <1>6 DEF LimiterNext

\* The inductive invariant holds in every reachable state of the limiter.
THEOREM LimiterSafe == LimiterSpec => []Safe
<1>1. LimiterInit => Safe
  <2> SUFFICES ASSUME LimiterInit PROVE Safe
    OBVIOUS
  <2>1. LimiterTypeOK
    BY AtType, RequestsAssumption DEF LimiterInit, LimiterTypeOK, At
  <2>2. CallShape BY DEF LimiterInit, CallShape, At
  <2>3. TicksPast BY DEF LimiterInit, TicksPast
  <2>4. Accounts BY DEF LimiterInit, Accounts, Matches
  <2>5. NeverOverspent BY RuleFacts DEF LimiterInit, NeverOverspent
  <2> QED BY <2>1, <2>2, <2>3, <2>4, <2>5 DEF Safe
<1>2. Safe /\ [LimiterNext]_limiterVars => Safe'
  BY TypeInductive, ShapeInductive, AccountsInductive, TicksInductive DEF Safe
<1> QED BY <1>1, <1>2, PTL DEF LimiterSpec

\* Every state component keeps its type, and whoever holds the mutex is between
\* its look for a bucket and the limiter's answer: allow never leaks it.
THEOREM LimiterTypeCorrect == LimiterSpec => []LimiterTypeOK
<1>1. Safe => LimiterTypeOK BY DEF Safe
<1> QED BY <1>1, LimiterSafe, PTL

\* allow and evictLoop together: no client is ever served beyond one burst and
\* its refill, although its bucket is dropped and made anew.
THEOREM NeverOverspentHolds == LimiterSpec => []NeverOverspent
<1>1. Safe => NeverOverspent BY DEF Safe
<1> QED BY <1>1, LimiterSafe, PTL

\* allow answers 429 from a bucket only when the client's account is empty.
THEOREM RefusedWhenEmptyHolds == LimiterSpec => RefusedWhenEmpty
<1> DEFINE Refused ==
        \A p \in Procs :
            (call[p].pc = "take" /\ call'[p].pc = "done") =>
               ~Affords(call[p].rule, account[call[p].rule][call[p].client], clock)
<1>1. Safe /\ [LimiterNext]_limiterVars => [Refused]_limiterVars
  <2> SUFFICES ASSUME Safe, [LimiterNext]_limiterVars,
                      NEW q \in Procs, call[q].pc = "take", call'[q].pc = "done"
               PROVE  ~Affords(call[q].rule,
                               account[call[q].rule][call[q].client], clock)
    OBVIOUS
  <2>1. call \in [Procs -> Call] BY DEF Safe, LimiterTypeOK
  <2>2. take(q)
    <3>1. ASSUME NEW p \in Procs, p # q, LimiterCall(p) PROVE FALSE
      <4>1. call'[q] = call[q]
        BY <2>1, <3>1 DEF LimiterCall, arrive, allow, makeBucket, take, serve
      <4> QED BY <4>1
    <3>2. CASE UNCHANGED call BY <3>2
    <3>3. ~(arrive(q) \/ allow(q) \/ makeBucket(q) \/ serve(q))
      BY DEF arrive, allow, makeBucket, serve
    <3> QED
      BY <3>1, <3>2, <3>3
         DEF LimiterNext, LimiterCall, evictRecv, evictSweep, evictStop,
             rateShutdown, LimiterTick, limiterVars
  <2>3. PICK rule \in Rules, c \in Clients, b \in Bucket, a \in Nat :
           /\ rule = call[q].rule /\ c = call[q].client
           /\ b = keyMap[rule][c] /\ a = account[rule][c]
           /\ \/ call' = [call EXCEPT ![q] = At("serve")]
              \/ ~Affords(rule, b.full, clock)
    BY <2>2, TakeStep
  <2>4. ~Affords(rule, b.full, clock)
    BY <2>1, <2>3 DEF At
  <2>5. b # Null /\ b.full \in Nat /\ clock \in Nat
    BY BucketFacts DEF Safe, LimiterTypeOK
  <2>6. Alike(b.full, a, clock)
    BY <2>3, <2>5 DEF Safe, Accounts, Matches
  <2>7. Affords(rule, b.full, clock) = Affords(rule, a, clock)
    BY <2>5, <2>6, SpentFacts
  <2> QED BY <2>3, <2>4, <2>7
<1> QED BY <1>1, LimiterSafe, PTL DEF LimiterSpec, RefusedWhenEmpty

-----------------------------------------------------------------------------
(* The cap. *)

\* Only makeBucket adds to a rule's buckets, one at a time; the mutex keeps
\* the room that allow saw.
LEMMA CountedInductive ==
    ASSUME Safe, Counted, [LimiterNext]_limiterVars
    PROVE  Counted'
<1> DEFINE Bounded(r) == /\ IsFiniteSet(BucketsOf(r)')
                         /\ Cardinality(BucketsOf(r)') <= MaxBucketsPerRule
           Capped(km, r) == Cardinality({c \in Clients : km[r][c] # Null})
                              >= MaxBucketsPerRule
           Room == \A q \in Procs :
                      call'[q].pc = "make" => ~Capped(keyMap', call'[q].rule)
<1> SUFFICES Room /\ \A r \in Rules : Bounded(r)
  BY DEF Counted, WithinCap, AtCap, BucketsOf
<1>0. /\ MaxBucketsPerRule \in Nat
      /\ \A r \in Rules : /\ IsFiniteSet(BucketsOf(r))
                          /\ Cardinality(BucketsOf(r)) <= MaxBucketsPerRule
      /\ \A q \in Procs : /\ call[q].pc = "make" => ~Capped(keyMap, call[q].rule)
                          /\ call[q].pc = "make" => mu = q
                          /\ call[q].rule \in Rules
      /\ call \in [Procs -> Call]
  BY LimitsAssumption
     DEF Counted, WithinCap, Safe, CallShape, LimiterTypeOK, Call, AtCap,
         BucketsOf
<1>1. ASSUME NEW r \in Rules, BucketsOf(r)' \subseteq BucketsOf(r)
      PROVE  Bounded(r)
  <2>1. /\ IsFiniteSet(BucketsOf(r)')
        /\ Cardinality(BucketsOf(r)') <= Cardinality(BucketsOf(r))
    BY <1>0, <1>1, FS_Subset
  <2>2. Cardinality(BucketsOf(r)') \in Nat /\ Cardinality(BucketsOf(r)) \in Nat
    BY <1>0, <2>1, FS_CardinalityType
  <2> QED BY <1>0, <2>1, <2>2
<1>2. keyMap \in [Rules -> [Clients -> Bucket \cup {Null}]]
  BY DEF Safe, LimiterTypeOK
\* A step that does not touch the buckets.
<1>3. ASSUME keyMap' = keyMap
      PROVE  \A r \in Rules : Bounded(r)
  <2>1. \A r \in Rules : BucketsOf(r)' \subseteq BucketsOf(r)
    BY <1>3 DEF BucketsOf
  <2> QED BY <1>1, <2>1
<1>4. ASSUME NEW p \in Procs, allow(p) PROVE Room /\ \A r \in Rules : Bounded(r)
  <2>0. \A q \in Procs : call[q].pc # "make"
    BY <1>0, <1>4, RequestsAssumption DEF allow
  <2>1. PICK rule \in Rules, c \in Clients, nb \in Bucket :
           /\ rule = call[p].rule
           /\ \/ /\ keyMap' = keyMap /\ call' = [call EXCEPT ![p] = At("done")]
              \/ /\ keyMap' = keyMap /\ call' = [call EXCEPT ![p].pc = "make"]
                 /\ ~AtCap(rule)
              \/ /\ keyMap[rule][c] # Null
                 /\ keyMap' = [keyMap EXCEPT ![rule][c] = nb]
                 /\ call' = [call EXCEPT ![p].pc = "take"]
    BY <1>4, AllowStep
  <2>2. CASE keyMap' = keyMap /\ call' = [call EXCEPT ![p] = At("done")]
    <3>1. Room BY <1>0, <2>0, <2>2 DEF At
    <3> QED BY <1>3, <2>2, <3>1
  <2>3. CASE /\ keyMap' = keyMap /\ call' = [call EXCEPT ![p].pc = "make"]
             /\ ~AtCap(rule)
    <3>0. ~Capped(keyMap, rule) BY <2>3 DEF AtCap, BucketsOf
    <3>1. \A q \in Procs : /\ q # p => call'[q].pc # "make"
                           /\ q = p => call'[q].rule = rule
      BY <1>0, <2>0, <2>1, <2>3 DEF Call
    <3>2. Room
      <4> SUFFICES ASSUME NEW q \in Procs, call'[q].pc = "make"
                   PROVE  ~Capped(keyMap', call'[q].rule)
        OBVIOUS
      <4>1. call'[q].rule = rule BY <3>1
      <4> QED BY <2>3, <3>0, <4>1
    <3> QED BY <1>3, <2>3, <3>2
  <2>4. CASE /\ keyMap[rule][c] # Null
             /\ keyMap' = [keyMap EXCEPT ![rule][c] = nb]
             /\ call' = [call EXCEPT ![p].pc = "take"]
    <3>1. Room BY <1>0, <2>0, <2>4 DEF Call
    <3>2. ASSUME NEW r \in Rules PROVE BucketsOf(r)' \subseteq BucketsOf(r)
      <4>1. \A k \in Clients :
               keyMap'[r][k] = IF r = rule /\ k = c THEN nb ELSE keyMap[r][k]
        BY <1>2, <2>4, Update2
      <4> QED BY <2>4, <4>1 DEF BucketsOf
    <3> QED BY <1>1, <3>1, <3>2
  <2> QED BY <2>1, <2>2, <2>3, <2>4
<1>5. ASSUME NEW p \in Procs, makeBucket(p)
      PROVE  Room /\ \A r \in Rules : Bounded(r)
  <2>1. PICK rule \in Rules, c \in Clients, nb \in Bucket :
           /\ rule = call[p].rule /\ mu = p
           /\ keyMap[rule][c] = Null
           /\ keyMap' = [keyMap EXCEPT ![rule][c] = nb]
           /\ call' = [call EXCEPT ![p].pc = "take"]
    BY <1>5, MakeStep
  <2>2. Room
    <3>1. \A q \in Procs : call'[q].pc # "make"
      BY <1>0, <2>1 DEF Call
    <3> QED BY <3>1
  <2>3. ASSUME NEW r \in Rules PROVE Bounded(r)
    <3>1. \A k \in Clients :
             keyMap'[r][k] = IF r = rule /\ k = c THEN nb ELSE keyMap[r][k]
      BY <1>2, <2>1, Update2
    <3>2. CASE r # rule
      <4>1. BucketsOf(r)' \subseteq BucketsOf(r)
        BY <3>1, <3>2 DEF BucketsOf
      <4> QED BY <1>1, <4>1
    <3>3. CASE r = rule
      <4>1. c \notin BucketsOf(r) BY <2>1, <3>3 DEF BucketsOf
      <4>2. nb # Null BY BucketFacts
      <4>3. BucketsOf(r)' = BucketsOf(r) \cup {c}
        BY <3>1, <3>3, <4>2 DEF BucketsOf
      <4>4. Cardinality(BucketsOf(r)) \in Nat BY <1>0, FS_CardinalityType
      <4>5. Cardinality(BucketsOf(r)) < MaxBucketsPerRule
        <5>1. ~Capped(keyMap, r) BY <1>0, <1>5, <2>1, <3>3 DEF makeBucket
        <5> QED BY <1>0, <4>4, <5>1 DEF BucketsOf
      <4>6. /\ IsFiniteSet(BucketsOf(r)')
            /\ Cardinality(BucketsOf(r)') = Cardinality(BucketsOf(r)) + 1
        BY <1>0, <4>1, <4>3, FS_AddElement
      <4> QED BY <1>0, <4>4, <4>5, <4>6
    <3> QED BY <3>2, <3>3
  <2> QED BY <2>2, <2>3
<1>6. ASSUME NEW p \in Procs, take(p) PROVE Room /\ \A r \in Rules : Bounded(r)
  <2>1. PICK rule \in Rules, c \in Clients, b \in Bucket, nb \in Bucket :
           /\ b = keyMap[rule][c]
           /\ keyMap' = keyMap \/ keyMap' = [keyMap EXCEPT ![rule][c] = nb]
           /\ \/ call' = [call EXCEPT ![p] = At("serve")]
              \/ call' = [call EXCEPT ![p] = At("done")]
    BY <1>6, TakeStep
  <2>2. b # Null BY BucketFacts
  <2>3. Room
    <3>1. mu = p BY <1>6 DEF take, Safe, CallShape
    <3>2. \A q \in Procs : q # p => call'[q] = call[q] /\ call[q].pc # "make"
      BY <1>0, <2>1, <3>1
    <3>3. call'[p].pc # "make" BY <1>0, <2>1 DEF At
    <3> QED BY <3>2, <3>3
  <2>4. ASSUME NEW r \in Rules PROVE BucketsOf(r)' \subseteq BucketsOf(r)
    <3>1. CASE keyMap' = keyMap BY <3>1 DEF BucketsOf
    <3>2. CASE keyMap' = [keyMap EXCEPT ![rule][c] = nb]
      <4>1. \A k \in Clients :
               keyMap'[r][k] = IF r = rule /\ k = c THEN nb ELSE keyMap[r][k]
        BY <1>2, <3>2, Update2
      <4> QED BY <2>1, <2>2, <4>1 DEF BucketsOf
    <3> QED BY <2>1, <3>1, <3>2
  <2> QED BY <1>1, <2>3, <2>4
<1>7. CASE evictSweep
  <2>1. call' = call /\ mu = Null BY <1>7 DEF evictSweep
  <2>2. \A q \in Procs : call[q].pc # "make"
    BY <1>0, <2>1, RequestsAssumption
  <2>3. \A r \in Rules : BucketsOf(r)' \subseteq BucketsOf(r)
    BY <1>7 DEF evictSweep, BucketsOf
  <2> QED BY <1>1, <2>1, <2>2, <2>3
<1>8. ASSUME NEW p \in Procs, arrive(p) \/ serve(p)
      PROVE  Room /\ \A r \in Rules : Bounded(r)
  <2>1. keyMap' = keyMap BY <1>8 DEF arrive, serve
  <2>2. \A q \in Procs : call'[q].pc = "make" => call'[q] = call[q]
    BY <1>0, <1>8 DEF arrive, serve, At
  <2>3. Room
    <3> SUFFICES ASSUME NEW q \in Procs, call'[q].pc = "make"
                 PROVE  ~Capped(keyMap', call'[q].rule)
      OBVIOUS
    <3>1. call'[q] = call[q] /\ ~Capped(keyMap, call[q].rule)
      BY <1>0, <2>2
    <3> QED BY <2>1, <3>1
  <2> QED BY <1>3, <2>1, <2>3
<1>9. CASE UNCHANGED <<keyMap, call>>
  <2>1. Room
    <3> SUFFICES ASSUME NEW q \in Procs, call'[q].pc = "make"
                 PROVE  ~Capped(keyMap', call'[q].rule)
      OBVIOUS
    <3> QED BY <1>0, <1>9
  <2> QED BY <1>3, <1>9, <2>1
<1> QED
  BY <1>4, <1>5, <1>6, <1>7, <1>8, <1>9
     DEF LimiterNext, LimiterCall, evictRecv, evictStop,
         rateShutdown, LimiterTick, limiterVars

\* allow's look at the cap and its later insertion are one critical section:
\* however calls and evictions interleave, no rule ever has more than
\* MaxBucketsPerRule buckets.
THEOREM WithinCapHolds == LimiterSpec => []WithinCap
<1>1. LimiterInit => Counted
  <2>0. ASSUME LimiterInit
        PROVE  \A p \in Procs : call[p].pc = "make" => ~AtCap(call[p].rule)
    BY <2>0 DEF LimiterInit, At
  <2> SUFFICES ASSUME LimiterInit, NEW r \in Rules
               PROVE  /\ IsFiniteSet(BucketsOf(r))
                      /\ Cardinality(BucketsOf(r)) <= MaxBucketsPerRule
    BY <2>0 DEF Counted, WithinCap
  <2>1. BucketsOf(r) = {} BY DEF LimiterInit, BucketsOf
  <2>2. IsFiniteSet({}) /\ Cardinality({}) = 0 BY FS_EmptySet
  <2> QED BY <2>1, <2>2, LimitsAssumption
<1>2. Safe /\ Counted /\ [LimiterNext]_limiterVars => Counted'
  BY CountedInductive
<1>3. Counted => WithinCap BY DEF Counted
<1> QED BY <1>1, <1>2, <1>3, LimiterSafe, PTL DEF LimiterSpec

-----------------------------------------------------------------------------
(* The eviction loop. *)

\* The ticker's period is positive and twice it is at most the idle time.
LEMMA IntervalFacts ==
    /\ Interval \in Nat \ {0} /\ 2 * Interval <= IdleEvictAfter
    /\ IdleEvictAfter \in Nat /\ MaxLag \in Nat
<1>1. IdleEvictAfter \in Nat /\ Interval > 0 /\ MaxLag \in Nat
  BY LimitsAssumption
<1>2. \A a \in Nat : a \div 2 \in Nat /\ 2 * (a \div 2) <= a
  OBVIOUS
<1> QED BY <1>1, <1>2 DEF Interval

\* Where the clock is between two ticks, and how it moves on.
LEMMA DueFacts ==
    ASSUME clock \in Nat
    PROVE  /\ Due \in Int /\ Due <= clock /\ clock < Due + Interval
           /\ clock' = clock + 1 =>
                 IF (clock + 1) % Interval = 0
                 THEN Due' = Due + Interval /\ Due' = clock + 1
                 ELSE Due' = Due
<1>1. Interval \in Nat \ {0} BY IntervalFacts
<1>2. clock % Interval \in 0 .. Interval - 1
  BY <1>1, DivMod
<1>3. Due \in Int /\ Due <= clock /\ clock < Due + Interval
  BY <1>1, <1>2 DEF Due
<1>4. ASSUME clock' = clock + 1
      PROVE  IF (clock + 1) % Interval = 0
             THEN Due' = Due + Interval /\ Due' = clock + 1
             ELSE Due' = Due
  <2>1. Due' = (clock + 1) - ((clock + 1) % Interval)
    BY <1>4 DEF Due, Interval
  <2>2. IF (clock + 1) % Interval = 0 THEN clock % Interval = Interval - 1
        ELSE (clock + 1) % Interval = (clock % Interval) + 1
    <3>1. clock \in Int OBVIOUS
    <3> QED BY <1>1, <3>1, ModStep, Zenon
  <2> QED BY <1>1, <1>2, <2>1, <2>2 DEF Due
<1> QED BY <1>3, <1>4

\* If the loop's lag is at most its period, a tick is taken before the next
\* but one is sent, so that every bucket is visited in time.
LEMMA PromptInductive ==
    ASSUME MaxLag <= Interval, Safe, Prompt, [LimiterNext]_limiterVars
    PROVE  Prompt'
<1> SUFFICES ASSUME evictor'.pc # "stopped" PROVE Prompt'
  BY DEF Prompt
<1> DEFINE Ticks ==
        /\ ticks # Null => /\ ticks \in {Due, Due - Interval}
                           /\ clock <= ticks + MaxLag
        /\ evictor.pc = "lock" => /\ evictor.now \in {Due, Due - Interval}
                                  /\ clock <= evictor.now + MaxLag
           Seen ==
        \A rule \in Rules, c \in Clients :
            keyMap[rule][c] # Null =>
                Due <= keyMap[rule][c].last + IdleEvictAfter + Allowance
<1>0. Prompt = (evictor.pc # "stopped" => Ticks /\ Seen)
  BY DEF Prompt
<1>1. Prompt' = (evictor'.pc # "stopped" => Ticks' /\ Seen')
  BY DEF Prompt
<1> SUFFICES Ticks' /\ Seen'
  BY <1>1
<1>2. evictor.pc # "stopped"
  BY DEF LimiterNext, LimiterCall, arrive, allow, makeBucket, take, serve,
         evictRecv, evictSweep, evictStop, rateShutdown, LimiterTick,
         limiterVars, Safe, LimiterTypeOK
<1>3. Ticks /\ Seen BY <1>0, <1>2
<1>4. /\ clock \in Nat /\ ticks \in Nat \cup {Null} /\ evictor.now \in Nat
      /\ evictor \in [pc : {"select", "lock", "stopped"}, now : Nat]
      /\ keyMap \in [Rules -> [Clients -> Bucket \cup {Null}]]
      /\ Null \notin Int
  BY RequestsAssumption DEF Safe, LimiterTypeOK
<1>5. Due \in Int /\ Due <= clock /\ clock < Due + Interval
  BY <1>4, DueFacts
<1>6. /\ Interval \in Nat \ {0} /\ 2 * Interval <= IdleEvictAfter
      /\ IdleEvictAfter \in Nat /\ MaxLag \in Nat
  BY IntervalFacts
<1>7. Allowance \in Nat /\ Interval <= Allowance
  BY <1>6 DEF Allowance
<1>8. Interval' = Interval BY DEF Interval
<1>9. ASSUME NEW p \in Procs, LimiterCall(p) PROVE Ticks' /\ Seen'
  <2>1. UNCHANGED <<clock, ticks, evictor>>
    BY <1>9 DEF LimiterCall, arrive, allow, makeBucket, take, serve
  <2>2. Due' = Due /\ Allowance' = Allowance
    BY <2>1 DEF Due, Allowance, Pending, Interval
  <2>3. Ticks' BY <1>3, <1>8, <2>1, <2>2
  <2>4. ASSUME NEW rule \in Rules, NEW c \in Clients, keyMap'[rule][c] # Null
        PROVE  Due <= keyMap'[rule][c].last + IdleEvictAfter + Allowance
    <3>1. CASE /\ keyMap[rule][c] # Null
               /\ keyMap'[rule][c].last = keyMap[rule][c].last
      BY <1>3, <3>1
    <3>2. CASE keyMap'[rule][c].last = clock
      BY <1>4, <1>5, <1>6, <1>7, <3>2
    <3>3. CASE allow(p) \/ makeBucket(p)
      <4>1. PICK r \in Rules, k \in Clients, nb \in Bucket :
               /\ nb.last = clock
               /\ keyMap' = keyMap \/ keyMap' = [keyMap EXCEPT ![r][k] = nb]
        BY <3>3, AllowStep, MakeStep
      <4>2. CASE keyMap' = keyMap BY <2>4, <3>1, <4>2
      <4>3. CASE keyMap' = [keyMap EXCEPT ![r][k] = nb]
        <5>1. keyMap'[rule][c] = IF rule = r /\ c = k THEN nb
                                 ELSE keyMap[rule][c]
          BY <1>4, <4>3, Update2
        <5> QED BY <2>4, <3>1, <3>2, <4>1, <5>1
      <4> QED BY <4>1, <4>2, <4>3
    <3>4. CASE take(p)
      <4>1. PICK r \in Rules, k \in Clients, b \in Bucket, nb \in Bucket,
                 a \in Nat :
               /\ b = keyMap[r][k] /\ nb.last = b.last
               /\ keyMap' = keyMap \/ keyMap' = [keyMap EXCEPT ![r][k] = nb]
        BY <3>4, TakeStep
      <4>2. CASE keyMap' = keyMap BY <2>4, <3>1, <4>2
      <4>3. CASE keyMap' = [keyMap EXCEPT ![r][k] = nb]
        <5>1. keyMap'[rule][c] = IF rule = r /\ c = k THEN nb
                                 ELSE keyMap[rule][c]
          BY <1>4, <4>3, Update2
        <5>2. b # Null BY BucketFacts
        <5> QED BY <2>4, <3>1, <4>1, <5>1, <5>2
      <4> QED BY <4>1, <4>2, <4>3
    <3>5. CASE keyMap' = keyMap BY <2>4, <3>1, <3>5
    <3> QED BY <1>9, <3>3, <3>4, <3>5 DEF LimiterCall, arrive, serve
  <2> QED BY <2>2, <2>3, <2>4
<1>10. CASE evictRecv
  <2>1. /\ evictor.pc = "select" /\ ticks # Null /\ ticks' = Null
        /\ evictor'.pc = "lock" /\ evictor'.now = ticks
        /\ UNCHANGED <<clock, keyMap>>
    BY <1>10 DEF evictRecv
  <2>2. Due' = Due BY <2>1 DEF Due, Interval
  <2>3. \A t \in Int : Pending(t)' = Pending(t)
    BY <1>4, <2>1 DEF Pending
  <2>4. Allowance' = Allowance
    <3>1. Due - Interval \in Int BY <1>5, <1>6
    <3>2. Pending(Due - Interval)' = Pending(Due - Interval)
      BY <1>8, <2>1, <2>2, <2>3, <3>1 DEF Pending
    <3>3. Pending(Due)' = Pending(Due)
      BY <1>5, <2>1, <2>2, <2>3 DEF Pending
    <3> QED BY <1>8, <3>2, <3>3 DEF Allowance
  <2> QED BY <1>3, <1>8, <2>1, <2>2, <2>4
<1>11. CASE evictSweep
  <2>1. /\ evictor.pc = "lock" /\ evictor'.pc = "select"
        /\ UNCHANGED <<clock, ticks>>
        /\ keyMap' = [rule \in Rules |-> [c \in Clients |->
             IF Expired(keyMap[rule][c], evictor.now) THEN Null
             ELSE keyMap[rule][c]]]
    BY <1>11 DEF evictSweep
  <2>2. Due' = Due BY <2>1 DEF Due, Interval
  <2>3. Ticks' BY <1>3, <1>8, <2>1, <2>2
  <2>4. Allowance' \in Nat /\ Interval <= Allowance'
    BY <1>6, <1>8 DEF Allowance
  <2>5. evictor.now \in {Due, Due - Interval} BY <1>3, <2>1
  <2>6. ASSUME NEW rule \in Rules, NEW c \in Clients, keyMap'[rule][c] # Null
        PROVE  Due <= keyMap'[rule][c].last + IdleEvictAfter + Allowance'
    <3>1. /\ keyMap'[rule][c] = keyMap[rule][c]
          /\ ~Expired(keyMap[rule][c], evictor.now)
      BY <2>1, <2>6
    <3>2. PICK b \in Bucket : b = keyMap[rule][c]
      BY <1>4, <2>6, <3>1
    <3>3. b # Null /\ b.last \in Nat BY BucketFacts
    <3>4. ~(evictor.now - b.last > IdleEvictAfter)
      BY <3>1, <3>2, <3>3 DEF Expired
    <3>5. Due - Interval <= b.last + IdleEvictAfter
      BY <1>4, <1>5, <1>6, <2>5, <3>3, <3>4
    <3> QED BY <1>5, <1>6, <2>4, <3>1, <3>2, <3>3, <3>5
  <2> QED BY <2>2, <2>3, <2>6
<1>12. CASE LimiterTick
  <2>1. /\ clock' = clock + 1 /\ UNCHANGED <<keyMap, evictor>>
        /\ ticks # Null => clock < ticks + MaxLag
        /\ evictor.pc = "lock" => clock < evictor.now + MaxLag
        /\ ticks' = IF (clock + 1) % Interval = 0 /\ ticks = Null
                    THEN clock + 1 ELSE ticks
    BY <1>2, <1>12 DEF LimiterTick
  \* The tick before the last is gone: its lag would exceed the period.
  <2>2. /\ ticks # Null => ticks = Due
        /\ evictor.pc = "lock" => evictor.now = Due
    BY <1>3, <1>4, <1>5, <1>6, <2>1
  <2>3. ~Pending(Due - Interval)
    BY <1>4, <1>5, <1>6, <2>2 DEF Pending
  <2>4. CASE (clock + 1) % Interval # 0
    <3>1. Due' = Due BY <1>4, <2>1, <2>4, DueFacts
    <3>2. ticks' = ticks BY <2>1, <2>4
    <3>3. Allowance' = Allowance
      BY <1>8, <2>1, <3>1, <3>2 DEF Allowance, Pending
    <3>4. Ticks' BY <1>4, <1>6, <1>8, <2>1, <2>2, <3>1, <3>2
    <3> QED BY <1>3, <2>1, <3>1, <3>3, <3>4
  <2>5. CASE (clock + 1) % Interval = 0
    <3>1. Due' = Due + Interval /\ Due' = clock + 1 /\ Due' - Interval' = Due
      BY <1>4, <1>5, <1>6, <1>8, <2>1, <2>5, DueFacts
    <3>2. Ticks'
      BY <1>4, <1>6, <1>8, <2>1, <2>2, <2>5, <3>1
    <3>3. Pending(Due) => Allowance' = 3 * Interval
      <4> SUFFICES ASSUME Pending(Due)
                   PROVE  ticks' = Due \/ (evictor'.pc = "lock" /\ evictor'.now = Due)
        BY <1>8, <3>1 DEF Allowance, Pending
      <4> QED BY <1>4, <1>5, <2>1 DEF Pending
    <3>4. ~Pending(Due) => Allowance' >= 2 * Interval /\ Allowance' \in Nat
      <4> SUFFICES ASSUME ~Pending(Due) PROVE ticks' = Due'
        BY <1>6, <1>8 DEF Allowance, Pending
      <4>1. ticks = Null BY <2>2 DEF Pending
      <4> QED BY <2>1, <2>5, <3>1, <4>1
    <3>5. Allowance = IF Pending(Due) THEN 2 * Interval ELSE Interval
      BY <2>3 DEF Allowance
    <3>6. Allowance + Interval <= Allowance' /\ Allowance' \in Nat
      BY <1>6, <3>3, <3>4, <3>5
    <3>7. ASSUME NEW rule \in Rules, NEW c \in Clients, keyMap[rule][c] # Null
          PROVE  Due' <= keyMap[rule][c].last + IdleEvictAfter + Allowance'
      <4>1. PICK b \in Bucket : b = keyMap[rule][c] BY <1>4, <3>7
      <4>2. b.last \in Nat BY BucketFacts
      <4>3. Due <= b.last + IdleEvictAfter + Allowance BY <1>3, <3>7, <4>1
      <4> QED BY <1>5, <1>6, <1>7, <3>1, <3>6, <4>1, <4>2, <4>3
    <3> QED BY <2>1, <3>2, <3>7
  <2> QED BY <2>4, <2>5
<1>13. CASE rateShutdown \/ UNCHANGED limiterVars
  <2>1. UNCHANGED <<clock, ticks, evictor, keyMap>>
    BY <1>13 DEF rateShutdown, limiterVars
  <2>2. Due' = Due /\ Allowance' = Allowance
    BY <2>1 DEF Due, Allowance, Pending, Interval
  <2> QED BY <1>3, <1>8, <2>1, <2>2
<1>14. ~evictStop BY DEF evictStop
<1> QED BY <1>9, <1>10, <1>11, <1>12, <1>13, <1>14 DEF LimiterNext

\* evictLoop: while it runs and its lag is at most its period, no bucket
\* outlives its last use by more than the idle time, two periods and the lag.
\* Without the hypothesis a second tick can be lost and the bound is larger.
THEOREM IdleBucketsGoHolds ==
    ASSUME MaxLag <= Interval
    PROVE  LimiterSpec => []IdleBucketsGo
<1>1. LimiterInit => Prompt
  BY DEF LimiterInit, Prompt
<1>2. Safe /\ Prompt /\ [LimiterNext]_limiterVars => Prompt'
  BY PromptInductive
<1>3. Safe /\ Prompt => IdleBucketsGo
  <2> SUFFICES ASSUME Safe, Prompt, evictor.pc # "stopped",
                      NEW rule \in Rules, NEW c \in Clients,
                      keyMap[rule][c] # Null
               PROVE  clock <= keyMap[rule][c].last + IdleEvictAfter
                                 + 2 * Interval + MaxLag
    BY DEF IdleBucketsGo
  <2>1. PICK b \in Bucket : b = keyMap[rule][c]
    BY DEF Safe, LimiterTypeOK
  <2>2. b.last \in Nat BY BucketFacts
  <2>3. clock \in Nat BY DEF Safe, LimiterTypeOK
  <2>4. Due \in Int /\ Due <= clock /\ clock < Due + Interval
    BY <2>3, DueFacts
  <2>5. /\ Interval \in Nat \ {0} /\ IdleEvictAfter \in Nat /\ MaxLag \in Nat
    BY IntervalFacts
  <2>6. Due <= b.last + IdleEvictAfter + Allowance
    BY <2>1 DEF Prompt
  <2>7. CASE Pending(Due - Interval)
    <3>1. clock <= Due - Interval + MaxLag
      <4>1. Due - Interval # Null BY <2>4, <2>5, RequestsAssumption
      <4> QED BY <2>7, <4>1 DEF Prompt, Pending
    <3>2. Allowance = 3 * Interval BY <2>7 DEF Allowance
    <3> QED BY <2>1, <2>2, <2>3, <2>4, <2>5, <2>6, <3>1, <3>2
  <2>8. CASE ~Pending(Due - Interval) /\ Pending(Due)
    <3>1. clock <= Due + MaxLag
      <4>1. Due # Null BY <2>4, RequestsAssumption
      <4> QED BY <2>8, <4>1 DEF Prompt, Pending
    <3>2. Allowance = 2 * Interval BY <2>8 DEF Allowance
    <3> QED BY <2>1, <2>2, <2>3, <2>4, <2>5, <2>6, <3>1, <3>2
  <2>9. CASE ~Pending(Due - Interval) /\ ~Pending(Due)
    <3>1. Allowance = Interval BY <2>9 DEF Allowance
    <3> QED BY <2>1, <2>2, <2>3, <2>4, <2>5, <2>6, <3>1
  <2> QED BY <2>7, <2>8, <2>9
<1> QED BY <1>1, <1>2, <1>3, LimiterSafe, PTL DEF LimiterSpec
=============================================================================
