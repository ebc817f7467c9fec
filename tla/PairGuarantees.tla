--------------------------- MODULE PairGuarantees ---------------------------
(***************************************************************************)
(* More proofs about PairFlow, on top of the invariant of PairFlowProofs:   *)
(* requests never expire early, pairs come from verified halves, and the    *)
(* whole handshake implements PairRegistry.                                 *)
(***************************************************************************)
EXTENDS PairFlowProofs

-----------------------------------------------------------------------------
(* Time.  A row's expires_at is its exact deadline truncated, and no cutoff *)
(* is ahead of the clock.                                                   *)

TimeInv ==
    /\ sweeper.now <= clock
    /\ \A id \in ReqIds : pair_requests[id] # Null =>
          pair_requests[id].expires_at = formatTime(deadline[id])
    /\ NoEarlyExpiry

\* Truncation keeps the order: what is overdue in whole seconds is overdue.
LEMMA FormatMonotone ==
    ASSUME NEW a \in Nat, NEW b \in Nat, formatTime(a) < formatTime(b)
    PROVE  a < b
<1> DEFINE k == TicksPerSecond
           q == a \div k
           r == b \div k
<1>1. k \in Nat /\ k > 0
  BY TimeAssumption
<1>2. q \in Int /\ r \in Int /\ a < k * q + k /\ k * r <= b
  BY <1>1
<1>3. q + 1 <= r
  BY <1>2 DEF formatTime
<1> HIDE DEF q, r, k
<1>4. k * (q + 1) <= k * r
  BY <1>1, <1>2, <1>3
<1>5. k * (q + 1) = k * q + k
  BY <1>1, <1>2
<1> QED BY <1>1, <1>2, <1>4, <1>5

\* ExpirePendingRequests with a cutoff that has been reached expires no
\* request before its deadline.
LEMMA ExpireOnTime ==
    ASSUME TypeOK, TimeInv, NEW cutoff \in Nat, cutoff <= clock,
           ExpirePendingRequests(cutoff), UNCHANGED <<clock, deadline>>
    PROVE  /\ \A id \in ReqIds : pair_requests'[id] # Null =>
                 pair_requests'[id].expires_at = formatTime(deadline'[id])
           /\ NoEarlyExpiry'
<1> SUFFICES ASSUME NEW id \in ReqIds
             PROVE  /\ pair_requests'[id] # Null =>
                         pair_requests'[id].expires_at = formatTime(deadline[id])
                    /\ HasStatus(id, "expired")' => clock > deadline[id]
  BY DEF NoEarlyExpiry, formatTime
<1> DEFINE row == pair_requests[id]
<1>1. clock \in Nat /\ deadline[id] \in Nat
  BY DEF TypeOK
<1>2. CASE Overdue(row, cutoff)
  <2>1. row \in Row
    BY <1>2 DEF TypeOK, Overdue
  <2>2. pair_requests'[id] = [row EXCEPT !.status = "expired"]
    BY <1>2 DEF ExpirePendingRequests
  <2>3. pair_requests'[id].expires_at = row.expires_at
    BY <2>1, <2>2 DEF Row
  <2>4. row.expires_at = formatTime(deadline[id]) /\ row.expires_at < formatTime(cutoff)
    BY <1>2 DEF Overdue, TimeInv
  <2>5. deadline[id] < cutoff
    BY <1>1, <2>4, FormatMonotone
  <2> QED BY <1>1, <2>3, <2>4, <2>5
<1>3. CASE ~Overdue(row, cutoff)
  <2>1. pair_requests'[id] = row
    BY <1>3 DEF ExpirePendingRequests
  <2> QED BY <2>1 DEF TimeInv, NoEarlyExpiry, HasStatus
<1> QED BY <1>2, <1>3

\* One step keeps expiry on time.
LEMMA TimeStep ==
    ASSUME Inv, TimeInv, [Next]_vars
    PROVE  TimeInv'
<1> USE DEF Inv
<1> DEFINE Exact == \A id \in ReqIds : pair_requests'[id] # Null =>
                        pair_requests'[id].expires_at = formatTime(deadline'[id])
<1> SUFFICES sweeper'.now <= clock' /\ Exact /\ NoEarlyExpiry'
  BY DEF TimeInv, formatTime
<1>t. clock \in Nat /\ sweeper.now \in Nat /\ sweeper.now <= clock
  BY DEF TypeOK, TimeInv
<1>q. ASSUME Quiet PROVE sweeper'.now <= clock' /\ UNCHANGED <<clock, deadline>>
  BY <1>q DEF Quiet, TimeInv
<1>s. ASSUME UNCHANGED pair_requests, UNCHANGED deadline, clock' \in Nat, clock <= clock'
      PROVE  Exact /\ NoEarlyExpiry'
  BY <1>s, <1>t DEF TimeInv, NoEarlyExpiry, HasStatus, TypeOK
<1>0. CASE UNCHANGED vars
  BY <1>0, <1>s, <1>t DEF vars
<1>1. ASSUME NEW p \in Procs, dispatch(p)
      PROVE  sweeper'.now <= clock' /\ Exact /\ NoEarlyExpiry'
  <2>1. CASE ExpirePendingRequests(clock)
    BY <1>1, <1>q, <1>t, <2>1, ExpireOnTime DEF dispatch
  <2> QED BY <1>1, <1>q, <1>s, <1>t, <2>1 DEF dispatch
<1>2. ASSUME NEW p \in Procs, InsertPairRequest(p)
      PROVE  sweeper'.now <= clock' /\ Exact /\ NoEarlyExpiry'
  <2>1. UNCHANGED <<clock, sweeper>>
    BY <1>2 DEF InsertPairRequest
  <2>2. CASE UNCHANGED <<pair_requests, deadline>>
    BY <2>1, <2>2, <1>s, <1>t
  <2>3. ASSUME NEW id \in ReqIds, pair_requests[id] = Null,
               pair_requests' = [pair_requests EXCEPT ![id] =
                   [status |-> "pending",
                    expires_at |-> formatTime(proc[p].now + RequestTTL),
                    requester |-> proc[p].half,
                    owner_json |-> Null, path_id |-> Null]],
               deadline' = [deadline EXCEPT ![id] = proc[p].now + RequestTTL]
        PROVE  Exact /\ NoEarlyExpiry'
    BY <2>1, <2>3 DEF TypeOK, TimeInv, NoEarlyExpiry, HasStatus
  <2> QED BY <1>2, <1>t, <2>1, <2>2, <2>3 DEF InsertPairRequest, FailWith, store
<1>3. ASSUME NEW p \in Procs, UpdatePairRequestStatus(p), proc[p].id \in ReqIds
      PROVE  sweeper'.now <= clock' /\ Exact /\ NoEarlyExpiry'
  <2> DEFINE id == proc[p].id
             row == pair_requests[id]
             new == [row EXCEPT !.status = Target(p),
                                !.owner_json = coalesce(proc[p].json, @),
                                !.path_id = coalesce(proc[p].path, @)]
  <2>1. sweeper'.now <= clock' /\ UNCHANGED <<clock, deadline>>
    BY <1>3, <1>q DEF UpdatePairRequestStatus
  <2>2. CASE UNCHANGED pair_requests
    BY <2>1, <2>2, <1>s, <1>t
  <2>3. CASE id \in Pending /\ pair_requests' = [pair_requests EXCEPT ![id] = new]
    <3>1. row \in Row
      BY <2>3 DEF TypeOK, Pending
    <3>2. new.expires_at = row.expires_at /\ new.status # "expired"
      BY <3>1 DEF Row, Target
    <3> QED BY <1>3, <2>1, <2>3, <3>1, <3>2, RowNotNull DEF TypeOK, TimeInv, NoEarlyExpiry, HasStatus
  <2> QED BY <1>3, <2>1, <2>2, <2>3 DEF UpdatePairRequestStatus
<1>4. ASSUME NEW p \in Procs, deny(p) \/ approveUpdate(p)
      PROVE  sweeper'.now <= clock' /\ Exact /\ NoEarlyExpiry'
  BY <1>3, <1>4 DEF deny, approveUpdate, At, CallShape
<1>5. CASE Tick
  BY <1>5, <1>s, <1>t DEF Tick, store
<1>6. CASE sweepStart
  BY <1>6, <1>s, <1>t DEF sweepStart, store
<1>7. CASE sweepExpire
  BY <1>7, <1>t, ExpireOnTime DEF sweepExpire
<1>8. CASE sweepFail \/ Crash
  BY <1>8, <1>s, <1>t DEF sweepFail, Crash, store
<1>9. ASSUME NEW p \in Procs, Quiet, UNCHANGED pair_requests
      PROVE  sweeper'.now <= clock' /\ Exact /\ NoEarlyExpiry'
  BY <1>9, <1>q, <1>s, <1>t
<1>10. ASSUME NEW p \in Procs, InsertPair(p)
       PROVE  sweeper'.now <= clock' /\ Exact /\ NoEarlyExpiry'
  BY <1>10, <1>s, <1>t DEF InsertPair, FailWith, store
<1> QED
  BY <1>0, <1>1, <1>2, <1>4, <1>5, <1>6, <1>7, <1>8, <1>9, <1>10
     DEF Next, Handler, ownerAuthRequired, badRequest, finish, createRequest,
         getRequestStatus, listPending, approve, approveIdempotent,
         approveDuplicate, updateLookup, store

\* A request is never expired before its full TTL has passed, whatever the
\* resolution of the clock and however old the sweeper's reading of it.
THEOREM NeverExpiresEarly == Spec => []NoEarlyExpiry
<1>1. Init => TimeInv
  BY DEF Init, TimeInv, NoEarlyExpiry, HasStatus
<1>2. Inv /\ TimeInv /\ [Next]_vars => TimeInv'
  BY TimeStep
<1>3. TimeInv => NoEarlyExpiry
  BY DEF TimeInv
<1> QED BY <1>1, <1>2, <1>3, Invariance, PTL DEF Spec

-----------------------------------------------------------------------------
(* Provenance.  A half is on its way into a table only when its fields and  *)
(* its self-signature were checked.                                         *)

Checked(h) == parseHalf(h) /\ verifySelfSig(h)

\* The halves that calls are about to write were checked.
CallsVerified ==
    \A p \in Procs : proc[p].pc \in {"insert", "insertPair"} =>
        Checked(proc[p].half)

\* Where a pair comes from, as the approval that inserted it saw it.
PairsOrigin ==
    \A path \in PathIds : pairs[path] # Null =>
        /\ path = PathOf(pairs[path].requester, pairs[path].owner)
        /\ origin[path] \in Origin
        /\ Checked(origin[path].half)
        /\ origin[path].half.pubkey = pairs[path].owner
        /\ pair_requests[origin[path].id] # Null
        /\ pair_requests[origin[path].id].requester.pubkey = pairs[path].requester

VerifiedInv ==
    /\ \A id \in ReqIds : pair_requests[id] # Null =>
          Checked(pair_requests[id].requester)
    /\ CallsVerified
    /\ PairsOrigin

\* One step of a goroutine keeps the halves in flight verified.
LEMMA VerifiedCalls ==
    ASSUME TypeOK, CallsVerified, [Next]_vars
    PROVE  CallsVerified'
<1> DEFINE Ok(c) == c.pc \in {"insert", "insertPair"} => Checked(c.half)
<1>0. \A p \in Procs : proc[p] \in Local /\ Ok(proc[p])
  BY DEF CallsVerified, TypeOK
<1>1. ASSUME NEW p \in Procs, NEW X, Ok(X), proc' = [proc EXCEPT ![p] = X]
      PROVE  CallsVerified'
  BY <1>0, <1>1 DEF CallsVerified, TypeOK, Checked, parseHalf, verifySelfSig
<1>2. ASSUME NEW p \in Procs, NEW r, Reply(p, r) PROVE CallsVerified'
  <2>1. Ok(Holding("done", proc[p].op, proc[p].id, proc[p].half, r))
    BY DEF Holding
  <2> HIDE DEF Ok
  <2> QED BY <1>1, <1>2, <2>1 DEF Reply
<1>3. ASSUME NEW p \in Procs, NEW code, Refuse(p, code) PROVE CallsVerified'
  <2>1. Ok(Holding("done", "none", Null, Null, Refusal(code)))
    BY DEF Holding
  <2> HIDE DEF Ok
  <2> QED BY <1>1, <1>3, <2>1 DEF Refuse
<1>4. ASSUME NEW p \in Procs, dispatch(p) PROVE CallsVerified'
  <2>1. \A op, id, h : Ok(Holding("handle", op, id, h, Null))
    BY DEF Holding
  <2> HIDE DEF Ok
  <2> QED BY <1>1, <1>4, <2>1 DEF dispatch
<1>5. ASSUME NEW p \in Procs, createRequest(p) PROVE CallsVerified'
  <2>1. Checked(proc[p].half) =>
            Ok([proc[p] EXCEPT !.pc = "insert", !.now = clock])
    BY <1>0 DEF Local
  <2> HIDE DEF Ok
  <2> QED BY <1>1, <1>3, <1>5, <2>1 DEF createRequest, Checked
<1>6. ASSUME NEW p \in Procs, approve(p) PROVE CallsVerified'
  <2> DEFINE row == pair_requests[proc[p].id]
             a == [proc[p] EXCEPT !.pc = "idempotent", !.requester = row.requester,
                                  !.path = row.path_id]
             b == [proc[p] EXCEPT !.pc = "insertPair", !.requester = row.requester,
                                  !.path = PathOf(row.requester.pubkey,
                                                  proc[p].half.pubkey)]
  <2>1. Ok(a) /\ (Checked(proc[p].half) => Ok(b))
    BY <1>0 DEF Local
  <2>2. \/ \E code \in Int : Refuse(p, code)
        \/ proc' = [proc EXCEPT ![p] = a]
        \/ Checked(proc[p].half) /\ proc' = [proc EXCEPT ![p] = b]
    BY <1>6 DEF approve, Checked
  <2> HIDE DEF Ok, a, b
  <2> QED BY <1>1, <1>3, <2>1, <2>2
<1>7. ASSUME NEW p \in Procs, InsertPair(p) \/ approveDuplicate(p)
      PROVE  CallsVerified'
  <2>1. /\ Ok([proc[p] EXCEPT !.pc = "update",
                              !.json = [form |-> "half", half |-> proc[p].half]])
        /\ Ok([proc[p] EXCEPT !.pc = "update",
                              !.json = [form |-> "body", half |-> proc[p].half]])
        /\ Ok([proc[p] EXCEPT !.pc = "getPair"])
    BY <1>0 DEF Local
  <2> HIDE DEF Ok
  <2> QED BY <1>1, <1>3, <1>7, <2>1 DEF InsertPair, approveDuplicate, FailWith
<1>8. ASSUME NEW p \in Procs, deny(p) \/ approveUpdate(p) PROVE CallsVerified'
  <2>1. Ok([proc[p] EXCEPT !.pc = "lookup"])
    BY <1>0 DEF Local
  <2> HIDE DEF Ok
  <2> QED BY <1>1, <1>2, <1>8, <2>1
             DEF deny, approveUpdate, UpdatePairRequestStatus
<1>9. Ok(Idle)
  BY DEF Idle, Holding
<1>10. ASSUME NEW p \in Procs, finish(p) PROVE CallsVerified'
  <2> HIDE DEF Ok
  <2> QED BY <1>1, <1>9, <1>10 DEF finish
<1>11. CASE Crash
  BY <1>9, <1>11 DEF Crash, CallsVerified
<1>12. ASSUME UNCHANGED proc PROVE CallsVerified'
  BY <1>12 DEF CallsVerified
<1>13. ASSUME NEW p \in Procs,
              \/ ownerAuthRequired(p) \/ badRequest(p) \/ InsertPairRequest(p)
              \/ getRequestStatus(p) \/ listPending(p)
              \/ approveIdempotent(p) \/ updateLookup(p)
       PROVE  CallsVerified'
  BY <1>2, <1>3, <1>13, OnlyAnswers
<1> HIDE DEF Ok
<1> QED
  BY <1>4, <1>5, <1>6, <1>7, <1>8, <1>10, <1>11, <1>12, <1>13
     DEF Next, Handler, Tick, sweepStart, sweepExpire, sweepFail, vars

\* The only step that stages a request is InsertPairRequest, for the
\* half its call verified.
LEMMA RowAdded ==
    ASSUME Inv, [Next]_vars, NEW id \in ReqIds,
           pair_requests[id] = Null, pair_requests'[id] # Null
    PROVE  \E p \in Procs :
              /\ proc[p].pc = "insert"
              /\ pair_requests'[id].requester = proc[p].half
<1> DEFINE G == \E p \in Procs :
                   /\ proc[p].pc = "insert"
                   /\ pair_requests'[id].requester = proc[p].half
<1> SUFFICES G
  OBVIOUS
<1>t. TypeOK /\ CallShape
  BY DEF Inv
<1>1. ASSUME NEW cutoff, ExpirePendingRequests(cutoff) PROVE G
  BY <1>1 DEF ExpirePendingRequests, Overdue
<1>2. ASSUME UNCHANGED pair_requests PROVE G
  BY <1>2
<1>3. ASSUME UNCHANGED store PROVE G
  BY <1>3 DEF store
<1>4. ASSUME NEW p \in Procs, InsertPairRequest(p) PROVE G
  <2>1. CASE UNCHANGED store
    BY <2>1, <1>3
  <2>2. ASSUME NEW i \in ReqIds,
               pair_requests' = [pair_requests EXCEPT ![i] =
                   [status |-> "pending",
                    expires_at |-> formatTime(proc[p].now + RequestTTL),
                    requester |-> proc[p].half,
                    owner_json |-> Null, path_id |-> Null]]
        PROVE  pair_requests'[id].requester = proc[p].half
    BY <2>2, <1>t DEF TypeOK
  <2> QED BY <1>4, <2>1, <2>2 DEF InsertPairRequest, FailWith
<1>5. ASSUME NEW p \in Procs, deny(p) \/ approveUpdate(p) PROVE G
  <2>1. UpdatePairRequestStatus(p)
    BY <1>5 DEF deny, approveUpdate
  <2>2. CASE UNCHANGED pair_requests
    BY <2>2, <1>2
  <2>3. ASSUME NEW new, proc[p].id \in Pending,
               pair_requests' = [pair_requests EXCEPT ![proc[p].id] = new]
        PROVE  pair_requests'[id] = pair_requests[id]
    BY <2>3, <1>t DEF Pending, TypeOK
  <2> QED BY <2>1, <2>2, <2>3 DEF UpdatePairRequestStatus
<1>6. ASSUME NEW p \in Procs, InsertPair(p) PROVE G
  BY <1>6, <1>2, <1>3 DEF InsertPair, FailWith
<1>7. ASSUME NEW p \in Procs, dispatch(p) PROVE G
  BY <1>7, <1>1, <1>2 DEF dispatch
<1>8. CASE sweepExpire
  BY <1>8, <1>1 DEF sweepExpire
<1>9. CASE UNCHANGED vars
  BY <1>9, <1>2 DEF vars
<1> HIDE DEF G
<1>10. ASSUME NEW p \in Procs,
              \/ ownerAuthRequired(p) \/ badRequest(p) \/ finish(p)
              \/ createRequest(p) \/ getRequestStatus(p) \/ listPending(p)
              \/ approve(p) \/ approveIdempotent(p) \/ approveDuplicate(p)
              \/ updateLookup(p)
       PROVE  G
  BY <1>3, <1>10
     DEF ownerAuthRequired, badRequest, finish, createRequest,
         getRequestStatus, listPending, approve, approveIdempotent,
         approveDuplicate, updateLookup
<1>11. CASE Tick \/ sweepStart \/ sweepFail \/ Crash
  BY <1>3, <1>11 DEF Tick, sweepStart, sweepFail, Crash
<1> QED
  BY <1>4, <1>5, <1>6, <1>7, <1>8, <1>9, <1>10, <1>11 DEF Next, Handler

\* One step stages checked requesters only.
LEMMA VerifiedRows ==
    ASSUME Inv, VerifiedInv, [Next]_vars
    PROVE  \A id \in ReqIds : pair_requests'[id] # Null =>
              Checked(pair_requests'[id].requester)
<1> SUFFICES ASSUME NEW id \in ReqIds, pair_requests'[id] # Null
             PROVE  Checked(pair_requests'[id].requester)
  OBVIOUS
<1>1. CASE pair_requests[id] # Null
  BY <1>1, StepKeeps DEF RowsKept, VerifiedInv, Inv
<1>2. CASE pair_requests[id] = Null
  BY <1>2, RowAdded DEF VerifiedInv, CallsVerified
<1> QED BY <1>1, <1>2

\* The only step that adds a pair, or records an origin, is InsertPair at a
\* free path, for the call's own keys, request and half.
LEMMA PairAdded ==
    ASSUME Inv, [Next]_vars, NEW path \in PathIds,
           pairs'[path] # pairs[path] \/ origin'[path] # origin[path]
    PROVE  \E p \in Procs :
              /\ InsertPair(p)
              /\ proc[p].pc = "insertPair" /\ proc[p].path = path
              /\ pairs[path] = Null
              /\ pairs'[path] = [requester |-> proc[p].requester.pubkey,
                                 owner |-> proc[p].half.pubkey]
              /\ origin'[path] = [id |-> proc[p].id, half |-> proc[p].half]
<1> DEFINE G == \E p \in Procs :
              /\ InsertPair(p)
              /\ proc[p].pc = "insertPair" /\ proc[p].path = path
              /\ pairs[path] = Null
              /\ pairs'[path] = [requester |-> proc[p].requester.pubkey,
                                 owner |-> proc[p].half.pubkey]
              /\ origin'[path] = [id |-> proc[p].id, half |-> proc[p].half]
<1> SUFFICES G
  OBVIOUS
<1>t. TypeOK
  BY DEF Inv
<1>1. ASSUME NEW p \in Procs, InsertPair(p) PROVE G
  <2>1. /\ proc[p].pc = "insertPair" /\ pairs[proc[p].path] = Null
        /\ pairs' =
            [pairs EXCEPT ![proc[p].path] =
                [requester |-> proc[p].requester.pubkey,
                 owner |-> proc[p].half.pubkey]]
        /\ origin' = [origin EXCEPT ![proc[p].path] =
                [id |-> proc[p].id, half |-> proc[p].half]]
    BY <1>1 DEF InsertPair, FailWith, store
  <2>2. proc[p].path = path
    BY <2>1, <1>t DEF TypeOK
  <2>3. /\ pairs'[path] = [requester |-> proc[p].requester.pubkey,
                           owner |-> proc[p].half.pubkey]
        /\ origin'[path] = [id |-> proc[p].id, half |-> proc[p].half]
    BY <2>1, <2>2, <1>t DEF TypeOK
  <2> QED BY <1>1, <2>1, <2>2, <2>3
<1>2. ASSUME UNCHANGED <<pairs, origin>> PROVE G
  BY <1>2
<1>3. ASSUME UNCHANGED <<store, origin>> PROVE G
  BY <1>3, <1>2 DEF store
<1>4. ASSUME NEW p \in Procs, InsertPairRequest(p) PROVE G
  BY <1>4, <1>2, <1>3 DEF InsertPairRequest, FailWith
<1>5. ASSUME NEW p \in Procs, deny(p) \/ approveUpdate(p) PROVE G
  BY <1>5, <1>2 DEF deny, approveUpdate, UpdatePairRequestStatus, Quiet
<1>6. ASSUME NEW p \in Procs, dispatch(p) PROVE G
  BY <1>6, <1>2 DEF dispatch, Quiet
<1>7. CASE sweepExpire
  BY <1>7, <1>2 DEF sweepExpire
<1>8. CASE UNCHANGED vars
  BY <1>8, <1>2 DEF vars
<1> HIDE DEF G
<1> QED
  BY <1>1, <1>3, <1>4, <1>5, <1>6, <1>7, <1>8
     DEF Next, Handler, ownerAuthRequired, badRequest, finish, createRequest,
         getRequestStatus, listPending, approve, approveIdempotent,
         approveDuplicate, updateLookup, Tick, sweepStart, sweepFail, Crash,
         Quiet

\* One step keeps every pair at its path and with its origin.
LEMMA OriginStep ==
    ASSUME Inv, VerifiedInv, [Next]_vars
    PROVE  PairsOrigin'
<1> USE DEF Inv
<1> DEFINE From(path, pr, o) ==
        /\ path = PathOf(pr.requester, pr.owner)
        /\ o \in Origin
        /\ Checked(o.half)
        /\ o.half.pubkey = pr.owner
        /\ pair_requests'[o.id] # Null
        /\ pair_requests'[o.id].requester.pubkey = pr.requester
<1> SUFFICES ASSUME NEW path \in PathIds, pairs'[path] # Null
             PROVE  From(path, pairs'[path], origin'[path])
  BY DEF PairsOrigin, PathOf, computePathID, Origin, Checked, parseHalf, verifySelfSig
<1>k. RowsKept
  BY StepKeeps
<1>1. CASE UNCHANGED <<pairs[path], origin[path]>>
  <2>1. /\ path = PathOf(pairs[path].requester, pairs[path].owner)
        /\ origin[path] \in Origin
        /\ Checked(origin[path].half)
        /\ origin[path].half.pubkey = pairs[path].owner
        /\ pair_requests[origin[path].id] # Null
        /\ pair_requests[origin[path].id].requester.pubkey = pairs[path].requester
    BY <1>1 DEF VerifiedInv, PairsOrigin
  <2>2. origin[path].id \in ReqIds
    BY <2>1 DEF Origin
  <2>3. /\ pair_requests'[origin[path].id] # Null
        /\ pair_requests'[origin[path].id].requester =
              pair_requests[origin[path].id].requester
    BY <2>1, <2>2, <1>k DEF RowsKept
  <2> QED BY <1>1, <2>1, <2>3
<1>2. CASE ~(UNCHANGED <<pairs[path], origin[path]>>)
  <2>1. PICK p \in Procs :
          /\ proc[p].pc = "insertPair" /\ proc[p].path = path
          /\ pairs'[path] = [requester |-> proc[p].requester.pubkey,
                             owner |-> proc[p].half.pubkey]
          /\ origin'[path] = [id |-> proc[p].id, half |-> proc[p].half]
    BY <1>2, PairAdded
  <2>2. proc[p].op = "approve" /\ proc[p].id \in ReqIds /\ proc[p].half \in Halves
    BY <2>1 DEF CallShape
  <2>3. /\ pair_requests[proc[p].id] # Null
        /\ pair_requests[proc[p].id].requester = proc[p].requester
        /\ path = PathOf(proc[p].requester.pubkey, proc[p].half.pubkey)
    BY <2>1, <2>2 DEF InFlight, InFlightAt, Approving
  <2>4. /\ pair_requests'[proc[p].id] # Null
        /\ pair_requests'[proc[p].id].requester = proc[p].requester
    BY <2>2, <2>3, <1>k DEF RowsKept
  <2>5. Checked(proc[p].half)
    BY <2>1 DEF VerifiedInv, CallsVerified
  <2>6. origin'[path] \in Origin
    BY <2>1, <2>2 DEF Origin
  <2> QED BY <2>1, <2>3, <2>4, <2>5, <2>6
<1> QED BY <1>1, <1>2

\* The origin of pairs holds in every reachable state.
THEOREM VerifiedInvariance == Spec => []VerifiedInv
<1>1. Init => VerifiedInv
  BY DEF Init, VerifiedInv, CallsVerified, PairsOrigin, Idle, Holding
<1>2. Inv /\ VerifiedInv /\ [Next]_vars => VerifiedInv'
  <2> SUFFICES ASSUME Inv, VerifiedInv, [Next]_vars PROVE VerifiedInv'
    OBVIOUS
  <2>1. CallsVerified'
    BY VerifiedCalls DEF Inv, VerifiedInv
  <2>2. PairsOrigin'
    BY OriginStep
  <2> QED BY <2>1, <2>2, VerifiedRows DEF VerifiedInv, Checked, parseHalf, verifySelfSig
<1> QED BY <1>1, <1>2, Invariance, PTL DEF Spec

\* A path holds the bytes of its two keys.
LEMMA PathHoldsKeys ==
    ASSUME NEW a \in Pubkeys, NEW b \in Pubkeys
    PROVE  {PathOf(a, b)[1], PathOf(a, b)[2]} = {Raw[a], Raw[b]}
BY RawAssumption DEF PathOf, computePathID

\* The path of two keys depends on their bytes alone, in no order.
LEMMA PathByKeys ==
    ASSUME NEW a \in Pubkeys, NEW b \in Pubkeys,
           NEW c \in Pubkeys, NEW d \in Pubkeys,
           {Raw[a], Raw[b]} = {Raw[c], Raw[d]}
    PROVE  PathOf(a, b) = PathOf(c, d)
<1>1. \/ Raw[a] = Raw[c] /\ Raw[b] = Raw[d]
      \/ Raw[a] = Raw[d] /\ Raw[b] = Raw[c]
  OBVIOUS
<1> QED BY <1>1, RawAssumption DEF PathOf, computePathID

\* No pair without consent: every pair was inserted for a request that its
\* requester staged and by an approval with the half of its owner, both with
\* good self-signatures, and two keys have one pair at most.
THEOREM PairsHaveProvenance == Spec => []PairProvenance
<1>1. Inv /\ VerifiedInv => PairProvenance
  <2> SUFFICES ASSUME Inv, VerifiedInv, NEW path \in PathIds, pairs[path] # Null
               PROVE  /\ origin[path] \in Origin
                      /\ Checked(origin[path].half)
                      /\ origin[path].half.pubkey = pairs[path].owner
                      /\ pair_requests[origin[path].id] # Null
                      /\ verifySelfSig(pair_requests[origin[path].id].requester)
                      /\ pair_requests[origin[path].id].requester.pubkey =
                            pairs[path].requester
                      /\ {path[1], path[2]} = KeysOf(pairs[path])
                      /\ \A q \in PathIds :
                            (pairs[q] # Null /\ KeysOf(pairs[q]) = KeysOf(pairs[path]))
                                => q = path
    BY DEF PairProvenance, Checked
  <2>1. /\ path = PathOf(pairs[path].requester, pairs[path].owner)
        /\ origin[path] \in Origin
        /\ Checked(origin[path].half)
        /\ origin[path].half.pubkey = pairs[path].owner
        /\ pair_requests[origin[path].id] # Null
        /\ pair_requests[origin[path].id].requester.pubkey = pairs[path].requester
    BY DEF VerifiedInv, PairsOrigin
  <2>2. verifySelfSig(pair_requests[origin[path].id].requester)
    BY <2>1 DEF VerifiedInv, Origin, Checked
  <2>3. ASSUME NEW q \in PathIds, pairs[q] # Null
        PROVE  pairs[q].requester \in Pubkeys /\ pairs[q].owner \in Pubkeys
    BY <2>3 DEF Inv, TypeOK, PairRow
  <2>4. {path[1], path[2]} = KeysOf(pairs[path])
    BY <2>1, <2>3, PathHoldsKeys DEF KeysOf
  <2>5. ASSUME NEW q \in PathIds, pairs[q] # Null,
               KeysOf(pairs[q]) = KeysOf(pairs[path])
        PROVE  q = path
    <3>1. q = PathOf(pairs[q].requester, pairs[q].owner)
      BY <2>5 DEF VerifiedInv, PairsOrigin
    <3>2. PICK a \in Pubkeys, b \in Pubkeys :
              a = pairs[q].requester /\ b = pairs[q].owner
      BY <2>3, <2>5
    <3>3. PICK c \in Pubkeys, d \in Pubkeys :
              c = pairs[path].requester /\ d = pairs[path].owner
      BY <2>3
    <3>4. {Raw[a], Raw[b]} = {Raw[c], Raw[d]}
      BY <2>5, <3>2, <3>3 DEF KeysOf
    <3>5. PathOf(a, b) = PathOf(c, d)
      BY <3>4, PathByKeys
    <3> QED BY <2>1, <3>1, <3>2, <3>3, <3>5
  <2> QED BY <2>1, <2>2, <2>4, <2>5
<1> QED BY <1>1, Invariance, VerifiedInvariance, PTL

-----------------------------------------------------------------------------
(* Answers.  What an answer says rests on rows that no later step undoes.    *)

\* The answer r to a call is true of the tables.
Says(op, id, half, r) ==
    /\ op = "approve" /\ r.code = 200 =>
          /\ id \in ReqIds /\ pair_requests[id] # Null
          /\ half \in Halves /\ r.path \in PathIds
          /\ pairs[r.path] = [requester |-> pair_requests[id].requester.pubkey,
                              owner |-> half.pubkey]
    /\ op = "deny" /\ r.code = 200 => id \in ReqIds /\ HasStatus(id, "denied")
    /\ op = "deny" /\ r.code = 409 =>
          id \in ReqIds /\ (HasStatus(id, "approved") \/ HasStatus(id, "expired"))
    /\ op = "poll" /\ r.status \in Terminal =>
          /\ id \in ReqIds /\ HasStatus(id, r.status)
          /\ pair_requests[id].path_id = r.path

Answered ==
    \A p \in Procs : proc[p].pc = "done" =>
        Says(proc[p].op, proc[p].id, proc[p].half, proc[p].resp)

\* A true answer stays true.
LEMMA SaysKept ==
    ASSUME TypeOK, RowsKept, PairsKept, NEW op, NEW id, NEW half, NEW r,
           Says(op, id, half, r)
    PROVE  Says(op, id, half, r)'
<1>1. ASSUME op = "approve", r.code = 200
      PROVE  /\ id \in ReqIds /\ pair_requests'[id] # Null
             /\ half \in Halves /\ r.path \in PathIds
             /\ pairs'[r.path] = [requester |-> pair_requests'[id].requester.pubkey,
                                  owner |-> half.pubkey]
  <2>1. /\ id \in ReqIds /\ pair_requests[id] # Null
        /\ half \in Halves /\ r.path \in PathIds
        /\ pairs[r.path] = [requester |-> pair_requests[id].requester.pubkey,
                            owner |-> half.pubkey]
    BY <1>1 DEF Says
  <2>2. pair_requests[id].requester \in Halves
    BY <2>1 DEF TypeOK, Row
  <2>3. pairs[r.path] \in PairRow
    BY <2>1, <2>2, HalfKey DEF PairRow
  <2>4. pairs'[r.path] = pairs[r.path]
    BY <2>1, <2>3, RowNotNull DEF PairsKept
  <2>5. /\ pair_requests'[id] # Null
        /\ pair_requests'[id].requester = pair_requests[id].requester
    BY <2>1 DEF RowsKept
  <2> QED BY <2>1, <2>4, <2>5
<1>2. ASSUME NEW st \in Terminal, id \in ReqIds, HasStatus(id, st)
      PROVE  HasStatus(id, st)' /\ pair_requests'[id] = pair_requests[id]
  BY <1>2 DEF HasStatus, RowsKept, Terminal
<1>3. "denied" \in Terminal /\ "approved" \in Terminal /\ "expired" \in Terminal
  BY DEF Terminal, Statuses
<1>4. ASSUME op = "deny", r.code = 200 PROVE id \in ReqIds /\ HasStatus(id, "denied")'
  BY <1>2, <1>3, <1>4 DEF Says
<1>5. ASSUME op = "deny", r.code = 409
      PROVE  id \in ReqIds /\ (HasStatus(id, "approved")' \/ HasStatus(id, "expired")')
  BY <1>2, <1>3, <1>5 DEF Says
<1>6. ASSUME op = "poll", r.status \in Terminal
      PROVE  /\ id \in ReqIds /\ HasStatus(id, r.status)'
             /\ pair_requests'[id].path_id = r.path
  <2>1. id \in ReqIds /\ HasStatus(id, r.status) /\ pair_requests[id].path_id = r.path
    BY <1>6 DEF Says
  <2> QED BY <1>2, <1>6, <2>1
<1> QED BY <1>1, <1>4, <1>5, <1>6 DEF Says

\* A call past InsertPair may answer "approved".
LEMMA ApprovedSays ==
    ASSUME Inv, NEW p \in Procs, proc[p].pc \in {"update", "lookup"},
           proc[p].op = "approve"
    PROVE  Says("approve", proc[p].id, proc[p].half, Approved(p))
<1>1. proc[p].id \in ReqIds /\ proc[p].half \in Halves
  BY DEF Inv, CallShape
<1>2. /\ proc[p].requester \in Halves /\ pair_requests[proc[p].id] # Null
      /\ pair_requests[proc[p].id].requester = proc[p].requester
      /\ proc[p].path = PathOf(proc[p].requester.pubkey, proc[p].half.pubkey)
      /\ SamePair(p)
  BY DEF Inv, InFlight, InFlightAt, Approving
<1>3. proc[p].path \in PathIds
  BY <1>1, <1>2, HalfKey, PathOfType
<1>4. PICK r : r = Approved(p)
  OBVIOUS
<1>5. r.path = proc[p].path
  BY <1>4 DEF Approved, Answer
<1> QED BY <1>1, <1>2, <1>3, <1>4, <1>5 DEF Says, SamePair

\* So may a call that found its request approved for the owner it was sent.
LEMMA IdempotentSays ==
    ASSUME Inv, NEW p \in Procs, proc[p].pc = "idempotent",
           pairs[proc[p].path].owner = proc[p].half.pubkey
    PROVE  Says("approve", proc[p].id, proc[p].half, Approved(p))
<1>1. proc[p].op = "approve" /\ proc[p].id \in ReqIds /\ proc[p].half \in Halves
  BY DEF Inv, CallShape
<1>2. /\ HasStatus(proc[p].id, "approved")
      /\ proc[p].path = pair_requests[proc[p].id].path_id
      /\ proc[p].path \in PathIds
  BY <1>1 DEF Inv, InFlight, InFlightAt, Approving
<1>3. PICK row : row = pair_requests[proc[p].id]
  OBVIOUS
<1>4. pairs[proc[p].path] = PairFor(row)
  BY <1>1, <1>2, <1>3 DEF Inv, ApprovedBacked
<1>5. pairs[proc[p].path] = [requester |-> row.requester.pubkey,
                             owner |-> proc[p].half.pubkey]
  BY <1>4 DEF PairFor
<1>6. PICK r : r = Approved(p)
  OBVIOUS
<1>7. r.path = proc[p].path
  BY <1>6 DEF Approved, Answer
<1> QED BY <1>1, <1>2, <1>3, <1>5, <1>6, <1>7 DEF Says, HasStatus

\* What the caller of UpdatePairRequestStatus answers is true, given what the
\* outcome says of a denial.
LEMMA SettleSays ==
    ASSUME Inv, NEW p \in Procs, proc[p].op \in {"approve", "deny"},
           proc[p].op = "approve" => proc[p].pc \in {"update", "lookup"},
           NEW outcome \in {"ok", "conflict", "notfound", "error"},
           proc[p].op = "deny" /\ outcome = "ok" => HasStatus(proc[p].id, "denied"),
           proc[p].op = "deny" /\ outcome = "conflict" =>
               HasStatus(proc[p].id, "approved") \/ HasStatus(proc[p].id, "expired")
    PROVE  Says(proc[p].op, proc[p].id, proc[p].half, Settle(p, outcome))
<1>1. PICK r : r = Settle(p, outcome)
  OBVIOUS
<1>2. CASE proc[p].op = "approve"
  <2>1. r = Approved(p) \/ r = Refusal(409) \/ r = Refusal(500)
    BY <1>1, <1>2 DEF Settle
  <2>2. CASE r = Approved(p)
    BY <1>1, <1>2, <2>2, ApprovedSays
  <2>3. CASE r = Refusal(409) \/ r = Refusal(500)
    <3>1. r.code # 200
      BY <2>3 DEF Refusal, Answer
    <3> QED BY <1>1, <1>2, <3>1 DEF Says
  <2> QED BY <2>1, <2>2, <2>3
<1>3. CASE proc[p].op = "deny"
  <2>1. proc[p].id \in ReqIds
    BY <1>3 DEF Inv, CallShape
  <2>2. /\ outcome # "ok" => r.code # 200
        /\ outcome # "conflict" => r.code # 409
    BY <1>1, <1>3 DEF Settle, Refusal, Answer
  <2> QED BY <1>1, <1>3, <2>1, <2>2 DEF Says
<1> QED BY <1>2, <1>3

\* One step: no answer becomes false, and the new answer is true.
LEMMA AnsweredStep ==
    ASSUME Inv, Answered, [Next]_vars
    PROVE  Answered'
<1>0. /\ TypeOK /\ CallShape /\ RowsKept /\ PairsKept
      /\ proc \in [Procs -> Local]
  BY StepKeeps DEF Inv, TypeOK
<1>1. ASSUME NEW q \in Procs, proc'[q] = proc[q], proc'[q].pc = "done"
      PROVE  Says(proc[q].op, proc[q].id, proc[q].half, proc[q].resp)'
  <2>1. PICK op, id, half, r : /\ op = proc[q].op /\ id = proc[q].id
                               /\ half = proc[q].half /\ r = proc[q].resp
    OBVIOUS
  <2>2. Says(op, id, half, r)
    BY <1>1, <2>1 DEF Answered
  <2>3. Says(op, id, half, r)'
    BY <1>0, <2>2, SaysKept
  <2> QED BY <1>1, <2>1, <2>3 DEF Says, HasStatus
<1>2. ASSUME NEW p \in Procs, NEW X, proc' = [proc EXCEPT ![p] = X],
             NEW op, NEW id, NEW half, NEW r,
             X.pc = "done" => /\ X.op = op /\ X.id = id /\ X.half = half
                              /\ X.resp = r /\ Says(op, id, half, r)'
      PROVE  Answered'
  <2>1. \A q \in Procs : proc'[q] = IF q = p THEN X ELSE proc[q]
    BY <1>0, <1>2
  <2>2. ASSUME NEW q \in Procs, proc'[q].pc = "done"
        PROVE  Says(proc[q].op, proc[q].id, proc[q].half, proc[q].resp)'
    <3>1. CASE q = p
      BY <1>2, <2>1, <2>2, <3>1 DEF Says, HasStatus
    <3>2. CASE q # p
      BY <1>1, <2>1, <2>2, <3>2
    <3> QED BY <3>1, <3>2
  <2> QED BY <2>2 DEF Answered
<1>3. ASSUME NEW p \in Procs, NEW X, X.pc # "done", proc' = [proc EXCEPT ![p] = X]
      PROVE  Answered'
  BY <1>2, <1>3
<1>4. ASSUME NEW p \in Procs, NEW op, NEW id, NEW half, NEW r,
             op = proc[p].op, id = proc[p].id, half = proc[p].half,
             Reply(p, r), Says(op, id, half, r)'
      PROVE  Answered'
  <2>1. PICK X : X = Holding("done", op, id, half, r)
    OBVIOUS
  <2>2. X.op = op /\ X.id = id /\ X.half = half /\ X.resp = r
    BY <2>1 DEF Holding
  <2>3. proc' = [proc EXCEPT ![p] = X]
    BY <1>4, <2>1 DEF Reply
  <2> QED BY <1>2, <1>4, <2>2, <2>3
<1>5. ASSUME NEW p \in Procs, NEW r, Reply(p, r),
             Says(proc[p].op, proc[p].id, proc[p].half, r)
      PROVE  Answered'
  <2>1. PICK op, id, half : op = proc[p].op /\ id = proc[p].id /\ half = proc[p].half
    OBVIOUS
  <2>2. Says(op, id, half, r)'
    BY <1>0, <1>5, <2>1, SaysKept
  <2> QED BY <1>4, <1>5, <2>1, <2>2
<1>6. ASSUME NEW p \in Procs, NEW code, Refuse(p, code)
      PROVE  Answered'
  <2>1. PICK X : X = Holding("done", "none", Null, Null, Refusal(code))
    OBVIOUS
  <2>2. X.op = "none"
    BY <2>1 DEF Holding
  <2>3. Says("none", X.id, X.half, X.resp)'
    BY DEF Says
  <2>4. proc' = [proc EXCEPT ![p] = X]
    BY <1>6, <2>1 DEF Refuse
  <2> QED BY <1>2, <2>2, <2>3, <2>4
<1>7. ASSUME UNCHANGED proc PROVE Answered'
  BY <1>1, <1>7 DEF Answered
<1>8. CASE Crash
  BY <1>8 DEF Crash, Answered, Idle, Holding
<1>9. ASSUME NEW p \in Procs,
             \/ finish(p) \/ dispatch(p) \/ createRequest(p) \/ approve(p)
             \/ InsertPair(p) \/ approveDuplicate(p)
      PROVE  Answered'
  <2>0. proc[p] \in Local
    BY <1>0
  <2>1. \/ \E X : X.pc # "done" /\ proc' = [proc EXCEPT ![p] = X]
        \/ \E code \in Int : Refuse(p, code)
    <3>1. CASE finish(p)
      <4>1. Idle.pc # "done" BY DEF Idle, Holding
      <4> QED BY <3>1, <4>1 DEF finish
    <3>2. CASE dispatch(p)
      <4>1. PICK op, id, h : proc' = [proc EXCEPT ![p] =
                                         Holding("handle", op, id, h, Null)]
        BY <3>2 DEF dispatch
      <4>2. Holding("handle", op, id, h, Null).pc # "done" BY DEF Holding
      <4> QED BY <4>1, <4>2
    <3>3. CASE createRequest(p)
      <4>1. PICK X : X = [proc[p] EXCEPT !.pc = "insert", !.now = clock]
        OBVIOUS
      <4>2. X.pc # "done" BY <2>0, <4>1 DEF Local
      <4>3. proc' = [proc EXCEPT ![p] = X] \/ Refuse(p, 400)
        BY <3>3, <4>1 DEF createRequest
      <4> QED BY <4>2, <4>3
    <3>4. CASE approve(p)
      <4>1. PICK row : row = pair_requests[proc[p].id]
        OBVIOUS
      <4>2. PICK X, Y :
              /\ X = [proc[p] EXCEPT !.pc = "idempotent",
                          !.requester = row.requester, !.path = row.path_id]
              /\ Y = [proc[p] EXCEPT !.pc = "insertPair",
                          !.requester = row.requester,
                          !.path = PathOf(row.requester.pubkey, proc[p].half.pubkey)]
        OBVIOUS
      <4>3. X.pc # "done" /\ Y.pc # "done" BY <2>0, <4>2 DEF Local
      <4>4. \/ \E code \in Int : Refuse(p, code)
            \/ proc' = [proc EXCEPT ![p] = X] \/ proc' = [proc EXCEPT ![p] = Y]
        BY <3>4, <4>1, <4>2 DEF approve
      <4> QED BY <4>3, <4>4
    <3>5. CASE InsertPair(p) \/ approveDuplicate(p)
      <4>1. PICK X, Y, Z :
              /\ X = [proc[p] EXCEPT !.pc = "update",
                          !.json = [form |-> "half", half |-> proc[p].half]]
              /\ Y = [proc[p] EXCEPT !.pc = "update",
                          !.json = [form |-> "body", half |-> proc[p].half]]
              /\ Z = [proc[p] EXCEPT !.pc = "getPair"]
        OBVIOUS
      <4>2. X.pc # "done" /\ Y.pc # "done" /\ Z.pc # "done" BY <2>0, <4>1 DEF Local
      <4>3. \/ Refuse(p, 500) \/ Refuse(p, 409)
            \/ proc' = [proc EXCEPT ![p] = X] \/ proc' = [proc EXCEPT ![p] = Y]
            \/ proc' = [proc EXCEPT ![p] = Z]
        BY <3>5, <4>1 DEF InsertPair, approveDuplicate, FailWith
      <4> QED BY <4>2, <4>3
    <3> QED BY <1>9, <3>1, <3>2, <3>3, <3>4, <3>5
  <2> QED BY <1>3, <1>6, <2>1
<1>10. ASSUME NEW p \in Procs, ownerAuthRequired(p) \/ badRequest(p)
       PROVE  Answered'
  BY <1>6, <1>10 DEF ownerAuthRequired, badRequest
<1>11. ASSUME NEW p \in Procs, InsertPairRequest(p) \/ listPending(p)
       PROVE  Answered'
  <2>1. proc[p].op \in {"create", "list"}
    BY <1>11 DEF InsertPairRequest, listPending, At, Inv, CallShape
  <2>2. \A r : Says(proc[p].op, proc[p].id, proc[p].half, r)
    BY <2>1 DEF Says
  <2>3. (\E r : Reply(p, r)) \/ (\E code : Refuse(p, code))
    BY <1>11, OnlyAnswers
  <2> QED BY <1>5, <1>6, <2>2, <2>3
<1>12. ASSUME NEW p \in Procs, getRequestStatus(p) PROVE Answered'
  <2>1. proc[p].op = "poll" /\ proc[p].id \in ReqIds
    BY <1>12 DEF getRequestStatus, At, Inv, CallShape
  <2>2. PICK row, r : /\ row = pair_requests[proc[p].id]
                      /\ r = Answer(200, row.status, row.path_id, ownerHalf(row), {})
    OBVIOUS
  <2>3. \/ \E code \in Int : Refuse(p, code)
        \/ row # Null /\ Reply(p, r)
    BY <1>12, <2>2 DEF getRequestStatus
  <2>4. r.status = row.status /\ r.path = row.path_id
    BY <2>2 DEF Answer
  <2>5. row # Null => Says(proc[p].op, proc[p].id, proc[p].half, r)
    BY <2>1, <2>2, <2>4 DEF Says, HasStatus
  <2> QED BY <1>5, <1>6, <2>3, <2>5
<1>13. ASSUME NEW p \in Procs, approveIdempotent(p) PROVE Answered'
  <2>1. proc[p].pc = "idempotent" /\ proc[p].op = "approve"
    BY <1>13 DEF approveIdempotent, Inv, CallShape
  <2>2. PICK r : r = Approved(p)
    OBVIOUS
  <2>3. \/ Refuse(p, 409)
        \/ pairs[proc[p].path].owner = proc[p].half.pubkey /\ Reply(p, r)
    BY <1>13, <2>2 DEF approveIdempotent
  <2>4. CASE Refuse(p, 409)
    BY <1>6, <2>4
  <2>5. CASE pairs[proc[p].path].owner = proc[p].half.pubkey /\ Reply(p, r)
    <3>1. Says(proc[p].op, proc[p].id, proc[p].half, r)
      BY <2>1, <2>2, <2>5, IdempotentSays
    <3> QED BY <1>5, <2>5, <3>1
  <2> QED BY <2>3, <2>4, <2>5
<1>14. ASSUME NEW p \in Procs, updateLookup(p) PROVE Answered'
  <2>1. proc[p].pc = "lookup" /\ proc[p].op \in {"approve", "deny"}
    BY <1>14 DEF updateLookup, Inv, CallShape
  <2>2. PICK outcome \in {"ok", "conflict", "notfound", "error"} :
          /\ Reply(p, Settle(p, outcome))
          /\ outcome = "ok" => HasStatus(proc[p].id, Target(p))
          /\ outcome = "conflict" =>
                \E st \in Terminal \ {Target(p)} : HasStatus(proc[p].id, st)
    BY <1>14 DEF updateLookup, HasStatus
  <2>3. proc[p].op = "deny" => Target(p) = "denied"
    BY DEF Target
  <2>4. \A st \in Terminal \ {"denied"} : st = "approved" \/ st = "expired"
    BY DEF Terminal, Statuses
  <2>5. PICK r : r = Settle(p, outcome)
    OBVIOUS
  <2>6. Says(proc[p].op, proc[p].id, proc[p].half, r)
    BY <2>1, <2>2, <2>3, <2>4, <2>5, SettleSays
  <2> QED BY <1>5, <2>2, <2>5, <2>6
<1>15. ASSUME NEW p \in Procs, deny(p) \/ approveUpdate(p) PROVE Answered'
  <2>0. UpdatePairRequestStatus(p)
    BY <1>15 DEF deny, approveUpdate
  <2>1. /\ proc[p].op \in {"approve", "deny"} /\ proc[p].id \in ReqIds
        /\ proc[p].op = "approve" => proc[p].pc \in {"update", "lookup"}
    BY <1>15 DEF deny, approveUpdate, At, Inv, CallShape
  <2>2. proc[p] \in Local
    BY <1>0
  <2>3. CASE proc' = [proc EXCEPT ![p] = [@ EXCEPT !.pc = "lookup"]]
    <3>1. [proc[p] EXCEPT !.pc = "lookup"].pc # "done"
      BY <2>2 DEF Local
    <3> QED BY <1>3, <2>3, <3>1
  <2>4. CASE Reply(p, Settle(p, "error"))
    <3>1. PICK r : r = Settle(p, "error")
      OBVIOUS
    <3>2. Says(proc[p].op, proc[p].id, proc[p].half, r)
      BY <2>1, <3>1, SettleSays
    <3> QED BY <1>5, <2>4, <3>1, <3>2
  <2>5. CASE /\ proc[p].id \in Pending
             /\ pair_requests' = [pair_requests EXCEPT ![proc[p].id] =
                   [pair_requests[proc[p].id] EXCEPT
                       !.status = Target(p),
                       !.owner_json = coalesce(proc[p].json, @),
                       !.path_id = coalesce(proc[p].path, @)]]
             /\ Reply(p, Settle(p, "ok"))
    <3>1. PICK op, id, half, r : /\ op = proc[p].op /\ id = proc[p].id
                                 /\ half = proc[p].half /\ r = Settle(p, "ok")
      OBVIOUS
    <3>2. CASE op = "approve"
      <4>1. Says(proc[p].op, proc[p].id, proc[p].half, r)
        BY <2>1, <3>1, <3>2, SettleSays
      <4> QED BY <1>5, <2>5, <3>1, <4>1
    <3>3. CASE op = "deny"
      <4>1. r.code = 200
        BY <3>1, <3>3 DEF Settle, Answer
      <4>2. HasStatus(id, "denied")'
        <5>1. pair_requests[id] \in Row /\ pair_requests[id] # Null
          BY <1>0, <2>1, <2>5, <3>1 DEF TypeOK, Pending
        <5>2. pair_requests'[id] # Null
          BY <1>0, <2>1, <3>1, <5>1 DEF RowsKept
        <5>3. pair_requests'[id].status = "denied"
          BY <1>0, <2>1, <2>5, <3>1, <3>3, <5>1 DEF TypeOK, Row, Target
        <5> QED BY <5>2, <5>3 DEF HasStatus
      <4>3. Says(op, id, half, r)'
        BY <2>1, <3>1, <3>3, <4>1, <4>2 DEF Says
      <4> QED BY <1>4, <2>5, <3>1, <4>3
    <3> QED BY <2>1, <3>1, <3>2, <3>3
  <2> QED BY <2>0, <2>3, <2>4, <2>5 DEF UpdatePairRequestStatus
<1> QED
  BY <1>7, <1>8, <1>9, <1>10, <1>11, <1>12, <1>13, <1>14, <1>15
     DEF Next, Handler, Tick, sweepStart, sweepExpire, sweepFail, vars

\* The decisions in answers that are on their way hold, whatever other calls,
\* the sweeper and failures do meanwhile: a reported denial, its refusal and a
\* polled decision stand, and the pair that approve's 200 names is active.
\* Nothing is said of the request's status after approve's 200.
THEOREM ReportedDecisionsHold == Spec => []DecisionsReported
<1>1. Init => Answered
  BY DEF Init, Answered, Idle, Holding
<1>2. Inv /\ Answered /\ [Next]_vars => Answered'
  BY AnsweredStep
<1>3. Answered => DecisionsReported
  <2> SUFFICES ASSUME Answered, NEW p \in Procs, proc[p].pc = "done"
      PROVE  /\ (proc[p].op = "approve" /\ proc[p].resp.code = 200) =>
                   pairs[proc[p].resp.path] =
                      [requester |-> pair_requests[proc[p].id].requester.pubkey,
                       owner |-> proc[p].half.pubkey]
             /\ (proc[p].op = "deny" /\ proc[p].resp.code = 200) =>
                   pair_requests[proc[p].id].status = "denied"
             /\ (proc[p].op = "deny" /\ proc[p].resp.code = 409) =>
                   pair_requests[proc[p].id].status \in {"approved", "expired"}
             /\ (proc[p].op = "poll" /\ proc[p].resp.status \in Terminal) =>
                   /\ pair_requests[proc[p].id].status = proc[p].resp.status
                   /\ pair_requests[proc[p].id].path_id = proc[p].resp.path
    BY DEF DecisionsReported
  <2>1. Says(proc[p].op, proc[p].id, proc[p].half, proc[p].resp)
    BY DEF Answered
  <2> QED BY <2>1 DEF Says, HasStatus
<1> QED BY <1>1, <1>2, <1>3, Invariance, PTL DEF Spec

-----------------------------------------------------------------------------
(* Refinement: each statement is one step of PairRegistry or none.          *)

\* The registry's variables, as PairFlow's tables show them.
Status == [id \in ReqIds |-> IF pair_requests[id] = Null THEN "none"
                             ELSE pair_requests[id].status]
Asked == [id \in ReqIds |-> IF pair_requests[id] = Null THEN Null
                            ELSE pair_requests[id].requester.pubkey]
Active == {pairs[path] : path \in {q \in PathIds : pairs[q] # Null}}
Granted == [id \in ReqIds |-> IF HasStatus(id, "approved")
                              THEN PairFor(pair_requests[id]) ELSE Null]

\* A statement that writes neither table is not a step of the registry.
LEMMA StoreStutters ==
    ASSUME UNCHANGED store
    PROVE  UNCHANGED Registry!regVars
BY DEF store, Registry!regVars, HasStatus, PairFor

\* A fresh database is an empty registry.
LEMMA RegistryInit == Init => Registry!RegInit
BY DEF Init, Registry!RegInit, HasStatus

\* ExpirePendingRequests lapses the overdue requests together.
LEMMA ExpireLapses ==
    ASSUME TypeOK, NEW cutoff, ExpirePendingRequests(cutoff), UNCHANGED pairs
    PROVE  \E S \in SUBSET ReqIds : Registry!Lapse(S)
<1>0. PICK S \in SUBSET ReqIds :
          S = {id \in ReqIds : Overdue(pair_requests[id], cutoff)}
  OBVIOUS
<1>1. ASSUME NEW id \in ReqIds, id \in S
      PROVE  /\ pair_requests[id] # Null /\ pair_requests[id].status = "pending"
             /\ pair_requests'[id] # Null
             /\ pair_requests'[id].status = "expired"
             /\ pair_requests'[id].requester = pair_requests[id].requester
  <2>1. pair_requests[id] \in Row /\ pair_requests[id].status = "pending"
    BY <1>0, <1>1 DEF TypeOK, Overdue
  <2>2. pair_requests'[id] = [pair_requests[id] EXCEPT !.status = "expired"]
    BY <1>0, <1>1 DEF ExpirePendingRequests
  <2>3. pair_requests'[id] \in Row
    BY <2>1, <2>2 DEF Row, Statuses
  <2> QED BY <2>1, <2>2, <2>3, RowNotNull DEF Row
<1>2. ASSUME NEW id \in ReqIds, id \notin S
      PROVE  pair_requests'[id] = pair_requests[id]
  BY <1>0, <1>2 DEF ExpirePendingRequests
<1>3. Status' = [id \in ReqIds |-> IF id \in S THEN "expired" ELSE Status[id]]
  BY <1>1, <1>2 DEF Status
<1>4. Asked' = Asked
  BY <1>1, <1>2 DEF Asked
<1>5. Granted' = Granted
  BY <1>1, <1>2 DEF Granted, HasStatus, PairFor
<1>6. \A id \in S : Status[id] = "pending"
  BY <1>1 DEF Status
<1>7. Active' = Active
  BY DEF Active
<1>8. Registry!Lapse(S)
  BY <1>3, <1>4, <1>5, <1>6, <1>7
     DEF Registry!Lapse, Status, Asked, Granted, Active
<1> QED BY <1>8

\* InsertPairRequest stages the requester's key.
LEMMA InsertStages ==
    ASSUME Inv, NEW p \in Procs, InsertPairRequest(p)
    PROVE  [Registry!RegNext]_(Registry!regVars)
<1>t. TypeOK /\ CallShape
  BY DEF Inv
<1>1. CASE UNCHANGED store
  BY <1>1, StoreStutters
<1>2. ASSUME NEW id \in ReqIds, pair_requests[id] = Null,
             pair_requests' = [pair_requests EXCEPT ![id] =
                 [status |-> "pending",
                  expires_at |-> formatTime(proc[p].now + RequestTTL),
                  requester |-> proc[p].half,
                  owner_json |-> Null, path_id |-> Null]],
             UNCHANGED pairs
      PROVE  Registry!RegNext
  <2> DEFINE new == [status |-> "pending",
                     expires_at |-> formatTime(proc[p].now + RequestTTL),
                     requester |-> proc[p].half,
                     owner_json |-> Null, path_id |-> Null]
  <2>1. proc[p].half \in Halves /\ proc[p].now \in Nat
    <3>1. proc[p] \in Local
      BY <1>t DEF TypeOK
    <3> QED BY <1>t, <3>1 DEF InsertPairRequest, CallShape, Local
  <2>2. new # Null
    <3>1. new \in Row
      BY <2>1, FormatType, TimeAssumption DEF Row, Statuses
    <3> QED BY <3>1, RowNotNull
  <2>k. PICK key \in Pubkeys : key = proc[p].half.pubkey
    BY <2>1, HalfKey
  <2>3. new.status = "pending" /\ new.requester.pubkey = key
    BY <2>k
  <2>4. pair_requests' = [pair_requests EXCEPT ![id] = new]
    BY <1>2
  <2> HIDE DEF new
  <2>r. pair_requests \in [ReqIds -> Row \cup {Null}]
    BY <1>t DEF TypeOK
  <2>5. Status[id] = "none" /\ Status' = [Status EXCEPT ![id] = "pending"]
    BY <1>2, <2>r, <2>2, <2>3, <2>4 DEF Status
  <2>6. Asked' = [Asked EXCEPT ![id] = key]
    BY <1>2, <2>r, <2>2, <2>3, <2>4 DEF Asked
  <2>7. Granted' = Granted /\ Active' = Active
    BY <1>2, <1>t, <2>3, <2>4 DEF Granted, Active, HasStatus, PairFor, TypeOK
  <2>8. Registry!Stage(id, key)
    BY <2>5, <2>6, <2>7 DEF Registry!Stage, Status, Asked, Granted, Active
  <2> QED BY <2>8 DEF Registry!RegNext
<1> QED BY <1>1, <1>2 DEF InsertPairRequest, FailWith

\* InsertPair activates a pair for a staged request, at a free path.
LEMMA InsertActivates ==
    ASSUME Inv, VerifiedInv, NEW p \in Procs, InsertPair(p)
    PROVE  [Registry!RegNext]_(Registry!regVars)
<1>t. TypeOK /\ CallShape /\ InFlight
  BY DEF Inv
<1>1. CASE UNCHANGED store
  BY <1>1, StoreStutters
<1>2. CASE /\ pairs[proc[p].path] = Null
           /\ pairs' = [pairs EXCEPT ![proc[p].path] =
                 [requester |-> proc[p].requester.pubkey,
                  owner |-> proc[p].half.pubkey]]
           /\ UNCHANGED pair_requests
  <2> DEFINE id == proc[p].id
             path == proc[p].path
             owner == proc[p].half.pubkey
             pr == [requester |-> proc[p].requester.pubkey, owner |-> owner]
  <2>1. id \in ReqIds /\ proc[p].half \in Halves /\ Approving(p)
    BY <1>t DEF CallShape, InsertPair, Approving
  <2>2. /\ pair_requests[id] # Null
        /\ pair_requests[id].requester = proc[p].requester
        /\ proc[p].requester \in Halves
        /\ path = PathOf(proc[p].requester.pubkey, owner)
    BY <1>t, <2>1 DEF InFlight, InFlightAt, InsertPair
  <2>3. owner \in Pubkeys /\ proc[p].requester.pubkey \in Pubkeys
    BY <2>1, <2>2, HalfKey
  <2>4. path \in PathIds /\ pr # Null
    BY <2>2, <2>3, PathOfType, RowNotNull DEF PairRow
  <2>5. Status[id] # "none" /\ Asked[id] = proc[p].requester.pubkey
    <3>1. pair_requests[id] \in Row
      BY <1>t, <2>1, <2>2 DEF TypeOK
    <3> QED BY <2>1, <2>2, <3>1 DEF Status, Asked, Row, Statuses
  <2>6. ASSUME NEW a \in Active PROVE PathOf(a.requester, a.owner) # path
    BY <1>2 DEF Active, VerifiedInv, PairsOrigin
  <2>7. Active' = Active \cup {pr}
    <3>1. \A q \in PathIds : pairs'[q] = IF q = path THEN pr ELSE pairs[q]
      BY <1>2, <1>t, <2>4 DEF TypeOK
    <3>2. pairs[path] = Null
      BY <1>2
    <3> HIDE DEF pr, path
    <3> QED BY <2>4, <3>1, <3>2 DEF Active
  <2>8. Status' = Status /\ Asked' = Asked /\ Granted' = Granted
    BY <1>2 DEF Status, Asked, Granted, HasStatus, PairFor
  <2>9. PICK i \in ReqIds, k \in Pubkeys : i = id /\ k = owner
    BY <2>1, <2>3
  <2>10. Registry!Activate(i, k)
    BY <2>2, <2>5, <2>6, <2>7, <2>8, <2>9
       DEF Registry!Activate, Registry!PathOfPair, Registry!PathOf,
           Registry!computePathID, PathOf, computePathID,
           Status, Asked, Granted, Active
  <2> QED BY <2>10 DEF Registry!RegNext
<1> QED BY <1>1, <1>2 DEF InsertPair, FailWith, store

\* UpdatePairRequestStatus grants or refuses a pending request.
LEMMA UpdateDecides ==
    ASSUME Inv, NEW p \in Procs, deny(p) \/ approveUpdate(p)
    PROVE  [Registry!RegNext]_(Registry!regVars)
<1>t. TypeOK /\ CallShape /\ InFlight
  BY DEF Inv
<1>u. UpdatePairRequestStatus(p) /\ UNCHANGED pairs
  BY DEF deny, approveUpdate, UpdatePairRequestStatus
<1> DEFINE id == proc[p].id
           row == pair_requests[id]
           new == [row EXCEPT !.status = Target(p),
                              !.owner_json = coalesce(proc[p].json, @),
                              !.path_id = coalesce(proc[p].path, @)]
<1>i. id \in ReqIds
  BY <1>t DEF deny, approveUpdate, At, CallShape
<1>1. CASE UNCHANGED pair_requests
  BY <1>1, <1>u, StoreStutters DEF store
<1>2. CASE id \in Pending /\ pair_requests' = [pair_requests EXCEPT ![id] = new]
  <2>1. row \in Row /\ row # Null /\ row.status = "pending"
    BY <1>2, <1>t DEF TypeOK, Pending
  <2>2. /\ new.status = Target(p) /\ new.requester = row.requester
        /\ new.owner_json = coalesce(proc[p].json, row.owner_json)
    BY <2>1 DEF Row
  <2>3. new # Null
    <3>1. proc[p] \in Local
      BY <1>t DEF TypeOK
    <3>2. new \in Row
      BY <2>1, <3>1 DEF Row, Local, coalesce, Target, Statuses
    <3> QED BY <3>2, RowNotNull
  <2>4. pair_requests' = [pair_requests EXCEPT ![id] = new]
    BY <1>2
  <2> HIDE DEF new
  <2>5. Status[id] = "pending" /\ Status' = [Status EXCEPT ![id] = Target(p)]
    BY <1>t, <1>i, <2>1, <2>2, <2>3, <2>4 DEF Status, TypeOK
  <2>6. Asked' = Asked /\ Active' = Active
    BY <1>t, <1>i, <1>u, <2>1, <2>2, <2>3, <2>4 DEF Asked, Active, TypeOK
  <2>7. CASE deny(p)
    <3>1. Target(p) = "denied"
      BY <2>7 DEF deny, At, Target
    <3>2. Granted' = Granted
      BY <1>t, <1>i, <2>1, <2>2, <2>4, <3>1 DEF Granted, HasStatus, PairFor, TypeOK
    <3>3. PICK i \in ReqIds : i = id
      BY <1>i
    <3>4. Registry!Refuse(i)
      BY <2>5, <2>6, <3>1, <3>2, <3>3
         DEF Registry!Refuse, Status, Asked, Granted, Active
    <3> QED BY <3>4 DEF Registry!RegNext
  <2>8. CASE approveUpdate(p)
    <3>1. Target(p) = "approved" /\ Approving(p) /\ proc[p].pc = "update"
      BY <2>8, <1>t DEF approveUpdate, CallShape, Target, Approving
    <3>2. /\ row.requester = proc[p].requester /\ proc[p].requester \in Halves
          /\ proc[p].json \in OwnerJSON /\ proc[p].json.half = proc[p].half
          /\ SamePair(p)
          /\ proc[p].path = PathOf(proc[p].requester.pubkey, proc[p].half.pubkey)
      BY <1>t, <3>1 DEF InFlight, InFlightAt
    <3>3. proc[p].half \in Halves
      BY <1>t, <3>1 DEF CallShape, Approving
    <3> DEFINE pr == [requester |-> row.requester.pubkey,
                      owner |-> proc[p].half.pubkey]
    <3>4. PairFor(new) = pr
      BY <2>2, <3>2, NullAssumption DEF PairFor, coalesce
    <3>5. pr \in Active /\ pr.requester = Asked[id]
      <4>1. proc[p].path \in PathIds
        BY <3>2, <3>3, HalfKey, PathOfType
      <4>2. pairs[proc[p].path] = pr /\ pr # Null
        BY <3>2, <3>3, HalfKey, RowNotNull DEF SamePair, PairRow
      <4>3. pr.requester = Asked[id]
        BY <1>i, <2>1 DEF Asked
      <4> HIDE DEF pr
      <4> QED BY <4>1, <4>2, <4>3 DEF Active
    <3> HIDE DEF pr
    <3>6. Granted' = [Granted EXCEPT ![id] = pr]
      BY <1>t, <1>i, <2>2, <2>3, <2>4, <3>1, <3>4 DEF Granted, HasStatus, PairFor, TypeOK
    <3>7. PICK i \in ReqIds : i = id
      BY <1>i
    <3>8. Registry!Grant(i)
      BY <2>5, <2>6, <3>1, <3>5, <3>6, <3>7
         DEF Registry!Grant, Status, Asked, Granted, Active
    <3> QED BY <3>8 DEF Registry!RegNext
  <2> QED BY <2>7, <2>8
<1> QED BY <1>u, <1>1, <1>2 DEF UpdatePairRequestStatus

\* Every step of pairing is a step of the registry or leaves it unchanged.
LEMMA StepRefines ==
    ASSUME Inv, VerifiedInv, [Next]_vars
    PROVE  [Registry!RegNext]_(Registry!regVars)
<1> DEFINE G == [Registry!RegNext]_(Registry!regVars)
<1> SUFFICES G
  OBVIOUS
<1>t. TypeOK
  BY DEF Inv
<1>1. ASSUME UNCHANGED store PROVE G
  BY <1>1, StoreStutters
<1>2. ASSUME NEW cutoff, ExpirePendingRequests(cutoff), UNCHANGED pairs PROVE G
  BY <1>2, <1>t, ExpireLapses DEF Registry!RegNext
<1>3. ASSUME NEW p \in Procs, InsertPairRequest(p) PROVE G
  BY <1>3, InsertStages
<1>4. ASSUME NEW p \in Procs, InsertPair(p) PROVE G
  BY <1>4, InsertActivates
<1>5. ASSUME NEW p \in Procs, deny(p) \/ approveUpdate(p) PROVE G
  BY <1>5, UpdateDecides
<1> HIDE DEF G
<1>6. ASSUME NEW p \in Procs, dispatch(p) PROVE G
  BY <1>1, <1>2, <1>6 DEF dispatch, store
<1>7. CASE sweepExpire
  BY <1>2, <1>7 DEF sweepExpire
<1>8. CASE UNCHANGED vars
  BY <1>1, <1>8 DEF vars, store
<1>9. ASSUME NEW p \in Procs,
             \/ ownerAuthRequired(p) \/ badRequest(p) \/ finish(p)
             \/ createRequest(p) \/ getRequestStatus(p) \/ listPending(p)
             \/ approve(p) \/ approveIdempotent(p) \/ approveDuplicate(p)
             \/ updateLookup(p)
      PROVE  G
  BY <1>1, <1>9
     DEF ownerAuthRequired, badRequest, finish, createRequest,
         getRequestStatus, listPending, approve, approveIdempotent,
         approveDuplicate, updateLookup
<1>10. CASE Tick \/ sweepStart \/ sweepFail \/ Crash
  BY <1>1, <1>10 DEF Tick, sweepStart, sweepFail, Crash
<1> QED
  BY <1>3, <1>4, <1>5, <1>6, <1>7, <1>8, <1>9, <1>10 DEF Next, Handler

\* Pairing, with its separate statements, failures, expiries and crashes,
\* implements the registry: decisions once, pairs for ever, grants backed.
THEOREM PairingImplementsRegistry == Spec => RegistrySpec
<1>1. Init => Registry!RegInit
  BY RegistryInit
<1>2. Inv /\ VerifiedInv /\ [Next]_vars => [Registry!RegNext]_(Registry!regVars)
  BY StepRefines
<1> QED
  BY <1>1, <1>2, Invariance, VerifiedInvariance, PTL
     DEF Spec, RegistrySpec, Registry!RegSpec
=============================================================================
