--------------------------- MODULE PairFlowProofs ---------------------------
(***************************************************************************)
(* Proofs about PairFlow, for any number of concurrent calls, requests,     *)
(* keys and spellings, with failing statements and any number of crashes.   *)
(*                                                                          *)
(* ApprovedBacked is not inductive: it says nothing of a call that has      *)
(* written its pair and not yet the status.  InFlight does: between the two *)
(* statements the request's row keeps the requester the call read, and the  *)
(* pairs row at the call's path is already the pair it is about to claim.   *)
(***************************************************************************)
EXTENDS PairFlow, TLAPS

\* What a handler goroutine's call carries, by endpoint and program point.
CallShape ==
    \A p \in Procs :
        /\ proc[p].op \in {"poll", "approve", "deny"} => proc[p].id \in ReqIds
        /\ proc[p].op \in {"create", "approve"} => proc[p].half \in Halves
        /\ proc[p].pc = "insert" => proc[p].op = "create"
        /\ proc[p].pc = "lookup" => proc[p].op \in {"approve", "deny"}
        /\ proc[p].pc \in {"idempotent", "insertPair", "getPair", "update"} =>
              proc[p].op = "approve"

\* An approve call past its read of the request.
Approving(p) ==
    /\ proc[p].op = "approve"
    /\ proc[p].pc \in {"idempotent", "insertPair", "getPair", "update", "lookup"}

\* What such a call holds agrees with the tables.
InFlightAt(p) ==
    Approving(p) =>
        /\ proc[p].requester \in Halves
        /\ pair_requests[proc[p].id] # Null
        /\ pair_requests[proc[p].id].requester = proc[p].requester
        /\ proc[p].pc # "idempotent" =>
              proc[p].path = PathOf(proc[p].requester.pubkey, proc[p].half.pubkey)
        /\ proc[p].pc = "idempotent" =>
              /\ HasStatus(proc[p].id, "approved")
              /\ proc[p].path = pair_requests[proc[p].id].path_id
              /\ proc[p].path \in PathIds
        /\ proc[p].pc \in {"update", "lookup"} =>
              /\ proc[p].json \in OwnerJSON
              /\ proc[p].json.half = proc[p].half
              /\ SamePair(p)

InFlight == \A p \in Procs : InFlightAt(p)

Inv == TypeOK /\ CallShape /\ InFlight /\ ApprovedBacked

-----------------------------------------------------------------------------
(* Facts about the operators. *)

\* Two wire keys always have a path id.
LEMMA PathOfType == \A s, t \in Pubkeys : PathOf(s, t) \in PathIds
BY DEF PathIds

\* Both parties derive the same path id, whoever asked and whoever approved.
LEMMA PathOfCommutes == \A s, t \in Pubkeys : PathOf(s, t) = PathOf(t, s)
BY RawAssumption DEF PathOf, computePathID

\* Only the two keys themselves have their path id.
LEMMA PathOfInjective ==
    ASSUME NEW s \in Pubkeys, NEW t \in Pubkeys,
           NEW u \in Pubkeys, NEW v \in Pubkeys,
           PathOf(s, t) = PathOf(u, v)
    PROVE  {Raw[s], Raw[t]} = {Raw[u], Raw[v]}
BY RawAssumption DEF PathOf, computePathID

\* A half carries one of the wire keys in use.
LEMMA HalfKey == \A h \in Halves : h.pubkey \in Pubkeys
BY HalvesAssumption DEF Half

\* A goroutine that holds only its call and answer is well-formed.
LEMMA HoldingType ==
    ASSUME NEW pc \in {"idle", "handle", "done"},
           NEW op \in Endpoints \cup {"none"}, NEW id \in ReqIds \cup {Null},
           NEW half \in Halves \cup {Null}, NEW resp \in Response \cup {Null}
    PROVE  Holding(pc, op, id, half, resp) \in Local
BY DEF Holding, Local

\* An unused handler slot is well-formed.
LEMMA IdleType == Idle \in Local
BY HoldingType DEF Idle

\* An error answer is a well-formed response.
LEMMA RefusalType == \A code \in Int : Refusal(code) \in Response
BY DEF Refusal, Answer, Response, Statuses

\* A row is never NULL.
LEMMA RowNotNull == Null \notin Row /\ Null \notin PairRow
BY NullAssumption

\* formatTime yields a whole number of seconds.
LEMMA FormatType == \A t \in Int : formatTime(t) \in Int
BY TimeAssumption DEF formatTime

-----------------------------------------------------------------------------
(* Type correctness of one step. *)

\* A goroutine moves to a well-formed local state.
LEMMA ProcType ==
    ASSUME proc \in [Procs -> Local], NEW p \in Procs, NEW X \in Local,
           proc' = [proc EXCEPT ![p] = X]
    PROVE  proc' \in [Procs -> Local]
OBVIOUS

\* The answer of a handler is a well-formed local state.
LEMMA ReplyType ==
    ASSUME TypeOK, NEW p \in Procs, NEW r \in Response, Reply(p, r)
    PROVE  proc' \in [Procs -> Local]
<1>1. proc[p] \in Local
  BY DEF TypeOK
<1>2. Holding("done", proc[p].op, proc[p].id, proc[p].half, r) \in Local
  BY <1>1, HoldingType DEF Local
<1>3. QED
  BY <1>2, ProcType DEF TypeOK, Reply

\* Answering with an error keeps the types.
LEMMA RefuseType ==
    ASSUME TypeOK, NEW p \in Procs, NEW code \in Int, Refuse(p, code)
    PROVE  proc' \in [Procs -> Local]
<1>1. Holding("done", "none", Null, Null, Refusal(code)) \in Local
  BY HoldingType, RefusalType
<1>2. QED
  BY <1>1, ProcType DEF TypeOK, Refuse

\* ExpirePendingRequests rewrites statuses only.
LEMMA ExpireType ==
    ASSUME TypeOK, NEW cutoff, ExpirePendingRequests(cutoff)
    PROVE  pair_requests' \in [ReqIds -> Row \cup {Null}]
BY DEF TypeOK, ExpirePendingRequests, Overdue, Row, Statuses

\* One step keeps the types.  Each handler step changes its own goroutine and
\* at most one table.
LEMMA TypeStep ==
    ASSUME TypeOK, CallShape, InFlight, [Next]_vars
    PROVE  TypeOK'
<1> DEFINE Rest == /\ clock' \in Nat
                   /\ sweeper' \in [pc : {"idle", "expire"}, now : Nat]
                   /\ crashes' \in Nat
           Reqs == pair_requests' \in [ReqIds -> Row \cup {Null}]
           Prs == pairs' \in [PathIds -> PairRow \cup {Null}]
           Hist == /\ deadline' \in [ReqIds -> Nat]
                   /\ origin' \in [PathIds -> Origin \cup {Null}]
           Pcs == proc' \in [Procs -> Local]
<1> SUFFICES Rest /\ Reqs /\ Prs /\ Hist /\ Pcs
  BY DEF TypeOK
<1>q. ASSUME Quiet PROVE Rest /\ Hist
  BY <1>q DEF Quiet, TypeOK
<1>s. ASSUME UNCHANGED store PROVE Reqs /\ Prs
  BY <1>s DEF store, TypeOK
<1>l. ASSUME NEW p \in Procs PROVE proc[p] \in Local
  BY DEF TypeOK
<1>1. ASSUME NEW p \in Procs, dispatch(p) PROVE Rest /\ Reqs /\ Prs /\ Hist /\ Pcs
  <2>1. Rest /\ Hist
    BY <1>1, <1>q DEF dispatch
  <2>2. Reqs /\ Prs
    BY <1>1, ExpireType DEF dispatch, TypeOK
  <2>0. PICK op \in Calls : \E id \in Ids(op), h \in Bodies(op) :
          proc' = [proc EXCEPT ![p] = Holding("handle", op, id, h, Null)]
    BY <1>1 DEF dispatch
  <2>3. PICK id \in Ids(op), h \in Bodies(op) :
          proc' = [proc EXCEPT ![p] = Holding("handle", op, id, h, Null)]
    BY <2>0
  <2>4. Holding("handle", op, id, h, Null) \in Local
    BY HoldingType, CallsAssumption DEF Ids, Bodies
  <2>5. Pcs
    BY <2>3, <2>4, ProcType DEF TypeOK
  <2> QED BY <2>1, <2>2, <2>5
<1>2. ASSUME NEW p \in Procs, ownerAuthRequired(p) PROVE Rest /\ Reqs /\ Prs /\ Hist /\ Pcs
  BY <1>2, <1>q, <1>s, RefuseType DEF ownerAuthRequired
<1>3. ASSUME NEW p \in Procs, badRequest(p) PROVE Rest /\ Reqs /\ Prs /\ Hist /\ Pcs
  BY <1>3, <1>q, <1>s, RefuseType DEF badRequest
<1>4. ASSUME NEW p \in Procs, finish(p) PROVE Rest /\ Reqs /\ Prs /\ Hist /\ Pcs
  BY <1>4, <1>q, <1>s, IdleType DEF finish, TypeOK
<1>5. ASSUME NEW p \in Procs, createRequest(p) PROVE Rest /\ Reqs /\ Prs /\ Hist /\ Pcs
  <2>1. [proc[p] EXCEPT !.pc = "insert", !.now = clock] \in Local
    BY <1>l DEF Local, TypeOK
  <2>2. Pcs
    BY <1>5, <2>1, ProcType, RefuseType DEF createRequest, TypeOK
  <2> QED BY <1>5, <1>q, <1>s, <2>2 DEF createRequest
<1>6. ASSUME NEW p \in Procs, InsertPairRequest(p) PROVE Rest /\ Reqs /\ Prs /\ Hist /\ Pcs
  <2>0. proc[p].half \in Halves /\ proc[p].now \in Nat
    BY <1>6, <1>l DEF CallShape, InsertPairRequest, Local
  <2>1. CASE FailWith(p, 500) /\ UNCHANGED deadline
    BY <1>6, <2>1, <1>s, RefuseType DEF InsertPairRequest, FailWith, TypeOK
  <2>2. CASE Refuse(p, 500) /\ UNCHANGED <<store, deadline>>
    BY <1>6, <2>2, <1>s, RefuseType DEF InsertPairRequest, TypeOK
  <2>3. ASSUME NEW id \in ReqIds,
               pair_requests' = [pair_requests EXCEPT ![id] =
                   [status |-> "pending",
                    expires_at |-> formatTime(proc[p].now + RequestTTL),
                    requester |-> proc[p].half,
                    owner_json |-> Null, path_id |-> Null]],
               deadline' = [deadline EXCEPT ![id] = proc[p].now + RequestTTL],
               Reply(p, Answer(201, "pending", Null, Null, {id})),
               UNCHANGED pairs
        PROVE  Rest /\ Reqs /\ Prs /\ Hist /\ Pcs
    <3>1. Answer(201, "pending", Null, Null, {id}) \in Response
      BY DEF Answer, Response, Statuses
    <3>2. Pcs
      BY <2>3, <3>1, ReplyType
    <3>3. [status |-> "pending",
           expires_at |-> formatTime(proc[p].now + RequestTTL),
           requester |-> proc[p].half,
           owner_json |-> Null, path_id |-> Null] \in Row
      BY <2>0, FormatType, TimeAssumption DEF Row, Statuses
    <3>4. Reqs
      BY <2>3, <3>3 DEF TypeOK
    <3>5. Hist
      BY <1>6, <2>0, <2>3, TimeAssumption DEF InsertPairRequest, TypeOK
    <3>6. Rest /\ Prs
      BY <1>6, <2>3 DEF InsertPairRequest, TypeOK
    <3> QED BY <3>2, <3>4, <3>5, <3>6
  <2> QED BY <1>6, <2>1, <2>2, <2>3 DEF InsertPairRequest
<1>7. ASSUME NEW p \in Procs, getRequestStatus(p) PROVE Rest /\ Reqs /\ Prs /\ Hist /\ Pcs
  <2> DEFINE row == pair_requests[proc[p].id]
  <2>1. proc[p].id \in ReqIds
    BY <1>7 DEF getRequestStatus, At, CallShape
  <2>2. ASSUME row # Null
        PROVE  Answer(200, row.status, row.path_id, ownerHalf(row), {}) \in Response
    <3>1. row \in Row
      BY <2>1, <2>2 DEF TypeOK
    <3>2. ownerHalf(row) \in Halves \cup {Null, EmptyHalf}
      BY <3>1 DEF ownerHalf, Row, OwnerJSON
    <3> QED BY <3>1, <3>2 DEF Answer, Response, Row
  <2>3. Pcs
    BY <1>7, <2>2, ReplyType, RefuseType DEF getRequestStatus
  <2> QED BY <1>7, <2>3, <1>q, <1>s DEF getRequestStatus
<1>8. ASSUME NEW p \in Procs, listPending(p) PROVE Rest /\ Reqs /\ Prs /\ Hist /\ Pcs
  <2>1. Answer(200, "none", Null, Null, Pending) \in Response
    BY DEF Answer, Response, Pending
  <2>2. Pcs
    BY <1>8, <2>1, ReplyType, RefuseType DEF listPending
  <2> QED BY <1>8, <2>2, <1>q, <1>s DEF listPending
<1>9. ASSUME NEW p \in Procs, approve(p) PROVE Rest /\ Reqs /\ Prs /\ Hist /\ Pcs
  <2> DEFINE row == pair_requests[proc[p].id]
  <2>1. proc[p].id \in ReqIds /\ proc[p].half \in Halves
    BY <1>9 DEF approve, At, CallShape
  <2>2. ASSUME row # Null
        PROVE  row \in Row /\ row.requester \in Halves /\ row.path_id \in PathIds \cup {Null}
    BY <2>1, <2>2 DEF TypeOK, Row
  <2>3. ASSUME row # Null
        PROVE  /\ [proc[p] EXCEPT !.pc = "idempotent", !.requester = row.requester,
                                  !.path = row.path_id] \in Local
               /\ [proc[p] EXCEPT !.pc = "insertPair", !.requester = row.requester,
                                  !.path = PathOf(row.requester.pubkey,
                                                  proc[p].half.pubkey)] \in Local
    BY <2>1, <2>2, <2>3, <1>l, HalfKey, PathOfType DEF Local
  <2>4. Pcs
    BY <1>9, <2>3, ProcType, RefuseType DEF approve, TypeOK
  <2> QED BY <1>9, <2>4, <1>q, <1>s DEF approve
<1>a. ASSUME NEW p \in Procs, Approving(p) PROVE Approved(p) \in Response
  <2>1. proc[p].requester \in Halves
    BY <1>a DEF InFlight, InFlightAt
  <2> QED BY <2>1, <1>l DEF Approved, Answer, Response, Local, Statuses
<1>10. ASSUME NEW p \in Procs, approveIdempotent(p) PROVE Rest /\ Reqs /\ Prs /\ Hist /\ Pcs
  <2>1. Approved(p) \in Response
    BY <1>10, <1>a DEF approveIdempotent, Approving, CallShape
  <2>2. Pcs
    BY <1>10, <2>1, ReplyType, RefuseType DEF approveIdempotent
  <2> QED BY <1>10, <2>2, <1>q, <1>s DEF approveIdempotent
<1>11. ASSUME NEW p \in Procs, InsertPair(p) PROVE Rest /\ Reqs /\ Prs /\ Hist /\ Pcs
  <2>1. /\ proc[p].half \in Halves /\ proc[p].requester \in Halves
        /\ Approving(p)
    BY <1>11 DEF InsertPair, CallShape, InFlight, InFlightAt, Approving
  <2>2. /\ [proc[p] EXCEPT !.pc = "getPair"] \in Local
        /\ [proc[p] EXCEPT !.pc = "update",
                           !.json = [form |-> "half", half |-> proc[p].half]] \in Local
    BY <2>1, <1>l DEF Local, OwnerJSON
  <2>3. Pcs
    BY <1>11, <2>2, ProcType, RefuseType DEF InsertPair, FailWith, TypeOK
  <2>4. Reqs
    BY <1>11 DEF InsertPair, FailWith, store, TypeOK
  <2>5. [requester |-> proc[p].requester.pubkey,
         owner |-> proc[p].half.pubkey] \in PairRow
    BY <2>1, HalfKey DEF PairRow
  <2>6. Prs
    BY <1>11, <2>5 DEF InsertPair, FailWith, store, TypeOK
  <2>7. proc[p].id \in ReqIds
    BY <2>1 DEF CallShape, Approving
  <2>8. [id |-> proc[p].id, half |-> proc[p].half] \in Origin
    BY <2>1, <2>7 DEF Origin
  <2>9. Rest /\ Hist
    BY <1>11, <2>8 DEF InsertPair, TypeOK
  <2> QED BY <2>3, <2>4, <2>6, <2>9
<1>12. ASSUME NEW p \in Procs, approveDuplicate(p) PROVE Rest /\ Reqs /\ Prs /\ Hist /\ Pcs
  <2>1. proc[p].half \in Halves
    BY <1>12 DEF approveDuplicate, CallShape
  <2>2. [proc[p] EXCEPT !.pc = "update",
                        !.json = [form |-> "body", half |-> proc[p].half]] \in Local
    BY <2>1, <1>l DEF Local, OwnerJSON
  <2>3. Pcs
    BY <1>12, <2>2, ProcType, RefuseType DEF approveDuplicate, TypeOK
  <2> QED BY <1>12, <2>3, <1>q, <1>s DEF approveDuplicate
<1>b. ASSUME NEW p \in Procs, proc[p].op = "deny" \/ Approving(p),
             NEW outcome
      PROVE  Settle(p, outcome) \in Response
  <2>1. CASE Approving(p)
    BY <2>1, <1>a, RefusalType DEF Settle, Approving
  <2>2. CASE proc[p].op = "deny"
    <3>1. Answer(200, "denied", Null, Null, {}) \in Response
      BY DEF Answer, Response, Statuses
    <3> QED BY <2>2, <3>1, RefusalType DEF Settle
  <2> QED BY <1>b, <2>1, <2>2
<1>13. ASSUME NEW p \in Procs, UpdatePairRequestStatus(p),
              proc[p].op = "deny" \/ Approving(p)
       PROVE  Rest /\ Reqs /\ Prs /\ Hist /\ Pcs
  <2> DEFINE id == proc[p].id
             row == pair_requests[id]
             new == [row EXCEPT !.status = Target(p),
                                !.owner_json = coalesce(proc[p].json, @),
                                !.path_id = coalesce(proc[p].path, @)]
  <2>1. id \in ReqIds
    BY <1>13 DEF CallShape, Approving
  <2>2. [proc[p] EXCEPT !.pc = "lookup"] \in Local
    BY <1>l DEF Local
  <2>3. Pcs
    BY <1>13, <1>b, <2>2, ReplyType, ProcType DEF UpdatePairRequestStatus, TypeOK
  <2>4. ASSUME row # Null PROVE new \in Row
    <3>1. row \in Row
      BY <2>1, <2>4 DEF TypeOK
    <3>2. /\ proc[p].json \in OwnerJSON \cup {Null}
          /\ proc[p].path \in PathIds \cup {Null}
      BY <1>l DEF Local
    <3>3. Target(p) \in Statuses
      BY DEF Target, Statuses
    <3> QED BY <3>1, <3>2, <3>3 DEF Row, coalesce
  <2>5. Reqs
    BY <1>13, <2>4 DEF UpdatePairRequestStatus, Pending, TypeOK
  <2> QED BY <1>13, <1>q, <2>3, <2>5 DEF UpdatePairRequestStatus, TypeOK
<1>14. ASSUME NEW p \in Procs, updateLookup(p) PROVE Rest /\ Reqs /\ Prs /\ Hist /\ Pcs
  <2>1. proc[p].op = "deny" \/ Approving(p)
    BY <1>14 DEF updateLookup, CallShape, Approving
  <2>2. Pcs
    BY <1>14, <1>b, <2>1, ReplyType DEF updateLookup
  <2> QED BY <1>14, <2>2, <1>q, <1>s DEF updateLookup
<1>15. ASSUME NEW p \in Procs, deny(p) \/ approveUpdate(p)
       PROVE  Rest /\ Reqs /\ Prs /\ Hist /\ Pcs
  BY <1>13, <1>15 DEF deny, approveUpdate, At, CallShape, Approving
<1>16. CASE Tick
  BY <1>16, <1>s DEF Tick, TypeOK
<1>17. CASE sweepStart \/ sweepFail
  BY <1>17, <1>s DEF sweepStart, sweepFail, TypeOK
<1>18. CASE sweepExpire
  BY <1>18, ExpireType DEF sweepExpire, TypeOK
<1>19. CASE Crash
  BY <1>19, <1>s, IdleType DEF Crash, TypeOK
<1>20. CASE UNCHANGED vars
  BY <1>20 DEF vars, TypeOK
<1> QED
  BY <1>1, <1>2, <1>3, <1>4, <1>5, <1>6, <1>7, <1>8, <1>9, <1>10, <1>11,
     <1>12, <1>14, <1>15, <1>16, <1>17, <1>18, <1>19, <1>20
     DEF Next, Handler

-----------------------------------------------------------------------------
(* What no statement ever undoes. *)

\* Rows are never removed and keep their requester; decided requests and
\* active pairs keep their rows.
RowsKept ==
    \A id \in ReqIds : pair_requests[id] # Null =>
        /\ pair_requests'[id] # Null
        /\ pair_requests'[id].requester = pair_requests[id].requester
        /\ pair_requests[id].status # "pending" =>
              pair_requests'[id] = pair_requests[id]

PairsKept ==
    \A path \in PathIds : pairs[path] # Null => pairs'[path] = pairs[path]

\* ExpirePendingRequests leaves decided rows alone and changes no requester.
LEMMA ExpireKeeps ==
    ASSUME TypeOK, NEW cutoff, ExpirePendingRequests(cutoff)
    PROVE  RowsKept
<1> SUFFICES ASSUME NEW id \in ReqIds, pair_requests[id] # Null
             PROVE  /\ pair_requests'[id] # Null
                    /\ pair_requests'[id].requester = pair_requests[id].requester
                    /\ pair_requests[id].status # "pending" =>
                          pair_requests'[id] = pair_requests[id]
  BY DEF RowsKept
<1>1. pair_requests[id] \in Row
  BY DEF TypeOK
<1>2. [pair_requests[id] EXCEPT !.status = "expired"] # Null
  BY <1>1, RowNotNull DEF Row, Statuses
<1> QED
  BY <1>1, <1>2 DEF ExpirePendingRequests, Overdue, Row

\* UpdatePairRequestStatus writes pending rows only (its WHERE clause), and
\* no requester.
LEMMA UpdateKeeps ==
    ASSUME TypeOK, NEW p \in Procs, proc[p].id \in ReqIds,
           UpdatePairRequestStatus(p)
    PROVE  RowsKept
<1> DEFINE id == proc[p].id
           row == pair_requests[id]
           new == [row EXCEPT !.status = Target(p),
                              !.owner_json = coalesce(proc[p].json, @),
                              !.path_id = coalesce(proc[p].path, @)]
<1>1. CASE UNCHANGED pair_requests
  BY <1>1 DEF RowsKept
<1>2. CASE id \in Pending /\ pair_requests' = [pair_requests EXCEPT ![id] = new]
  <2>1. row \in Row /\ row.status = "pending"
    BY <1>2 DEF TypeOK, Pending
  <2>2. new.requester = row.requester
    BY <2>1 DEF Row
  <2>3. new \in Row
    <3>1. proc[p] \in Local
      BY DEF TypeOK
    <3> QED BY <2>1, <3>1 DEF Row, Local, coalesce, Target, Statuses
  <2> QED BY <1>2, <2>1, <2>2, <2>3, RowNotNull DEF RowsKept, TypeOK
<1> QED BY <1>1, <1>2 DEF UpdatePairRequestStatus

\* No step rewrites a decided request, a requester half or an active pair.
LEMMA StepKeeps ==
    ASSUME TypeOK, CallShape, [Next]_vars
    PROVE  RowsKept /\ PairsKept
<1>0. ASSUME UNCHANGED store PROVE RowsKept /\ PairsKept
  BY <1>0 DEF store, RowsKept, PairsKept
<1>1. ASSUME NEW p \in Procs, dispatch(p) PROVE RowsKept /\ PairsKept
  BY <1>1, ExpireKeeps DEF dispatch, RowsKept, PairsKept
<1>2. ASSUME NEW p \in Procs, InsertPairRequest(p) PROVE RowsKept /\ PairsKept
  BY <1>2, <1>0 DEF InsertPairRequest, FailWith, RowsKept, PairsKept, TypeOK
<1>3. ASSUME NEW p \in Procs, InsertPair(p) PROVE RowsKept /\ PairsKept
  BY <1>3, <1>0 DEF InsertPair, FailWith, RowsKept, PairsKept, TypeOK
<1>4. ASSUME NEW p \in Procs, deny(p) \/ approveUpdate(p)
      PROVE  RowsKept /\ PairsKept
  <2>1. proc[p].id \in ReqIds /\ UpdatePairRequestStatus(p)
    BY <1>4 DEF deny, approveUpdate, At, CallShape
  <2> QED BY <2>1, UpdateKeeps DEF UpdatePairRequestStatus, PairsKept
<1>5. CASE sweepExpire
  BY <1>5, ExpireKeeps DEF sweepExpire, PairsKept
<1>6. CASE UNCHANGED vars
  BY <1>6, <1>0 DEF vars, store
<1> QED
  BY <1>0, <1>1, <1>2, <1>3, <1>4, <1>5, <1>6
     DEF Next, Handler, ownerAuthRequired, badRequest, finish, createRequest,
         getRequestStatus, listPending, approve, approveIdempotent,
         approveDuplicate, updateLookup, Tick, sweepStart, sweepFail, Crash

-----------------------------------------------------------------------------
(* The local states. *)

\* Steps that only read or insert end by answering, one way or the other.
LEMMA OnlyAnswers ==
    ASSUME NEW p \in Procs,
           \/ ownerAuthRequired(p) \/ badRequest(p) \/ InsertPairRequest(p)
           \/ getRequestStatus(p) \/ listPending(p)
           \/ approveIdempotent(p) \/ updateLookup(p)
    PROVE  (\E r : Reply(p, r)) \/ (\E code : Refuse(p, code))
<1>1. CASE ownerAuthRequired(p) \/ badRequest(p)
  BY <1>1 DEF ownerAuthRequired, badRequest
<1>2. CASE InsertPairRequest(p)
  BY <1>2 DEF InsertPairRequest, FailWith
<1>3. CASE getRequestStatus(p) \/ listPending(p)
  BY <1>3 DEF getRequestStatus, listPending
<1>4. CASE approveIdempotent(p)
  BY <1>4 DEF approveIdempotent
<1>5. CASE updateLookup(p)
  BY <1>5 DEF updateLookup
<1> QED BY <1>1, <1>2, <1>3, <1>4, <1>5

\* One step keeps what each program point says of the call it serves.
LEMMA CallShapeStep ==
    ASSUME TypeOK, CallShape, [Next]_vars
    PROVE  CallShape'
<1> DEFINE Ok(c) ==
        /\ c.op \in {"poll", "approve", "deny"} => c.id \in ReqIds
        /\ c.op \in {"create", "approve"} => c.half \in Halves
        /\ c.pc = "insert" => c.op = "create"
        /\ c.pc = "lookup" => c.op \in {"approve", "deny"}
        /\ c.pc \in {"idempotent", "insertPair", "getPair", "update"} =>
              c.op = "approve"
<1>0. \A p \in Procs : proc[p] \in Local /\ Ok(proc[p])
  BY DEF CallShape, TypeOK
<1>1. ASSUME NEW p \in Procs, NEW X, Ok(X), proc' = [proc EXCEPT ![p] = X]
      PROVE  CallShape'
  BY <1>0, <1>1 DEF CallShape, TypeOK
<1>2. ASSUME NEW p \in Procs, NEW r, Reply(p, r) PROVE CallShape'
  <2>1. Ok(Holding("done", proc[p].op, proc[p].id, proc[p].half, r))
    BY <1>0 DEF Holding
  <2> QED BY <1>1, <1>2, <2>1 DEF Reply
<1>3. ASSUME NEW p \in Procs, NEW code, Refuse(p, code) PROVE CallShape'
  <2>1. Ok(Holding("done", "none", Null, Null, Refusal(code)))
    BY DEF Holding
  <2> QED BY <1>1, <1>3, <2>1 DEF Refuse
<1>4. Ok(Idle)
  BY DEF Idle, Holding
<1>5. ASSUME NEW p \in Procs, dispatch(p) PROVE CallShape'
  <2>1. PICK op \in Calls : \E id \in Ids(op), h \in Bodies(op) :
          proc' = [proc EXCEPT ![p] = Holding("handle", op, id, h, Null)]
    BY <1>5 DEF dispatch
  <2>2. PICK id \in Ids(op), h \in Bodies(op) :
          proc' = [proc EXCEPT ![p] = Holding("handle", op, id, h, Null)]
    BY <2>1
  <2>3. Ok(Holding("handle", op, id, h, Null))
    BY DEF Holding, Ids, Bodies
  <2> QED BY <1>1, <2>2, <2>3
<1>6. ASSUME NEW p \in Procs, createRequest(p) PROVE CallShape'
  <2>1. Ok([proc[p] EXCEPT !.pc = "insert", !.now = clock])
    BY <1>0, <1>6 DEF Local, createRequest, At
  <2> QED BY <1>1, <1>3, <1>6, <2>1 DEF createRequest
<1>7. ASSUME NEW p \in Procs, approve(p) PROVE CallShape'
  <2>1. \A rq, pa : Ok([proc[p] EXCEPT !.pc = "idempotent",
                                       !.requester = rq, !.path = pa])
    BY <1>0, <1>7 DEF Local, approve, At
  <2>2. \A rq, pa : Ok([proc[p] EXCEPT !.pc = "insertPair",
                                       !.requester = rq, !.path = pa])
    BY <1>0, <1>7 DEF Local, approve, At
  <2> HIDE DEF Ok
  <2> QED BY <1>1, <1>3, <1>7, <2>1, <2>2 DEF approve
<1>8. ASSUME NEW p \in Procs, InsertPair(p) PROVE CallShape'
  <2>1. /\ Ok([proc[p] EXCEPT !.pc = "update",
                              !.json = [form |-> "half", half |-> proc[p].half]])
        /\ Ok([proc[p] EXCEPT !.pc = "getPair"])
    BY <1>0, <1>8 DEF Local, InsertPair
  <2> HIDE DEF Ok
  <2> QED BY <1>1, <1>3, <1>8, <2>1 DEF InsertPair, FailWith
<1>9. ASSUME NEW p \in Procs, approveDuplicate(p) PROVE CallShape'
  <2>1. Ok([proc[p] EXCEPT !.pc = "update",
                           !.json = [form |-> "body", half |-> proc[p].half]])
    BY <1>0, <1>9 DEF Local, approveDuplicate
  <2> HIDE DEF Ok
  <2> QED BY <1>1, <1>3, <1>9, <2>1 DEF approveDuplicate
<1>10. ASSUME NEW p \in Procs, deny(p) \/ approveUpdate(p) PROVE CallShape'
  <2>1. Ok([proc[p] EXCEPT !.pc = "lookup"])
    BY <1>0, <1>10 DEF Local, deny, approveUpdate, At
  <2> HIDE DEF Ok
  <2> QED BY <1>1, <1>2, <1>10, <2>1
             DEF deny, approveUpdate, UpdatePairRequestStatus
<1>11. CASE Crash
  BY <1>4, <1>11 DEF Crash, CallShape
<1>12. ASSUME UNCHANGED proc PROVE CallShape'
  BY <1>12 DEF CallShape
<1>13. ASSUME NEW p \in Procs, finish(p) PROVE CallShape'
  <2> HIDE DEF Ok
  <2> QED BY <1>1, <1>4, <1>13 DEF finish
<1>14. ASSUME NEW p \in Procs,
              \/ ownerAuthRequired(p) \/ badRequest(p) \/ InsertPairRequest(p)
              \/ getRequestStatus(p) \/ listPending(p)
              \/ approveIdempotent(p) \/ updateLookup(p)
       PROVE  CallShape'
  BY <1>2, <1>3, <1>14, OnlyAnswers
<1> QED
  BY <1>5, <1>6, <1>7, <1>8, <1>9, <1>10, <1>11, <1>12, <1>13, <1>14
     DEF Next, Handler, Tick, sweepStart, sweepExpire, sweepFail, vars

-----------------------------------------------------------------------------
(* Calls between their statements. *)

\* A step of another goroutine cannot disturb a call in flight: what it has
\* read is never undone.
LEMMA InFlightFrame ==
    ASSUME TypeOK, CallShape, RowsKept, PairsKept, NEW q \in Procs,
           InFlightAt(q), proc'[q] = proc[q]
    PROVE  InFlightAt(q)'
<1> SUFFICES ASSUME Approving(q) PROVE InFlightAt(q)'
  BY DEF InFlightAt, Approving
<1> DEFINE c == proc[q]
<1>1. c \in Local /\ c.id \in ReqIds /\ c.half \in Halves
  BY DEF TypeOK, CallShape, Approving
<1>2. /\ c.requester \in Halves
      /\ pair_requests[c.id] # Null
      /\ pair_requests[c.id].requester = c.requester
  BY DEF InFlightAt
<1>3. /\ pair_requests'[c.id] # Null
      /\ pair_requests'[c.id].requester = c.requester
  BY <1>1, <1>2 DEF RowsKept
<1>4. c.pc = "idempotent" =>
          /\ pair_requests'[c.id] = pair_requests[c.id]
          /\ pair_requests[c.id].status = "approved"
  BY <1>1, <1>2 DEF RowsKept, InFlightAt, HasStatus
<1>5. c.pc \in {"update", "lookup"} => SamePair(q)'
  <2> SUFFICES ASSUME c.pc \in {"update", "lookup"} PROVE SamePair(q)'
    OBVIOUS
  <2>1. /\ SamePair(q)
        /\ c.path = PathOf(c.requester.pubkey, c.half.pubkey)
    BY DEF InFlightAt
  <2>2. c.path \in PathIds
    BY <1>1, <1>2, <2>1, HalfKey, PathOfType
  <2>3. pairs[c.path] \in PairRow
    BY <1>1, <1>2, <2>1, HalfKey DEF SamePair, PairRow
  <2> QED BY <2>1, <2>2, <2>3, RowNotNull DEF PairsKept, SamePair
<1> QED
  BY <1>1, <1>2, <1>3, <1>4, <1>5 DEF InFlightAt, Approving, HasStatus

\* One step keeps every approve call in agreement with the tables.
LEMMA InFlightStep ==
    ASSUME TypeOK, CallShape, InFlight, ApprovedBacked, [Next]_vars
    PROVE  InFlight'
<1> USE DEF TypeOK
<1>k. RowsKept /\ PairsKept
  BY StepKeeps
<1>f. ASSUME NEW q \in Procs, proc'[q] = proc[q] PROVE InFlightAt(q)'
  BY <1>f, <1>k, InFlightFrame DEF InFlight
<1>l. ASSUME NEW p \in Procs PROVE proc[p] \in Local
  OBVIOUS
\* A goroutine that is no longer approving claims nothing.
<1>n. ASSUME NEW p \in Procs, NEW X, proc' = [proc EXCEPT ![p] = X],
             ~(X.op = "approve" /\ X.pc \in {"idempotent", "insertPair",
                                           "getPair", "update", "lookup"})
      PROVE  InFlight'
  <2>1. proc'[p] = X
    BY <1>n
  <2>2. InFlightAt(p)'
    BY <1>n, <2>1 DEF InFlightAt, Approving
  <2>3. \A q \in Procs \ {p} : proc'[q] = proc[q]
    BY <1>n
  <2> QED BY <2>2, <2>3, <1>f DEF InFlight
\* The goroutine that moves makes its own case.
<1>o. ASSUME NEW p \in Procs, NEW X, proc' = [proc EXCEPT ![p] = X],
             InFlightAt(p)'
      PROVE  InFlight'
  <2>1. \A q \in Procs \ {p} : proc'[q] = proc[q]
    BY <1>o
  <2> QED BY <1>o, <2>1, <1>f DEF InFlight
<1>r. ASSUME NEW p \in Procs, NEW r, Reply(p, r) PROVE InFlight'
  <2> DEFINE X == Holding("done", proc[p].op, proc[p].id, proc[p].half, r)
  <2>1. X.pc = "done" /\ proc' = [proc EXCEPT ![p] = X]
    BY <1>r DEF Reply, Holding
  <2> HIDE DEF X
  <2> QED BY <1>n, <2>1
<1>s. ASSUME NEW p \in Procs, NEW code, Refuse(p, code) PROVE InFlight'
  <2> DEFINE X == Holding("done", "none", Null, Null, Refusal(code))
  <2>1. X.pc = "done" /\ proc' = [proc EXCEPT ![p] = X]
    BY <1>s DEF Refuse, Holding
  <2> HIDE DEF X
  <2> QED BY <1>n, <2>1
<1>1. ASSUME NEW p \in Procs, dispatch(p) PROVE InFlight'
  <2>1. PICK op \in Calls : \E id \in Ids(op), h \in Bodies(op) :
          proc' = [proc EXCEPT ![p] = Holding("handle", op, id, h, Null)]
    BY <1>1 DEF dispatch
  <2>2. PICK id \in Ids(op), h \in Bodies(op) :
          proc' = [proc EXCEPT ![p] = Holding("handle", op, id, h, Null)]
    BY <2>1
  <2> DEFINE X == Holding("handle", op, id, h, Null)
  <2>3. X.pc = "handle" /\ proc' = [proc EXCEPT ![p] = X]
    BY <2>2 DEF Holding
  <2> HIDE DEF X
  <2> QED BY <1>n, <2>3
<1>2. ASSUME NEW p \in Procs, finish(p) PROVE InFlight'
  <2>1. Idle.pc = "idle" /\ proc' = [proc EXCEPT ![p] = Idle]
    BY <1>2 DEF finish, Idle, Holding
  <2> QED BY <1>n, <2>1
<1>3. ASSUME NEW p \in Procs, createRequest(p) PROVE InFlight'
  <2> DEFINE X == [proc[p] EXCEPT !.pc = "insert", !.now = clock]
  <2>1. X.pc = "insert"
    BY <1>l DEF Local
  <2>2. CASE proc' = [proc EXCEPT ![p] = X]
    <3> HIDE DEF X
    <3> QED BY <1>n, <2>1, <2>2
  <2> QED BY <1>3, <1>s, <2>2 DEF createRequest
<1>4. ASSUME NEW p \in Procs, approve(p) PROVE InFlight'
  <2> DEFINE row == pair_requests[proc[p].id]
             owner == proc[p].half
             X == [proc[p] EXCEPT !.pc = "idempotent",
                                  !.requester = row.requester,
                                  !.path = row.path_id]
             Y == [proc[p] EXCEPT !.pc = "insertPair",
                                  !.requester = row.requester,
                                  !.path = PathOf(row.requester.pubkey,
                                                  owner.pubkey)]
  <2>1. /\ proc[p].op = "approve" /\ proc[p].id \in ReqIds
        /\ owner \in Halves /\ UNCHANGED <<pair_requests, pairs>>
    BY <1>4 DEF approve, At, CallShape, store
  <2>2. CASE /\ row # Null /\ row.status = "approved" /\ row.path_id # Null
             /\ proc' = [proc EXCEPT ![p] = X]
    <3>1. row \in Row
      BY <2>1, <2>2
    <3>2. /\ X.pc = "idempotent" /\ X.op = "approve" /\ X.id = proc[p].id
          /\ X.requester = row.requester /\ X.path = row.path_id
      BY <2>1, <1>l DEF Local
    <3>3. proc'[p] = X
      BY <2>2
    <3> HIDE DEF X
    <3>4. row.requester \in Halves /\ row.path_id \in PathIds
      BY <2>2, <3>1 DEF Row
    <3>5. InFlightAt(p)'
      BY <2>1, <2>2, <3>2, <3>3, <3>4 DEF InFlightAt, HasStatus
    <3> QED BY <2>2, <3>5, <1>o
  <2>3. CASE row # Null /\ proc' = [proc EXCEPT ![p] = Y]
    <3>1. row \in Row
      BY <2>1, <2>3
    <3>2. /\ Y.pc = "insertPair" /\ Y.op = "approve" /\ Y.id = proc[p].id
          /\ Y.requester = row.requester /\ Y.half = owner
          /\ Y.path = PathOf(row.requester.pubkey, owner.pubkey)
      BY <2>1, <1>l DEF Local
    <3>3. proc'[p] = Y
      BY <2>3
    <3> HIDE DEF Y
    <3>4. row.requester \in Halves
      BY <3>1 DEF Row
    <3>5. InFlightAt(p)'
      BY <2>1, <2>3, <3>2, <3>3, <3>4 DEF InFlightAt
    <3> QED BY <2>3, <3>5, <1>o
  <2> QED BY <1>4, <1>s, <2>2, <2>3 DEF approve
<1>5. ASSUME NEW p \in Procs, InsertPair(p) PROVE InFlight'
  <2> DEFINE X == [proc[p] EXCEPT !.pc = "update",
                       !.json = [form |-> "half", half |-> proc[p].half]]
             Y == [proc[p] EXCEPT !.pc = "getPair"]
  <2>1. /\ proc[p].op = "approve" /\ proc[p].id \in ReqIds
        /\ proc[p].half \in Halves /\ proc[p].requester \in Halves
        /\ pair_requests[proc[p].id] # Null
        /\ pair_requests[proc[p].id].requester = proc[p].requester
        /\ proc[p].path = PathOf(proc[p].requester.pubkey, proc[p].half.pubkey)
    BY <1>5 DEF InsertPair, CallShape, InFlight, InFlightAt, Approving
  <2>2. proc[p].path \in PathIds
    BY <2>1, HalfKey, PathOfType
  <2>3. CASE /\ pairs' = [pairs EXCEPT ![proc[p].path] =
                    [requester |-> proc[p].requester.pubkey,
                     owner |-> proc[p].half.pubkey]]
             /\ proc' = [proc EXCEPT ![p] = X]
             /\ UNCHANGED pair_requests
    <3>1. /\ X.op = "approve" /\ X.id = proc[p].id /\ X.half = proc[p].half
          /\ X.requester = proc[p].requester /\ X.path = proc[p].path
          /\ X.json = [form |-> "half", half |-> proc[p].half]
          /\ X.pc = "update"
      BY <2>1, <1>l DEF Local
    <3>2. proc'[p] = X
      BY <2>3
    <3> HIDE DEF X
    <3>3. /\ X.json \in OwnerJSON /\ X.json.half = X.half
      BY <2>1, <3>1 DEF OwnerJSON
    <3>4. SamePair(p)'
      BY <2>2, <2>3, <3>1, <3>2 DEF SamePair
    <3>5. InFlightAt(p)'
      BY <2>1, <2>3, <3>1, <3>2, <3>3, <3>4 DEF InFlightAt
    <3> QED BY <2>3, <3>5, <1>o
  <2>4. CASE proc' = [proc EXCEPT ![p] = Y] /\ UNCHANGED store
    <3>1. /\ Y.op = "approve" /\ Y.id = proc[p].id /\ Y.half = proc[p].half
          /\ Y.requester = proc[p].requester /\ Y.path = proc[p].path
          /\ Y.pc = "getPair"
      BY <2>1, <1>l DEF Local
    <3>2. proc'[p] = Y
      BY <2>4
    <3> HIDE DEF Y
    <3>3. InFlightAt(p)'
      BY <2>1, <2>4, <3>1, <3>2 DEF InFlightAt, store
    <3> QED BY <2>4, <3>3, <1>o
  <2> QED BY <1>5, <1>s, <2>3, <2>4 DEF InsertPair, FailWith
<1>6. ASSUME NEW p \in Procs, approveDuplicate(p) PROVE InFlight'
  <2> DEFINE X == [proc[p] EXCEPT !.pc = "update",
                       !.json = [form |-> "body", half |-> proc[p].half]]
  <2>1. /\ proc[p].op = "approve" /\ proc[p].id \in ReqIds
        /\ proc[p].half \in Halves /\ proc[p].requester \in Halves
        /\ pair_requests[proc[p].id] # Null
        /\ pair_requests[proc[p].id].requester = proc[p].requester
        /\ proc[p].path = PathOf(proc[p].requester.pubkey, proc[p].half.pubkey)
        /\ UNCHANGED store
    BY <1>6 DEF approveDuplicate, CallShape, InFlight, InFlightAt, Approving
  <2>2. CASE SamePair(p) /\ proc' = [proc EXCEPT ![p] = X]
    <3>1. /\ X.op = "approve" /\ X.id = proc[p].id /\ X.half = proc[p].half
          /\ X.requester = proc[p].requester /\ X.path = proc[p].path
          /\ X.json = [form |-> "body", half |-> proc[p].half]
          /\ X.pc = "update"
      BY <2>1, <1>l DEF Local
    <3>2. proc'[p] = X
      BY <2>2
    <3> HIDE DEF X
    <3>3. /\ X.json \in OwnerJSON /\ X.json.half = X.half
      BY <2>1, <3>1 DEF OwnerJSON
    <3>4. SamePair(p)'
      BY <2>1, <2>2, <3>1, <3>2 DEF SamePair, store
    <3>5. InFlightAt(p)'
      BY <2>1, <3>1, <3>2, <3>3, <3>4 DEF InFlightAt, store
    <3> QED BY <2>2, <3>5, <1>o
  <2> QED BY <1>6, <1>s, <2>2 DEF approveDuplicate
<1>7. ASSUME NEW p \in Procs, deny(p) PROVE InFlight'
  <2> DEFINE X == [proc[p] EXCEPT !.pc = "lookup"]
  <2>1. X.op = "deny"
    BY <1>7, <1>l DEF deny, At, Local
  <2>2. CASE proc' = [proc EXCEPT ![p] = X]
    <3> HIDE DEF X
    <3> QED BY <1>n, <2>1, <2>2
  <2> QED BY <1>7, <1>r, <2>2 DEF deny, UpdatePairRequestStatus
<1>8. ASSUME NEW p \in Procs, approveUpdate(p) PROVE InFlight'
  <2> DEFINE X == [proc[p] EXCEPT !.pc = "lookup"]
  <2>1. CASE proc' = [proc EXCEPT ![p] = X] /\ UNCHANGED <<pair_requests, pairs>>
    <3>1. InFlightAt(p) /\ proc[p].op = "approve" /\ proc[p].pc = "update"
      BY <1>8 DEF InFlight, approveUpdate, CallShape
    <3>2. /\ X.op = "approve" /\ X.id = proc[p].id /\ X.half = proc[p].half
          /\ X.requester = proc[p].requester /\ X.path = proc[p].path
          /\ X.json = proc[p].json /\ X.pc = "lookup"
      BY <3>1, <1>l DEF Local
    <3>3. proc'[p] = X
      BY <2>1
    <3> HIDE DEF X
    <3>4. InFlightAt(p)'
      BY <2>1, <3>1, <3>2, <3>3 DEF InFlightAt, Approving, SamePair
    <3> QED BY <2>1, <3>4, <1>o
  <2> QED BY <1>8, <1>r, <2>1 DEF approveUpdate, UpdatePairRequestStatus
<1>9. ASSUME NEW p \in Procs,
             \/ ownerAuthRequired(p) \/ badRequest(p) \/ InsertPairRequest(p)
             \/ getRequestStatus(p) \/ listPending(p)
             \/ approveIdempotent(p) \/ updateLookup(p)
      PROVE  InFlight'
  BY <1>r, <1>s, <1>9, OnlyAnswers
<1>10. CASE Crash
  <2>1. \A p \in Procs : proc'[p] = Idle
    BY <1>10 DEF Crash
  <2>2. Idle.pc = "idle"
    BY DEF Idle, Holding
  <2> QED BY <2>1, <2>2 DEF InFlight, InFlightAt, Approving
<1>11. ASSUME UNCHANGED proc PROVE InFlight'
  BY <1>11, <1>f DEF InFlight
<1> QED
  BY <1>1, <1>2, <1>3, <1>4, <1>5, <1>6, <1>7, <1>8, <1>9, <1>10, <1>11
     DEF Next, Handler, Tick, sweepStart, sweepExpire, sweepFail, vars

-----------------------------------------------------------------------------
(* Approved requests have their pairs. *)

\* One step keeps approved requests backed: an approval is written only by a
\* call whose pair is already there, and neither row changes afterwards.
LEMMA BackedStep ==
    ASSUME TypeOK, CallShape, InFlight, ApprovedBacked, [Next]_vars
    PROVE  ApprovedBacked'
<1> DEFINE Backed(id) ==
        LET row == pair_requests[id] IN
        /\ row.owner_json # Null
        /\ row.path_id = PathOf(row.requester.pubkey, row.owner_json.half.pubkey)
        /\ pairs[row.path_id] = PairFor(row)
<1>k. RowsKept /\ PairsKept
  BY StepKeeps
\* A request that was approved before keeps its row and its pair.
<1>1. ASSUME NEW id \in ReqIds, HasStatus(id, "approved") PROVE Backed(id)'
  <2>1. pair_requests'[id] = pair_requests[id] /\ pair_requests[id] \in Row
    BY <1>1, <1>k DEF RowsKept, HasStatus, TypeOK
  <2>2. Backed(id)
    BY <1>1 DEF ApprovedBacked
  <2>3. pair_requests[id].path_id \in PathIds /\ PairFor(pair_requests[id]) \in PairRow
    BY <2>1, <2>2, HalfKey, PathOfType DEF Row, OwnerJSON, PairFor, PairRow
  <2> QED
    BY <2>1, <2>2, <2>3, <1>k, RowNotNull DEF PairsKept, PairFor
\* Only an approve call's update makes a request approved.
<1>2. ASSUME NEW id \in ReqIds, HasStatus(id, "approved")', ~HasStatus(id, "approved")
      PROVE  \E p \in Procs : /\ approveUpdate(p) /\ id = proc[p].id
                              /\ id \in Pending
                              /\ pair_requests'[id] =
                                   [pair_requests[id] EXCEPT
                                      !.status = "approved",
                                      !.owner_json = coalesce(proc[p].json, @),
                                      !.path_id = coalesce(proc[p].path, @)]
  <2>0. ASSUME UNCHANGED pair_requests PROVE FALSE
    BY <1>2, <2>0 DEF HasStatus
  <2>1. ASSUME NEW cutoff, ExpirePendingRequests(cutoff) PROVE FALSE
    <3>1. CASE Overdue(pair_requests[id], cutoff)
      <4>1. pair_requests[id] \in Row
        BY <3>1 DEF Overdue, TypeOK
      <4>2. pair_requests'[id].status = "expired"
        BY <2>1, <3>1, <4>1 DEF ExpirePendingRequests, Row
      <4> QED BY <1>2, <4>2 DEF HasStatus
    <3>2. CASE ~Overdue(pair_requests[id], cutoff)
      BY <1>2, <2>1, <3>2 DEF ExpirePendingRequests, HasStatus
    <3> QED BY <3>1, <3>2
  <2>2. ASSUME NEW p \in Procs, InsertPairRequest(p) PROVE FALSE
    <3>1. PICK i \in ReqIds :
            pair_requests' = [pair_requests EXCEPT ![i] =
                   [status |-> "pending",
                    expires_at |-> formatTime(proc[p].now + RequestTTL),
                    requester |-> proc[p].half,
                    owner_json |-> Null, path_id |-> Null]]
      BY <2>0, <2>2 DEF InsertPairRequest, FailWith, store
    <3> QED BY <1>2, <3>1 DEF HasStatus, TypeOK
  <2>3. ASSUME NEW p \in Procs, deny(p) \/ approveUpdate(p)
        PROVE  /\ approveUpdate(p) /\ id = proc[p].id
               /\ id \in Pending
               /\ pair_requests'[id] = [pair_requests[id] EXCEPT
                      !.status = "approved",
                      !.owner_json = coalesce(proc[p].json, @),
                      !.path_id = coalesce(proc[p].path, @)]
    <3> DEFINE i == proc[p].id
               new == [pair_requests[i] EXCEPT
                          !.status = Target(p),
                          !.owner_json = coalesce(proc[p].json, @),
                          !.path_id = coalesce(proc[p].path, @)]
    <3>1. /\ UpdatePairRequestStatus(p) /\ i \in ReqIds
          /\ deny(p) => proc[p].op = "deny"
          /\ approveUpdate(p) => proc[p].op = "approve"
      BY <2>3 DEF deny, approveUpdate, At, CallShape
    <3>2. i \in Pending /\ pair_requests' = [pair_requests EXCEPT ![i] = new]
      BY <2>0, <3>1 DEF UpdatePairRequestStatus
    <3>3. id = i
      BY <1>2, <3>2 DEF HasStatus, TypeOK
    <3>4. pair_requests[i] \in Row /\ new.status = Target(p)
      BY <3>1, <3>2 DEF TypeOK, Pending, Row
    <3>5. Target(p) = "approved"
      BY <1>2, <3>1, <3>2, <3>3, <3>4 DEF HasStatus, TypeOK
    <3>6. approveUpdate(p)
      BY <2>3, <3>1, <3>5 DEF Target
    <3> QED BY <3>1, <3>2, <3>3, <3>5, <3>6 DEF TypeOK
  <2>4. ASSUME NEW p \in Procs, dispatch(p) PROVE FALSE
    BY <2>0, <2>1, <2>4 DEF dispatch
  <2>5. ASSUME NEW p \in Procs, InsertPair(p) PROVE FALSE
    BY <2>0, <2>5 DEF InsertPair, FailWith, store
  <2>6. ASSUME sweepExpire PROVE FALSE
    BY <2>1, <2>6 DEF sweepExpire
  <2>7. ASSUME UNCHANGED store PROVE FALSE
    BY <2>0, <2>7 DEF store
  <2>8. ASSUME UNCHANGED vars PROVE FALSE
    BY <2>0, <2>8 DEF vars
  <2> QED
    BY <2>2, <2>3, <2>4, <2>5, <2>6, <2>7, <2>8
       DEF Next, Handler, ownerAuthRequired, badRequest, finish, createRequest,
           getRequestStatus, listPending, approve, approveIdempotent,
           approveDuplicate, updateLookup, Tick, sweepStart, sweepFail, Crash
\* That call has its pair in the table already.
<1>3. ASSUME NEW id \in ReqIds, HasStatus(id, "approved")', ~HasStatus(id, "approved")
      PROVE  Backed(id)'
  <2>1. PICK p \in Procs : /\ approveUpdate(p) /\ id = proc[p].id
                           /\ id \in Pending
                           /\ pair_requests'[id] =
                                   [pair_requests[id] EXCEPT
                                      !.status = "approved",
                                      !.owner_json = coalesce(proc[p].json, @),
                                      !.path_id = coalesce(proc[p].path, @)]
    BY <1>2, <1>3
  <2> DEFINE c == proc[p]
  <2>2. /\ c.op = "approve" /\ c.half \in Halves /\ UNCHANGED pairs
        /\ Approving(p) /\ c.pc = "update"
    BY <2>1 DEF approveUpdate, UpdatePairRequestStatus, CallShape, Approving
  <2>3. /\ c.requester \in Halves
        /\ pair_requests[id].requester = c.requester
        /\ c.path = PathOf(c.requester.pubkey, c.half.pubkey)
        /\ c.json \in OwnerJSON /\ c.json.half = c.half
        /\ SamePair(p)
    BY <2>1, <2>2 DEF InFlight, InFlightAt
  <2>4. c.path \in PathIds
    BY <2>2, <2>3, HalfKey, PathOfType
  <2>5. pair_requests[id] \in Row
    BY <2>1 DEF Pending, TypeOK
  <2>6. /\ pair_requests'[id].owner_json = c.json
        /\ pair_requests'[id].path_id = c.path
        /\ pair_requests'[id].requester = c.requester
    BY <2>1, <2>3, <2>4, <2>5, NullAssumption DEF Row, coalesce
  <2> QED BY <2>2, <2>3, <2>6, NullAssumption DEF SamePair, PairFor
<1> QED BY <1>1, <1>3 DEF ApprovedBacked

-----------------------------------------------------------------------------
(* The theorems. *)

\* The inductive invariant holds of an empty database.
LEMMA InitInv == Init => Inv
<1> SUFFICES ASSUME Init PROVE Inv
  OBVIOUS
<1>1. TypeOK
  BY IdleType DEF Init, TypeOK
<1>2. Idle.pc = "idle" /\ Idle.op = "none"
  BY DEF Idle, Holding
<1>3. CallShape /\ InFlight
  BY <1>2 DEF Init, CallShape, InFlight, InFlightAt, Approving
<1>4. ApprovedBacked
  BY DEF Init, ApprovedBacked, HasStatus
<1> QED BY <1>1, <1>3, <1>4 DEF Inv

\* Every statement, failure, sweep and crash preserves the invariant.
LEMMA NextInv == Inv /\ [Next]_vars => Inv'
BY TypeStep, CallShapeStep, InFlightStep, BackedStep DEF Inv

\* The inductive invariant holds in every reachable state.
THEOREM Invariance == Spec => []Inv
BY InitInv, NextInv, PTL DEF Spec

\* The tables, the handlers' locals and the answers keep their types through
\* every interleaving of statements, failures and crashes.
THEOREM TypeCorrect == Spec => []TypeOK
<1>1. Inv => TypeOK
  BY DEF Inv
<1> QED BY <1>1, Invariance, PTL

\* No request is ever approved without the pair of exactly its two keys,
\* although approve writes the two rows in separate statements.
THEOREM ApprovedIsBacked == Spec => []ApprovedBacked
<1>1. Inv => ApprovedBacked
  BY DEF Inv
<1> QED BY <1>1, Invariance, PTL

\* A decided request and an active pair keep their rows for ever.
THEOREM DecisionsAreFinal == Spec => DecisionsFinal
<1> DEFINE Kept ==
        /\ \A id \in ReqIds :
             (pair_requests[id] # Null /\ pair_requests[id].status \in Terminal)
                => pair_requests'[id] = pair_requests[id]
        /\ \A path \in PathIds :
             pairs[path] # Null => pairs'[path] = pairs[path]
<1>1. Inv /\ [Next]_vars => [Kept]_vars
  BY StepKeeps DEF Inv, RowsKept, PairsKept, Terminal
<1> QED BY <1>1, Invariance, PTL DEF Spec, DecisionsFinal
=============================================================================
