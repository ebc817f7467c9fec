------------------------------ MODULE PairFlow ------------------------------
(***************************************************************************)
(* The pairing handshake: internal/pairflow over the pair_requests and      *)
(* pairs tables of internal/storage, with the retention sweeper's expiry.   *)
(*                                                                          *)
(* Every HTTP call runs on a goroutine of its own (proc[p]) and reaches the *)
(* database one autocommitted statement at a time; no transaction spans two *)
(* statements.  One action is one SQL statement together with the local     *)
(* computation up to the next one, so the statements of concurrent calls    *)
(* interleave freely.  A statement may fail (MayFail: cancelled request     *)
(* context, SQLITE_BUSY, I/O error) and then has no effect; the process may *)
(* crash between any two steps and keeps only the tables and the wall clock.*)
(***************************************************************************)
EXTENDS PairHalf

CONSTANTS
    ReqIds,          \* the request ids genID may mint
    Procs,           \* slots for concurrently running handler goroutines
    Halves,          \* the halves clients submit
    Calls,           \* the endpoints clients call, a subset of Endpoints
    Null,            \* SQL NULL / a missing row / an unset local
    EmptyHalf,       \* the half json.Unmarshal leaves when no field matches
    RequestTTL,      \* requestTTL, in ticks
    TicksPerSecond,  \* clock resolution against formatTime's whole seconds
    MayFail,         \* may storage statements fail?
    MaxTime,         \* bound: the clock stops here
    LastCreate,      \* bound: no request is staged later than this
    MaxCrashes       \* bound: number of crashes

Endpoints == {"create", "poll", "list", "approve", "deny"}

ASSUME CallsAssumption == Calls \subseteq Endpoints
ASSUME HalvesAssumption == Halves \subseteq Half
ASSUME TimeAssumption ==
    /\ RequestTTL \in Nat /\ TicksPerSecond \in Nat \ {0}
    /\ MaxTime \in Nat /\ LastCreate \in Nat /\ MaxCrashes \in Nat
    /\ MayFail \in BOOLEAN

VARIABLES
    clock,           \* wall clock, in ticks
    pair_requests,   \* table: request id -> row or Null
    pairs,           \* table: path id -> row or Null
    proc,            \* handler goroutines
    sweeper,         \* the retention goroutine
    crashes,         \* number of crashes so far
    deadline,        \* history: request id -> created_at + requestTTL, exact
    origin           \* history: path id -> the approval that inserted the pair

store == <<pair_requests, pairs>>
vars == <<clock, pair_requests, pairs, proc, sweeper, crashes, deadline, origin>>

Statuses == {"pending", "approved", "denied", "expired"}
Terminal == Statuses \ {"pending"}

\* formatTime: time columns hold whole seconds, truncated.
formatTime(t) == t \div TicksPerSecond

\* owner_json holds either serializeHalf(owner) or the raw approve body.
OwnerJSON == [form : {"half", "body"}, half : Halves]

Row == [status : Statuses, expires_at : Int, requester : Halves,
        owner_json : OwnerJSON \cup {Null}, path_id : PathIds \cup {Null}]

PairRow == [requester : Pubkeys, owner : Pubkeys]

\* The request an approval was for and the half that was submitted with it.
Origin == [id : ReqIds, half : Halves]

\* NULL and the empty half are values of no column.
ASSUME NullAssumption ==
    /\ Null \notin Halves /\ EmptyHalf \notin Halves /\ Null # EmptyHalf
    /\ Null \notin PathIds
    /\ Null \notin ReqIds /\ Null \notin Row /\ Null \notin PairRow
    /\ Null \notin OwnerJSON

Response == [code : Int, status : Statuses \cup {"none"},
             path : PathIds \cup {Null},
             half : Halves \cup {Null, EmptyHalf}, ids : SUBSET ReqIds]

Local == [pc : {"idle", "handle", "insert", "idempotent",
                "insertPair", "getPair", "update", "lookup", "done"},
          op : Endpoints \cup {"none"}, id : ReqIds \cup {Null}, half : Halves \cup {Null},
          now : Nat, requester : Halves \cup {Null},
          path : PathIds \cup {Null}, json : OwnerJSON \cup {Null},
          resp : Response \cup {Null}]

\* A goroutine that holds a call, at most an answer, and no other local.
Holding(pc, op, id, half, resp) ==
    [pc |-> pc, op |-> op, id |-> id, half |-> half, now |-> 0,
     requester |-> Null, path |-> Null, json |-> Null, resp |-> resp]

Idle == Holding("idle", "none", Null, Null, Null)

Init ==
    /\ clock = 0
    /\ pair_requests = [id \in ReqIds |-> Null]
    /\ pairs = [path \in PathIds |-> Null]
    /\ proc = [p \in Procs |-> Idle]
    /\ sweeper = [pc |-> "idle", now |-> 0]
    /\ crashes = 0
    /\ deadline = [id \in ReqIds |-> 0]
    /\ origin = [path \in PathIds |-> Null]

-----------------------------------------------------------------------------
(* Helpers shared by the handlers. *)

At(p, pc, op) == proc[p].pc = pc /\ proc[p].op = op

Answer(code, status, path, half, ids) ==
    [code |-> code, status |-> status, path |-> path, half |-> half,
     ids |-> ids]
Refusal(code) == Answer(code, "none", Null, Null, {})

\* writeJSON and return: the goroutine keeps its call and the answer only.
Reply(p, r) ==
    proc' = [proc EXCEPT ![p] =
        Holding("done", @.op, @.id, @.half, r)]

\* An error answer that says nothing about the tables: the call is over.
Refuse(p, code) ==
    proc' = [proc EXCEPT ![p] =
        Holding("done", "none", Null, Null, Refusal(code))]

\* A statement that returned an error the handler answers with `code`.
FailWith(p, code) == MayFail /\ Refuse(p, code) /\ UNCHANGED store

\* A handler step leaves the clock, the sweeper and the histories alone.
Quiet == UNCHANGED <<clock, sweeper, crashes, deadline, origin>>

\* Mutant of Overdue: a request expires in the second it is due.
OverdueInclusive(row, cutoff) ==
    /\ row # Null
    /\ row.status = "pending"
    /\ row.expires_at <= formatTime(cutoff)

\* ExpirePendingRequests: every pending row past its expires_at, compared
\* in the truncated format, becomes expired.
Overdue(row, cutoff) ==
    /\ row # Null
    /\ row.status = "pending"
    /\ row.expires_at < formatTime(cutoff)

ExpirePendingRequests(cutoff) ==
    pair_requests' =
        [id \in ReqIds |->
            IF Overdue(pair_requests[id], cutoff)
            THEN [pair_requests[id] EXCEPT !.status = "expired"]
            ELSE pair_requests[id]]

-----------------------------------------------------------------------------
(* Dispatch. *)

\* The request id in an endpoint's URL and the half in its body, if any.
Ids(op) == IF op \in {"poll", "approve", "deny"} THEN ReqIds ELSE {Null}
Bodies(op) == IF op \in {"create", "approve"} THEN Halves ELSE {Null}

\* dispatchPublic / dispatchOwner: a call arrives; stale requests are
\* expired as of now before anything else, and an error in that is ignored.
dispatch(p) ==
    /\ proc[p].pc = "idle"
    /\ \E op \in Calls : \E id \in Ids(op), h \in Bodies(op) :
          proc' = [proc EXCEPT ![p] =
              Holding("handle", op, id, h, Null)]
    /\ ExpirePendingRequests(clock) \/ (MayFail /\ UNCHANGED pair_requests)
    /\ UNCHANGED pairs /\ Quiet

\* dispatchOwner without the shared secret: 401 before anything is touched.
ownerAuthRequired(p) ==
    /\ proc[p].pc = "idle"
    /\ Calls \cap {"list", "approve", "deny"} # {}
    /\ Refuse(p, 401)
    /\ UNCHANGED store /\ Quiet

\* Unknown route, unreadable body, malformed request id, other filter.
badRequest(p) ==
    /\ proc[p].pc = "handle"
    /\ Refuse(p, 400)
    /\ UNCHANGED store /\ Quiet

\* The client has its answer; the goroutine ends.
finish(p) ==
    /\ proc[p].pc = "done"
    /\ proc' = [proc EXCEPT ![p] = Idle]
    /\ UNCHANGED store /\ Quiet

-----------------------------------------------------------------------------
(* POST /pair/request *)

createRequest(p) ==
    /\ At(p, "handle", "create")
    /\ clock <= LastCreate
    /\ LET h == proc[p].half IN
       IF parseHalf(h) /\ tsInWindow(h.ts, clock) /\ verifySelfSig(h)
       THEN proc' = [proc EXCEPT ![p] =
                        [@ EXCEPT !.pc = "insert", !.now = clock]]
       ELSE Refuse(p, 400)
    /\ UNCHANGED store /\ Quiet

InsertPairRequest(p) ==
    /\ proc[p].pc = "insert"
    /\ \/ \E id \in ReqIds :
             /\ pair_requests[id] = Null
             /\ pair_requests' = [pair_requests EXCEPT ![id] =
                   [status |-> "pending",
                    expires_at |-> formatTime(proc[p].now + RequestTTL),
                    requester |-> proc[p].half,
                    owner_json |-> Null, path_id |-> Null]]
             /\ deadline' = [deadline EXCEPT ![id] = proc[p].now + RequestTTL]
             /\ Reply(p, Answer(201, "pending", Null, Null, {id}))
             /\ UNCHANGED pairs
       \/ /\ \E id \in ReqIds : pair_requests[id] # Null  \* collision
          /\ Refuse(p, 500)
          /\ UNCHANGED <<store, deadline>>
       \/ FailWith(p, 500) /\ UNCHANGED deadline
    /\ UNCHANGED <<clock, sweeper, crashes, origin>>

-----------------------------------------------------------------------------
(* GET /pair/requests/:id and GET /pair/requests *)

\* owner_half of a poll: owner_json decoded as a half.  A raw approve body
\* has no top-level field of a half, so it decodes to the empty one.
ownerHalf(row) ==
    IF row.status # "approved" \/ row.owner_json = Null THEN Null
    ELSE IF row.owner_json.form = "half" THEN row.owner_json.half
    ELSE EmptyHalf

getRequestStatus(p) ==
    /\ At(p, "handle", "poll")
    /\ LET row == pair_requests[proc[p].id] IN
       \/ row = Null /\ Refuse(p, 404)
       \/ row # Null /\ Reply(p, Answer(200, row.status, row.path_id,
                                        ownerHalf(row), {}))
       \/ MayFail /\ Refuse(p, 500)
    /\ UNCHANGED store /\ Quiet

Pending == {id \in ReqIds : /\ pair_requests[id] # Null
                            /\ pair_requests[id].status = "pending"}

listPending(p) ==
    /\ At(p, "handle", "list")
    /\ \/ Reply(p, Answer(200, "none", Null, Null, Pending))
       \/ MayFail /\ Refuse(p, 500)
    /\ UNCHANGED store /\ Quiet

-----------------------------------------------------------------------------
(* POST /pair/requests/:id/approve *)

\* Mutant of approve: the owner's self-signature is not checked.
approveUnverified(p) ==
    /\ At(p, "handle", "approve")
    /\ LET row == pair_requests[proc[p].id]
           owner == proc[p].half IN
       /\ row # Null
       /\ row.status = "pending"
       /\ parseHalf(owner) /\ tsInWindow(owner.ts, clock)
       /\ proc' = [proc EXCEPT ![p] =
             [@ EXCEPT !.pc = "insertPair", !.requester = row.requester,
                       !.path = PathOf(row.requester.pubkey, owner.pubkey)]]
    /\ UNCHANGED store /\ Quiet

\* GetPairRequest and the checks that follow it.
approve(p) ==
    /\ At(p, "handle", "approve")
    /\ LET row == pair_requests[proc[p].id]
           owner == proc[p].half IN
       \/ row = Null /\ Refuse(p, 404)
       \/ MayFail /\ Refuse(p, 500)
       \/ /\ row # Null
          /\ row.status # "pending"
          /\ IF /\ row.status = "approved" /\ row.path_id # Null
                /\ parseHalf(owner) /\ verifySelfSig(owner)
             THEN proc' = [proc EXCEPT ![p] =
                     [@ EXCEPT !.pc = "idempotent", !.requester = row.requester,
                               !.path = row.path_id]]
             ELSE Refuse(p, 409)
       \/ /\ row # Null
          /\ row.status = "pending"
          /\ IF /\ parseHalf(owner) /\ tsInWindow(owner.ts, clock)
                /\ verifySelfSig(owner)
             THEN proc' = [proc EXCEPT ![p] =
                     [@ EXCEPT !.pc = "insertPair", !.requester = row.requester,
                               !.path = PathOf(row.requester.pubkey,
                                               owner.pubkey)]]
             ELSE Refuse(p, 400)
    /\ UNCHANGED store /\ Quiet

Approved(p) ==
    Answer(200, "approved", proc[p].path, proc[p].requester, {})

\* The request was approved already: 200 if its pair has this owner key.
approveIdempotent(p) ==
    /\ proc[p].pc = "idempotent"
    /\ LET sameOwner == /\ pairs[proc[p].path] # Null
                        /\ pairs[proc[p].path].owner = proc[p].half.pubkey IN
       \/ sameOwner /\ Reply(p, Approved(p))
       \/ (~sameOwner \/ MayFail) /\ Refuse(p, 409)
    /\ UNCHANGED store /\ Quiet

\* Mutant of InsertPair: INSERT OR REPLACE.
InsertPairReplace(p) ==
    /\ proc[p].pc = "insertPair"
    /\ \/ /\ pairs' = [pairs EXCEPT ![proc[p].path] =
                [requester |-> proc[p].requester.pubkey,
                 owner |-> proc[p].half.pubkey]]
          /\ proc' = [proc EXCEPT ![p] =
                [@ EXCEPT !.pc = "update",
                          !.json = [form |-> "half", half |-> proc[p].half]]]
          /\ UNCHANGED pair_requests
       \/ FailWith(p, 500)
    /\ Quiet

\* InsertPair: the one statement that activates a pair; the history keeps
\* whose approval it was.
InsertPair(p) ==
    /\ proc[p].pc = "insertPair"
    /\ \/ /\ pairs[proc[p].path] = Null
          /\ pairs' = [pairs EXCEPT ![proc[p].path] =
                [requester |-> proc[p].requester.pubkey,
                 owner |-> proc[p].half.pubkey]]
          /\ proc' = [proc EXCEPT ![p] =
                [@ EXCEPT !.pc = "update",
                          !.json = [form |-> "half", half |-> proc[p].half]]]
          /\ origin' = [origin EXCEPT ![proc[p].path] =
                [id |-> proc[p].id, half |-> proc[p].half]]
          /\ UNCHANGED pair_requests
       \/ /\ pairs[proc[p].path] # Null
          /\ proc' = [proc EXCEPT ![p] = [@ EXCEPT !.pc = "getPair"]]
          /\ UNCHANGED <<store, origin>>
       \/ FailWith(p, 500) /\ UNCHANGED origin
    /\ UNCHANGED <<clock, sweeper, crashes, deadline>>

\* Mutant of SamePair: any existing pair at the path will do.
SamePairAny(p) == pairs[proc[p].path] # Null

SamePair(p) ==
    pairs[proc[p].path] = [requester |-> proc[p].requester.pubkey,
                           owner |-> proc[p].half.pubkey]

\* ErrDuplicate: the pair exists.  If it is this pair the request is still
\* updated, with the raw body as owner_json; otherwise pair_conflict.
approveDuplicate(p) ==
    /\ proc[p].pc = "getPair"
    /\ \/ /\ SamePair(p)
          /\ proc' = [proc EXCEPT ![p] =
                [@ EXCEPT !.pc = "update",
                          !.json = [form |-> "body", half |-> proc[p].half]]]
       \/ /\ ~SamePair(p) \/ MayFail
          /\ Refuse(p, 409)
    /\ UNCHANGED store /\ Quiet

-----------------------------------------------------------------------------
(* POST /pair/requests/:id/deny and the shared status update *)

\* Mutant of Target: a status the schema does not know.
TargetMisspelt(p) == IF proc[p].op = "deny" THEN "deny" ELSE "approved"

Target(p) == IF proc[p].op = "deny" THEN "denied" ELSE "approved"

\* The duplicate branch of approve ignores what the update returns.
ErrorIgnored(p) == proc[p].json # Null /\ proc[p].json.form = "body"

\* What the caller of UpdatePairRequestStatus answers to its outcome.
Settle(p, outcome) ==
    IF proc[p].op = "approve"
    THEN IF outcome = "ok" \/ ErrorIgnored(p) THEN Approved(p)
         ELSE Refusal(IF outcome = "conflict" THEN 409 ELSE 500)
    ELSE IF outcome = "ok" THEN Answer(200, "denied", Null, Null, {})
         ELSE Refusal(CASE outcome = "notfound" -> 404
                        [] outcome = "conflict" -> 409
                        [] OTHER -> 500)

coalesce(a, b) == IF a # Null THEN a ELSE b

\* Mutant of UpdatePairRequestStatus: AND status = 'pending' is missing.
UpdateUnguarded(p) ==
    LET id == proc[p].id
        row == pair_requests[id] IN
    /\ \/ /\ row # Null
          /\ pair_requests' = [pair_requests EXCEPT ![id] =
                [row EXCEPT !.status = Target(p),
                            !.owner_json = coalesce(proc[p].json, @),
                            !.path_id = coalesce(proc[p].path, @)]]
          /\ Reply(p, Settle(p, "ok"))
       \/ /\ row = Null
          /\ proc' = [proc EXCEPT ![p] = [@ EXCEPT !.pc = "lookup"]]
          /\ UNCHANGED pair_requests
    /\ UNCHANGED pairs /\ Quiet

\* UPDATE ... WHERE request_id = ? AND status = 'pending'
UpdatePairRequestStatus(p) ==
    LET id == proc[p].id
        row == pair_requests[id] IN
    /\ \/ /\ id \in Pending
          /\ pair_requests' = [pair_requests EXCEPT ![id] =
                [row EXCEPT !.status = Target(p),
                            !.owner_json = coalesce(proc[p].json, @),
                            !.path_id = coalesce(proc[p].path, @)]]
          /\ Reply(p, Settle(p, "ok"))
       \/ /\ id \notin Pending                 \* no row affected
          /\ proc' = [proc EXCEPT ![p] = [@ EXCEPT !.pc = "lookup"]]
          /\ UNCHANGED pair_requests
       \/ /\ MayFail
          /\ Reply(p, Settle(p, "error"))
          /\ UNCHANGED pair_requests
    /\ UNCHANGED pairs /\ Quiet

deny(p) == At(p, "handle", "deny") /\ UpdatePairRequestStatus(p)

approveUpdate(p) == proc[p].pc = "update" /\ UpdatePairRequestStatus(p)

\* Mutant of updateLookup: a request in any terminal state is a success.
updateLookupLenient(p) ==
    /\ proc[p].pc = "lookup"
    /\ LET row == pair_requests[proc[p].id] IN
       \/ row = Null /\ Reply(p, Settle(p, "notfound"))
       \/ row # Null /\ Reply(p, Settle(p, "ok"))
    /\ UNCHANGED store /\ Quiet

\* The separate lookup that tells why no row was affected.
updateLookup(p) ==
    /\ proc[p].pc = "lookup"
    /\ LET row == pair_requests[proc[p].id] IN
       \/ row = Null /\ Reply(p, Settle(p, "notfound"))
       \/ /\ row # Null /\ row.status = Target(p)
          /\ Reply(p, Settle(p, "ok"))
       \/ /\ row # Null /\ row.status \in Terminal \ {Target(p)}
          /\ Reply(p, Settle(p, "conflict"))
       \/ /\ \/ MayFail
             \/ row # Null /\ row.status = "pending"
          /\ Reply(p, Settle(p, "error"))
    /\ UNCHANGED store /\ Quiet

-----------------------------------------------------------------------------
(* The environment: time, the retention goroutine, crash and restart. *)

Tick ==
    /\ clock < MaxTime
    /\ clock' = clock + 1
    /\ UNCHANGED <<store, proc, sweeper, crashes, deadline, origin>>

\* Sweeper.Once reads the clock, evicts envelopes (module Mailbox) ...
sweepStart ==
    /\ sweeper.pc = "idle"
    /\ sweeper' = [pc |-> "expire", now |-> clock]
    /\ UNCHANGED <<clock, store, proc, crashes, deadline, origin>>

\* ... and then expires requests as of that reading.
sweepExpire ==
    /\ sweeper.pc = "expire"
    /\ ExpirePendingRequests(sweeper.now)
    /\ sweeper' = [pc |-> "idle", now |-> 0]
    /\ UNCHANGED <<clock, pairs, proc, crashes, deadline, origin>>

\* A failed sweep statement is logged; the next tick tries again.
sweepFail ==
    /\ MayFail
    /\ sweeper.pc = "expire"
    /\ sweeper' = [pc |-> "idle", now |-> 0]
    /\ UNCHANGED <<clock, store, proc, crashes, deadline, origin>>

Crash ==
    /\ crashes < MaxCrashes
    /\ crashes' = crashes + 1
    /\ proc' = [p \in Procs |-> Idle]
    /\ sweeper' = [pc |-> "idle", now |-> 0]
    /\ UNCHANGED <<clock, store, deadline, origin>>

Handler(p) ==
    \/ dispatch(p) \/ ownerAuthRequired(p) \/ badRequest(p) \/ finish(p)
    \/ createRequest(p) \/ InsertPairRequest(p)
    \/ getRequestStatus(p) \/ listPending(p)
    \/ approve(p) \/ approveIdempotent(p) \/ InsertPair(p)
    \/ approveDuplicate(p)
    \/ deny(p) \/ approveUpdate(p) \/ updateLookup(p)

Next ==
    \/ \E p \in Procs : Handler(p)
    \/ Tick \/ sweepStart \/ sweepExpire \/ sweepFail \/ Crash

Spec == Init /\ [][Next]_vars

-----------------------------------------------------------------------------
(* Properties. *)

\* Type invariant: tables, handler locals and answers have their declared
\* shapes (schemaSQL, the Go structs of storage.go and pairflow.go).
TypeOK ==
    /\ clock \in Nat
    /\ pair_requests \in [ReqIds -> Row \cup {Null}]
    /\ pairs \in [PathIds -> PairRow \cup {Null}]
    /\ proc \in [Procs -> Local]
    /\ sweeper \in [pc : {"idle", "expire"}, now : Nat]
    /\ crashes \in Nat
    /\ deadline \in [ReqIds -> Nat]
    /\ origin \in [PathIds -> Origin \cup {Null}]

HasStatus(id, s) ==
    pair_requests[id] # Null /\ pair_requests[id].status = s

\* The pair a request's approval stands for.
PairFor(row) == [requester |-> row.requester.pubkey,
                 owner |-> row.owner_json.half.pubkey]

\* approve writes the pairs row and the request's status in two statements,
\* with other approvals, denials, expiries, failures and a crash in between.
\* Still no request is ever approved without its pair: the row at its
\* path_id is the pair of exactly its requester's and its owner's keys.
ApprovedBacked ==
    \A id \in ReqIds : HasStatus(id, "approved") =>
        LET row == pair_requests[id] IN
        /\ row.owner_json # Null
        /\ row.path_id = PathOf(row.requester.pubkey,
                                row.owner_json.half.pubkey)
        /\ pairs[row.path_id] = PairFor(row)

\* The decisions that answers report hold for as long as the answer is on its
\* way, whatever other calls did since: deny's 200 means denied and its 409
\* that another decision came first; a decided status that a poll reports,
\* with the path it names, stays the decision; and the path of approve's 200
\* is that of an active pair of exactly the keys asked for.  The status
\* "approved" in approve's 200 is not among them: see ApproveSurfacesConflict.
DecisionsReported ==
    \A p \in Procs : proc[p].pc = "done" =>
        LET call == proc[p]
            row == pair_requests[call.id] IN
        /\ (call.op = "approve" /\ call.resp.code = 200) =>
              pairs[call.resp.path] = [requester |-> row.requester.pubkey,
                                       owner |-> call.half.pubkey]
        /\ (call.op = "deny" /\ call.resp.code = 200) =>
              row.status = "denied"
        /\ (call.op = "deny" /\ call.resp.code = 409) =>
              row.status \in {"approved", "expired"}
        /\ (call.op = "poll" /\ call.resp.status \in Terminal) =>
              row.status = call.resp.status /\ row.path_id = call.resp.path

\* ExpirePendingRequests compares truncated seconds, with a cutoff that was
\* read before the statement ran: it never expires a request before the
\* full requestTTL has passed since createRequest read the clock.
NoEarlyExpiry ==
    \A id \in ReqIds : HasStatus(id, "expired") => clock > deadline[id]

\* The raw keys of a pair, in no order.
KeysOf(pr) == {Raw[pr.requester], Raw[pr.owner]}

\* Operator-gated pairing.  A pair comes from one approval: the half
\* submitted there was well-formed, carried a good self-signature and has the
\* pair's owner key, and the request it was for was staged, with a good
\* self-signature, by the pair's requester.  The path names the pair's two
\* keys, and two keys have one pair at most, however their strings are
\* spelled and whichever of them asked.
PairProvenance ==
    \A path \in PathIds : pairs[path] # Null =>
        /\ origin[path] \in Origin
        /\ LET owner == origin[path].half
               row == pair_requests[origin[path].id] IN
           /\ parseHalf(owner) /\ verifySelfSig(owner)
           /\ owner.pubkey = pairs[path].owner
           /\ row # Null /\ verifySelfSig(row.requester)
           /\ row.requester.pubkey = pairs[path].requester
        /\ {path[1], path[2]} = KeysOf(pairs[path])
        /\ \A q \in PathIds :
              (pairs[q] # Null /\ KeysOf(pairs[q]) = KeysOf(pairs[path]))
                 => q = path

\* UpdatePairRequestStatus, ExpirePendingRequests and InsertPair race on the
\* same rows: a decided request keeps its row as decided, and an active pair
\* is never rewritten or dropped, whichever statement comes late.
DecisionsFinal ==
    [][/\ \A id \in ReqIds :
             (pair_requests[id] # Null /\ pair_requests[id].status \in Terminal)
                => pair_requests'[id] = pair_requests[id]
       /\ \A path \in PathIds :
             pairs[path] # Null => pairs'[path] = pairs[path]]_vars

\* Liveness, under the fairness of module Relay: no request stays pending
\* for ever, although approve may leave one behind when it fails half-way or
\* meets a conflicting pair.
PendingResolves ==
    \A id \in ReqIds :
        HasStatus(id, "pending") ~>
            (\E s \in Terminal : HasStatus(id, s))

\* Refinement: pairing implements the registry.
Registry == INSTANCE PairRegistry WITH
    None <- Null,
    status <- [id \in ReqIds |-> IF pair_requests[id] = Null THEN "none"
                                 ELSE pair_requests[id].status],
    asked <- [id \in ReqIds |-> IF pair_requests[id] = Null THEN Null
                                ELSE pair_requests[id].requester.pubkey],
    active <- {pairs[path] : path \in {q \in PathIds : pairs[q] # Null}},
    granted <- [id \in ReqIds |-> IF HasStatus(id, "approved")
                                  THEN PairFor(pair_requests[id]) ELSE Null]

\* Refinement: every statement of the handlers, the sweeper and a crash is
\* a step of PairRegistry or leaves the registry unchanged.
RegistrySpec == Registry!RegSpec

-----------------------------------------------------------------------------
(* Claims of the documentation that the code does not keep. *)

\* pairflow.go on approve: a request that was denied, expired or approved for
\* another pair surfaces as a conflict.  So a 200, whose status says
\* "approved", is for a request that is approved.
ApproveSurfacesConflict ==
    \A p \in Procs :
        (At(p, "done", "approve") /\ proc[p].resp.code = 200) =>
            HasStatus(proc[p].id, "approved")

\* docs/spec.md on GET /pair/requests/:id: an approved poll carries the
\* owner's full half.
ApprovedPollCarriesOwnerHalf ==
    \A p \in Procs :
        (At(p, "done", "poll") /\ proc[p].resp.status = "approved") =>
            proc[p].resp.half \in Halves

\* storage.go on InsertPair: it runs in the same transaction as the status
\* update, so a pair whose approve call is over has an approved request.
PairHasApproval ==
    \A path \in PathIds : pairs[path] # Null =>
        \/ \E id \in ReqIds : HasStatus(id, "approved")
                              /\ pair_requests[id].path_id = path
        \/ \E p \in Procs : proc[p].pc # "done" /\ proc[p].path = path
=============================================================================
