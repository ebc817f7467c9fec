------------------------------- MODULE Mailbox -------------------------------
(***************************************************************************)
(* Store-and-forward of envelopes: internal/mailbox over the envelopes      *)
(* table of internal/storage, internal/crypto's Identify, and the retention *)
(* sweeper's eviction.                                                      *)
(*                                                                          *)
(* As in PairFlow, every HTTP call is a goroutine and one action is one SQL *)
(* statement with the local code around it.  Pairing is the environment of  *)
(* this module: it adds rows to the pairs table and never changes one       *)
(* (DecisionsFinal of PairFlow), so the GetPair every handler starts with is *)
(* folded into the step after it.  Module Relay puts the two together.      *)
(* Message ids are UUIDv7 strings, compared and sorted as strings: positive *)
(* numbers here, 0 being the empty cursor.                                  *)
(*                                                                          *)
(* The client side (which ids a sender mints, how a reader walks its inbox  *)
(* with the cursor) is not this repository's code; it is modelled from what *)
(* the endpoints take and return.                                           *)
(***************************************************************************)
EXTENDS PairHalf, FiniteSets

CONSTANTS
    Paths,           \* path ids clients address
    Activatable,     \* path id -> the rows pairing may give it
    Null,
    Signers,         \* raw keys that sign calls
    MsgIds,          \* message ids, positive numbers
    Mints,           \* Mints[path][k]: the ids signer k puts on its envelopes
                     \* to path
    Timestamps,      \* the ts values of envelopes
    Procs,           \* slots for concurrently running handler goroutines
    Calls,           \* the endpoints clients call
    ListLimit,       \* listLimit of ListEnvelopes (50)
    MaxAckBatch,     \* maxAckBatch (100)
    EnvelopeMaxAge,  \* retention, in ticks
    TicksPerSecond,  \* clock resolution against formatTime's whole seconds
    Disciplined,     \* do senders put one envelope at a time, in the order of
                     \* their ids?
    MayFail,         \* may storage statements fail?
    MaxTime,         \* bound: the clock stops here
    LastPut,         \* bound: no envelope is put later than this
    MaxCrashes       \* bound: number of crashes

PairRow == [requester : Pubkeys, owner : Pubkeys]

ASSUME PairsAssumption ==
    /\ Activatable \in [Paths -> SUBSET PairRow]
    /\ Null \notin PairRow
ASSUME IdsAssumption ==
    /\ MsgIds \subseteq Nat \ {0}
    /\ Signers \subseteq Nat
    /\ Mints \in [Paths -> [Signers -> SUBSET MsgIds]]
ASSUME BoundsAssumption ==
    /\ ListLimit \in Nat \ {0} /\ MaxAckBatch \in Nat
    /\ EnvelopeMaxAge \in Nat /\ TicksPerSecond \in Nat \ {0}
    /\ Timestamps \subseteq Int
    /\ MaxTime \in Nat /\ LastPut \in Nat /\ MaxCrashes \in Nat
    /\ Disciplined \in BOOLEAN /\ MayFail \in BOOLEAN
    /\ Calls \subseteq {"put", "get", "ack"}

VARIABLES
    clock,
    pairs,      \* table: path id -> row or Null
    envelopes,  \* table: msg_id (primary key) -> row or Null
    proc,       \* handler goroutines
    sweeper,    \* the retention goroutine
    crashes,
    cursor,     \* clients: inbox -> the cursor its reader walks with
    seen,       \* history: inbox -> ids its reader has received
    stored,     \* history: <<msg_id, path, direction>> ever inserted
    settled     \* clients: <<path, signer, msg_id>> answered 202 or 409

clients == <<cursor, seen, settled>>
vars == <<clock, pairs, envelopes, proc, sweeper, crashes, cursor, seen, stored, settled>>

Directions == {"A_to_B", "B_to_A"}
Inboxes == Paths \X Directions

\* An envelope row; at (exact arrival time) and by (signing key) are history.
Row == [path : Paths, dir : Directions, received_at : Int, at : Nat, by : Signers]

ASSUME RowAssumption == Null \notin Row

\* The keys that may ever sign calls for a path, and the rule that an id is
\* minted by one signer for one pair.  It is the clients' to keep: msg_id
\* alone is the primary key.
Known(path, k) ==
    \E row \in Activatable[path] : k \in {Raw[row.requester], Raw[row.owner]}
MintedOnce ==
    \A p, q \in Paths, j, k \in Signers :
        /\ Known(p, j) /\ Known(q, k)
        /\ Mints[p][j] \cap Mints[q][k] # {}
        => p = q /\ j = k

Item == [msg : MsgIds, by : Signers]

Response == [code : Nat, page : SUBSET Item, cursor : MsgIds \cup {0}]

Local == [pc : {"idle", "insert", "list", "ackList", "delete", "done"},
          op : {"none", "put", "get", "ack"},
          path : Paths \cup {Null}, by : Signers \cup {Null},
          dir : Directions \cup {Null},     \* direction written or read
          ids : SUBSET MsgIds,              \* msg_id put, ids acked
          since : MsgIds \cup {0}, now : Nat,
          resp : Response \cup {Null}]

Holding(pc, op, path, by, dir, ids, since, now, resp) ==
    [pc |-> pc, op |-> op, path |-> path, by |-> by, dir |-> dir, ids |-> ids,
     since |-> since, now |-> now, resp |-> resp]

Idle == Holding("idle", "none", Null, Null, Null, {}, 0, 0, Null)

Init ==
    /\ clock = 0
    /\ pairs = [path \in Paths |-> Null]
    /\ envelopes = [m \in MsgIds |-> Null]
    /\ proc = [p \in Procs |-> Idle]
    /\ sweeper = [pc |-> "idle", now |-> 0]
    /\ crashes = 0
    /\ cursor = [i \in Inboxes |-> 0]
    /\ seen = [i \in Inboxes |-> {}]
    /\ stored = {}
    /\ settled = {}

-----------------------------------------------------------------------------
(* Identity and direction. *)

\* EdVerifier.Identify: the stored key of whichever half verifies, requester
\* first; Null (an empty string) when neither does.
Identify(pair, k) ==
    IF Raw[pair.requester] = k THEN pair.requester
    ELSE IF Raw[pair.owner] = k THEN pair.owner ELSE Null

\* Mutant of readDirectionFor: the reader gets its own outbox.
readDirectionOwn(pair, key) ==
    IF key = pair.requester THEN "A_to_B"
    ELSE IF key = pair.owner THEN "B_to_A" ELSE Null

\* Mutant of directionFrom: a direction the schema does not know.
directionFromMisspelt(pair, key) ==
    IF key = pair.requester THEN "A_to_B"
    ELSE IF key = pair.owner THEN "BtoA" ELSE Null

\* directionFrom / readDirectionFor: switch on the stored key string.
directionFrom(pair, key) ==
    IF key = pair.requester THEN "A_to_B"
    ELSE IF key = pair.owner THEN "B_to_A" ELSE Null

readDirectionFor(pair, key) ==
    IF key = pair.requester THEN "B_to_A"
    ELSE IF key = pair.owner THEN "A_to_B" ELSE Null

\* formatTime: time columns hold whole seconds, truncated.
formatTime(t) == t \div TicksPerSecond

-----------------------------------------------------------------------------
(* The statements of the envelopes table. *)

\* Mutant of Inbox: the statement forgets path_id = ?.
InboxAnyPair(path, dir) ==
    {m \in MsgIds : envelopes[m] # Null /\ envelopes[m].dir = dir}

Inbox(path, dir) ==
    {m \in MsgIds : /\ envelopes[m] # Null
                    /\ envelopes[m].path = path /\ envelopes[m].dir = dir}

\* Mutant of ListEnvelopes: ORDER BY msg_id DESC.
ListEnvelopesDescending(path, dir, since) ==
    LET newer == {m \in Inbox(path, dir) : m > since} IN
    {m \in newer : Cardinality({n \in newer : n > m}) < ListLimit}

\* WHERE path_id = ? AND direction = ? AND msg_id > ? ORDER BY msg_id LIMIT ?
ListEnvelopes(path, dir, since) ==
    LET newer == {m \in Inbox(path, dir) : m > since} IN
    {m \in newer : Cardinality({n \in newer : n < m}) < ListLimit}

\* DELETE ... WHERE path_id = ? AND msg_id IN (...): the direction of the
\* rows is not looked at.
DeleteEnvelopesByMsgID(path, ids) ==
    envelopes' = [m \in MsgIds |->
        IF m \in ids /\ envelopes[m] # Null /\ envelopes[m].path = path
        THEN Null ELSE envelopes[m]]

\* DELETE ... WHERE received_at < ?
Stale(row, cutoff) == row # Null /\ row.received_at < formatTime(cutoff)

DeleteEnvelopesOlderThan(cutoff) ==
    envelopes' = [m \in MsgIds |->
        IF Stale(envelopes[m], cutoff) THEN Null ELSE envelopes[m]]

-----------------------------------------------------------------------------
(* Handlers. *)

Quiet == UNCHANGED <<clock, pairs, sweeper, crashes, clients>>

Answer(code, page, cur) == [code |-> code, page |-> page, cursor |-> cur]

\* writeJSON and return: the call and the answer stay until it is delivered.
Reply(p, r) ==
    proc' = [proc EXCEPT ![p] =
        Holding("done", @.op, @.path, @.by, @.dir, @.ids, @.since, 0, r)]

\* Every refusal: no pair (404), malformed call (400), no valid signature
\* (401), storage error (500).
Refuse(p, code) ==
    proc' = [proc EXCEPT ![p] =
        Holding("done", "none", Null, Null, Null, {}, 0, 0, Answer(code, {}, 0))]

\* What a handler learns about its caller: GetPair, then Identify.
Caller(path, k) == Identify(pairs[path], k)

\* A sender that works through a pair's ids in order: one call at a time, an
\* id again until it is settled, and then never more.
InTurn(path, k, m) ==
    Disciplined =>
        /\ \A n \in Mints[path][k] : n < m => <<path, k, n>> \in settled
        /\ <<path, k, m>> \notin settled
        /\ \A q \in Procs : proc[q].op = "put" =>
              <<proc[q].path, proc[q].by>> # <<path, k>>

\* Unknown route or method, malformed path id, unreadable body, bad since.
badRequest(p) ==
    /\ proc[p].pc = "idle"
    /\ Refuse(p, 400)
    /\ UNCHANGED <<envelopes, stored>> /\ Quiet

\* GetPair, the first statement of every handler, fails.
getPairFails(p) ==
    /\ MayFail
    /\ proc[p].pc = "idle"
    /\ Refuse(p, 500)
    /\ UNCHANGED <<envelopes, stored>> /\ Quiet

\* The checks on an envelope besides its signature: schema, path, msg_id and
\* hash (valid), and the replay window.
Acceptable(valid, ts, now) == valid /\ tsInWindow(ts, now)

\* PUT: is there a pair, is the envelope acceptable, who signed it.
put(p) ==
    /\ "put" \in Calls /\ proc[p].pc = "idle" /\ clock <= LastPut
    /\ \E path \in Paths, k \in Signers, ts \in Timestamps, valid \in BOOLEAN :
       \E m \in Mints[path][k] :
          /\ InTurn(path, k, m)
          /\ IF pairs[path] = Null THEN Refuse(p, 404)
             ELSE IF ~Acceptable(valid, ts, clock) THEN Refuse(p, 400)
             ELSE IF Caller(path, k) = Null THEN Refuse(p, 401)
             ELSE proc' = [proc EXCEPT ![p] =
                    Holding("insert", "put", path, k,
                            directionFrom(pairs[path], Caller(path, k)),
                            {m}, 0, clock, Null)]
    /\ UNCHANGED <<envelopes, stored>> /\ Quiet

\* Mutant of InsertEnvelope: any failed insert counts as a duplicate.
InsertEnvelopeAnyError(p) ==
    /\ proc[p].pc = "insert"
    /\ \E m \in proc[p].ids :
       \/ /\ envelopes[m] = Null
          /\ envelopes' = [envelopes EXCEPT ![m] =
                [path |-> proc[p].path, dir |-> proc[p].dir,
                 received_at |-> formatTime(proc[p].now),
                 at |-> proc[p].now, by |-> proc[p].by]]
          /\ stored' = stored \cup {<<m, proc[p].path, proc[p].dir>>}
          /\ Reply(p, Answer(202, {}, 0))
       \/ /\ envelopes[m] # Null \/ MayFail
          /\ Reply(p, Answer(409, {}, 0))
          /\ UNCHANGED <<envelopes, stored>>
    /\ Quiet

InsertEnvelope(p) ==
    /\ proc[p].pc = "insert"
    /\ \E m \in proc[p].ids :
       \/ /\ envelopes[m] = Null
          /\ envelopes' = [envelopes EXCEPT ![m] =
                [path |-> proc[p].path, dir |-> proc[p].dir,
                 received_at |-> formatTime(proc[p].now),
                 at |-> proc[p].now, by |-> proc[p].by]]
          /\ stored' = stored \cup {<<m, proc[p].path, proc[p].dir>>}
          /\ Reply(p, Answer(202, {}, 0))
       \/ /\ envelopes[m] # Null
          /\ Reply(p, Answer(409, {}, 0))
          /\ UNCHANGED <<envelopes, stored>>
       \/ /\ MayFail /\ Refuse(p, 500)
          /\ UNCHANGED <<envelopes, stored>>
    /\ Quiet

\* GET: signature, then the read direction.
get(p) ==
    /\ "get" \in Calls /\ proc[p].pc = "idle"
    /\ \E path \in Paths, k \in Signers :
          IF pairs[path] = Null THEN Refuse(p, 404)
          ELSE IF Caller(path, k) = Null THEN Refuse(p, 401)
          ELSE LET dir == readDirectionFor(pairs[path], Caller(path, k)) IN
               \E since \in {0, cursor[<<path, dir>>]} :
                  proc' = [proc EXCEPT ![p] =
                    Holding("list", "get", path, k, dir, {}, since, 0, Null)]
    /\ UNCHANGED <<envelopes, stored>> /\ Quiet

\* The last msg_id of the page; 0 for an empty page.
Last(page) == IF page = {} THEN 0
              ELSE CHOOSE m \in page : \A n \in page : n <= m

getList(p) ==
    /\ proc[p].pc = "list"
    /\ LET page == ListEnvelopes(proc[p].path, proc[p].dir, proc[p].since) IN
       \/ Reply(p, Answer(200, {[msg |-> m, by |-> envelopes[m].by] : m \in page},
                          Last(page)))
       \/ MayFail /\ Refuse(p, 500)
    /\ UNCHANGED <<envelopes, stored>> /\ Quiet

\* POST ack: signature, the size of the batch, then the read direction.
ack(p) ==
    /\ "ack" \in Calls /\ proc[p].pc = "idle"
    /\ \E path \in Paths, k \in Signers, ids \in SUBSET MsgIds :
       IF pairs[path] = Null THEN Refuse(p, 404)
       ELSE IF Caller(path, k) = Null THEN Refuse(p, 401)
       ELSE IF Cardinality(ids) > MaxAckBatch THEN Refuse(p, 400)
       ELSE LET dir == readDirectionFor(pairs[path], Caller(path, k))
                call == Holding("ackList", "ack", path, k, dir, ids, 0, 0, Null)
            IN proc' = [proc EXCEPT ![p] =
                 IF ids = {}
                 THEN [call EXCEPT !.pc = "done", !.resp = Answer(200, {}, 0)]
                 ELSE call]
    /\ UNCHANGED <<envelopes, stored>> /\ Quiet

\* Mutant of ackList: the ids go to the delete as the caller sent them.
ackListUnfiltered(p) ==
    /\ proc[p].pc = "ackList"
    /\ proc' = [proc EXCEPT ![p] = [@ EXCEPT !.pc = "delete"]]
    /\ UNCHANGED <<envelopes, stored>> /\ Quiet

\* The caller's inbox is listed from the start and narrowed to the ids.  With
\* none left DeleteEnvelopesByMsgID returns without a statement.
ackList(p) ==
    /\ proc[p].pc = "ackList"
    /\ LET mine == ListEnvelopes(proc[p].path, proc[p].dir, 0) \cap proc[p].ids IN
       \/ mine = {} /\ Reply(p, Answer(200, {}, 0))
       \/ /\ mine # {}
          /\ proc' = [proc EXCEPT ![p] = [@ EXCEPT !.pc = "delete", !.ids = mine]]
       \/ MayFail /\ Refuse(p, 500)
    /\ UNCHANGED <<envelopes, stored>> /\ Quiet

ackDelete(p) ==
    /\ proc[p].pc = "delete"
    /\ \/ /\ DeleteEnvelopesByMsgID(proc[p].path, proc[p].ids)
          /\ Reply(p, Answer(200, {}, 0))
       \/ MayFail /\ Refuse(p, 500) /\ UNCHANGED envelopes
    /\ UNCHANGED stored /\ Quiet

\* The client receives the answer: a reader takes the page and its cursor, a
\* disciplined sender notes 202 and 409 alike as delivered.
finish(p) ==
    /\ proc[p].pc = "done"
    /\ proc' = [proc EXCEPT ![p] = Idle]
    /\ LET call == proc[p]
           inbox == <<call.path, call.dir>>
           paged == call.op = "get" /\ call.resp.page # {} IN
       /\ cursor' = IF paged THEN [cursor EXCEPT ![inbox] = call.resp.cursor]
                    ELSE cursor
       /\ seen' = IF paged
                  THEN [seen EXCEPT ![inbox] =
                           @ \cup {item.msg : item \in call.resp.page}]
                  ELSE seen
       /\ settled' = IF Disciplined /\ call.op = "put"
                     THEN settled \cup {<<call.path, call.by, m>> : m \in call.ids}
                     ELSE settled
    /\ UNCHANGED <<clock, pairs, envelopes, sweeper, crashes, stored>>

-----------------------------------------------------------------------------
(* Time, retention, crash. *)

Tick ==
    /\ clock < MaxTime
    /\ clock' = clock + 1
    /\ UNCHANGED <<pairs, envelopes, proc, sweeper, crashes, clients, stored>>

\* Pairing activates a path.
activate(path) ==
    /\ pairs[path] = Null
    /\ \E row \in Activatable[path] : pairs' = [pairs EXCEPT ![path] = row]
    /\ UNCHANGED <<clock, envelopes, proc, sweeper, crashes, clients, stored>>

\* Sweeper.Once: the cutoff is computed from one reading of the clock.
sweepStart ==
    /\ sweeper.pc = "idle"
    /\ sweeper' = [pc |-> "evict", now |-> clock]
    /\ UNCHANGED <<clock, pairs, envelopes, proc, crashes, clients, stored>>

sweepEvict ==
    /\ sweeper.pc = "evict"
    /\ DeleteEnvelopesOlderThan(sweeper.now - EnvelopeMaxAge)
    /\ sweeper' = [pc |-> "idle", now |-> 0]
    /\ UNCHANGED <<clock, pairs, proc, crashes, clients, stored>>

\* A failed sweep is logged; the next tick tries again.
sweepFail ==
    /\ MayFail
    /\ sweeper.pc = "evict"
    /\ sweeper' = [pc |-> "idle", now |-> 0]
    /\ UNCHANGED <<clock, pairs, envelopes, proc, crashes, clients, stored>>

\* Calls in progress are lost with their answers; the table stays.
Crash ==
    /\ crashes < MaxCrashes
    /\ crashes' = crashes + 1
    /\ proc' = [p \in Procs |-> Idle]
    /\ sweeper' = [pc |-> "idle", now |-> 0]
    /\ UNCHANGED <<clock, pairs, envelopes, clients, stored>>

Handler(p) ==
    \/ badRequest(p) \/ getPairFails(p)
    \/ put(p) \/ InsertEnvelope(p)
    \/ get(p) \/ getList(p)
    \/ ack(p) \/ ackList(p) \/ ackDelete(p)
    \/ finish(p)

Next ==
    \/ \E p \in Procs : Handler(p)
    \/ \E path \in Paths : activate(path)
    \/ Tick \/ sweepStart \/ sweepEvict \/ sweepFail \/ Crash

Spec == Init /\ [][Next]_vars

-----------------------------------------------------------------------------
(* Properties. *)

\* Type invariant: the table, the handlers' locals and the client state.
TypeOK ==
    /\ clock \in Nat
    /\ pairs \in [Paths -> PairRow \cup {Null}]
    /\ envelopes \in [MsgIds -> Row \cup {Null}]
    /\ proc \in [Procs -> Local]
    /\ sweeper \in [pc : {"idle", "evict"}, now : Nat]
    /\ crashes \in Nat
    /\ cursor \in [Inboxes -> MsgIds \cup {0}]
    /\ seen \in [Inboxes -> SUBSET MsgIds]
    /\ stored \subseteq MsgIds \X Paths \X Directions
    /\ settled \subseteq Paths \X Signers \X MsgIds

\* ack lists and deletes in two statements and the delete does not look at
\* the direction; the sweep compares truncated times.  Still, if clients do
\* not reuse ids (AckOwnInboxOnly is about clients that do), an envelope leaves
\* the table, or changes in it, only because the addressee acked its id, or
\* because it has been there for longer than EnvelopeMaxAge.
EvictionAuthorised ==
    [][MintedOnce =>
       \A m \in MsgIds :
         (envelopes[m] # Null /\ envelopes'[m] # envelopes[m]) =>
            \/ \E p \in Procs :
                  /\ proc[p].pc = "delete" /\ proc'[p].pc = "done"
                  /\ m \in proc[p].ids
                  /\ envelopes[m].path = proc[p].path
                  /\ envelopes[m].dir = proc[p].dir
            \/ /\ sweeper.pc = "evict" /\ sweeper'.pc = "idle"
               /\ clock > envelopes[m].at + EnvelopeMaxAge]_vars

\* A page holds envelopes of the peer only: never the reader's own, never
\* another pair's, for either half of the pair and whoever signs calls.
InboxIsolation ==
    \A p \in Procs :
        (proc[p].pc = "done" /\ proc[p].op = "get") =>
            LET pair == pairs[proc[p].path] IN
            \A item \in proc[p].resp.page :
                {item.by, proc[p].by} = {Raw[pair.requester], Raw[pair.owner]}

\* Senders take 409 as success: whoever gets one, this envelope of this
\* sender was stored, by an earlier attempt whose answer was lost.  Again if
\* clients do not reuse ids: see DuplicateOfPair.
DuplicateMeansStored ==
    MintedOnce =>
    \A p \in Procs :
        (/\ proc[p].pc = "done" /\ proc[p].op = "put"
         /\ proc[p].resp.code = 409) =>
            \A m \in proc[p].ids :
                <<m, proc[p].path, proc[p].dir>> \in stored

\* A reader that walks its inbox with the returned cursor misses nothing that
\* is there: every stored envelope at or below its cursor was on a page it
\* received, through limited pages, concurrent acks, puts and evictions,
\* failures and a crash, and whatever ids other pairs use.  It takes senders
\* that put in the order of their ids: Mailbox_v_cursor.cfg is about others.
CursorComplete ==
    \A i \in Inboxes : \A m \in Inbox(i[1], i[2]) :
        m <= cursor[i] => m \in seen[i]

\* Liveness, under the fairness of module Relay: no envelope stays for ever, acked or not.
EventuallyEvicted ==
    \A m \in MsgIds : (envelopes[m] # Null) ~> (envelopes[m] = Null)

-----------------------------------------------------------------------------
(* Claims of the documentation that the code does not keep. *)

\* storage.go on Envelope: the relay keeps it until the recipient acks.  Once
\* an ack is answered 200 none of its ids is left in the caller's inbox.
AckEvicts ==
    \A p \in Procs :
        (/\ proc[p].pc = "done" /\ proc[p].op = "ack"
         /\ proc[p].resp.code = 200) =>
            Inbox(proc[p].path, proc[p].dir) \cap proc[p].ids = {}

\* mailbox.go on ack: one side cannot delete the other's inbox.  No delete is
\* about to remove a row that is not addressed to its caller.
AckOwnInboxOnly ==
    \A p \in Procs : proc[p].pc = "delete" =>
        \A m \in proc[p].ids :
            (envelopes[m] # Null /\ envelopes[m].path = proc[p].path)
                => envelopes[m].dir = proc[p].dir

\* storage.go on InsertEnvelope: a duplicate is a msg_id that exists already
\* for the pair.  So a 409 means that the pair has, or had, an envelope with
\* this id.
DuplicateOfPair ==
    \A p \in Procs :
        (/\ proc[p].pc = "done" /\ proc[p].op = "put"
         /\ proc[p].resp.code = 409) =>
            \A m \in proc[p].ids : \E dir \in Directions :
                <<m, proc[p].path, dir>> \in stored
=============================================================================
