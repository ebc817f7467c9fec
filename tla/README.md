# A verification of interchange

interchange is a store-and-forward relay between two *nexuses* that do not
trust it with their messages. A requester stages a pairing request; the owner
approves or denies it on a private listener; an approved pair gets a *path id*;
and through that path the two sides put, read and acknowledge signed, encrypted
envelopes. Everything durable is in one SQLite file. Each HTTP call runs on its
own goroutine and reaches the file one autocommitted statement at a time.
The repository also holds interchange-gateway, a second program: the
authenticating reverse proxy in front of a platform's services.

The handlers are modelled at that grain: **one action is one SQL statement
with the local code around it**. Calls interleave between statements, any
statement may fail, and the process may die between any two of them. The rate
limiter is modelled at the grain of its mutex and its readings of the clock,
the two processes at the grain of their goroutines.

## Inventory

| Part | State | Operations | Hard about it |
|---|---|---|---|
| `internal/pairflow` | tables `pair_requests`, `pairs`; locals of each call | create, poll, list, approve, deny; expiry on every dispatch | approve reads, inserts a pair and updates the request in separate statements; duplicates, denials and expiries in between; retries |
| `internal/mailbox` | table `envelopes`; locals of each call | put, get with a cursor, ack | ack lists then deletes; pages are limited; ids are minted by clients; lost answers and retries |
| `internal/storage` | the three tables | the statements of the above | primary keys, `WHERE` guards, times truncated to seconds, lookup after a failed update |
| `internal/crypto` | none | `Identify` | which half of the pair signed |
| `internal/sweep` | one clock reading | evict envelopes, expire requests | stale clock reading, failures, must eventually succeed |
| `internal/middleware` | rate-limit buckets per rule and client, a mutex, an eviction goroutine | allow, evict idle buckets, recover | map at its cap, eviction by an old time racing allow, two clock readings |
| `cmd/interchange` | two listeners, sweeper and limiter goroutines, the store | start, drain, stop | order of the drains, hanging calls, a sweep in progress, failing listeners |
| `internal/gateway`, `internal/edge`, `cmd/interchange-gateway` | route table; per call the route and the verified identity; the process | route, authenticate, authorise, strip, inject, forward; start, drain | several lanes that each repeat the checks, three spellings of identity headers, routes that shadow each other |
| `internal/discovery`, `internal/landing`, `internal/version`, `cmd/db-inspect` | none | render static documents, dump tables | nothing |

Interaction: pairflow, mailbox and the sweeper share only the database. The
mailbox reads the `pairs` rows pairflow wrote; `cmd/interchange` starts the
sweeper beside two servers; middleware wraps the public server. The gateway is
a separate program: its routes dispatch to reverse proxies or to gRPC edges
that authenticate on their own, and a token verifier is called from both.

What makes each part correct: a pair exists only for verified halves of both
parties and never changes; a request is decided once and approved only with its
pair; decisions are rightly reported; nothing stays pending for ever; nothing
expires early; a reader gets all and only its peer's envelopes; an envelope goes
only by its addressee's ack or by age; a duplicate is a duplicate. No client is
served beyond its rate; one that has a bucket is refused only when it has spent
its tokens, and a new one also while the rule is at its bucket cap because of
others, until idle buckets go. A signal ends each process, and cuts only calls
that were given their time. A backend behind the
gateway sees only verified identities, and only of entitled callers.

## Modules

| Module | Models |
|---|---|
| `PairHalf` | the pure part of pairflow: a submitted half, its checks, path ids |
| `PairFlow` | the five pairing endpoints over their two tables, the sweeper's expiry, time, crash and restart |
| `PairRegistry` | what pairing promises, without statements, clocks or failures |
| `Mailbox` | put, get and ack over `envelopes`, `Identify`, the sweeper's eviction |
| `Relay` | `PairFlow` and `Mailbox` composed: one `pairs` table, one clock, one sweeper, one crash |
| `RateLimit` | the public listener's limiter, its eviction loop, `Recover` |
| `RelayProcess` | `main` of `cmd/interchange`: start, servers, sweeper, shutdown |
| `Gateway` | `internal/gateway`, the edges and `main` of `cmd/interchange-gateway` |
| `PairFlowProofs`, `PairGuarantees` | the proofs about `PairFlow` |
| `MailboxProofs`, `RateLimitProofs`, `RelayProcessProofs`, `GatewayProofs` | the proofs about the module each is named for |
| `RelayProofs` | the composition: `Relay` implements `PairFlow` and `Mailbox` |
| `NatLemmas` | facts on numbers that the proofs share |
| `MCPairFlow`, `MCMailbox`, `MCRelay`, `MCRateLimit`, `MCGateway` | the instances TLC checks |

**PairHalf.** A public key has a *wire form*, the base64url string that tables
store and `==` compares, and a *raw form*, the bytes that are signed with and
hashed. `Raw` maps one to the other; it is not injective, because
`decodeB64URL` takes padded and unpadded strings. Raw keys are numbers, so
`bytesLess` is `<`. SHA-256 is injective, so a path id is the sorted pair. The
shape checks of `parseHalf` are one bit of a half; its signature is the name of
the preimage it verifies against.

**PairFlow.** `proc[p]` is a handler goroutine: `pc` is the statement it is
about to execute, the other fields are the Go locals that outlive a statement.
The actions follow the code's statements: `dispatch` (expire, then route),
`createRequest` (checks) and `InsertPairRequest`, `getRequestStatus`,
`listPending`; `approve` (read and checks), then `approveIdempotent` or
`InsertPair`, then `approveDuplicate` if the pair exists, then `approveUpdate`
and, when no row was affected, `updateLookup`; `deny` is the same update.
`Settle` is what each caller answers to the update's outcome, including the
branch that ignores it. `sweepStart`, `sweepExpire` and `sweepFail` are
`Sweeper.Once` with its single clock reading. `deadline` and `origin` are
history variables: the exact, untruncated deadline of a request, and the
approval (request and submitted half) whose `InsertPair` made a pair.

**Mailbox.** The rows of `pairs` are somebody else's: `activate` inserts one
of the rows `Activatable` allows for a path, and no step changes it again.
`put`, `get` and `ack` are a call up to its `GetPair` and the checks that follow
it; `InsertEnvelope`, `getList`, `ackList` and `ackDelete` are the statements
after that. A `GetPair` that fails is the action `getPairFails`.
`stored` is a history of the inserts; `cursor`,
`seen` and `settled` are the clients' side, external to this repository and
modelled from what the endpoints take and return. `Mints` is the ids that a
signer uses on a path; nothing in the relay keeps two signers from using the same
ones. A *disciplined* sender has one put for a pair in flight, repeats its id until it is
settled (answered 202 or 409), and goes on to the next. Acks are arbitrary.
`settled` records path, signer and id.

**Relay.** `PF` and `MB` are instances of the two modules over shared `clock`,
`pairs` and `crashes`; `pairCall` and `mailCall` are their handlers. The
sweeper is modelled here as it is in the code, one goroutine that reads the
clock once, evicts, and then expires, each statement failing alone. The
refinement mappings cut it in two: pairing sees a sweep from the reading to the
expiry, the mailbox one up to the eviction. `PairingSpec` and `MailboxSpec`
say that `PairFlow` and `Mailbox`, checked and proved on their own, are true
accounts of the composed program; in particular `approve` is the `activate` that
`Mailbox` assumes.

**RateLimit.** A limiter is represented by the time at which it will be full
again; a token costs `Cost` ticks of refill. `allow`, `makeBucket` and
`take` are `allow` in the code, which holds `mu` throughout: the look at the map
and the cap, the insertion of a new bucket, and the limiter with its own reading
of the clock. The split makes the mutex, not the grain of the model, what keeps
the cap. `ticks` is the ticker's channel of capacity one, holding the time of
the send; `evictRecv` takes it, `evictSweep` runs under the lock with that old
time. `account` is a history variable: a limiter per client that is never
dropped, against which the dropped and remade ones are judged.
`RefillAssumption` says what the configuration of `cmd/interchange` satisfies
(60 s to refill at most, ten minutes idle): without it eviction would give
tokens away.

**RelayProcess.** `main` is the program counter of `main`, `listener`, `call`,
`sweeper`, `limiter` the other goroutines, `store` the handle that the deferred
`Close` closes, `window` the time each `Shutdown` has waited. What calls and
sweeps do to the tables is in the other modules; here they only run, hang, end
or find the store closed.

**Gateway.** A path is a sequence of `Segments`; a trailing slash is a bit of the
route. `table` is the sorted route list: of two routes with one prefix the
map's iteration order decides which is found, so `boot` chooses. A call goes
through `serve` (match), `authenticate`, `authorize` and `forward` as its lane's
handler does; `Tokenless`, `Authorized`, `Stripped` and `Trusted` say how the
lanes (reverse proxy, gRPC edge, cairn's and herald's composites) differ. Header
families `X-CWB-*`, `cwb-*` and `Grpc-Metadata-cwb-*` are each stripped, left or
trusted as a whole; three fields stand for the six headers. `Trusted` is what the
backend reads: on an HTTP lane the `X-CWB-*` headers, on a gRPC lane the
annotator's metadata joined with what grpc-gateway passes on. `main` of the
program is `boot`, `listen`, `signal`, `fail`, `drain`, `shutdown`.

### Abstractions

Bodies, canonical JSON, hashes and signatures are validity bits or the name of
the signer; Ed25519 is unforgeable. UUIDs are model values (request ids) or
numbers (message ids, which are sorted). A batch of acked ids is a set, so
a repeated id counts once towards `maxAckBatch`. A failed statement had no
effect. The wall clock never runs backwards. `TicksPerSecond` is the clock's
resolution against the whole seconds that columns store: more than one tick per
second is what makes truncation visible.

## Runs

All runs check deadlock but `relay_process` and `gateway`, whose processes end.
With two handler slots every pair of statements of two
calls can interleave; a slot is reused, so sequences of calls of any length
occur. Slots and request ids are interchangeable and symmetric in safety runs.

| Run | Bounds | Shows |
|---|---|---|
| `decisions` | 2 calls at once, 2 requests of any of 2 keys, failures, no time, no crash | `ApprovedBacked`, `DecisionsFinal`, `DecisionsReported`, `PairProvenance` for mirrored requests, types; `PairFlow` implements `PairRegistry` |
| `pairing_time` | 2 calls to all endpoints, 1 request, 5 halves (two spellings of a key, a bad shape, an uncovered ECDH key), failures, 1 crash, 2 ticks per second | `NoEarlyExpiry`, `PairProvenance` for forged halves, `DecisionsReported`, `DecisionsFinal` with both expiry paths |
| `mailbox_core` | 2 calls, 3 ids, 3 signers (one a stranger), 2 paths (one inactive at first), page of 1, failures, 2 ticks per second | `EvictionAuthorised`, `DuplicateMeansStored`, types |
| `mailbox_cursor` | 2 calls, 2 ids that both of two pairs use, a signer that is in both pairs, disciplined clients, eviction after a tick, failures, 1 crash | `CursorComplete`, `InboxIsolation` |
| `relay` | 1 pairing call and 1 put at a time, 1 request, a half with a bad signature, 1 message, a stranger, 1 crash, a fair sweeper whose statements may fail for ever | `ApprovedUsable`, `OnlyPairedMail`, the refinements `PairingSpec` and `MailboxSpec`, `PendingResolves`, `EventuallyEvicted` |
| `rate_limit` | 2 calls, 2 clients, 2 rules, cap 1, idle time 3, lag and delay of a tick, 7 ticks | `NeverOverspent`, `RefusedWhenEmpty`, `WithinCap`, `IdleBucketsGo`, types |
| `relay_process` | 2 calls per server, windows of 2 ticks | `CutOnlyAfterWindow`, `WorkersStopFirst`, `ShutsDown`, types |
| `gateway` | 1 call at a time, 14 paths, 4 tokens or none, forged headers or none, bypass or not, a route that shadows an edge, a public path below an edge | `IdentityVerified`, `EntitledOnly`, `GatewayStops`, types |

The two requests of `decisions` are enough for the interesting
collisions: two requests of one requester for one pair, and two mirrored ones
(A asks B, B asks A) that compute the same path id. With expiry added the run
would not end in minutes; `pairing_time` has it for one request, and
`DecisionsAreFinal` for any number. `MaxTime` exceeds the TTL
and the retention age by the second that truncation may add; `LastCreate` and
`LastPut` stop new work early enough that the clock's bound does not hide a
deadline. `ListLimit` is 1 so that a second envelope is already beyond a page.
`relay` can be small because what needs two calls of a kind is shown in the
modules it refines; the stranger reuses the requester's message id. In
`rate_limit` the cap of one makes the second client wait for an eviction, and
seven ticks hold a use, the idle time, two ticker periods and the lag. Calls of
the gateway share no state that a call changes, so one slot is enough for the
lanes, and a call that stays in flight for the drain.

### Runs that find a disagreement

| Run | The documents say | The code |
|---|---|---|
| `owner_half` | an approved poll returns the owner's full half (`docs/spec.md:525`) | the duplicate-pair branch stores the raw body, and the poll decodes it to an empty half |
| `approve_conflict` | approving a denied or expired request surfaces as a conflict (`pairflow.go:514`, `docs/spec.md:504`) | the duplicate-pair branch discards the update's error and answers 200 "approved" for a request denied meanwhile |
| `ack_page` | ack deletes the caller's envelopes with the given ids (`mailbox.go:371`) | only those among the first page of 50, while a batch may name 100 |
| `audience_scope` | a token with an audience is used only on the route whose service it names (`cmd/interchange-gateway/main.go:412`) | the reverse-proxy lane never asks; a route `/ledger/` that shadows the edge lets a token for cairn in |

Five more configurations each end in a counterexample too. They are not runs of
`PROJECT.json`; `tlc -config <cfg> <module>` reproduces them.

| Configuration, module | Property | The documents say | The code |
|---|---|---|---|
| `PairFlow_v_transaction.cfg`, `MCPairFlow` | `PairHasApproval` | the pair is inserted in the transaction of the approval (`storage.go:147`) | two autocommitted statements; a denial in between leaves an active pair and a denied request |
| `Mailbox_v_cursor.cfg`, `MCMailbox` | `CursorComplete` | pages are ordered by arrival so that the cursor is stable (`storage.go:115`) | ordered by client-minted id; an envelope stored late with a smaller id is never listed |
| `Mailbox_v_direction.cfg`, `MCMailbox` | `AckOwnInboxOnly` | one side cannot delete the other's inbox (`mailbox.go:361`) | the direction is looked at in the list, not in the delete; if the id is reused in between, the delete takes the other side's envelope |
| `Mailbox_v_duplicate.cfg`, `MCMailbox` | `DuplicateOfPair` | a duplicate is an id that exists for the pair (`storage.go:109`) | `msg_id` is the primary key over all pairs: another pair's id is answered 409 and nothing is stored |
| `Gateway_v_drain.cfg`, `MCGateway` | `DrainExitsZero` | a call still streaming at the deadline is cut and the pod exits 0 (`cmd/interchange-gateway/main.go:314`) | `Shutdown`'s error ends in `Fatalf`, exit code 1 |

`Mailbox_v_cursor.cfg` and `mailbox_cursor` check the same property: it needs the
discipline of the senders, the relay alone does not give it. `Mailbox_v_direction.cfg`
and `Mailbox_v_duplicate.cfg` are what `EvictionAuthorised` and
`DuplicateMeansStored` are conditional on: `MintedOnce`, no id used by two signers
or for two pairs. `DecisionsReported` says of approve's 200 only that the pair it
names is there; `approve_conflict` refutes the rest. `EntitledOnly` states the
audience rule for the edges, where the code has it; `audience_scope` refutes it for
all lanes.

Other differences, without a property: `UpdatePairRequestStatus` returns `ErrConflict`
where its interface comment says nil (`storage.go:136`); denying a denied request
answers 200; bypass mode "skips auth and proxies straight through"
(`docs/2026-05-30-gateway-mvp-spec.md:10`), but the gRPC edges still want a bearer,
answer 403 on a product-gated edge because the zero identity has no product, and
want certificates at start.

### Fairness

Handlers may stall for ever in every run. In `Relay`, `WF(Tick)`: wall-clock
time passes. `WF(sweepStart)` and weak fairness of each statement or its
failure: `Run` loops on a ticker until shutdown, and each statement returns.
That a statement of the sweep ever succeeds is
not assumed there. `PendingResolves` and `EventuallyEvicted` each have it as a
hypothesis for their own statement, `SF(sweepExpire)` and `SF(sweepEvict)`: what
is retried for ever succeeds at some time, which is what the comment on `Once`
relies on ("transient storage errors, and the next tick will try again"). The
other statement may fail in every sweep: one must not keep the other from its work.
In `RelayProcess`, `main`, time and the statements of a sweep go on, and
`SF(sweepReturn)`: Go's `select` picks at random among ready cases, so a ticker
cannot win for ever against the cancelled context. In `Gateway`, `main` and time
go on; nothing is assumed of backends. The limiter's `IdleBucketsGo` is a bounded
response stated as an invariant, under the named scheduling bounds `MaxDelay`
and `MaxLag`, so it needs no fairness.

## Proofs

The theorems hold for every value of the constants that the named assumptions of
the modules allow: any number of keys, spellings, requests, paths, messages,
calls, rules, clients, routes and connections, every TTL, page size, window and
clock resolution, with failing statements and any number of crashes. The
assumptions say that constants have their types, that `Null` is none of the
values it is compared with, and, for the limiter, `RefillAssumption`. TLC
evaluates them in every run.

| Module | Theorem | Statement |
|---|---|---|
| `PairFlowProofs` | `TypeCorrect`, `ApprovedIsBacked` | `Spec => []TypeOK`, `Spec => []ApprovedBacked` |
| | `DecisionsAreFinal` | `Spec => DecisionsFinal` |
| `PairGuarantees` | `NeverExpiresEarly`, `PairsHaveProvenance` | `Spec => []NoEarlyExpiry`, `Spec => []PairProvenance` |
| | `ReportedDecisionsHold` | `Spec => []DecisionsReported` |
| | `PairingImplementsRegistry` | `Spec => RegistrySpec`, the refinement |
| `MailboxProofs` | `TypeCorrect`, `InboxIsolationHolds` | `Spec => []TypeOK`, `Spec => []InboxIsolation` |
| | `DuplicateMeansStoredHolds`, `EvictionAuthorisedHolds` | the same for `DuplicateMeansStored` and the action property `EvictionAuthorised`, both conditional on `MintedOnce` |
| | `CursorCompleteHolds` | `Spec => []CursorComplete`, if `Disciplined` |
| `RelayProofs` | `PairingImplemented`, `MailboxImplemented` | `Spec => PairingSpec`, `Spec => MailboxSpec`, the refinements |
| | `ApprovedUsableHolds`, `OnlyPairedMailHolds` | `Spec => []ApprovedUsable`, `Spec => []OnlyPairedMail` |
| `RateLimitProofs` | `LimiterTypeCorrect`, `NeverOverspentHolds`, `WithinCapHolds` | `LimiterSpec => []...` for each property |
| | `RefusedWhenEmptyHolds` | `LimiterSpec => RefusedWhenEmpty` |
| | `IdleBucketsGoHolds` | `LimiterSpec => []IdleBucketsGo`, if `MaxLag <= Interval` |
| `RelayProcessProofs` | `TypeCorrect`, `CutOnlyAfterWindowHolds`, `WorkersStopFirstHolds` | `Spec => []...` for each property |
| `GatewayProofs` | `TypeCorrect`, `IdentityVerifiedHolds` | `Spec => []...` for each property |
| | `EntitledOnlyHolds` | `Spec => []EntitledOnly`, if `NoneBelowGated` |

### Hypotheses

Four hypotheses stand in theorems or properties and not in the modules, because
the code does not provide them. Each one says what a caller or an operator has to
do; the configurations of the passing runs whose properties use them satisfy them.

* `MintedOnce`, in `EvictionAuthorised` and `DuplicateMeansStored`: no two keys of
  active pairs use the same message id, on one path or on two. Clients that mint
  UUIDs satisfy it; the configurations above show what happens otherwise.
  `InboxIsolation` and `CursorComplete` hold without it.
* `Disciplined`, in `CursorCompleteHolds`: a sender has one put for a pair in
  flight and repeats it until it is settled. `Mailbox_v_cursor.cfg` refutes the
  property for others. Two puts of one id in flight at once would break it too: the first is
  stored, read and evicted, the sender goes on, and the second stores the row
  again, below a cursor that has passed it.
* `MaxLag <= Interval`: the eviction loop is not behind by more than a tick. With
  a longer lag two ticks may be lost in a row.
* `NoneBelowGated`: no configured route is longer than, and below, a gated
  prefix. `routeProducts` looks at exact prefixes, so a route `/cairn/extra`
  would be found first and ask for no product.

### Arguments

**Pairing.** `ApprovedBacked` is not inductive: the step that writes
"approved" must know that the pair is there, and that it belongs to the
requester that the call read several statements ago. The invariant is

    Inv == TypeOK /\ CallShape /\ InFlight /\ ApprovedBacked

`CallShape` says which endpoint each program point serves and that it has its
arguments. `InFlight` says of every approve call past its first read that the
request's row still has the requester it read, that its path is the one of the
two keys, and, once it is past the pair insert, that the pairs row at that path
is exactly the pair it is about to claim. What makes this stable under all
other calls is `StepKeeps`: no step removes a row, changes a requester, rewrites
a decided request or touches an existing pair. From `StepKeeps` follow
`InFlightFrame` (another goroutine's step cannot disturb a call in flight) and
`DecisionsAreFinal`.

`PairGuarantees` adds three invariants to `Inv`. `TimeInv`: a row's `expires_at`
is its exact deadline truncated, and no clock reading is ahead of the clock;
with `FormatMonotone` (truncation keeps the order) an overdue row is really
overdue. `VerifiedInv`: every staged requester, and every half that a call is
about to insert, passed `parseHalf` and `verifySelfSig`, and every pair sits at the
path of its keys and matches its `origin`, the request and the half of the approval
that inserted it (`PairsOrigin`). That two keys have one pair, whoever asked and
however they are spelled, is then a fact on path ids (`PathByKeys`). `Answered`:
what `DecisionsReported` says of an answer is true when it is given, and rests on decided
rows and existing pairs, which `StepKeeps` says no later step undoes
(`SaysKept`). The refinement needs the first two: `Activate` must find its path
free, which holds because every pair sits at the path of its own keys
(`PairProvenance`), and `Grant` must find its pair, which is `InFlight`.

**Mailbox.** Three invariants, the other two resting on the first. `Base`, without
hypotheses: every envelope row and every item of a page was written in its
direction by a half of its pair, every call in flight was identified and given
the direction of its caller, and no clock reading is ahead of the clock; a pairs
row never changes, so what was checked at `GetPair` is still true when the later
statement runs. `Minted`, under
`MintedOnce`: an id in the table, in a put or in
the list an ack is about to delete belongs to exactly one inbox (`OneOrigin`), so
the delete between whose list and execution anything may happen still deletes
only the caller's inbox, and a duplicate is a duplicate of the same inbox.
`Ordered`, under `Disciplined`: a row of the table, or a put in flight, has all
smaller ids of its writer settled; a put that is about to be inserted is not settled
and is the only one of its sender and pair (`Alone`); and a reader's cursor is one
that it has `Reached`: it has seen what the inbox holds up to there, and the cursor
is itself an id whose smaller ones are settled, so that no later insert comes below
it. A call in flight knows the same of its `since` and of the page it was given.
Evictions only take rows away, and an evicted id that is put again is one its reader
has had, or one its cursor has not passed.

**Relay.** `PairingStep` and `MailboxStep` show that each step of the relay is a
step of `PairFlow` and of `Mailbox` under their mappings, or changes nothing they
see. The second needs `Inv` of the first: `InsertActivates` shows that the insert
of an approval is the `activate` of a row that `Mailbox` allows, because the path
of a call in flight is that of its two keys. `RelayProofs` then instantiates the
parts' proof modules under the same mappings (`PG`, `MG`). For this their
assumptions are themselves proved from those of `Relay` (`PairingAssumed`,
`MailboxAssumed`), and their specifications shown to be the ones refined
(`SamePairing`, `SameMailbox`), so every theorem of the parts is available for
the whole. `ApprovedUsable` and `OnlyPairedMail` take facts of both.

**Rate limiter.** `Safe` relates each bucket to the account of its client: while
the bucket lives the two are full at the same time or both already are; while
there is none the account is full, so the full burst of a new bucket gives
nothing away. That an evicted bucket was full needs the bound on its refill time,
which needs `MaxDelay` (how old a bucket's last use may be when the call gets
its token) and `RefillAssumption`. The cap needs the set of buckets to be finite and what a
call saw of the cap to be still so when it inserts (`Counted`), which rests on the
mutex being held in between (`CallShape`). `Prompt` counts ticker periods:
the ticks pending in the channel and in the loop's hand say how many periods an
idle bucket may still have survived.

**Processes.** `IInv` of `RelayProcess` remembers for each server what its
`Shutdown` left behind when it returned (`DrainPast`), and the order in which
`main` stops the goroutines (`StopOrder`). `Inv` of `Gateway` follows one call
through its lane: its route is the longest that matches, the identity it carries is
what its own token proves, what goes on was authorised, and what the backend
trusts was computed from that identity. `Complete` (every edge is in the table
once the gateway serves) makes longest match useful for `EntitledOnly`: a path of
a gated service cannot fall through to a shorter route.

Each of these inductive invariants was also checked by TLC on the bounds of its
run, that of `Gateway` without the typing of `trusted`, whose sets mix values
that TLC does not compare.

Only model-checked: the liveness properties `PendingResolves`,
`EventuallyEvicted`, `ShutsDown` and `GatewayStops`, since the prover has no
ENABLED and so no fairness. The nine claims that the code does not keep are
counterexamples of TLC.

## Not modelled, and the plan

Not modelled: static documents (`discovery`, `landing`, `version`) and
`db-inspect`, which have no state; the SQLite connection pool, whose effect (a
statement fails) is in the models; clock steps backwards; of `edge` the two
functions for a gRPC proxy lane that does not exist yet; in the gateway the
text forms of routes and paths, request bodies, hop-by-hop headers, and what
grpc-gateway and the reverse proxy do besides passing identity on.

What is left for the proofs: theorems of `Relay` that restate by name what the
mailbox's hypotheses become in the composed system (`MintedOnce` over path ids
and keys that pairing made known), and the safety halves of the liveness
arguments (what holds while a sweep is retried, that a drain's window only
grows).
