-------------------------------- MODULE Relay --------------------------------
(***************************************************************************)
(* The relay: cmd/interchange puts pairing and the mailbox on one store, one *)
(* clock and one process.  Pairing writes the pairs table that the mailbox   *)
(* authenticates its callers with; one sweeper goroutine reads the clock     *)
(* once and with it first evicts envelopes and then expires requests; a      *)
(* crash takes the calls of both.                                           *)
(*                                                                          *)
(* The handlers are those of PairFlow and Mailbox.  The refinements say that *)
(* each of the two modules, whose sweeper and environment are its own, is a  *)
(* true account of its part of the relay.                                   *)
(***************************************************************************)
EXTENDS PairHalf, FiniteSets

CONSTANTS
    Null, TicksPerSecond, MayFail, MaxTime, MaxCrashes,      \* of both
    ReqIds, PairProcs, Halves, PairCalls, EmptyHalf,         \* of PairFlow
    RequestTTL, LastCreate,
    Signers, MsgIds, Mints, Timestamps, MailProcs,           \* of Mailbox
    MailCalls, ListLimit, MaxAckBatch, EnvelopeMaxAge, Disciplined, LastPut

ASSUME PairingAssumption ==
    /\ PairCalls \subseteq {"create", "poll", "list", "approve", "deny"}
    /\ Halves \subseteq Half
    /\ RequestTTL \in Nat /\ LastCreate \in Nat
ASSUME MailAssumption ==
    /\ MailCalls \subseteq {"put", "get", "ack"}
    /\ MsgIds \subseteq Nat \ {0} /\ Signers \subseteq Nat
    /\ Mints \in [PathIds -> [Signers -> SUBSET MsgIds]]
    /\ Timestamps \subseteq Int
    /\ ListLimit \in Nat \ {0} /\ MaxAckBatch \in Nat
    /\ EnvelopeMaxAge \in Nat /\ LastPut \in Nat /\ Disciplined \in BOOLEAN
ASSUME TimeAssumption ==
    /\ TicksPerSecond \in Nat \ {0} /\ MaxTime \in Nat /\ MaxCrashes \in Nat
    /\ MayFail \in BOOLEAN

VARIABLES
    clock, pairs, crashes,                              \* shared
    pair_requests, pairProc, deadline, origin,          \* pairing
    envelopes, mailProc, cursor, seen, stored, settled, \* mailbox
    sweep                                               \* the goroutine of Once

pairing == <<pair_requests, pairProc, deadline, origin>>
mailbox == <<envelopes, mailProc, cursor, seen, stored, settled>>
vars == <<clock, pairs, crashes, pairing, mailbox, sweep>>

NoSweep == [pc |-> "idle", now |-> 0]

\* Pairing's part of the sweep: from the reading of the clock to the expiry.
PF == INSTANCE PairFlow WITH
    Procs <- PairProcs, Calls <- PairCalls, proc <- pairProc,
    sweeper <- IF sweep.pc = "idle" THEN NoSweep
               ELSE [pc |-> "expire", now |-> sweep.now]

\* The mailbox's part: up to the eviction.
MB == INSTANCE Mailbox WITH
    Paths <- PathIds, Procs <- MailProcs, Calls <- MailCalls, proc <- mailProc,
    Activatable <- [path \in PathIds |->
        {row \in [requester : Pubkeys, owner : Pubkeys] :
            PathOf(row.requester, row.owner) = path}],
    sweeper <- IF sweep.pc = "evict" THEN sweep ELSE NoSweep

\* NULL and the empty half are values of no column.
ASSUME NullAssumption ==
    /\ Null \notin Pubkeys /\ Null \notin Halves /\ EmptyHalf \notin Halves
    /\ Null # EmptyHalf /\ Null \notin PathIds /\ Null \notin ReqIds
    /\ Null \notin PF!Row /\ Null \notin PF!PairRow /\ Null \notin PF!OwnerJSON
    /\ Null \notin MB!Row

Init ==
    /\ sweep = NoSweep
    /\ PF!Init
    /\ MB!Init

\* Calls on the two handlers' routes.
pairCall(p) ==
    /\ UNCHANGED <<sweep, mailbox>>
    /\ PF!Handler(p)

mailCall(p) ==
    /\ UNCHANGED <<sweep, pairing>>
    /\ MB!Handler(p)

Tick ==
    /\ clock < MaxTime
    /\ clock' = clock + 1
    /\ UNCHANGED <<pairs, crashes, pairing, mailbox, sweep>>

\* Once: now := Clock().
sweepStart ==
    /\ sweep.pc = "idle"
    /\ sweep' = [pc |-> "evict", now |-> clock]
    /\ UNCHANGED <<clock, pairs, crashes, pairing, mailbox>>

\* Mutant of sweepEvict: it reads the clock again.
sweepEvictFresh ==
    /\ sweep.pc = "evict"
    /\ MB!DeleteEnvelopesOlderThan(clock - EnvelopeMaxAge)
    /\ sweep' = [sweep EXCEPT !.pc = "expire"]
    /\ UNCHANGED <<clock, pairs, crashes, pairing, mailProc, cursor, seen,
                   stored, settled>>

\* Mutant of sweepEvict: a sweep of the requests only.
sweepEvictForgotten ==
    /\ sweep.pc = "evict"
    /\ sweep' = [sweep EXCEPT !.pc = "expire"]
    /\ UNCHANGED <<clock, pairs, crashes, pairing, mailbox>>

\* DeleteEnvelopesOlderThan(now - EnvelopeMaxAge).
sweepEvict ==
    /\ sweep.pc = "evict"
    /\ MB!DeleteEnvelopesOlderThan(sweep.now - EnvelopeMaxAge)
    /\ sweep' = [sweep EXCEPT !.pc = "expire"]
    /\ UNCHANGED <<clock, pairs, crashes, pairing, mailProc, cursor, seen,
                   stored, settled>>

\* Mutant of sweepEvictFails: Once returns the first error.
sweepEvictFailsReturn ==
    /\ MayFail
    /\ sweep.pc = "evict"
    /\ sweep' = NoSweep
    /\ UNCHANGED <<clock, pairs, crashes, pairing, mailbox>>

\* A failed eviction is logged and the expiry still runs.
sweepEvictFails ==
    /\ MayFail
    /\ sweep.pc = "evict"
    /\ sweep' = [sweep EXCEPT !.pc = "expire"]
    /\ UNCHANGED <<clock, pairs, crashes, pairing, mailbox>>

\* Mutant of sweepExpire: it reads the clock again.
sweepExpireFresh ==
    /\ sweep.pc = "expire"
    /\ PF!ExpirePendingRequests(clock)
    /\ sweep' = NoSweep
    /\ UNCHANGED <<clock, pairs, crashes, mailbox, pairProc, deadline, origin>>

\* ExpirePendingRequests(now).
sweepExpire ==
    /\ sweep.pc = "expire"
    /\ PF!ExpirePendingRequests(sweep.now)
    /\ sweep' = NoSweep
    /\ UNCHANGED <<clock, pairs, crashes, mailbox, pairProc, deadline, origin>>

sweepExpireFails ==
    /\ MayFail
    /\ sweep.pc = "expire"
    /\ sweep' = NoSweep
    /\ UNCHANGED <<clock, pairs, crashes, pairing, mailbox>>

\* The process dies and is started again; the database file stays.
Crash ==
    /\ crashes < MaxCrashes
    /\ crashes' = crashes + 1
    /\ pairProc' = [p \in PairProcs |-> PF!Idle]
    /\ mailProc' = [p \in MailProcs |-> MB!Idle]
    /\ sweep' = NoSweep
    /\ UNCHANGED <<clock, pairs, pair_requests, deadline, origin, envelopes,
                   cursor, seen, stored, settled>>

Next ==
    \/ \E p \in PairProcs : pairCall(p)
    \/ \E p \in MailProcs : mailCall(p)
    \/ Tick \/ Crash
    \/ sweepStart \/ sweepEvict \/ sweepEvictFails \/ sweepExpire \/ sweepExpireFails

Spec == Init /\ [][Next]_vars

\* Time passes, the ticker fires and the goroutine runs through Once.  Nothing
\* is assumed of the calls, nor that a statement of the sweep ever succeeds.
Fairness ==
    /\ WF_vars(Tick)
    /\ WF_vars(sweepStart)
    /\ WF_vars(sweepEvict \/ sweepEvictFails)
    /\ WF_vars(sweepExpire \/ sweepExpireFails)

FairSpec == Spec /\ Fairness

-----------------------------------------------------------------------------
(* Properties. *)

\* Refinement: whatever the mailbox, the common sweep and a common crash do,
\* pairing behaves as PairFlow says; all that is shown of PairFlow holds here.
PairingSpec == PF!Spec

\* Refinement: whatever pairing writes to the pairs table, the mailbox
\* behaves as Mailbox says.
MailboxSpec == MB!Spec

\* An approval means mail can flow: from the moment a request is approved,
\* the mailbox knows both of its keys, and what the one writes the other
\* reads, in both directions (unless a party was paired with itself).
ApprovedUsable ==
    \A id \in ReqIds : PF!HasStatus(id, "approved") =>
        LET row == pair_requests[id]
            pair == pairs[row.path_id]
            a == MB!Identify(pair, Raw[row.requester.pubkey])
            b == MB!Identify(pair, Raw[row.owner_json.half.pubkey]) IN
        /\ a # Null /\ b # Null
        /\ Raw[row.requester.pubkey] # Raw[row.owner_json.half.pubkey] =>
              /\ MB!directionFrom(pair, a) = MB!readDirectionFor(pair, b)
              /\ MB!directionFrom(pair, b) = MB!readDirectionFor(pair, a)

\* No mail without pairing: whoever has an envelope in the relay signed with
\* a key of an active pair, and that pair comes from a request staged with a
\* good self-signature by its requester and approved with a half that its
\* owner signed.
OnlyPairedMail ==
    \A m \in MsgIds : envelopes[m] # Null =>
        LET path == envelopes[m].path
            pair == pairs[path]
            request == pair_requests[origin[path].id]
            approval == origin[path].half IN
        /\ pair # Null /\ origin[path] \in PF!Origin /\ request # Null
        /\ envelopes[m].by \in {Raw[pair.requester], Raw[pair.owner]}
        /\ request.requester.pubkey = pair.requester
        /\ verifySelfSig(request.requester)
        /\ approval.pubkey = pair.owner
        /\ verifySelfSig(approval)

\* Liveness: no request stays pending for ever, if its expiry does not fail
\* for ever.  The eviction that comes before it in every sweep may.
PendingResolves == SF_vars(sweepExpire) => PF!PendingResolves

\* Liveness: no envelope stays for ever, acked or not, if its eviction does
\* not fail for ever.  The expiry in every sweep may.
EventuallyEvicted == SF_vars(sweepEvict) => MB!EventuallyEvicted
=============================================================================
