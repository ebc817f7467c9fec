----------------------------- MODULE RelayProofs -----------------------------
(***************************************************************************)
(* The relay implements both of its parts, for any number of calls, keys,    *)
(* messages and crashes: with the one sweeper, the one clock and the one     *)
(* pairs table each of PairFlow and Mailbox takes a step of its own or none. *)
(* So what PairGuarantees and MailboxProofs prove of the parts holds of the  *)
(* whole (their modules are instantiated here as PG and MG), and what takes  *)
(* both follows.                                                            *)
(***************************************************************************)
EXTENDS Relay, TLAPS

PG == INSTANCE PairGuarantees WITH
    Procs <- PairProcs, Calls <- PairCalls, proc <- pairProc,
    sweeper <- IF sweep.pc = "idle" THEN NoSweep
               ELSE [pc |-> "expire", now |-> sweep.now]

MG == INSTANCE MailboxProofs WITH
    Paths <- PathIds, Procs <- MailProcs, Calls <- MailCalls, proc <- mailProc,
    Activatable <- [path \in PathIds |->
        {row \in [requester : Pubkeys, owner : Pubkeys] :
            PathOf(row.requester, row.owner) = path}],
    sweeper <- IF sweep.pc = "evict" THEN sweep ELSE NoSweep

-----------------------------------------------------------------------------
(* The parts' assumptions on their constants hold. *)

\* A path id is the same whichever module computes it.
LEMMA SamePaths ==
    /\ PF!PathIds = PathIds /\ PG!PathIds = PathIds
    /\ MB!PathIds = PathIds /\ MG!PathIds = PathIds
    /\ \A s, t : PF!PathOf(s, t) = PathOf(s, t) /\ PG!PathOf(s, t) = PathOf(s, t)
BY DEF PF!PathIds, PG!PathIds, MB!PathIds, MG!PathIds, PathIds,
       PF!PathOf, PG!PathOf, MB!PathOf, MG!PathOf, PathOf, PF!computePathID,
       PG!computePathID, MB!computePathID, MG!computePathID, computePathID

\* Pairing's constants are as PairFlow assumes.
LEMMA PairingAssumed ==
    /\ PG!RawAssumption /\ PG!WindowAssumption
    /\ PG!CallsAssumption /\ PG!HalvesAssumption /\ PG!TimeAssumption
    /\ PG!NullAssumption
<1>1. PG!RawAssumption /\ PG!WindowAssumption
  BY RawAssumption, WindowAssumption
<1>2. PG!CallsAssumption
  BY PairingAssumption DEF PG!Endpoints
<1>3. PG!HalvesAssumption
  BY PairingAssumption DEF PG!Half, Half
<1>4. PG!TimeAssumption
  BY TimeAssumption, PairingAssumption
<1>5. PG!NullAssumption
  BY NullAssumption, SamePaths
     DEF PF!Row, PG!Row, PF!PairRow, PG!PairRow, PF!OwnerJSON, PG!OwnerJSON,
         PF!Statuses, PG!Statuses
<1> QED BY <1>1, <1>2, <1>3, <1>4, <1>5

\* The mailbox's constants are as Mailbox assumes.
LEMMA MailboxAssumed ==
    /\ MG!RawAssumption /\ MG!WindowAssumption
    /\ MG!PairsAssumption /\ MG!IdsAssumption /\ MG!BoundsAssumption
    /\ MG!RowAssumption
<1>1. MG!RawAssumption /\ MG!WindowAssumption
  BY RawAssumption, WindowAssumption
<1>2. MG!PairsAssumption
  BY NullAssumption DEF MG!PairRow, PF!PairRow
<1>3. MG!IdsAssumption
  BY MailAssumption
<1>4. MG!BoundsAssumption
  BY MailAssumption, TimeAssumption
<1>5. MG!RowAssumption
  BY NullAssumption DEF MB!Row, MG!Row, MB!Directions, MG!Directions
<1> QED BY <1>1, <1>2, <1>3, <1>4, <1>5

-----------------------------------------------------------------------------
(* Pairing as Relay names it (PF) is pairing as its theorems name it (PG).   *)

\* Each handler step is the same step under either name.
LEMMA SamePairHandler ==
    ASSUME NEW p PROVE PF!Handler(p) <=> PG!Handler(p)
<1>1. PF!dispatch(p) <=> PG!dispatch(p)
  BY DEF PF!dispatch, PG!dispatch, PF!Ids, PG!Ids, PF!Bodies, PG!Bodies,
     PF!Holding, PG!Holding, PF!ExpirePendingRequests,
     PG!ExpirePendingRequests, PF!Overdue, PG!Overdue, PF!formatTime,
     PG!formatTime, PF!Quiet, PG!Quiet
<1>2. PF!ownerAuthRequired(p) <=> PG!ownerAuthRequired(p)
  BY DEF PF!ownerAuthRequired, PG!ownerAuthRequired, PF!Refuse, PG!Refuse,
     PF!Holding, PG!Holding, PF!Refusal, PG!Refusal, PF!Answer, PG!Answer,
     PF!store, PG!store, PF!Quiet, PG!Quiet
<1>3. PF!badRequest(p) <=> PG!badRequest(p)
  BY DEF PF!badRequest, PG!badRequest, PF!Refuse, PG!Refuse, PF!Holding,
     PG!Holding, PF!Refusal, PG!Refusal, PF!Answer, PG!Answer, PF!store,
     PG!store, PF!Quiet, PG!Quiet
<1>4. PF!finish(p) <=> PG!finish(p)
  BY DEF PF!finish, PG!finish, PF!Idle, PG!Idle, PF!Holding, PG!Holding,
     PF!store, PG!store, PF!Quiet, PG!Quiet
<1>5. PF!createRequest(p) <=> PG!createRequest(p)
  BY DEF PF!createRequest, PG!createRequest, PF!At, PG!At, PF!parseHalf,
     PG!parseHalf, PF!tsInWindow, PG!tsInWindow, PF!verifySelfSig,
     PG!verifySelfSig, PF!Refuse, PG!Refuse, PF!Holding, PG!Holding,
     PF!Refusal, PG!Refusal, PF!Answer, PG!Answer, PF!store, PG!store,
     PF!Quiet, PG!Quiet
<1>6. PF!InsertPairRequest(p) <=> PG!InsertPairRequest(p)
  BY DEF PF!InsertPairRequest, PG!InsertPairRequest, PF!formatTime,
     PG!formatTime, PF!Reply, PG!Reply, PF!Refuse, PG!Refuse, PF!FailWith,
     PG!FailWith, PF!Holding, PG!Holding, PF!Refusal, PG!Refusal, PF!Answer,
     PG!Answer, PF!store, PG!store
<1>7. PF!getRequestStatus(p) <=> PG!getRequestStatus(p)
  BY DEF PF!getRequestStatus, PG!getRequestStatus, PF!At, PG!At, PF!ownerHalf,
     PG!ownerHalf, PF!Reply, PG!Reply, PF!Refuse, PG!Refuse, PF!Holding,
     PG!Holding, PF!Refusal, PG!Refusal, PF!Answer, PG!Answer, PF!store,
     PG!store, PF!Quiet, PG!Quiet
<1>8. PF!listPending(p) <=> PG!listPending(p)
  BY DEF PF!listPending, PG!listPending, PF!At, PG!At, PF!Pending, PG!Pending,
     PF!Reply, PG!Reply, PF!Refuse, PG!Refuse, PF!Holding, PG!Holding,
     PF!Refusal, PG!Refusal, PF!Answer, PG!Answer, PF!store, PG!store,
     PF!Quiet, PG!Quiet
<1>9. PF!approve(p) <=> PG!approve(p)
  BY DEF PF!approve, PG!approve, PF!At, PG!At, PF!parseHalf, PG!parseHalf,
     PF!tsInWindow, PG!tsInWindow, PF!verifySelfSig, PG!verifySelfSig,
     PF!PathOf, PG!PathOf, PF!computePathID, PG!computePathID, PF!Refuse,
     PG!Refuse, PF!Holding, PG!Holding, PF!Refusal, PG!Refusal, PF!Answer,
     PG!Answer, PF!store, PG!store, PF!Quiet, PG!Quiet
<1>10. PF!approveIdempotent(p) <=> PG!approveIdempotent(p)
  BY DEF PF!approveIdempotent, PG!approveIdempotent, PF!Approved, PG!Approved,
     PF!Reply, PG!Reply, PF!Refuse, PG!Refuse, PF!Holding, PG!Holding,
     PF!Refusal, PG!Refusal, PF!Answer, PG!Answer, PF!store, PG!store,
     PF!Quiet, PG!Quiet
<1>11. PF!InsertPair(p) <=> PG!InsertPair(p)
  BY DEF PF!InsertPair, PG!InsertPair, PF!FailWith, PG!FailWith, PF!Refuse,
     PG!Refuse, PF!Holding, PG!Holding, PF!Refusal, PG!Refusal, PF!Answer,
     PG!Answer, PF!store, PG!store, PF!Quiet, PG!Quiet
<1>12. PF!approveDuplicate(p) <=> PG!approveDuplicate(p)
  BY DEF PF!approveDuplicate, PG!approveDuplicate, PF!SamePair, PG!SamePair,
     PF!Refuse, PG!Refuse, PF!Holding, PG!Holding, PF!Refusal, PG!Refusal,
     PF!Answer, PG!Answer, PF!store, PG!store, PF!Quiet, PG!Quiet
<1>13. PF!UpdatePairRequestStatus(p) <=> PG!UpdatePairRequestStatus(p)
  BY DEF PF!UpdatePairRequestStatus, PG!UpdatePairRequestStatus, PF!Pending,
     PG!Pending, PF!Target, PG!Target, PF!coalesce, PG!coalesce, PF!Reply,
     PG!Reply, PF!Settle, PG!Settle, PF!ErrorIgnored, PG!ErrorIgnored,
     PF!Approved, PG!Approved, PF!Holding, PG!Holding, PF!Refusal, PG!Refusal,
     PF!Answer, PG!Answer, PF!Quiet, PG!Quiet
<1>14. PF!deny(p) <=> PG!deny(p)
  BY <1>13 DEF PF!deny, PG!deny, PF!At, PG!At
<1>15. PF!approveUpdate(p) <=> PG!approveUpdate(p)
  BY <1>13 DEF PF!approveUpdate, PG!approveUpdate
<1>16. PF!updateLookup(p) <=> PG!updateLookup(p)
  BY DEF PF!updateLookup, PG!updateLookup, PF!Target, PG!Target, PF!Terminal,
     PG!Terminal, PF!Statuses, PG!Statuses, PF!Reply, PG!Reply, PF!Settle,
     PG!Settle, PF!ErrorIgnored, PG!ErrorIgnored, PF!Approved, PG!Approved,
     PF!Holding, PG!Holding, PF!Refusal, PG!Refusal, PF!Answer, PG!Answer,
     PF!store, PG!store, PF!Quiet, PG!Quiet
<1> QED
  BY <1>1, <1>2, <1>3, <1>4, <1>5, <1>6, <1>7, <1>8, <1>9, <1>10, <1>11, <1>12,
     <1>14, <1>15, <1>16 DEF PF!Handler, PG!Handler

\* A behaviour of pairing is one under either name.
LEMMA SamePairing == PF!Spec => PG!Spec
<1>1. PF!Init => PG!Init
  BY SamePaths DEF PF!Init, PG!Init, PF!Idle, PG!Idle, PF!Holding, PG!Holding
<1>2. PF!Next => PG!Next
  <2>1. PF!Tick => PG!Tick
    BY DEF PF!Tick, PG!Tick, PF!store, PG!store
  <2>2. PF!sweepStart => PG!sweepStart
    BY DEF PF!sweepStart, PG!sweepStart, PF!store, PG!store
  <2>3. PF!sweepExpire => PG!sweepExpire
    BY DEF PF!sweepExpire, PG!sweepExpire, PF!ExpirePendingRequests,
       PG!ExpirePendingRequests, PF!Overdue, PG!Overdue, PF!formatTime,
       PG!formatTime
  <2>4. PF!sweepFail => PG!sweepFail
    BY DEF PF!sweepFail, PG!sweepFail, PF!store, PG!store
  <2>5. PF!Crash => PG!Crash
    BY DEF PF!Crash, PG!Crash, PF!Idle, PG!Idle, PF!Holding, PG!Holding,
       PF!store, PG!store
  <2> QED BY <2>1, <2>2, <2>3, <2>4, <2>5, SamePairHandler DEF PF!Next, PG!Next
<1>3. [PF!Next]_(PF!vars) => [PG!Next]_(PG!vars)
  BY <1>2 DEF PF!vars, PG!vars
<1> QED BY <1>1, <1>3, PTL DEF PF!Spec, PG!Spec

\* And so is the mailbox (MB and MG).
LEMMA SameMailHandler ==
    ASSUME NEW p PROVE MB!Handler(p) <=> MG!Handler(p)
<1>1. MB!badRequest(p) <=> MG!badRequest(p)
  BY DEF MB!badRequest, MG!badRequest, MB!Refuse, MG!Refuse, MB!Holding,
     MG!Holding, MB!Answer, MG!Answer, MB!Quiet, MG!Quiet, MB!clients,
     MG!clients
<1>2. MB!getPairFails(p) <=> MG!getPairFails(p)
  BY DEF MB!getPairFails, MG!getPairFails, MB!Refuse, MG!Refuse, MB!Holding,
     MG!Holding, MB!Answer, MG!Answer, MB!Quiet, MG!Quiet, MB!clients,
     MG!clients
<1>3. MB!put(p) <=> MG!put(p)
  BY DEF MB!put, MG!put, MB!InTurn, MG!InTurn, MB!Acceptable, MG!Acceptable,
     MB!tsInWindow, MG!tsInWindow, MB!Caller, MG!Caller, MB!Identify,
     MG!Identify, MB!directionFrom, MG!directionFrom, MB!Refuse, MG!Refuse,
     MB!Holding, MG!Holding, MB!Answer, MG!Answer, MB!Quiet, MG!Quiet,
     MB!clients, MG!clients
<1>4. MB!InsertEnvelope(p) <=> MG!InsertEnvelope(p)
  BY DEF MB!InsertEnvelope, MG!InsertEnvelope, MB!formatTime, MG!formatTime,
     MB!Reply, MG!Reply, MB!Refuse, MG!Refuse, MB!Holding, MG!Holding,
     MB!Answer, MG!Answer, MB!Quiet, MG!Quiet, MB!clients, MG!clients
<1>5. MB!get(p) <=> MG!get(p)
  BY DEF MB!get, MG!get, MB!Caller, MG!Caller, MB!Identify, MG!Identify,
     MB!readDirectionFor, MG!readDirectionFor, MB!Refuse, MG!Refuse,
     MB!Holding, MG!Holding, MB!Answer, MG!Answer, MB!Quiet, MG!Quiet,
     MB!clients, MG!clients
<1>6. MB!getList(p) <=> MG!getList(p)
  BY DEF MB!getList, MG!getList, MB!Cardinality, MG!Cardinality,
     MB!ListEnvelopes, MG!ListEnvelopes, MB!Inbox, MG!Inbox, MB!Last, MG!Last,
     MB!Reply, MG!Reply, MB!Refuse, MG!Refuse, MB!Holding, MG!Holding,
     MB!Answer, MG!Answer, MB!Quiet, MG!Quiet, MB!clients, MG!clients
<1>7. MB!ack(p) <=> MG!ack(p)
  BY DEF MB!ack, MG!ack, MB!Cardinality, MG!Cardinality, MB!Inboxes,
     MG!Inboxes, MB!Directions, MG!Directions, MB!Caller, MG!Caller,
     MB!Identify, MG!Identify, MB!readDirectionFor, MG!readDirectionFor,
     MB!Refuse, MG!Refuse, MB!Holding, MG!Holding, MB!Answer, MG!Answer,
     MB!Quiet, MG!Quiet, MB!clients, MG!clients
<1>8. MB!ackList(p) <=> MG!ackList(p)
  BY DEF MB!ackList, MG!ackList, MB!Cardinality, MG!Cardinality,
     MB!ListEnvelopes, MG!ListEnvelopes, MB!Inbox, MG!Inbox, MB!Reply,
     MG!Reply, MB!Refuse, MG!Refuse, MB!Holding, MG!Holding, MB!Answer,
     MG!Answer, MB!Quiet, MG!Quiet, MB!clients, MG!clients
<1>9. MB!ackDelete(p) <=> MG!ackDelete(p)
  BY DEF MB!ackDelete, MG!ackDelete, MB!DeleteEnvelopesByMsgID,
     MG!DeleteEnvelopesByMsgID, MB!Reply, MG!Reply, MB!Refuse, MG!Refuse,
     MB!Holding, MG!Holding, MB!Answer, MG!Answer, MB!Quiet, MG!Quiet,
     MB!clients, MG!clients
<1>10. MB!finish(p) <=> MG!finish(p)
  BY DEF MB!finish, MG!finish, MB!Idle, MG!Idle, MB!Holding, MG!Holding
<1> QED
  BY <1>1, <1>2, <1>3, <1>4, <1>5, <1>6, <1>7, <1>8, <1>9, <1>10 DEF
     MB!Handler, MG!Handler

\* A behaviour of the mailbox is one under either name.
LEMMA SameMailbox == MB!Spec => MG!Spec
<1>1. MB!Init => MG!Init
  BY DEF MB!Init, MG!Init, MB!Idle, MG!Idle, MB!Holding, MG!Holding, MB!Inboxes,
         MG!Inboxes, MB!Directions, MG!Directions
<1>2. MB!Next => MG!Next
  <2>1. \A path : MB!activate(path) => MG!activate(path)
    BY DEF MB!activate, MG!activate, MB!clients, MG!clients
  <2>2. MB!Tick => MG!Tick
    BY DEF MB!Tick, MG!Tick, MB!clients, MG!clients
  <2>3. MB!sweepStart => MG!sweepStart
    BY DEF MB!sweepStart, MG!sweepStart, MB!clients, MG!clients
  <2>4. MB!sweepEvict => MG!sweepEvict
    BY DEF MB!sweepEvict, MG!sweepEvict, MB!DeleteEnvelopesOlderThan,
       MG!DeleteEnvelopesOlderThan, MB!Stale, MG!Stale, MB!formatTime,
       MG!formatTime, MB!clients, MG!clients
  <2>5. MB!sweepFail => MG!sweepFail
    BY DEF MB!sweepFail, MG!sweepFail, MB!clients, MG!clients
  <2>6. MB!Crash => MG!Crash
    BY DEF MB!Crash, MG!Crash, MB!Idle, MG!Idle, MB!Holding, MG!Holding,
       MB!clients, MG!clients
  <2> QED BY <2>1, <2>2, <2>3, <2>4, <2>5, <2>6, SameMailHandler
          DEF MB!Next, MG!Next
<1>3. [MB!Next]_(MB!vars) => [MG!Next]_(MG!vars)
  BY <1>2 DEF MB!vars, MG!vars
<1> QED BY <1>1, <1>3, PTL DEF MB!Spec, MG!Spec

-----------------------------------------------------------------------------
(* The steps. *)

\* The sweeper's record is well-formed: what the refinements' sweepers are
\* computed from.
SweepOK ==
    /\ clock \in Nat
    /\ sweep \in [pc : {"idle", "evict", "expire"}, now : Nat]

\* Calls leave the clock and the crashes alone; only an approval writes the
\* pairs table.
LEMMA MailQuiet ==
    ASSUME NEW p, MB!Handler(p)
    PROVE  UNCHANGED <<clock, pairs, crashes>>
BY DEF MB!Handler, MB!badRequest, MB!getPairFails, MB!put, MB!InsertEnvelope,
       MB!get, MB!getList, MB!ack, MB!ackList, MB!ackDelete, MB!finish, MB!Quiet

\* A pairing call changes the pairs table only by InsertPair, at a free path.
LEMMA PairQuiet ==
    ASSUME NEW p, PF!Handler(p)
    PROVE  /\ UNCHANGED <<clock, crashes>>
           /\ \/ UNCHANGED pairs
              \/ /\ pairProc[p].pc = "insertPair"
                 /\ pairs[pairProc[p].path] = Null
                 /\ pairs' = [pairs EXCEPT ![pairProc[p].path] =
                       [requester |-> pairProc[p].requester.pubkey,
                        owner |-> pairProc[p].half.pubkey]]
<1>1. UNCHANGED <<clock, crashes>>
  BY DEF PF!Handler, PF!dispatch, PF!ownerAuthRequired, PF!badRequest, PF!finish,
         PF!createRequest, PF!InsertPairRequest, PF!getRequestStatus,
         PF!listPending, PF!approve, PF!approveIdempotent, PF!InsertPair,
         PF!approveDuplicate, PF!deny, PF!approveUpdate,
         PF!UpdatePairRequestStatus, PF!updateLookup, PF!Quiet
<1>2. \/ UNCHANGED pairs
      \/ PF!InsertPair(p)
  BY DEF PF!Handler, PF!dispatch, PF!ownerAuthRequired, PF!badRequest, PF!finish,
         PF!createRequest, PF!InsertPairRequest, PF!getRequestStatus,
         PF!listPending, PF!approve, PF!approveIdempotent,
         PF!approveDuplicate, PF!deny, PF!approveUpdate,
         PF!UpdatePairRequestStatus, PF!updateLookup, PF!FailWith, PF!store
<1> QED BY <1>1, <1>2 DEF PF!InsertPair, PF!FailWith, PF!store

\* One step keeps the sweeper's record well-formed.
LEMMA SweepStep ==
    ASSUME SweepOK, [Next]_vars PROVE SweepOK'
<1>1. ASSUME NEW p, pairCall(p) PROVE SweepOK'
  BY <1>1, PairQuiet DEF pairCall, SweepOK
<1>2. ASSUME NEW p, mailCall(p) PROVE SweepOK'
  BY <1>2, MailQuiet DEF mailCall, SweepOK
<1>3. CASE Tick \/ Crash
  BY <1>3 DEF Tick, Crash, SweepOK, NoSweep
<1>4. CASE sweepStart
  BY <1>4 DEF sweepStart, SweepOK
<1>5. CASE sweepEvict \/ sweepEvictFails
  BY <1>5 DEF sweepEvict, sweepEvictFails, SweepOK
<1>6. CASE sweepExpire \/ sweepExpireFails
  BY <1>6 DEF sweepExpire, sweepExpireFails, SweepOK, NoSweep
<1>7. CASE UNCHANGED vars
  BY <1>7 DEF vars, SweepOK
<1> QED BY <1>1, <1>2, <1>3, <1>4, <1>5, <1>6, <1>7 DEF Next

\* The sweep as pairing sees it, and as the mailbox does.
PairSweep == IF sweep.pc = "idle" THEN NoSweep
             ELSE [pc |-> "expire", now |-> sweep.now]
MailSweep == IF sweep.pc = "evict" THEN sweep ELSE NoSweep

\* Every step of the relay is one of PairFlow or leaves pairing unchanged.
LEMMA PairingStep ==
    ASSUME SweepOK, [Next]_vars PROVE [PF!Next]_(PF!vars)
<1> DEFINE Rest == UNCHANGED <<clock, pair_requests, pairs, pairProc, crashes,
                               deadline, origin>>
<1>0. Rest /\ UNCHANGED PairSweep => UNCHANGED PF!vars
  BY DEF PF!vars, PairSweep
<1>1. ASSUME NEW p \in PairProcs, pairCall(p) PROVE PF!Next
  BY <1>1 DEF pairCall, PF!Next
<1>2. ASSUME NEW p, mailCall(p) PROVE UNCHANGED PF!vars
  BY <1>0, <1>2, MailQuiet DEF mailCall, pairing, PairSweep
<1>3. CASE Tick
  BY <1>3 DEF Tick, pairing, PF!Next, PF!Tick, PF!store
<1>4. CASE Crash
  <2>1. PairSweep' = NoSweep
    BY <1>4 DEF Crash, PairSweep, NoSweep
  <2>2. PF!Crash
    BY <1>4, <2>1 DEF Crash, PF!Crash, PF!store, PairSweep, NoSweep
  <2> QED BY <2>2 DEF PF!Next
<1>5. CASE sweepStart
  <2>1. PairSweep = NoSweep /\ PairSweep' = [pc |-> "expire", now |-> clock]
    BY <1>5 DEF sweepStart, PairSweep
  <2>2. PF!sweepStart
    BY <1>5, <2>1 DEF sweepStart, pairing, PF!sweepStart, PF!store, PairSweep, NoSweep
  <2> QED BY <2>2 DEF PF!Next
<1>6. CASE sweepEvict \/ sweepEvictFails
  <2>1. UNCHANGED PairSweep
    BY <1>6 DEF sweepEvict, sweepEvictFails, PairSweep, SweepOK
  <2> QED BY <1>0, <1>6, <2>1 DEF sweepEvict, sweepEvictFails, pairing
<1>7. CASE sweepExpire
  <2>1. PairSweep = [pc |-> "expire", now |-> sweep.now] /\ PairSweep' = NoSweep
    BY <1>7 DEF sweepExpire, PairSweep, NoSweep
  <2>2. PF!sweepExpire
    BY <1>7, <2>1 DEF sweepExpire, PF!sweepExpire, PF!store, PairSweep, NoSweep
  <2> QED BY <2>2 DEF PF!Next
<1>8. CASE sweepExpireFails
  <2>1. PairSweep = [pc |-> "expire", now |-> sweep.now] /\ PairSweep' = NoSweep
    BY <1>8 DEF sweepExpireFails, PairSweep, NoSweep
  <2>2. PF!sweepFail
    BY <1>8, <2>1
       DEF sweepExpireFails, pairing, PF!sweepFail, PF!store, PairSweep, NoSweep
  <2> QED BY <2>2 DEF PF!Next
<1>9. CASE UNCHANGED vars
  BY <1>0, <1>9 DEF vars, pairing, PairSweep
<1> QED
  BY <1>1, <1>2, <1>3, <1>4, <1>5, <1>6, <1>7, <1>8, <1>9 DEF Next

\* The sweeper's record is well-formed in every reachable state.
LEMMA SweepInvariant == Spec => []SweepOK
<1>1. Init => SweepOK
  BY DEF Init, PF!Init, SweepOK, NoSweep
<1> QED BY <1>1, SweepStep, PTL DEF Spec

\* Pairing inside the relay, with a shared sweep, clock and crash and the
\* mailbox beside it, behaves as PairFlow specifies.
THEOREM PairingImplemented == Spec => PairingSpec
<1>1. Init => PF!Init
  BY DEF Init
<1> QED BY <1>1, PairingStep, SweepInvariant, PTL DEF Spec, PairingSpec, PF!Spec

\* So PairFlow's invariant and the origin of pairs hold in the relay.
LEMMA PairingInvariant == Spec => [](PG!Inv /\ PG!VerifiedInv)
<1>1. Spec => PG!Spec
  BY PairingImplemented, SamePairing DEF PairingSpec
<1>2. PG!Spec => []PG!Inv
  BY PG!Invariance, PairingAssumed, PTL
<1>3. PG!Spec => []PG!VerifiedInv
  BY PG!VerifiedInvariance, PairingAssumed, PTL
<1> QED BY <1>1, <1>2, <1>3, PTL

\* What approve inserts is a row that Mailbox expects pairing to insert: the
\* two keys that its path is computed from.
LEMMA InsertActivates ==
    ASSUME PG!Inv, NEW p \in PairProcs, pairProc[p].pc = "insertPair",
           NEW row, row = [requester |-> pairProc[p].requester.pubkey,
                           owner |-> pairProc[p].half.pubkey]
    PROVE  /\ pairProc[p].path \in PathIds
           /\ row \in [requester : Pubkeys, owner : Pubkeys]
           /\ PathOf(row.requester, row.owner) = pairProc[p].path
<1>1. pairProc[p].op = "approve" /\ pairProc[p].half \in Halves
  BY DEF PG!Inv, PG!CallShape
<1>2. /\ pairProc[p].requester \in Halves
      /\ pairProc[p].path = PG!PathOf(pairProc[p].requester.pubkey,
                                      pairProc[p].half.pubkey)
  BY <1>1 DEF PG!Inv, PG!InFlight, PG!InFlightAt, PG!Approving
<1>3. \A h \in Halves : h.pubkey \in Pubkeys
  BY PairingAssumption DEF Half
<1>4. row.requester \in Pubkeys /\ row.owner \in Pubkeys
  BY <1>1, <1>2, <1>3
<1>5. row \in [requester : Pubkeys, owner : Pubkeys]
  BY <1>4
<1>6. PathOf(row.requester, row.owner) = pairProc[p].path
  BY <1>2, SamePaths
<1>7. PathOf(row.requester, row.owner) \in PathIds
  BY <1>4 DEF PathIds
<1> QED BY <1>5, <1>6, <1>7

\* Every step of the relay is one of Mailbox or leaves the mailbox unchanged:
\* an approval is pairing's part of it.
LEMMA MailboxStep ==
    ASSUME SweepOK, PG!Inv, [Next]_vars PROVE [MB!Next]_(MB!vars)
<1> DEFINE Rest == UNCHANGED <<clock, pairs, envelopes, mailProc, crashes, cursor,
                               seen, stored, settled>>
<1>0. Rest /\ UNCHANGED MailSweep => UNCHANGED MB!vars
  BY DEF MB!vars, MailSweep
<1>1. ASSUME NEW p \in MailProcs, mailCall(p) PROVE MB!Next
  BY <1>1 DEF mailCall, MB!Next
<1>2. ASSUME NEW p \in PairProcs, pairCall(p) PROVE [MB!Next]_(MB!vars)
  <2>1. /\ UNCHANGED <<clock, crashes, envelopes, mailProc, cursor, seen, stored,
                       settled, sweep>>
        /\ PF!Handler(p)
    BY <1>2, PairQuiet DEF pairCall, mailbox
  <2>2. UNCHANGED MailSweep
    BY <2>1 DEF MailSweep
  <2>3. CASE UNCHANGED pairs
    BY <1>0, <2>1, <2>2, <2>3
  <2>4. CASE /\ pairProc[p].pc = "insertPair"
             /\ pairs[pairProc[p].path] = Null
             /\ pairs' = [pairs EXCEPT ![pairProc[p].path] =
                   [requester |-> pairProc[p].requester.pubkey,
                    owner |-> pairProc[p].half.pubkey]]
    <3>1. PICK path, row :
            /\ path = pairProc[p].path
            /\ row = [requester |-> pairProc[p].requester.pubkey,
                      owner |-> pairProc[p].half.pubkey]
      OBVIOUS
    <3>2. /\ path \in PathIds /\ row \in [requester : Pubkeys, owner : Pubkeys]
          /\ PathOf(row.requester, row.owner) = path
      BY <2>4, <3>1, InsertActivates
    <3>3. pairs[path] = Null /\ pairs' = [pairs EXCEPT ![path] = row]
      BY <2>4, <3>1
    <3>4. MB!activate(path)
      BY <2>1, <2>2, <3>2, <3>3 DEF MB!activate, MB!clients, MailSweep
    <3> QED BY <3>2, <3>4 DEF MB!Next
  <2> QED BY <2>1, <2>3, <2>4, PairQuiet
<1>3. CASE Tick
  BY <1>3 DEF Tick, mailbox, MB!Next, MB!Tick, MB!clients
<1>4. CASE Crash
  <2>1. MailSweep' = NoSweep
    BY <1>4 DEF Crash, MailSweep, NoSweep
  <2>2. MB!Crash
    BY <1>4, <2>1 DEF Crash, MB!Crash, MB!clients, MailSweep, NoSweep
  <2> QED BY <2>2 DEF MB!Next
<1>5. CASE sweepStart
  <2>1. MailSweep = NoSweep /\ MailSweep' = [pc |-> "evict", now |-> clock]
    BY <1>5 DEF sweepStart, MailSweep
  <2>2. MB!sweepStart
    BY <1>5, <2>1 DEF sweepStart, mailbox, MB!sweepStart, MB!clients, MailSweep, NoSweep
  <2> QED BY <2>2 DEF MB!Next
<1>6. CASE sweepEvict
  <2>1. MailSweep = sweep /\ MailSweep' = NoSweep
    BY <1>6 DEF sweepEvict, MailSweep, SweepOK
  <2>2. MB!sweepEvict
    BY <1>6, <2>1 DEF sweepEvict, MB!sweepEvict, MB!clients, MailSweep, NoSweep
  <2> QED BY <2>2 DEF MB!Next
<1>7. CASE sweepEvictFails
  <2>1. MailSweep = sweep /\ MailSweep' = NoSweep
    BY <1>7 DEF sweepEvictFails, MailSweep, SweepOK
  <2>2. MB!sweepFail
    BY <1>7, <2>1
       DEF sweepEvictFails, mailbox, MB!sweepFail, MB!clients, MailSweep, NoSweep
  <2> QED BY <2>2 DEF MB!Next
<1>8. CASE sweepExpire \/ sweepExpireFails
  <2>1. UNCHANGED MailSweep
    BY <1>8 DEF sweepExpire, sweepExpireFails, MailSweep, NoSweep
  <2> QED BY <1>0, <1>8, <2>1 DEF sweepExpire, sweepExpireFails, mailbox
<1>9. CASE UNCHANGED vars
  BY <1>0, <1>9 DEF vars, mailbox, MailSweep
<1> QED
  BY <1>1, <1>2, <1>3, <1>4, <1>5, <1>6, <1>7, <1>8, <1>9 DEF Next

\* The mailbox inside the relay, whatever pairing writes to the pairs table,
\* behaves as Mailbox specifies.
THEOREM MailboxImplemented == Spec => MailboxSpec
<1>1. Init => MB!Init
  BY DEF Init
<1>2. SweepOK /\ PG!Inv /\ [Next]_vars => [MB!Next]_(MB!vars)
  BY MailboxStep
<1> QED BY <1>1, <1>2, SweepInvariant, PairingInvariant, PTL
        DEF Spec, MailboxSpec, MB!Spec

\* So every call and envelope in the relay is authenticated.
LEMMA MailboxInvariant == Spec => []MG!Base
<1>1. Spec => MG!Spec
  BY MailboxImplemented, SameMailbox DEF MailboxSpec
<1>2. MG!Spec => []MG!Base
  BY MG!BaseInvariant, MailboxAssumed, PTL
<1> QED BY <1>1, <1>2, PTL

-----------------------------------------------------------------------------
(* What takes both parts. *)

\* From the approval on, both keys are known to the mailbox, and what either
\* party writes the other reads.
THEOREM ApprovedUsableHolds == Spec => []ApprovedUsable
<1>1. PG!Inv => ApprovedUsable
  <2> SUFFICES ASSUME PG!Inv, NEW id \in ReqIds, PF!HasStatus(id, "approved"),
                      NEW row, NEW pair, NEW a, NEW b,
                      row = pair_requests[id], pair = pairs[row.path_id],
                      a = MB!Identify(pair, Raw[row.requester.pubkey]),
                      b = MB!Identify(pair, Raw[row.owner_json.half.pubkey])
      PROVE  /\ a # Null /\ b # Null
             /\ Raw[row.requester.pubkey] # Raw[row.owner_json.half.pubkey] =>
                  /\ MB!directionFrom(pair, a) = MB!readDirectionFor(pair, b)
                  /\ MB!directionFrom(pair, b) = MB!readDirectionFor(pair, a)
    BY DEF ApprovedUsable
  <2>1. PG!HasStatus(id, "approved")
    BY DEF PF!HasStatus, PG!HasStatus
  <2>2. row.owner_json # Null /\ pair = PG!PairFor(row)
    BY <2>1 DEF PG!Inv, PG!ApprovedBacked
  <2>3. PICK s, t : s = row.requester.pubkey /\ t = row.owner_json.half.pubkey
    OBVIOUS
  <2>4. pair.requester = s /\ pair.owner = t
    BY <2>2, <2>3 DEF PG!PairFor
  <2>5. s \in Pubkeys /\ t \in Pubkeys
    <3>1. row \in PG!Row
      BY <2>1 DEF PG!Inv, PG!TypeOK, PG!HasStatus
    <3>2. row.requester \in Halves /\ row.owner_json \in PG!OwnerJSON
      BY <2>2, <3>1 DEF PG!Row
    <3>3. row.owner_json.half \in Halves
      BY <3>2 DEF PG!OwnerJSON
    <3> QED BY <2>3, <3>2, <3>3, PairingAssumption DEF Half
  <2>6. s # Null /\ t # Null
    BY <2>5, NullAssumption
  <2>7. a = s /\ b = IF Raw[s] = Raw[t] THEN s ELSE t
    BY <2>3, <2>4 DEF MB!Identify
  <2>8. ASSUME Raw[s] # Raw[t]
        PROVE  /\ MB!directionFrom(pair, a) = MB!readDirectionFor(pair, b)
               /\ MB!directionFrom(pair, b) = MB!readDirectionFor(pair, a)
    <3>1. s # t /\ a = s /\ b = t
      BY <2>7, <2>8
    <3> QED BY <2>4, <3>1 DEF MB!directionFrom, MB!readDirectionFor
  <2> QED BY <2>3, <2>6, <2>7, <2>8
<1> QED BY <1>1, PairingInvariant, PTL

\* No mail without pairing: every envelope was signed with a key of an active
\* pair, whose requester staged a request with a verified signature and whose
\* owner's half, with a verified signature too, approved it.
THEOREM OnlyPairedMailHolds == Spec => []OnlyPairedMail
<1>1. MG!Base /\ PG!VerifiedInv => OnlyPairedMail
  <2> SUFFICES ASSUME MG!Base, PG!VerifiedInv, NEW m \in MsgIds, envelopes[m] # Null,
                      NEW path, path = envelopes[m].path,
                      NEW pair, pair = pairs[path],
                      NEW request, request = pair_requests[origin[path].id],
                      NEW approval, approval = origin[path].half
      PROVE  /\ pair # Null /\ origin[path] \in PF!Origin /\ request # Null
             /\ envelopes[m].by \in {Raw[pair.requester], Raw[pair.owner]}
             /\ request.requester.pubkey = pair.requester
             /\ verifySelfSig(request.requester)
             /\ approval.pubkey = pair.owner
             /\ verifySelfSig(approval)
    BY DEF OnlyPairedMail
  <2>1. MG!Authentic(path, envelopes[m].by)
    BY DEF MG!Base, MG!RowsAuthentic
  <2>2. pair # Null /\ MG!Identify(pair, envelopes[m].by) # Null
    BY <2>1 DEF MG!Authentic, MG!Caller
  <2>3. envelopes[m].by \in {Raw[pair.requester], Raw[pair.owner]}
    BY <2>2 DEF MG!Identify
  <2>4. path \in PathIds
    <3>1. envelopes[m] \in MG!Row
      BY DEF MG!Base, MG!TypeOK
    <3> QED BY <3>1 DEF MG!Row
  <2>5. /\ origin[path] \in PG!Origin /\ request # Null
        /\ request.requester.pubkey = pair.requester
        /\ approval.pubkey = pair.owner /\ PG!Checked(approval)
    BY <2>2, <2>4, SamePaths DEF PG!VerifiedInv, PG!PairsOrigin
  <2>6. origin[path] \in PF!Origin /\ origin[path].id \in ReqIds
    BY <2>5 DEF PG!Origin, PF!Origin
  <2>7. PG!Checked(request.requester)
    BY <2>5, <2>6 DEF PG!VerifiedInv
  <2>8. verifySelfSig(request.requester) /\ verifySelfSig(approval)
    BY <2>5, <2>7 DEF PG!Checked, PG!verifySelfSig, verifySelfSig
  <2> QED BY <2>2, <2>3, <2>5, <2>6, <2>8
<1> QED BY <1>1, MailboxInvariant, PairingInvariant, PTL
=============================================================================
