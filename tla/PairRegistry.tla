---------------------------- MODULE PairRegistry ----------------------------
(***************************************************************************)
(* What pairing promises, without handlers, statements, clocks or failures. *)
(* A request is staged by a requester key and decided at most once.  A pair *)
(* comes into being for a staged request and an owner key, one per path id, *)
(* and is never altered or removed.  A request is approved only once the    *)
(* pair of ITS requester key is active, and keeps the pair it was granted.  *)
(***************************************************************************)
EXTENDS PairHalf

CONSTANTS
    ReqIds,
    None       \* no key, no pair

VARIABLES
    status,    \* request id -> "none" or its status
    asked,     \* request id -> the requester's key (wire form) or None
    active,    \* the active pairs
    granted    \* request id -> the pair it was approved for, or None

regVars == <<status, asked, active, granted>>

PathOfPair(a) == PathOf(a.requester, a.owner)

RegInit ==
    /\ status = [id \in ReqIds |-> "none"]
    /\ asked = [id \in ReqIds |-> None]
    /\ active = {}
    /\ granted = [id \in ReqIds |-> None]

Stage(id, key) ==
    /\ status[id] = "none"
    /\ status' = [status EXCEPT ![id] = "pending"]
    /\ asked' = [asked EXCEPT ![id] = key]
    /\ UNCHANGED <<active, granted>>

\* The owner's consent to a staged request makes the pair routable.  Its own
\* step: the code writes the pairs row and the request's status separately.
Activate(id, owner) ==
    /\ status[id] # "none"
    /\ \A a \in active : PathOfPair(a) # PathOf(asked[id], owner)
    /\ active' = active \cup {[requester |-> asked[id], owner |-> owner]}
    /\ UNCHANGED <<status, asked, granted>>

Grant(id) ==
    /\ status[id] = "pending"
    /\ \E a \in active :
          /\ a.requester = asked[id]
          /\ granted' = [granted EXCEPT ![id] = a]
    /\ status' = [status EXCEPT ![id] = "approved"]
    /\ UNCHANGED <<asked, active>>

Refuse(id) ==
    /\ status[id] = "pending"
    /\ status' = [status EXCEPT ![id] = "denied"]
    /\ UNCHANGED <<asked, active, granted>>

\* One sweep may expire several requests at once.
Lapse(S) ==
    /\ \A id \in S : status[id] = "pending"
    /\ status' = [id \in ReqIds |-> IF id \in S THEN "expired" ELSE status[id]]
    /\ UNCHANGED <<asked, active, granted>>

RegNext ==
    \/ \E id \in ReqIds :
          \/ \E key \in Pubkeys : Stage(id, key) \/ Activate(id, key)
          \/ Grant(id)
          \/ Refuse(id)
    \/ \E S \in SUBSET ReqIds : Lapse(S)

RegSpec == RegInit /\ [][RegNext]_regVars
=============================================================================
