------------------------------ MODULE MCMailbox ------------------------------
(***************************************************************************)
(* Instances of Mailbox for TLC: keys 1, 2 and 3, of which 1 pairs with 2   *)
(* on path "ab" and, where the instance says so, with 3 on path "ac".       *)
(***************************************************************************)
EXTENDS Mailbox, TLC

mcPubkeys == {"A", "B", "C"}
mcRaw == [k \in mcPubkeys |-> CASE k = "A" -> 1 [] k = "B" -> 2 [] OTHER -> 3]

mcPairs == [path \in {"ab", "ac", "none"} |->
    CASE path = "ab" -> {[requester |-> "A", owner |-> "B"]}
      [] path = "ac" -> {[requester |-> "A", owner |-> "C"]}
      [] OTHER -> {}]
mcActivatable == [path \in Paths |-> mcPairs[path]]

\* Each side mints its own ids; the stranger tries one too.
mcMints ==
    [path \in Paths |-> [k \in Signers |-> IF k = 1 THEN {1, 3} ELSE {2}]]

\* Two pairs with key 1 in both; on "ac" key 3 uses ids of the other pair.
mcMintsTwoPairs ==
    [path \in Paths |-> [k \in Signers |->
        CASE path = "ab" /\ k = 1 -> {1, 2}
          [] path = "ac" /\ k = 3 -> {1}
          [] OTHER -> {}]]

\* One talkative sender.
mcMintsOne ==
    [path \in Paths |-> [k \in Signers |-> IF k = 1 THEN MsgIds ELSE {}]]

\* Every signer uses every id.
mcMintsShared == [path \in Paths |-> [k \in Signers |-> MsgIds]]

Symmetric == Permutations(Procs)
=============================================================================
