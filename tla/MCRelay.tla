------------------------------- MODULE MCRelay -------------------------------
(***************************************************************************)
(* A small relay: one request, one message of the requester, a stranger.    *)
(***************************************************************************)
EXTENDS Relay

mcPubkeys == {"A", "B"}
mcRaw == [k \in mcPubkeys |-> IF k = "A" THEN 1 ELSE 2]
V1(key) == [pubkey |-> key, wellFormed |-> TRUE, dh |-> FALSE,
            sig |-> "v1", ts |-> 0]
mcHalves == {V1("A"), V1("B")}

\* And a half that claims a key without a signature of it, to request and to
\* approve with.
mcForgedHalves == mcHalves \cup {[V1("B") EXCEPT !.sig = "bad"]}

\* The requester and a stranger use the same message id.
mcMints ==
    [path \in PathIds |-> [k \in Signers |-> IF k = 2 THEN {} ELSE MsgIds]]
=============================================================================
