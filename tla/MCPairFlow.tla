----------------------------- MODULE MCPairFlow -----------------------------
(***************************************************************************)
(* Instances of PairFlow for TLC.  Keys: "B" and "B=" are two spellings of  *)
(* one key, "A" is another.                                                 *)
(***************************************************************************)
EXTENDS PairFlow, TLC

mcPubkeys == {"A", "B", "B="}
mcRaw == [k \in mcPubkeys |-> IF k = "A" THEN 1 ELSE 2]

V1(key, ts) == [pubkey |-> key, wellFormed |-> TRUE, dh |-> FALSE,
                sig |-> "v1", ts |-> ts]
V2(key, ts) == [V1(key, ts) EXCEPT !.dh = TRUE, !.sig = "v2"]

\* Two parties, the owner with two spellings of its key, and every kind of
\* half the checks refuse: a bad shape, an unsigned ECDH key (v1 signature);
\* at some clock values each timestamp is out of window.
mcMixedHalves == {V1("A", 1), V2("B", 3), V2("B=", 3),
                  [V1("A", 1) EXCEPT !.wellFormed = FALSE],
                  [V2("B", 3) EXCEPT !.sig = "v1"]}

\* Two good halves, for the runs about one pair.
mcTwoHalves == {V1("A", 1), V2("B", 1)}

Symmetric == Permutations(Procs) \cup Permutations(ReqIds)
=============================================================================
