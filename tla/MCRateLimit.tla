---------------------------- MODULE MCRateLimit -----------------------------
(* The limiter with one routed rule and the default, a cap of one bucket per *)
(* rule and two clients behind the same hop.                                *)
EXTENDS RateLimit, TLC

mcRoutes == <<[method |-> "POST", paths |-> {"/pair/request"}]>>
mcBurst == [rule \in 0 .. 1 |-> 2 - rule]
mcCost == [rule \in 0 .. 1 |-> 1 + rule]
\* Two clients compete for the routed rule, one also uses the default rule.
mcRequests ==
    [method : {"POST"}, path : {"/pair/request"}, remote : {"hop"},
     xff : {"i", Null}]
      \cup [method : {"GET"}, path : {"/health"}, remote : {"hop"}, xff : {"i"}]
Symmetric == Permutations(Procs)
=============================================================================
