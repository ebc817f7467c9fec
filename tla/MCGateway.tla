----------------------------- MODULE MCGateway ------------------------------
(* A gateway whose routes shadow an edge and are written in two ways, with   *)
(* public paths, and callers with each kind of token.                    *)
EXTENDS Gateway

mcSegments ==
    {"healthz", "other", "app", "v2", "x", "knowledge", "ledger", "issues",
     "almanac", "config", "mason", "atlas", "cairn", "api", "repos", "r.git",
     "herald", "jwks", "orgs", "humans", "me"}

Rt(prefix, slash, backend) ==
    [prefix |-> prefix, slash |-> slash, backend |-> backend]
\* "/cairn" is taken out of the routes, "/ledger/" is not.
mcRoutes == {Rt(<<"cairn">>, FALSE, "git"), Rt(<<"ledger">>, TRUE, "ledger-http"),
             Rt(<<"app">>, FALSE, "app"), Rt(<<"app", "v2">>, FALSE, "app2")}
\* The last one lies under an edge, which does not honour it.
mcPublicPaths == {[path |-> <<"app">>, slash |-> TRUE],
                  [path |-> <<"app", "v2">>, slash |-> FALSE],
                  [path |-> <<"cairn", "r.git">>, slash |-> FALSE]}

Id(products, human, audience) ==
    [subject |-> "agent", products |-> products, human |-> human,
     audience |-> audience]
mcIdentities ==
    [t \in {"full", "none", "jag", "bad"} |->
        CASE t = "full" -> Id({"cairn", "ledger"}, "", {})
          [] t = "none" -> Id({}, "human", {})
          [] t = "jag" -> Id({"cairn", "ledger"}, "human", {"cairn"})
          [] OTHER -> Null]

mcPaths ==
    {<<"healthz">>, <<"other">>, <<"app">>, <<"app", "v2">>, <<"app", "x">>,
     <<"ledger", "issues">>, <<"almanac", "config">>, <<"cairn", "api", "repos">>,
     <<"cairn", "r.git">>, <<"cairn">>, <<"herald", "jwks">>,
     <<"herald", "api", "orgs">>, <<"herald", "api", "humans">>,
     <<"herald", "api", "me">>}
mcRequests ==
    [path : mcPaths, token : {"full", "none", "jag", "bad", Null},
     forged : {{}, {"X-CWB", "cwb", "Grpc-Metadata"}}]
=============================================================================
