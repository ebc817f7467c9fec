------------------------------ MODULE Gateway -------------------------------
(***************************************************************************)
(* interchange-gateway: internal/gateway, internal/edge and the edges and    *)
(* main of cmd/interchange-gateway.  A request is routed by its longest      *)
(* prefix to a reverse proxy or to an edge with an authentication of its     *)
(* own, its token is verified, its product and audience are checked, the     *)
(* identity headers a client sent are stripped and the verified identity is  *)
(* injected: as X-CWB-* headers on an HTTP lane, as cwb-* metadata on a gRPC  *)
(* lane.  main configures, serves, and drains on a signal.                   *)
(*                                                                          *)
(* External: the token verifier, grpc-gateway (it passes Grpc-Metadata-*     *)
(* headers on as metadata and joins them with its annotator's), net/http     *)
(* and the backends.  A path is the sequence of its segments; "/" is <<"">>. *)
(***************************************************************************)
EXTENDS Naturals, SequencesExt

CONSTANTS
    Segments,      \* the segments of paths
    Routes,        \* INTERCHANGE_ROUTES: [prefix, slash, backend]; slash says
                   \* that the prefix is written with a trailing "/"
    PublicPaths,   \* INTERCHANGE_PUBLIC_PATHS: [path, slash]
    Modes,         \* the values of INTERCHANGE_AUTH_BYPASS
    OrgsLike,      \* path segments that start with "orgs"
    Identities,    \* token -> the identity it proves, Null if it is bad
    Requests,      \* [path, token, forged]: token Null without a bearer,
                   \* forged the header families in which the client
                   \* asserts an identity
    Forged,        \* what the client asserts
    Slots,         \* concurrent calls
    ShutdownTimeout,
    Null

ASSUME RoutesAssumption ==
    /\ {"knowledge", "ledger", "almanac", "mason", "atlas", "cairn", "herald"}
          \subseteq Segments
    /\ \A rt \in Routes : rt.prefix \in Seq(Segments) /\ rt.slash \in BOOLEAN
    /\ \A p \in PublicPaths : p.path \in Seq(Segments) /\ p.slash \in BOOLEAN
ASSUME GatewayAssumption ==
    /\ ShutdownTimeout \in Nat \ {0} /\ Modes \subseteq BOOLEAN
    /\ \A r \in Requests : /\ r.path \in Seq(Segments) /\ r.path # <<>>
                           /\ r.token \in DOMAIN Identities \cup {Null}
    /\ Null \notin DOMAIN Identities /\ Null \notin {0, 1, 143}

VARIABLES
    bypass,    \* AUTH_BYPASS
    table,     \* g.routes: of each prefix the route that is found first
    main,      \* where main is
    ctx,       \* is the signal's context cancelled?
    listener,  \* the server's goroutine
    waited,    \* ticks that Shutdown has waited
    exit,      \* exit code, 143 if killed, Null while running
    call       \* slot -> the call in it

vars == <<bypass, table, main, ctx, listener, waited, exit, call>>

Alive == exit = Null

\* The routes whose handler authenticates on its own, and their products.
Edge(seg, kind, product) ==
    [prefix |-> <<seg>>, kind |-> kind, product |-> product, backend |-> seg]
GRPCHandlers ==
    {Edge("knowledge", "edge", "commonplace"), Edge("ledger", "edge", "ledger"),
     Edge("almanac", "edge", ""), Edge("mason", "edge", ""),
     Edge("atlas", "edge", ""), Edge("cairn", "cairn", "cairn"),
     Edge("herald", "herald", "")}

\* A prefix that is absent here is never gated.
routeProducts(prefix) ==
    CASE prefix = <<"cairn">> -> "cairn"
      [] prefix = <<"ledger">> -> "ledger"
      [] prefix = <<"knowledge">> -> "commonplace"
      [] OTHER -> ""

\* What is left of INTERCHANGE_ROUTES when main has taken the backends of the
\* two composite edges out of it, as reverse-proxy routes.
ProxyRoutes ==
    {[prefix |-> rt.prefix, kind |-> "proxy", backend |-> rt.backend,
      product |-> routeProducts(rt.prefix)] :
        rt \in {x \in Routes : x.slash \/ x.prefix \notin {<<"cairn">>, <<"herald">>}}}

AllRoutes == ProxyRoutes \cup GRPCHandlers
RoutePrefixes == {rt.prefix : rt \in AllRoutes}

-----------------------------------------------------------------------------
(* Routing and the lanes of a route. *)

\* The first route, longest prefix first, that is the path or a parent of it.
match(path) ==
    LET hits == {rt \in table : IsPrefix(rt.prefix, path)} IN
    IF hits = {} THEN Null
    ELSE CHOOSE rt \in hits : \A x \in hits : Len(x.prefix) <= Len(rt.prefix)

\* The path without the prefix, "/" if nothing is left.
Rest(path, prefix) ==
    IF path = prefix THEN <<"">> ELSE SubSeq(path, Len(prefix) + 1, Len(path))

\* An entry with a trailing "/" matches every path under it.
isPublic(path) ==
    \E p \in PublicPaths :
        IF p.slash THEN IsPrefix(p.path, path) /\ Len(path) > Len(p.path)
                   ELSE path = p.path

\* /api/orgs*, /api/humans/* and /api/me.
heraldAdmin(rest) ==
    /\ Len(rest) >= 2 /\ rest[1] = "api"
    /\ \/ rest[2] \in OrgsLike
       \/ rest[2] = "humans" /\ Len(rest) > 2
       \/ rest = <<"api", "me">>

\* Requests that go on without a token.
Tokenless(rt, path) ==
    CASE rt.kind = "proxy" -> bypass \/ isPublic(path)
      [] rt.kind = "herald" -> ~heraldAdmin(Rest(path, rt.prefix))
      [] OTHER -> FALSE

\* Does the request leave as a gRPC call?
GrpcLane(rt, path) ==
    LET rest == Rest(path, rt.prefix) IN
    CASE rt.kind = "proxy" -> FALSE
      [] rt.kind = "edge" -> TRUE
      [] rt.kind = "cairn" -> Len(rest) >= 2 /\ rest[1] = "api"
      [] rt.kind = "herald" -> heraldAdmin(rest)

-----------------------------------------------------------------------------
(* Authorization. *)

\* The zero gateway.Identity: what an edge has when there is no verifier.
ZeroIdentity ==
    [subject |-> "", products |-> {}, human |-> "", audience |-> {}]

\* Mutant of audienceOK: an audience only adds to the products.
audienceOKLoose(id, product) ==
    product = "" \/ id.audience = {} \/ product \in id.audience \cup id.products

\* A token that names audiences is only good for the services it names.
audienceOK(id, product) ==
    product = "" \/ id.audience = {} \/ product \in id.audience

hasProduct(id, product) == product = "" \/ product \in id.products

\* The reverse-proxy lane of internal/gateway does not look at the audience.
Authorized(rt, id) ==
    hasProduct(id, rt.product) /\ (rt.kind = "proxy" \/ audienceOK(id, rt.product))

-----------------------------------------------------------------------------
(* Identity headers.  "subject" stands for org, subject and kind, "products"  *)
(* for scopes and products, "human" for the responsible human.              *)

Fields == {"subject", "products", "human"}
Families == {"X-CWB", "cwb", "Grpc-Metadata"}

\* Mutant of stripSpoofedIdentity: the spelling that grpc-gateway passes on
\* is forgotten.
stripSpoofedIdentityShort(hdr) == hdr \ {"X-CWB", "cwb"}

stripSpoofedIdentity(hdr) == hdr \ {"X-CWB", "cwb", "Grpc-Metadata"}

\* The families of client headers that are left when the lane has stripped.
Stripped(rt, hdr) ==
    CASE rt.kind = "proxy" -> hdr \ {"X-CWB"}
      [] rt.kind = "edge" -> hdr \ {"cwb", "Grpc-Metadata"}
      [] OTHER -> stripSpoofedIdentity(hdr)

\* injectIdentity and injectCWBHeaders: Header.Set replaces what the client
\* sent; the responsible human is set if there is one.
injectIdentity(hdr, id) ==
    [k \in Fields |-> IF k = "human" /\ id.human = ""
                      THEN IF "X-CWB" \in hdr THEN {Forged} ELSE {}
                      ELSE {id[k]}]

\* newGRPCMux's annotator leaves out empty lists and an empty human; what
\* came as Grpc-Metadata-* is joined with it.
annotate(hdr, id) ==
    [k \in Fields |->
        (IF k = "subject" \/ (k = "products" /\ id.products # {})
            \/ (k = "human" /\ id.human # "") THEN {id[k]} ELSE {})
          \cup (IF "Grpc-Metadata" \in hdr THEN {Forged} ELSE {})]

\* A lane without an identity passes on what is left of the client's headers.
passOn(hdr) == [k \in Fields |-> IF "X-CWB" \in hdr THEN {Forged} ELSE {}]

\* Per field, the values that the backend trusts.
Trusted(rt, r, id) ==
    LET hdr == Stripped(rt, r.forged) IN
    IF GrpcLane(rt, r.path) THEN annotate(hdr, id)
    ELSE IF id = Null THEN passOn(hdr) ELSE injectIdentity(hdr, id)

-----------------------------------------------------------------------------
(* A call. *)

NoCall == [pc |-> "idle", req |-> Null, route |-> Null, id |-> Null,
           trusted |-> [k \in Fields |-> {}], resp |-> 0]
Answer(c, code) == call' = [call EXCEPT ![c] = [NoCall EXCEPT !.resp = code]]
InFlight == {c \in Slots : call[c].pc # "idle"}

Init ==
    /\ bypass \in Modes
    /\ table = {}
    /\ main = "boot"
    /\ ctx = FALSE
    /\ listener = "down"
    /\ waited = 0
    /\ exit = Null
    /\ call = [c \in Slots |-> NoCall]

\* Mutant of serve: a path without a route is not answered 404.
serveUnmatched(c) ==
    /\ Alive /\ listener = "up" /\ call[c].pc = "idle"
    /\ \E r \in Requests :
          \/ r.path = <<"healthz">> /\ Answer(c, 200)
          \/ /\ r.path # <<"healthz">>
             /\ call' = [call EXCEPT ![c] =
                    [NoCall EXCEPT !.pc = "auth", !.req = r, !.route = match(r.path)]]
    /\ UNCHANGED <<bypass, table, main, ctx, listener, waited, exit>>

\* The mux answers /healthz; everything else is routed.
serve(c) ==
    /\ Alive /\ listener = "up" /\ call[c].pc = "idle"
    /\ \E r \in Requests :
          LET rt == match(r.path) IN
          \/ r.path = <<"healthz">> /\ Answer(c, 200)
          \/ r.path # <<"healthz">> /\ rt = Null /\ Answer(c, 404)
          \/ /\ r.path # <<"healthz">> /\ rt # Null
             /\ call' = [call EXCEPT ![c] =
                    [NoCall EXCEPT !.pc = "auth", !.req = r, !.route = rt]]
    /\ UNCHANGED <<bypass, table, main, ctx, listener, waited, exit>>

\* Bearer and verifier.  An edge without a verifier takes any token for the
\* zero identity; the verifier may fail on a good token too.
authenticate(c) ==
    /\ Alive /\ call[c].pc = "auth"
    /\ LET r == call[c].req
           rt == call[c].route
           verified(id) == call' = [call EXCEPT ![c].pc = "authorize", ![c].id = id] IN
       \/ Tokenless(rt, r.path) /\ call' = [call EXCEPT ![c].pc = "forward"]
       \/ /\ ~Tokenless(rt, r.path)
          /\ \/ r.token = Null /\ Answer(c, 401)
             \/ r.token # Null /\ bypass /\ verified(ZeroIdentity)
             \/ /\ r.token # Null /\ ~bypass
                /\ \/ Answer(c, 401)
                   \/ Identities[r.token] # Null /\ verified(Identities[r.token])
    /\ UNCHANGED <<bypass, table, main, ctx, listener, waited, exit>>

authorize(c) ==
    /\ Alive /\ call[c].pc = "authorize"
    /\ \/ ~Authorized(call[c].route, call[c].id) /\ Answer(c, 403)
       \/ /\ Authorized(call[c].route, call[c].id)
          /\ call' = [call EXCEPT ![c].pc = "forward"]
    /\ UNCHANGED <<bypass, table, main, ctx, listener, waited, exit>>

\* Strip, inject, and send to the backend.
forward(c) ==
    /\ Alive /\ call[c].pc = "forward"
    /\ call' = [call EXCEPT ![c].pc = "backend",
          ![c].trusted = Trusted(call[c].route, call[c].req, call[c].id)]
    /\ UNCHANGED <<bypass, table, main, ctx, listener, waited, exit>>

\* The backend answers, or the proxy answers 502 for it.
reply(c) ==
    /\ Alive /\ call[c].pc = "backend"
    /\ \E code \in {200, 502} : Answer(c, code)
    /\ UNCHANGED <<bypass, table, main, ctx, listener, waited, exit>>

-----------------------------------------------------------------------------
(* main *)

\* A bad route, no verifier, no certificates, a registration that fails:
\* Fatalf.  Otherwise New sorts the routes by length; which of two with the
\* same prefix comes first depends on the iteration order of the maps.
boot ==
    /\ Alive /\ main = "boot"
    /\ \/ exit' = 1 /\ UNCHANGED <<table, main, listener>>
       \/ /\ table' \in {t \in SUBSET AllRoutes :
                            \A p \in RoutePrefixes : \E rt \in t :
                                \A x \in t : x.prefix = p <=> x = rt}
          /\ main' = "serving"
          /\ listener' = "starting"
          /\ UNCHANGED exit
    /\ UNCHANGED <<bypass, ctx, waited, call>>

\* ListenAndServe binds, or fails and leaves its error in errCh.
listen ==
    /\ Alive
    /\ \/ listener = "starting" /\ listener' \in {"up", "failed"}
       \/ listener = "up" /\ listener' = "failed"
    /\ UNCHANGED <<bypass, table, main, ctx, waited, exit, call>>

\* The first signal cancels ctx.  Before NotifyContext, and after stop(), a
\* signal kills.
signal ==
    /\ Alive
    /\ \/ main = "serving" /\ ~ctx /\ ctx' = TRUE /\ UNCHANGED exit
       \/ main \in {"boot", "drain"} /\ exit' = 143 /\ UNCHANGED ctx
    /\ UNCHANGED <<bypass, table, main, listener, waited, call>>

\* main's select: errCh and ctx.Done, either if both are ready.
fail ==
    /\ Alive /\ main = "serving" /\ listener = "failed"
    /\ exit' = 1
    /\ UNCHANGED <<bypass, table, main, ctx, listener, waited, call>>

drain ==
    /\ Alive /\ main = "serving" /\ ctx
    /\ main' = "drain"
    /\ listener' = "shut"
    /\ UNCHANGED <<bypass, table, ctx, waited, exit, call>>

\* Mutant of shutdown: no deadline.
shutdownForever ==
    /\ Alive /\ main = "drain"
    /\ InFlight = {} /\ exit' = 0
    /\ UNCHANGED <<bypass, table, main, ctx, listener, waited, call>>

\* Shutdown polls: it finds no call left and main returns, or its deadline
\* passes before a poll that does and main ends in Fatalf.
shutdown ==
    /\ Alive /\ main = "drain"
    /\ \/ InFlight = {} /\ exit' = 0
       \/ waited = ShutdownTimeout /\ exit' = 1
    /\ UNCHANGED <<bypass, table, main, ctx, listener, waited, call>>

tick ==
    /\ Alive /\ main = "drain" /\ waited < ShutdownTimeout
    /\ waited' = waited + 1
    /\ UNCHANGED <<bypass, table, main, ctx, listener, exit, call>>

Main == boot \/ fail \/ drain \/ shutdown

Next ==
    \/ Main \/ listen \/ signal \/ tick
    \/ \E c \in Slots : serve(c) \/ authenticate(c) \/ authorize(c)
                            \/ forward(c) \/ reply(c)

Spec == Init /\ [][Next]_vars

\* main and time go on; nothing is assumed of backends and calls.
FairSpec == Spec /\ WF_vars(Main) /\ WF_vars(tick)

-----------------------------------------------------------------------------
(* Properties. *)

\* Type invariant.
TypeOK ==
    /\ bypass \in BOOLEAN
    /\ table \subseteq AllRoutes
    /\ main \in {"boot", "serving", "drain"}
    /\ ctx \in BOOLEAN
    /\ listener \in {"down", "starting", "up", "failed", "shut"}
    /\ waited \in 0 .. ShutdownTimeout
    /\ exit \in {Null, 0, 1, 143}
    /\ \A c \in Slots :
          /\ call[c].pc \in {"idle", "auth", "authorize", "forward", "backend"}
          /\ call[c].pc # "idle" => /\ call[c].req \in Requests
                                    /\ call[c].route \in AllRoutes
          /\ call[c].resp \in {0, 200, 401, 403, 404, 502}

AtBackend == {c \in Slots : call[c].pc = "backend"}

\* Whichever lane a request takes, whatever identity headers it brought and
\* in whichever spelling, the backend trusts only values of the identity that
\* the request's own token proved; the zero values where nothing was proved.
IdentityVerified ==
    \A c \in AtBackend :
        LET id == IF call[c].id = Null THEN ZeroIdentity ELSE call[c].id IN
        /\ \A k \in Fields : call[c].trusted[k] \subseteq {id[k]}
        /\ call[c].id # Null =>
              call[c].id = IF bypass THEN ZeroIdentity
                           ELSE Identities[call[c].req.token]

\* The product that a service belongs to, by the name of its backend.
ProductOf(path) == routeProducts(<<path[1]>>)

\* No request reaches a service of a product without a verified token whose
\* organisation has that product, and whose audience, on an edge, names it:
\* also when a reverse-proxy route shadows an edge or is shadowed by it.  Only
\* the reverse proxy knows public paths and the bypass; an edge lets nothing
\* through for them.
EntitledOnly ==
    \A c \in AtBackend :
        LET r == call[c].req
            product == ProductOf(r.path)
            proxied == call[c].route.kind = "proxy"
            exempt == proxied /\ (bypass \/ isPublic(r.path)) IN
        (product # "" /\ ~exempt) =>
            /\ r.token # Null /\ Identities[r.token] # Null
            /\ product \in Identities[r.token].products
            /\ (~proxied /\ Identities[r.token].audience # {}) =>
                  product \in Identities[r.token].audience

\* The comment on audienceOK: a token that carries an audience may only be
\* used on the route whose service it names.  The reverse-proxy lane verifies
\* the token and the product, and never asks.
AudienceScoped ==
    \A c \in AtBackend :
        LET id == call[c].id
            product == ProductOf(call[c].req.path) IN
        (id # Null /\ product # "" /\ id.audience # {}) => product \in id.audience

\* The comment on the graceful shutdown: what still streams at the deadline is
\* cut and the pod exits 0.  So a drain that finds only calls at their backends
\* does not end in exit code 1; but the error of Shutdown ends in Fatalf.
DrainExitsZero ==
    (main = "drain" /\ InFlight # {} /\ InFlight \subseteq AtBackend) => exit # 1

\* A signal or a failed listener ends the process, though calls may hang.
GatewayStops == (ctx \/ listener = "failed") ~> ~Alive
=============================================================================
