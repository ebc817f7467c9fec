---------------------------- MODULE GatewayProofs ----------------------------
(***************************************************************************)
(* The gateway's guarantees, for any routes, public paths, tokens, requests  *)
(* and number of concurrent calls.                                          *)
(*                                                                          *)
(* The invariant follows one call: the route it was given is the longest     *)
(* that there is for its path, the identity it carries after authentication  *)
(* is the one its own token proves, what it carries to the backend was       *)
(* authorized, and what the backend trusts was computed from that identity.  *)
(***************************************************************************)
EXTENDS Gateway, NatLemmas, TLAPS

Ids == {ZeroIdentity} \cup {Identities[t] : t \in DOMAIN Identities}
Values == {id[k] : id \in Ids, k \in Fields}

CallRecord == [pc : {"idle", "auth", "authorize", "forward", "backend"},
               req : Requests \cup {Null}, route : AllRoutes \cup {Null},
               id : Ids \cup {Null}, trusted : [Fields -> SUBSET Values],
               resp : {0, 200, 401, 403, 404, 502}]

\* The route of a path: a prefix of it, and no route's prefix is a longer one.
Routed(rt, path) ==
    /\ IsPrefix(rt.prefix, path)
    /\ \A p \in RoutePrefixes : IsPrefix(p, path) => Len(p) <= Len(rt.prefix)

\* The identity of a call is the one that its token proves.
Proved(x) ==
    /\ x.req.token # Null
    /\ x.id = IF bypass THEN ZeroIdentity ELSE Identities[x.req.token]
    /\ ~bypass => Identities[x.req.token] # Null

CallOK(x) ==
    /\ x.pc # "idle" => /\ x.req \in Requests /\ x.route \in AllRoutes
                        /\ Routed(x.route, x.req.path)
    /\ x.pc = "auth" => x.id = Null
    /\ x.pc = "authorize" => ~Tokenless(x.route, x.req.path) /\ Proved(x)
    /\ x.pc \in {"forward", "backend"} =>
          \/ Tokenless(x.route, x.req.path) /\ x.id = Null
          \/ /\ ~Tokenless(x.route, x.req.path) /\ Proved(x)
             /\ Authorized(x.route, x.id)
    /\ x.pc = "backend" => x.trusted = Trusted(x.route, x.req, x.id)

\* Every prefix of a route or an edge is in the table that calls are routed by.
Complete == \A p \in RoutePrefixes : \E rt \in table : rt.prefix = p

Inv ==
    /\ TypeOK
    /\ call \in [Slots -> CallRecord]
    /\ \A c \in Slots : CallOK(call[c])
    /\ main # "boot" \/ listener # "down" => Complete

-----------------------------------------------------------------------------
(* Routing, stripping and injecting. *)

\* A path of one segment.
LEMMA OneSegment ==
    ASSUME NEW S, NEW seg \in S PROVE <<seg>> \in Seq(S)
<1>1. <<seg>> = Append(<<>>, seg) OBVIOUS
<1>2. <<>> \in Seq(S) OBVIOUS
<1>3. Append(<<>>, seg) \in Seq(S) BY <1>2
<1> QED BY <1>1, <1>3

\* A path of length one is its only segment.
LEMMA OneLong ==
    ASSUME NEW S, NEW s \in Seq(S), Len(s) = 1 PROVE s = <<s[1]>>
<1>1. s[1] \in S OBVIOUS
<1>2. PICK x \in S : x = s[1] BY <1>1
<1>3. <<x>> \in Seq(S) BY OneSegment
<1>4. Len(<<x>>) = 1 /\ <<x>>[1] = x OBVIOUS
<1>5. \A i \in 1 .. 1 : i = 1 OBVIOUS
<1> QED BY <1>2, <1>3, <1>4, <1>5

\* A path of one segment has none below it.
LEMMA NotLong == ASSUME NEW s, NEW seg, s = <<seg>> PROVE ~(Len(s) > 1)
OBVIOUS

\* A path no shorter than one segment has a first one, and is that segment
\* unless it is longer.
LEMMA OneOrMore ==
    ASSUME NEW S, NEW s \in Seq(S), NEW seg, Len(<<seg>>) <= Len(s)
    PROVE  1 \in 1 .. Len(s) /\ (~(Len(s) > 1) => s = <<s[1]>>)
<1>1. Len(<<seg>>) = 1 OBVIOUS
<1>2. PICK n \in Nat : n = Len(s) /\ 1 <= n BY <1>1
<1>3. 1 \in 1 .. n BY <1>2
<1>4. ASSUME ~(Len(s) > 1) PROVE s = <<s[1]>>
  <2>1. n = 1 BY <1>2, <1>4
  <2> QED BY <1>2, <2>1, OneLong
<1> QED BY <1>2, <1>3, <1>4

\* A prefix has the path's first segments.
LEMMA PrefixFacts ==
    ASSUME NEW s \in Seq(Segments), NEW t \in Seq(Segments)
    PROVE  /\ IsPrefix(s, t) => Len(s) <= Len(t) /\ \A i \in 1 .. Len(s) : s[i] = t[i]
           /\ t # <<>> => IsPrefix(<<t[1]>>, t)
<1>1. ASSUME IsPrefix(s, t)
      PROVE  Len(s) <= Len(t) /\ \A i \in 1 .. Len(s) : s[i] = t[i]
  <2>1. Len(s) <= Len(t) /\ SubSeq(s, 1, Len(s)) = SubSeq(t, 1, Len(s))
    BY <1>1 DEF IsPrefix
  <2>2. ASSUME NEW i \in 1 .. Len(s) PROVE s[i] = t[i]
    <3>1. SubSeq(s, 1, Len(s))[i] = s[i] OBVIOUS
    <3>2. SubSeq(t, 1, Len(s))[i] = t[i] BY <2>1
    <3> QED BY <2>1, <3>1, <3>2
  <2> QED BY <2>1, <2>2
<1>2. ASSUME t # <<>> PROVE IsPrefix(<<t[1]>>, t)
  <2>1. Len(t) \in Nat /\ Len(t) >= 1 BY <1>2
  <2>2. Len(<<t[1]>>) = 1 OBVIOUS
  <2>3. SubSeq(<<t[1]>>, 1, 1) = SubSeq(t, 1, 1) BY <2>1
  <2> QED BY <2>1, <2>2, <2>3 DEF IsPrefix
<1> QED BY <1>1, <1>2

\* The table's routes: product and kind by prefix.
LEMMA RouteFacts ==
    ASSUME NEW rt \in AllRoutes
    PROVE  /\ rt.prefix \in Seq(Segments)
           /\ rt.kind \in {"proxy", "edge", "cairn", "herald"}
           /\ rt.product = routeProducts(rt.prefix)
           /\ rt.kind = "herald" => rt.prefix = <<"herald">>
<1>1. CASE rt \in ProxyRoutes
  BY <1>1, RoutesAssumption DEF ProxyRoutes
<1>2. CASE rt \in GRPCHandlers
  <2>1. \/ rt = Edge("knowledge", "edge", "commonplace")
        \/ rt = Edge("ledger", "edge", "ledger")
        \/ rt = Edge("almanac", "edge", "") \/ rt = Edge("mason", "edge", "")
        \/ rt = Edge("atlas", "edge", "") \/ rt = Edge("cairn", "cairn", "cairn")
        \/ rt = Edge("herald", "herald", "")
    BY <1>2 DEF GRPCHandlers
  <2>2. /\ routeProducts(<<"knowledge">>) = "commonplace"
        /\ routeProducts(<<"ledger">>) = "ledger"
        /\ routeProducts(<<"almanac">>) = "" /\ routeProducts(<<"mason">>) = ""
        /\ routeProducts(<<"atlas">>) = "" /\ routeProducts(<<"cairn">>) = "cairn"
        /\ routeProducts(<<"herald">>) = ""
    BY DEF routeProducts
  <2>3. PICK P, K, G : P = rt.prefix /\ K = rt.kind /\ G = rt.product OBVIOUS
  <2>4. \A seg, kind, product : rt = Edge(seg, kind, product) =>
            P = <<seg>> /\ K = kind /\ G = product
    BY <2>3 DEF Edge
  <2>5. \/ P = <<"knowledge">> /\ K = "edge" /\ G = "commonplace"
        \/ P = <<"ledger">> /\ K = "edge" /\ G = "ledger"
        \/ P = <<"almanac">> /\ K = "edge" /\ G = ""
        \/ P = <<"mason">> /\ K = "edge" /\ G = ""
        \/ P = <<"atlas">> /\ K = "edge" /\ G = ""
        \/ P = <<"cairn">> /\ K = "cairn" /\ G = "cairn"
        \/ P = <<"herald">> /\ K = "herald" /\ G = ""
    BY <2>1, <2>4, Zenon
  <2>6. P \in Seq(Segments)
    <3>1. /\ "knowledge" \in Segments /\ "ledger" \in Segments
          /\ "almanac" \in Segments /\ "mason" \in Segments
          /\ "atlas" \in Segments /\ "cairn" \in Segments /\ "herald" \in Segments
      BY RoutesAssumption
    <3> QED BY <2>5, <3>1, OneSegment, Zenon
  <2>7. G = routeProducts(P) BY <2>2, <2>5
  <2>8. K \in {"edge", "cairn", "herald"} /\ (K = "herald" => P = <<"herald">>)
    BY <2>5
  <2> QED BY <2>3, <2>6, <2>7, <2>8
<1> QED BY <1>1, <1>2 DEF AllRoutes

\* match finds the longest prefix: there is one, prefixes being no longer than
\* the path.
LEMMA MatchFacts ==
    ASSUME table \subseteq AllRoutes, Complete, NEW path \in Seq(Segments),
           match(path) # Null
    PROVE  match(path) \in AllRoutes /\ Routed(match(path), path)
<1>1. PICK hits : hits = {rt \in table : IsPrefix(rt.prefix, path)} OBVIOUS
<1>2. \A rt \in hits : /\ rt \in AllRoutes /\ IsPrefix(rt.prefix, path)
                       /\ Len(rt.prefix) \in Nat /\ Len(rt.prefix) <= Len(path)
  <2> SUFFICES ASSUME NEW rt \in hits
               PROVE  /\ rt \in AllRoutes /\ IsPrefix(rt.prefix, path)
                      /\ Len(rt.prefix) \in Nat /\ Len(rt.prefix) <= Len(path)
    OBVIOUS
  <2>1. rt \in AllRoutes /\ IsPrefix(rt.prefix, path) BY <1>1
  <2>2. PICK P \in Seq(Segments) : P = rt.prefix BY <2>1, RouteFacts
  <2>3. IsPrefix(P, path) BY <2>1, <2>2
  <2>4. Len(P) \in Nat OBVIOUS
  <2>5. Len(P) <= Len(path) BY <2>3, PrefixFacts
  <2> QED BY <2>1, <2>2, <2>4, <2>5
<1>3. /\ hits # {}
      /\ match(path) = CHOOSE rt \in hits : \A x \in hits : Len(x.prefix) <= Len(rt.prefix)
  BY <1>1 DEF match
<1>4. \E rt \in hits : \A x \in hits : Len(x.prefix) <= Len(rt.prefix)
  <2> DEFINE L == {Len(rt.prefix) : rt \in hits}
  <2>1. L \in SUBSET Nat /\ \A l \in L : l <= Len(path) BY <1>2
  <2>2. L # {} BY <1>3
  <2>3. Len(path) \in Nat OBVIOUS
  <2>4. PICK l \in L : \A m \in L : m <= l
    <3> HIDE DEF L
    <3> QED BY <2>1, <2>2, <2>3, HasMax
  <2> QED BY <2>4
<1>5. PICK rt \in hits : rt = match(path) /\ \A x \in hits : Len(x.prefix) <= Len(rt.prefix)
  BY <1>3, <1>4
<1>6. ASSUME NEW p \in RoutePrefixes, IsPrefix(p, path) PROVE Len(p) <= Len(rt.prefix)
  <2>1. PICK x \in table : x.prefix = p BY DEF Complete
  <2>2. x \in hits BY <1>1, <1>6, <2>1
  <2> QED BY <1>5, <2>1, <2>2
<1> QED BY <1>2, <1>5, <1>6 DEF Routed

\* A backend trusts no more than the fields of z.
Sound(T, z) ==
    T = [k \in Fields |-> T[k]] /\ \A k \in Fields : T[k] \subseteq {z[k]}

\* Whatever the client sent, the backend trusts at most the fields of the
\* call's identity: no lane leaves a family of headers that it passes on.
LEMMA TrustedFacts ==
    ASSUME NEW rt \in AllRoutes, NEW r, NEW id, NEW z,
           z = IF id = Null THEN ZeroIdentity ELSE id,
           \/ Tokenless(rt, r.path) /\ id = Null
           \/ ~Tokenless(rt, r.path) /\ z = id
    PROVE  Sound(Trusted(rt, r, id), z)
<1>0. rt.kind \in {"proxy", "edge", "cairn", "herald"} BY RouteFacts
<1>1. PICK hdr : hdr = Stripped(rt, r.forged) OBVIOUS
<1>2. /\ rt.kind # "edge" => "X-CWB" \notin hdr
      /\ rt.kind # "proxy" => "Grpc-Metadata" \notin hdr
  BY <1>0, <1>1 DEF Stripped, stripSpoofedIdentity
<1>3. CASE GrpcLane(rt, r.path)
  <2>1. rt.kind # "proxy" BY <1>0, <1>3 DEF GrpcLane
  <2>2. ~Tokenless(rt, r.path) BY <1>0, <1>3, <2>1 DEF GrpcLane, Tokenless
  <2>3. z = id BY <2>2
  <2>4. Trusted(rt, r, id) = annotate(hdr, id) BY <1>1, <1>3 DEF Trusted
  <2>5. PICK f : f = annotate(hdr, id) OBVIOUS
  <2>6. f = [k \in Fields |-> f[k]] /\ \A k \in Fields : f[k] \subseteq {id[k]}
    BY <1>2, <2>1, <2>5 DEF annotate
  <2> QED BY <2>3, <2>4, <2>5, <2>6 DEF Sound
<1>4. CASE ~GrpcLane(rt, r.path)
  <2>1. rt.kind # "edge" BY <1>4 DEF GrpcLane
  <2>2. "X-CWB" \notin hdr BY <1>2, <2>1
  <2>3. CASE id = Null
    <3>1. PICK f : f = passOn(hdr) OBVIOUS
    <3>2. Trusted(rt, r, id) = f BY <1>1, <1>4, <2>3, <3>1 DEF Trusted
    <3>3. f = [k \in Fields |-> f[k]] /\ \A k \in Fields : f[k] = {}
      BY <2>2, <3>1 DEF passOn
    <3> QED BY <3>2, <3>3 DEF Sound
  <2>4. CASE id # Null
    <3>1. PICK f : f = injectIdentity(hdr, id) OBVIOUS
    <3>2. Trusted(rt, r, id) = f BY <1>1, <1>4, <2>4, <3>1 DEF Trusted
    <3>3. f = [k \in Fields |-> f[k]] /\ \A k \in Fields : f[k] \subseteq {id[k]}
      BY <2>2, <3>1 DEF injectIdentity
    <3> QED BY <2>4, <3>2, <3>3 DEF Sound
  <2> QED BY <2>3, <2>4
<1> QED BY <1>3, <1>4

-----------------------------------------------------------------------------
(* One call. *)

Moves(c, X) == call' = [call EXCEPT ![c] = X]

CallVars == <<bypass, table, main, ctx, listener, waited, exit>>

\* A call is well-formed.
LEMMA CallType ==
    ASSUME NEW x \in CallRecord, NEW X,
           NEW pc \in {"idle", "auth", "authorize", "forward", "backend"},
           NEW req \in Requests \cup {Null}, NEW route \in AllRoutes \cup {Null},
           NEW id \in Ids \cup {Null}, NEW trusted \in [Fields -> SUBSET Values],
           X = [pc |-> pc, req |-> req, route |-> route, id |-> id,
                trusted |-> trusted, resp |-> x.resp]
    PROVE  X \in CallRecord
<1>1. x.resp \in {0, 200, 401, 403, 404, 502} BY DEF CallRecord
<1> QED BY <1>1 DEF CallRecord

\* The fields of a call, by type.
LEMMA CallFields ==
    ASSUME NEW x \in CallRecord
    PROVE  /\ x.req \in Requests \cup {Null} /\ x.route \in AllRoutes \cup {Null}
           /\ x.id \in Ids \cup {Null} /\ x.trusted \in [Fields -> SUBSET Values]
BY DEF CallRecord

\* A free slot is a well-formed call.
LEMMA NoCallFacts ==
    /\ NoCall \in CallRecord /\ NoCall.pc = "idle" /\ NoCall.id = Null
BY DEF NoCall, CallRecord

\* Answer frees the slot.
LEMMA AnswerStep ==
    ASSUME NEW c \in Slots, NEW code \in {200, 401, 403, 404, 502}, Answer(c, code)
    PROVE  \E X \in CallRecord : Moves(c, X) /\ CallOK(X)
<1>1. PICK X : X = [NoCall EXCEPT !.resp = code] OBVIOUS
<1>2. X \in CallRecord /\ X.pc = "idle" BY <1>1, NoCallFacts DEF CallRecord
<1>3. CallOK(X) BY <1>2 DEF CallOK
<1> QED BY <1>1, <1>2, <1>3 DEF Answer, Moves

\* serve: answered, or routed by the longest prefix.
LEMMA ServeStep ==
    ASSUME Inv, NEW c \in Slots, serve(c)
    PROVE  \E X \in CallRecord : Moves(c, X) /\ CallOK(X)
<1>0. listener = "up" /\ table \subseteq AllRoutes /\ Complete
  BY DEF serve, Inv, TypeOK
<1>1. PICK r \in Requests :
        \/ Answer(c, 200) \/ Answer(c, 404)
        \/ /\ match(r.path) # Null
           /\ call' = [call EXCEPT ![c] = [NoCall EXCEPT
                  !.pc = "auth", !.req = r, !.route = match(r.path)]]
  BY DEF serve
<1>2. CASE Answer(c, 200) \/ Answer(c, 404) BY <1>2, AnswerStep
<1>3. CASE /\ match(r.path) # Null
           /\ call' = [call EXCEPT ![c] = [NoCall EXCEPT
                  !.pc = "auth", !.req = r, !.route = match(r.path)]]
  <2>1. PICK rt : rt = match(r.path) OBVIOUS
  <2>2. r.path \in Seq(Segments) BY GatewayAssumption
  <2>3. rt \in AllRoutes /\ Routed(rt, r.path)
    BY <1>0, <1>3, <2>1, <2>2, MatchFacts
  <2>4. PICK X : X = [NoCall EXCEPT !.pc = "auth", !.req = r, !.route = rt] OBVIOUS
  <2>5. /\ X \in CallRecord /\ X.pc = "auth" /\ X.req = r /\ X.route = rt
        /\ X.id = Null
    <3>1. PICK x \in CallRecord : x = NoCall /\ x.id = Null BY NoCallFacts
    <3>2. X = [x EXCEPT !.pc = "auth", !.req = r, !.route = rt] BY <2>4, <3>1
    <3>3. X = [pc |-> "auth", req |-> r, route |-> rt, id |-> x.id,
               trusted |-> x.trusted, resp |-> x.resp]
      BY <3>2 DEF CallRecord
    <3>4. X \in CallRecord BY <2>3, <3>3, CallFields, CallType
    <3> QED BY <3>1, <3>3, <3>4
  <2>6. CallOK(X) BY <2>3, <2>5 DEF CallOK
  <2>7. Moves(c, X) BY <1>3, <2>1, <2>4 DEF Moves
  <2> QED BY <2>5, <2>6, <2>7
<1> QED BY <1>1, <1>2, <1>3

\* authenticate: refused, let through without a token, or verified.
LEMMA AuthenticateStep ==
    ASSUME Inv, NEW c \in Slots, authenticate(c)
    PROVE  \E X \in CallRecord : Moves(c, X) /\ CallOK(X)
<1>0. /\ call \in [Slots -> CallRecord] /\ CallOK(call[c]) /\ call[c].pc = "auth"
      /\ bypass \in BOOLEAN
  BY DEF Inv, TypeOK, authenticate
<1>1. PICK x \in CallRecord : x = call[c] BY <1>0
<1>2. /\ x.req \in Requests /\ x.route \in AllRoutes /\ x.id = Null
      /\ Routed(x.route, x.req.path)
  BY <1>0, <1>1 DEF CallOK
<1>3. \/ Answer(c, 401)
      \/ /\ Tokenless(x.route, x.req.path)
         /\ call' = [call EXCEPT ![c].pc = "forward"]
      \/ \E id : /\ ~Tokenless(x.route, x.req.path) /\ x.req.token # Null
                 /\ id = IF bypass THEN ZeroIdentity ELSE Identities[x.req.token]
                 /\ ~bypass => Identities[x.req.token] # Null
                 /\ call' = [call EXCEPT ![c].pc = "authorize", ![c].id = id]
  BY <1>1 DEF authenticate
<1>4. CASE Answer(c, 401) BY <1>4, AnswerStep
<1>5. CASE /\ Tokenless(x.route, x.req.path)
           /\ call' = [call EXCEPT ![c].pc = "forward"]
  <2>1. PICK X : X = [x EXCEPT !.pc = "forward"] OBVIOUS
  <2>2. /\ X \in CallRecord /\ X.pc = "forward" /\ X.req = x.req
        /\ X.route = x.route /\ X.id = x.id
    BY <2>1 DEF CallRecord
  <2>3. CallOK(X) BY <1>2, <1>5, <2>2 DEF CallOK
  <2>4. Moves(c, X) BY <1>0, <1>1, <1>5, <2>1 DEF Moves
  <2> QED BY <2>2, <2>3, <2>4
<1>6. ASSUME NEW id, ~Tokenless(x.route, x.req.path), x.req.token # Null,
             id = IF bypass THEN ZeroIdentity ELSE Identities[x.req.token],
             ~bypass => Identities[x.req.token] # Null,
             call' = [call EXCEPT ![c].pc = "authorize", ![c].id = id]
      PROVE  \E X \in CallRecord : Moves(c, X) /\ CallOK(X)
  <2>1. x.req.token \in DOMAIN Identities BY <1>2, <1>6, GatewayAssumption
  <2>2. id \in Ids BY <1>6, <2>1 DEF Ids
  <2>3. PICK X : X = [x EXCEPT !.pc = "authorize", !.id = id] OBVIOUS
  <2>4. /\ X \in CallRecord /\ X.pc = "authorize" /\ X.req = x.req
        /\ X.route = x.route /\ X.id = id
    <3>1. X = [pc |-> "authorize", req |-> x.req, route |-> x.route, id |-> id,
               trusted |-> x.trusted, resp |-> x.resp]
      BY <2>3 DEF CallRecord
    <3>2. X \in CallRecord BY <2>2, <3>1, CallFields, CallType
    <3> QED BY <3>1, <3>2
  <2>5. Proved(X) BY <1>6, <2>4 DEF Proved
  <2>6. CallOK(X) BY <1>2, <1>6, <2>4, <2>5 DEF CallOK
  <2>7. Moves(c, X) BY <1>0, <1>1, <1>6, <2>3 DEF Moves
  <2> QED BY <2>4, <2>6, <2>7
<1> QED BY <1>3, <1>4, <1>5, <1>6

\* authorize: refused, or the product and the audience are right.
LEMMA AuthorizeStep ==
    ASSUME Inv, NEW c \in Slots, authorize(c)
    PROVE  \E X \in CallRecord : Moves(c, X) /\ CallOK(X)
<1>0. /\ call \in [Slots -> CallRecord] /\ CallOK(call[c]) /\ call[c].pc = "authorize"
  BY DEF Inv, authorize
<1>1. PICK x \in CallRecord : x = call[c] BY <1>0
<1>2. \/ Answer(c, 403)
      \/ Authorized(x.route, x.id) /\ call' = [call EXCEPT ![c].pc = "forward"]
  BY <1>1 DEF authorize
<1>3. CASE Answer(c, 403) BY <1>3, AnswerStep
<1>4. CASE Authorized(x.route, x.id) /\ call' = [call EXCEPT ![c].pc = "forward"]
  <2>1. PICK X : X = [x EXCEPT !.pc = "forward"] OBVIOUS
  <2>2. /\ X \in CallRecord /\ X.pc = "forward" /\ X.req = x.req
        /\ X.route = x.route /\ X.id = x.id
    BY <2>1 DEF CallRecord
  <2>3. CallOK(X) BY <1>0, <1>1, <1>4, <2>2 DEF CallOK, Proved
  <2>4. Moves(c, X) BY <1>0, <1>1, <1>4, <2>1 DEF Moves
  <2> QED BY <2>2, <2>3, <2>4
<1> QED BY <1>2, <1>3, <1>4

\* What a call on its way to the backend has, as TrustedFacts wants it.
LEMMA ForwardFacts ==
    ASSUME NEW x \in CallRecord, CallOK(x), x.pc \in {"forward", "backend"},
           bypass \in BOOLEAN, NEW z, z = IF x.id = Null THEN ZeroIdentity ELSE x.id
    PROVE  z \in Ids /\ Sound(Trusted(x.route, x.req, x.id), z)
<1>1. x.route \in AllRoutes BY DEF CallOK
<1>2. z \in Ids
  <2>1. x.id \in Ids \cup {Null} BY DEF CallRecord
  <2>2. ZeroIdentity \in Ids BY DEF Ids
  <2> QED BY <2>1, <2>2
<1>3. \/ Tokenless(x.route, x.req.path) /\ x.id = Null
      \/ ~Tokenless(x.route, x.req.path) /\ z = x.id
  <2>1. CASE x.id # Null BY <2>1 DEF CallOK
  <2>2. CASE x.id = Null
    <3>1. ASSUME Proved(x) PROVE x.id = ZeroIdentity BY <2>2, <3>1 DEF Proved
    <3>2. z = ZeroIdentity BY <2>2
    <3> QED BY <2>2, <3>1, <3>2 DEF CallOK
  <2> QED BY <2>1, <2>2
<1>4. PICK rt, r, id : /\ rt \in AllRoutes /\ rt = x.route
                       /\ r = x.req /\ id = x.id
  BY <1>1
<1>5. \/ Tokenless(rt, r.path) /\ id = Null
      \/ ~Tokenless(rt, r.path) /\ z = id
  BY <1>3, <1>4
<1>6. z = IF id = Null THEN ZeroIdentity ELSE id BY <1>4
<1>7. Sound(Trusted(rt, r, id), z)
  BY <1>4, <1>5, <1>6, TrustedFacts
<1> QED BY <1>2, <1>4, <1>7

\* forward: what the backend trusts is computed from the call's identity.
LEMMA ForwardStep ==
    ASSUME Inv, NEW c \in Slots, forward(c)
    PROVE  \E X \in CallRecord : Moves(c, X) /\ CallOK(X)
<1>0. /\ call \in [Slots -> CallRecord] /\ CallOK(call[c]) /\ call[c].pc = "forward"
      /\ bypass \in BOOLEAN
  BY DEF Inv, TypeOK, forward
<1>1. PICK x \in CallRecord : x = call[c] BY <1>0
<1>2. PICK T : T = Trusted(x.route, x.req, x.id) OBVIOUS
<1>3. T \in [Fields -> SUBSET Values]
  <2>1. PICK z : z = IF x.id = Null THEN ZeroIdentity ELSE x.id OBVIOUS
  <2>2. CallOK(x) /\ x.pc \in {"forward", "backend"} BY <1>0, <1>1
  <2>3. z \in Ids BY <1>0, <2>1, <2>2, ForwardFacts
  <2>4. Sound(T, z) BY <1>0, <1>2, <2>1, <2>2, ForwardFacts
  <2>5. \A k \in Fields : z[k] \in Values BY <2>3 DEF Values
  <2>6. \A k \in Fields : T[k] \in SUBSET Values BY <2>4, <2>5 DEF Sound
  <2>7. T = [k \in Fields |-> T[k]] BY <2>4 DEF Sound
  <2> QED BY <2>6, <2>7
<1>4. PICK X : X = [x EXCEPT !.pc = "backend", !.trusted = T] OBVIOUS
<1>5. /\ X \in CallRecord /\ X.pc = "backend" /\ X.req = x.req
      /\ X.route = x.route /\ X.id = x.id /\ X.trusted = T
  <2>1. X = [pc |-> "backend", req |-> x.req, route |-> x.route, id |-> x.id,
             trusted |-> T, resp |-> x.resp]
    BY <1>4 DEF CallRecord
  <2>2. X \in CallRecord BY <1>3, <2>1, CallFields, CallType
  <2> QED BY <2>1, <2>2
<1>6. CallOK(X) BY <1>0, <1>1, <1>2, <1>5 DEF CallOK, Proved
<1>7. Moves(c, X) BY <1>0, <1>1, <1>2, <1>4 DEF forward, Moves
<1> QED BY <1>5, <1>6, <1>7

\* reply: the slot is free again.
LEMMA ReplyStep ==
    ASSUME NEW c \in Slots, reply(c)
    PROVE  \E X \in CallRecord : Moves(c, X) /\ CallOK(X)
<1>1. Answer(c, 200) \/ Answer(c, 502) BY DEF reply
<1> QED BY <1>1, AnswerStep

-----------------------------------------------------------------------------
(* Inv is inductive. *)

Calls(c) == serve(c) \/ authenticate(c) \/ authorize(c) \/ forward(c) \/ reply(c)

\* A step of a call moves that call only, to a state that CallOK allows.
LEMMA CallStep ==
    ASSUME Inv, NEW c \in Slots, Calls(c)
    PROVE  /\ UNCHANGED CallVars /\ Alive
           /\ \E X \in CallRecord : Moves(c, X) /\ CallOK(X)
<1>1. UNCHANGED CallVars /\ Alive
  BY DEF Calls, serve, authenticate, authorize, forward, reply, CallVars
<1> QED BY <1>1, ServeStep, AuthenticateStep, AuthorizeStep, ForwardStep, ReplyStep
        DEF Calls

\* bypass is read once, when the gateway starts.
LEMMA BypassKept ==
    ASSUME [Next]_vars PROVE UNCHANGED bypass
BY DEF Next, Main, boot, fail, drain, shutdown, listen, signal, tick, serve,
       authenticate, authorize, forward, reply, vars

\* So what was established about a call stays true.
LEMMA CallOKKept ==
    ASSUME UNCHANGED bypass, NEW x, CallOK(x) PROVE CallOK(x)'
BY DEF CallOK, Proved, Tokenless

\* Every step keeps every call in order.
LEMMA CallsInductive ==
    ASSUME Inv, [Next]_vars
    PROVE  call' \in [Slots -> CallRecord] /\ \A c \in Slots : CallOK(call[c])'
<1>0. /\ call \in [Slots -> CallRecord] /\ \A c \in Slots : CallOK(call[c])
      /\ UNCHANGED bypass
  BY BypassKept DEF Inv
<1>1. /\ call' \in [Slots -> CallRecord]
      /\ \A c \in Slots : \E X : X = call'[c] /\ CallOK(X)
  <2>1. CASE UNCHANGED call BY <1>0, <2>1
  <2>2. ASSUME NEW c \in Slots, Calls(c)
        PROVE  /\ call' \in [Slots -> CallRecord]
               /\ \A d \in Slots : \E X : X = call'[d] /\ CallOK(X)
    <3>1. PICK X \in CallRecord : Moves(c, X) /\ CallOK(X) BY <2>2, CallStep
    <3>2. call' = [call EXCEPT ![c] = X] BY <3>1 DEF Moves
    <3>3. call' \in [Slots -> CallRecord] BY <1>0, <3>2
    <3>4. \A d \in Slots : call'[d] = IF d = c THEN X ELSE call[d] BY <1>0, <3>2
    <3> QED BY <1>0, <3>1, <3>3, <3>4
  <2> QED BY <2>1, <2>2
    DEF Next, Main, boot, fail, drain, shutdown, listen, signal, tick, Calls, vars
<1>2. ASSUME NEW c \in Slots PROVE CallOK(call[c])'
  <2>1. PICK X : X = call'[c] /\ CallOK(X) BY <1>1
  <2>2. CallOK(X)' BY <1>0, <2>1, CallOKKept
  <2> QED BY <2>1, <2>2
    DEF CallOK, Proved, Tokenless, Routed, Authorized, Trusted
<1> QED BY <1>1, <1>2

\* The table, and what main, its listener and its drain keep.
LEMMA MainInductive ==
    ASSUME Inv, [Next]_vars
    PROVE  /\ bypass' \in BOOLEAN /\ ctx' \in BOOLEAN
           /\ table' \subseteq AllRoutes
           /\ main' \in {"boot", "serving", "drain"}
           /\ listener' \in {"down", "starting", "up", "failed", "shut"}
           /\ waited' \in 0 .. ShutdownTimeout
           /\ exit' \in {Null, 0, 1, 143}
           /\ main' # "boot" \/ listener' # "down" => Complete'
<1> DEFINE Goal ==
           /\ bypass' \in BOOLEAN /\ ctx' \in BOOLEAN
           /\ table' \subseteq AllRoutes
           /\ main' \in {"boot", "serving", "drain"}
           /\ listener' \in {"down", "starting", "up", "failed", "shut"}
           /\ waited' \in 0 .. ShutdownTimeout
           /\ exit' \in {Null, 0, 1, 143}
           /\ main' # "boot" \/ listener' # "down" => Complete'
<1>0. /\ bypass \in BOOLEAN /\ ctx \in BOOLEAN
      /\ table \subseteq AllRoutes
      /\ main \in {"boot", "serving", "drain"}
      /\ listener \in {"down", "starting", "up", "failed", "shut"}
      /\ waited \in 0 .. ShutdownTimeout /\ ShutdownTimeout \in Nat
      /\ exit \in {Null, 0, 1, 143}
      /\ main # "boot" \/ listener # "down" => Complete
  BY GatewayAssumption DEF Inv, TypeOK
<1>1. CASE UNCHANGED CallVars BY <1>0, <1>1 DEF CallVars, Complete
<1>2. CASE boot
  <2>1. UNCHANGED <<bypass, ctx, waited>> BY <1>2 DEF boot
  <2>2. CASE exit' = 1 /\ UNCHANGED <<table, main, listener>>
    BY <1>0, <2>1, <2>2 DEF Complete
  <2>3. CASE /\ table' \in {t \in SUBSET AllRoutes :
                            \A p \in RoutePrefixes : \E rt \in t :
                                \A x \in t : x.prefix = p <=> x = rt}
             /\ main' = "serving" /\ listener' = "starting" /\ UNCHANGED exit
    <3>1. table' \subseteq AllRoutes BY <2>3
    <3>2. \A p \in RoutePrefixes : \E rt \in table' : rt.prefix = p BY <2>3
    <3> QED BY <1>0, <2>1, <2>3, <3>1, <3>2 DEF Complete
  <2> QED BY <1>2, <2>2, <2>3 DEF boot
<1>3. CASE fail \/ shutdown BY <1>0, <1>3 DEF fail, shutdown, Complete
<1>4. CASE drain BY <1>0, <1>4 DEF drain, Complete
<1>5. CASE listen BY <1>0, <1>5 DEF listen, Complete
<1>6. CASE signal
  <2>1. ctx' = TRUE \/ ctx' = ctx BY <1>6 DEF signal
  <2>2. ctx' \in BOOLEAN BY <1>0, <2>1, Zenon
  <2>3. exit' \in {Null, 0, 1, 143} BY <1>0, <1>6 DEF signal
  <2>4. UNCHANGED <<bypass, table, main, listener, waited>> BY <1>6 DEF signal
  <2> QED BY <1>0, <2>2, <2>3, <2>4 DEF Complete
<1>7. CASE tick BY <1>0, <1>7 DEF tick, Complete
<1>8. ASSUME NEW c \in Slots, Calls(c) PROVE UNCHANGED CallVars
  BY <1>8, CallStep
<1> HIDE DEF Goal
<1>9. Goal BY <1>1, <1>2, <1>3, <1>4, <1>5, <1>6, <1>7, <1>8
  DEF Goal, Next, Main, Calls, CallVars, vars
<1> QED BY <1>9 DEF Goal

\* Inv holds in every reachable state.
THEOREM GatewayInvariant == Spec => []Inv
<1>1. Init => Inv
  <2> SUFFICES ASSUME Init PROVE Inv OBVIOUS
  <2>1. call \in [Slots -> CallRecord] /\ \A c \in Slots : call[c] = NoCall
    BY NoCallFacts DEF Init
  <2>2. \A c \in Slots : CallOK(call[c]) BY <2>1, NoCallFacts DEF CallOK
  <2>3. TypeOK
    <3>1. \A c \in Slots :
            /\ call[c].pc = "idle"
            /\ call[c].resp \in {0, 200, 401, 403, 404, 502}
      BY <2>1, NoCallFacts DEF CallRecord
    <3>2. bypass \in BOOLEAN /\ ctx \in BOOLEAN
      <4>1. bypass \in Modes /\ Modes \subseteq BOOLEAN /\ ctx = FALSE
        BY GatewayAssumption DEF Init
      <4> QED BY <4>1, Zenon
    <3>3. 0 \in 0 .. ShutdownTimeout BY GatewayAssumption
    <3> QED BY <3>1, <3>2, <3>3 DEF Init, TypeOK
  <2> QED BY <2>1, <2>2, <2>3 DEF Init, Inv
<1>2. Inv /\ [Next]_vars => Inv'
  <2> SUFFICES ASSUME Inv, [Next]_vars PROVE Inv' OBVIOUS
  <2>1. call' \in [Slots -> CallRecord] /\ \A c \in Slots : CallOK(call[c])'
    BY CallsInductive
  <2>2. \A c \in Slots :
          /\ call'[c].pc \in {"idle", "auth", "authorize", "forward", "backend"}
          /\ call'[c].pc # "idle" => /\ call'[c].req \in Requests
                                     /\ call'[c].route \in AllRoutes
          /\ call'[c].resp \in {0, 200, 401, 403, 404, 502}
    BY <2>1 DEF CallRecord, CallOK
  <2>3. TypeOK' BY <2>2, MainInductive DEF TypeOK
  <2> QED BY <2>1, <2>3, MainInductive DEF Inv
<1> QED BY <1>1, <1>2, PTL DEF Spec

\* The table, the process and every call have their types.
THEOREM TypeCorrect == Spec => []TypeOK
<1>1. Inv => TypeOK BY DEF Inv
<1> QED BY <1>1, GatewayInvariant, PTL

\* Whatever a client sends in whichever spelling, backends are told only what
\* the request's own token proved.
THEOREM IdentityVerifiedHolds == Spec => []IdentityVerified
<1>1. Inv => IdentityVerified
  <2> SUFFICES ASSUME Inv, NEW c \in Slots, call[c].pc = "backend"
               PROVE  /\ \A k \in Fields : call[c].trusted[k] \subseteq
                           {(IF call[c].id = Null THEN ZeroIdentity ELSE call[c].id)[k]}
                      /\ call[c].id # Null =>
                           call[c].id = IF bypass THEN ZeroIdentity
                                        ELSE Identities[call[c].req.token]
    BY DEF IdentityVerified, AtBackend
  <2>1. PICK x \in CallRecord : x = call[c] BY DEF Inv
  <2>2. CallOK(x) /\ x.pc = "backend" /\ bypass \in BOOLEAN
    BY <2>1 DEF Inv, TypeOK
  <2>3. PICK z : z = IF x.id = Null THEN ZeroIdentity ELSE x.id OBVIOUS
  <2>4. Sound(Trusted(x.route, x.req, x.id), z) BY <2>2, <2>3, ForwardFacts
  <2>5. x.trusted = Trusted(x.route, x.req, x.id) BY <2>2 DEF CallOK
  <2>6. \A k \in Fields : x.trusted[k] \subseteq {z[k]} BY <2>4, <2>5 DEF Sound
  <2>7. x.id # Null => x.id = IF bypass THEN ZeroIdentity
                              ELSE Identities[x.req.token]
    BY <2>2 DEF CallOK, Proved
  <2> QED BY <2>1, <2>3, <2>6, <2>7
<1> QED BY <1>1, GatewayInvariant, PTL

-----------------------------------------------------------------------------
(* Entitlement. *)

\* No route is written below the prefix of a service that belongs to a
\* product: routeProducts gates exact prefixes, a longer one would pass it.
NoneBelowGated ==
    \A rt \in Routes : Len(rt.prefix) > 1 => routeProducts(<<rt.prefix[1]>>) = ""

\* Every service of a product has an edge of its own.
LEMMA GatedPrefixes ==
    ASSUME NEW seg, routeProducts(<<seg>>) # ""
    PROVE  <<seg>> \in RoutePrefixes /\ seg # "herald"
<1>1. <<seg>> \in {<<"cairn">>, <<"ledger">>, <<"knowledge">>}
  BY DEF routeProducts
<1>2. seg = "cairn" \/ seg = "ledger" \/ seg = "knowledge" BY <1>1
<1>3. \A e \in GRPCHandlers : e.prefix \in RoutePrefixes
  BY DEF RoutePrefixes, AllRoutes
<1>4. /\ Edge("cairn", "cairn", "cairn") \in GRPCHandlers
      /\ Edge("ledger", "edge", "ledger") \in GRPCHandlers
      /\ Edge("knowledge", "edge", "commonplace") \in GRPCHandlers
  BY DEF GRPCHandlers
<1>5. \A s, k, p : Edge(s, k, p).prefix = <<s>> BY DEF Edge
<1>6. <<"cairn">> \in RoutePrefixes BY <1>3, <1>4, <1>5
<1>7. <<"ledger">> \in RoutePrefixes BY <1>3, <1>4, <1>5
<1>8. <<"knowledge">> \in RoutePrefixes BY <1>3, <1>4, <1>5
<1> QED BY <1>2, <1>6, <1>7, <1>8

\* Routes other than those of INTERCHANGE_ROUTES have one segment.
LEMMA LongRoutes ==
    ASSUME NoneBelowGated, NEW rt \in AllRoutes, Len(rt.prefix) > 1
    PROVE  routeProducts(<<rt.prefix[1]>>) = ""
<1>1. CASE rt \in ProxyRoutes
  <2>1. PICK x \in Routes : rt.prefix = x.prefix BY <1>1 DEF ProxyRoutes
  <2> QED BY <2>1 DEF NoneBelowGated
<1>2. CASE rt \in GRPCHandlers
  <2>1. \E seg, kind, product : rt = Edge(seg, kind, product)
    BY <1>2, Zenon DEF GRPCHandlers
  <2>2. PICK seg : rt.prefix = <<seg>> BY <2>1 DEF Edge
  <2> QED BY <2>2, NotLong, Zenon
<1> QED BY <1>1, <1>2 DEF AllRoutes

\* A path of a product's service is routed by that service's own prefix, hence
\* gated by that product: routes that shadow each other agree on it.
LEMMA RoutedToProduct ==
    ASSUME NoneBelowGated, NEW rt \in AllRoutes, NEW path \in Seq(Segments),
           path # <<>>, Routed(rt, path), ProductOf(path) # ""
    PROVE  rt.product = ProductOf(path) /\ rt.kind # "herald"
<1>1. PICK P \in Seq(Segments) : P = rt.prefix BY RouteFacts
<1>2. PICK seg : seg = path[1] OBVIOUS
<1>3. routeProducts(<<seg>>) # "" BY <1>2 DEF ProductOf
<1>4. <<seg>> \in RoutePrefixes /\ seg # "herald" BY <1>3, GatedPrefixes
<1>5. IsPrefix(<<seg>>, path)
  <2>1. IsPrefix(<<path[1]>>, path) BY PrefixFacts
  <2> QED BY <1>2, <2>1
<1>6. Len(<<seg>>) <= Len(P) BY <1>1, <1>4, <1>5 DEF Routed
<1>7. \A i \in 1 .. Len(P) : P[i] = path[i]
  <2>1. IsPrefix(P, path) BY <1>1 DEF Routed
  <2> QED BY <2>1, PrefixFacts
<1>8. P[1] = seg
  <2>1. 1 \in 1 .. Len(P) BY <1>6, OneOrMore, Zenon
  <2>2. P[1] = path[1] BY <1>7, <2>1, Zenon
  <2> QED BY <1>2, <2>2
<1>9. ~(Len(P) > 1)
  <2>1. Len(P) > 1 => routeProducts(<<P[1]>>) = "" BY <1>1, LongRoutes
  <2> QED BY <1>3, <1>8, <2>1, Zenon
<1>10. P = <<seg>>
  <2>1. P = <<P[1]>> BY <1>6, <1>9, OneOrMore, Zenon
  <2> QED BY <1>8, <2>1, Zenon
<1>11. rt.product = routeProducts(<<seg>>) BY <1>1, <1>10, RouteFacts
<1>12. rt.kind # "herald"
  <2>1. P # <<"herald">> BY <1>4, <1>10
  <2> QED BY <1>1, <2>1, RouteFacts
<1> QED BY <1>2, <1>11, <1>12 DEF ProductOf

\* No request reaches a service of a product without a verified token whose
\* organisation has the product and, on an edge, whose audience names it;
\* whatever routes are configured beside the edges, but none below them.  On
\* an edge neither a public path nor the bypass makes an exception.
THEOREM EntitledOnlyHolds ==
    ASSUME NoneBelowGated PROVE Spec => []EntitledOnly
<1>1. Inv => EntitledOnly
  <2> SUFFICES ASSUME Inv, NEW c \in Slots, call[c].pc = "backend",
                      ProductOf(call[c].req.path) # "",
                      ~(/\ call[c].route.kind = "proxy"
                        /\ bypass \/ isPublic(call[c].req.path))
      PROVE  /\ call[c].req.token # Null /\ Identities[call[c].req.token] # Null
             /\ ProductOf(call[c].req.path) \in Identities[call[c].req.token].products
             /\ (/\ ~(call[c].route.kind = "proxy")
                 /\ Identities[call[c].req.token].audience # {}) =>
                     ProductOf(call[c].req.path)
                        \in Identities[call[c].req.token].audience
    BY DEF EntitledOnly, AtBackend
  <2>1. PICK x \in CallRecord : x = call[c] BY DEF Inv
  <2>2. CallOK(x) /\ x.pc = "backend" BY <2>1 DEF Inv
  <2>3. PICK rt, r, product :
            rt = x.route /\ r = x.req /\ product = ProductOf(x.req.path)
    OBVIOUS
  <2>4. rt \in AllRoutes /\ r \in Requests /\ Routed(rt, r.path)
    BY <2>2, <2>3 DEF CallOK
  <2>5. r.path \in Seq(Segments) /\ r.path # <<>> BY <2>4, GatewayAssumption
  <2>6. /\ product # "" /\ product = ProductOf(r.path)
        /\ rt.kind = "proxy" => ~bypass /\ ~isPublic(r.path)
    BY <2>1, <2>3
  <2>7. rt.product = product /\ rt.kind # "herald"
    BY <2>4, <2>5, <2>6, RoutedToProduct
  <2>8. ~Tokenless(rt, r.path) BY <2>6, <2>7 DEF Tokenless
  <2>9. Proved(x) /\ Authorized(rt, x.id) BY <2>2, <2>3, <2>8 DEF CallOK
  <2>10. product \in x.id.products
    BY <2>6, <2>7, <2>9 DEF Authorized, hasProduct
  \* The zero identity of an edge without a verifier has no product.
  <2>11. ~bypass
    <3>1. ZeroIdentity.products = {} BY DEF ZeroIdentity
    <3> QED BY <2>9, <2>10, <3>1 DEF Proved
  <2>12. PICK id : id = Identities[r.token] OBVIOUS
  <2>13. r.token # Null /\ id # Null /\ x.id = id
    BY <2>3, <2>9, <2>11, <2>12 DEF Proved
  <2>14. (rt.kind # "proxy" /\ id.audience # {}) => product \in id.audience
    BY <2>6, <2>7, <2>9, <2>13 DEF Authorized, audienceOK
  <2> QED BY <2>1, <2>3, <2>10, <2>12, <2>13, <2>14
<1> QED BY <1>1, GatewayInvariant, PTL
=============================================================================
