---------------------------- MODULE MailboxProofs ----------------------------
(***************************************************************************)
(* The mailbox's guarantees, for any number of pairs, signers, messages and  *)
(* concurrent calls.                                                        *)
(*                                                                          *)
(* Base: every call in flight and every envelope row was authenticated       *)
(* against a row of the pairs table, and its direction is the one that row   *)
(* gives its signer.  Rows of the pairs table never change, so a direction   *)
(* computed before an insert, a list or a delete is not stale when it is     *)
(* used.                                                                    *)
(*                                                                          *)
(* Minted: what follows if a message id is minted by one signer for one pair *)
(* (MintedOnce).  The code needs it because msg_id alone is the primary key. *)
(*                                                                          *)
(* Ordered: what follows if senders put in the order of their ids           *)
(* (Disciplined).  Nothing is then inserted at or below a cursor that its    *)
(* reader has not had, whatever is acked, evicted, refused or lost.          *)
(***************************************************************************)
EXTENDS Mailbox, NatLemmas, FiniteSetTheorems, TLAPS

\* The direction in which signer k writes to, and reads from, a path.
Writes(path, k) == directionFrom(pairs[path], Caller(path, k))
Reads(path, k) == readDirectionFor(pairs[path], Caller(path, k))
Authentic(path, k) == pairs[path] # Null /\ Caller(path, k) # Null

PairsGiven == \A path \in Paths : pairs[path] # Null => pairs[path] \in Activatable[path]

\* A call in flight: who made it, and the direction it was given.
Shaped(c) ==
    /\ c.pc = "insert" => c.op = "put" /\ \E m \in MsgIds : c.ids = {m}
    /\ c.pc = "list" => c.op = "get"
    /\ c.pc \in {"ackList", "delete"} => c.op = "ack"
    /\ c.pc = "done" => c.resp \in Response
    /\ c.op # "none" =>
          /\ c.path \in Paths /\ c.by \in Signers /\ Authentic(c.path, c.by)
          /\ c.dir = IF c.op = "put" THEN Writes(c.path, c.by)
                     ELSE Reads(c.path, c.by)

\* Every item of a page was written in the direction that the page lists.
PageAuthentic(c) ==
    (c.pc = "done" /\ c.op = "get") =>
        \A item \in c.resp.page : /\ Authentic(c.path, item.by)
                                  /\ c.dir = Writes(c.path, item.by)

CallsAuthentic == \A p \in Procs : Shaped(proc[p]) /\ PageAuthentic(proc[p])

\* Every envelope row was written by a half of its pair, in its direction.
RowsAuthentic ==
    \A m \in MsgIds : envelopes[m] # Null =>
        /\ Authentic(envelopes[m].path, envelopes[m].by)
        /\ envelopes[m].dir = Writes(envelopes[m].path, envelopes[m].by)

\* Readings of the clock are not in its future; arrival times are truncated.
Times ==
    /\ clock <= MaxTime
    /\ sweeper.now <= clock
    /\ \A m \in MsgIds : envelopes[m] # Null =>
          envelopes[m].received_at = formatTime(envelopes[m].at)

Base == TypeOK /\ PairsGiven /\ CallsAuthentic /\ RowsAuthentic /\ Times

\* The ids that the writers of an inbox mint.
IdsOf(i) ==
    UNION {Mints[i[1]][k] : k \in {j \in Signers : /\ Authentic(i[1], j)
                                                   /\ Writes(i[1], j) = i[2]}}

\* Ids in the table, in a put and in a delete belong to their inbox, and what
\* is in the table was stored under its inbox.
MintedCall(c) ==
    /\ c.op = "put" => c.ids \subseteq Mints[c.path][c.by]
    /\ c.pc = "delete" => c.ids \subseteq IdsOf(<<c.path, c.dir>>)
    /\ c.op = "put" /\ c.pc = "done" =>
          \A m \in c.ids : <<m, c.path, c.dir>> \in stored

Minted ==
    /\ \A m \in MsgIds : envelopes[m] # Null =>
          /\ m \in Mints[envelopes[m].path][envelopes[m].by]
          /\ <<m, envelopes[m].path, envelopes[m].dir>> \in stored
    /\ \A p \in Procs : MintedCall(proc[p])

\* Every smaller id of the same writer is settled.
After(path, k, m) == \A n \in Mints[path][k] : n < m => <<path, k, n>> \in settled

\* Whoever has had known has had all of the inbox up to c, and will have: c is
\* an id that the inbox's writer put when every smaller one was settled.
Reached(path, dir, c, known) ==
    /\ c # 0 =>
          /\ c \in known
          /\ \E k \in Signers : /\ Authentic(path, k) /\ Writes(path, k) = dir
                                /\ After(path, k, c)
    /\ \A n \in Inbox(path, dir) : n <= c => n \in known

\* A put in progress is the next of its sender, and not settled before it is
\* inserted.  A get starts where its reader has been, and ends where the page
\* takes it.
OrderedCall(c) ==
    LET had == seen[<<c.path, c.dir>>] IN
    /\ c.op = "put" => \A m \in c.ids :
          /\ m \in Mints[c.path][c.by] /\ After(c.path, c.by, m)
          /\ c.pc = "insert" => <<c.path, c.by, m>> \notin settled
    /\ c.pc = "list" => Reached(c.path, c.dir, c.since, had)
    /\ c.op = "get" /\ c.pc = "done" /\ c.resp.page # {} =>
          Reached(c.path, c.dir, c.resp.cursor,
                  had \cup {item.msg : item \in c.resp.page})

\* No other call puts for the same sender and pair.
Alone(p, path, k) ==
    \A q \in Procs : (/\ proc[q].op = "put" /\ proc[q].path = path
                      /\ proc[q].by = k) => q = p

Ordered ==
    /\ \A m \in MsgIds : envelopes[m] # Null =>
          After(envelopes[m].path, envelopes[m].by, m)
    /\ \A path \in Paths, dir \in Directions :
          Reached(path, dir, cursor[<<path, dir>>], seen[<<path, dir>>])
    /\ \A p \in Procs : OrderedCall(proc[p])
    /\ \A p \in Procs : proc[p].op = "put" => Alone(p, proc[p].path, proc[p].by)

-----------------------------------------------------------------------------
(* The operators. *)

\* ORDER BY ... LIMIT: the first l elements of a set of numbers have a last
\* one, and leave out none that is smaller than one of theirs.
LEMMA FirstElements ==
    ASSUME NEW S \in SUBSET Nat, NEW l \in Nat, NEW P,
           P = {m \in S : Cardinality({n \in S : n < m}) < l}
    PROVE  /\ P # {} => \E x \in P : \A y \in P : y <= x
           /\ \A m \in P, n \in S : n < m => n \in P
<1> DEFINE Below(m) == {n \in S : n < m}
           Rank(m) == Cardinality(Below(m))
<1>1. ASSUME NEW m \in S PROVE IsFiniteSet(Below(m)) /\ Rank(m) \in Nat
  <2>1. m \in Nat /\ Below(m) \in SUBSET Nat OBVIOUS
  <2>2. \A n \in Below(m) : n <= m OBVIOUS
  <2> HIDE DEF Below
  <2>3. IsFiniteSet(Below(m)) BY <2>1, <2>2, FS_BoundedSetOfNaturals
  <2> QED BY <2>3, FS_CardinalityType
<1>2. ASSUME NEW m \in S, NEW n \in S, n < m PROVE Rank(n) < Rank(m)
  <2>1. n \in Nat /\ m \in Nat OBVIOUS
  <2>2. n \notin Below(n) BY <2>1
  <2>3. IsFiniteSet(Below(n)) /\ Rank(n) \in Nat BY <1>1
  <2>4. Cardinality(Below(n) \cup {n}) = Rank(n) + 1
    BY <2>2, <2>3, FS_AddElement
  <2>5. Below(n) \cup {n} \in SUBSET Below(m)
    <3>1. \A x \in Nat : x < n => x < m BY <1>2, <2>1
    <3>2. \A x \in S : x \in Nat OBVIOUS
    <3> QED BY <1>2, <3>1, <3>2, Zenon
  <2>6. IsFiniteSet(Below(m)) /\ Rank(m) \in Nat BY <1>1
  <2>7. Cardinality(Below(n) \cup {n}) <= Rank(m)
    BY <2>5, <2>6, FS_Subset
  <2> QED BY <2>3, <2>4, <2>6, <2>7
<1>3. \A m : m \in P <=> m \in S /\ Rank(m) < l
  OBVIOUS
<1> HIDE DEF Rank
<1>4. ASSUME P # {} PROVE \E x \in P : \A y \in P : y <= x
  <2> DEFINE T == {Rank(m) : m \in P}
  <2>1. \A m \in P : Rank(m) \in Nat /\ Rank(m) <= l BY <1>1, <1>3
  <2>2. T \in SUBSET Nat /\ \A t \in T : t <= l BY <2>1
  <2>3. T # {} BY <1>4
  <2>4. PICK t \in T : \A u \in T : u <= t
    <3> HIDE DEF T
    <3> QED BY <2>2, <2>3, HasMax
  <2>5. PICK x \in P : t = Rank(x) OBVIOUS
  <2>6. ASSUME NEW y \in P PROVE y <= x
    <3>1. Rank(y) <= Rank(x) BY <2>4, <2>5
    <3>2. x \in S /\ y \in S /\ x \in Nat /\ y \in Nat BY <1>3
    <3>3. Rank(x) \in Nat /\ Rank(y) \in Nat BY <2>1
    <3>4. x < y => Rank(x) < Rank(y) BY <1>2, <3>2
    <3> QED BY <3>1, <3>2, <3>3, <3>4
  <2> QED BY <2>6
<1>5. ASSUME NEW m \in P, NEW n \in S, n < m PROVE n \in P
  <2>1. m \in S /\ Rank(m) < l BY <1>3
  <2>2. Rank(n) < Rank(m) BY <1>2, <1>5, <2>1
  <2>3. Rank(n) \in Nat /\ Rank(m) \in Nat BY <1>1, <2>1
  <2> QED BY <1>3, <2>1, <2>2, <2>3
<1> QED BY <1>4, <1>5

\* ListEnvelopes returns rows of the inbox beyond the cursor, skips none, and
\* the last id of a page that has one is the next cursor.
LEMMA ListFacts ==
    ASSUME NEW path, NEW dir, NEW since \in Nat, NEW page,
           page = ListEnvelopes(path, dir, since)
    PROVE  /\ page \subseteq Inbox(path, dir)
           /\ Last(page) \in MsgIds \cup {0}
           /\ page # {} => Last(page) \in page
           /\ \A n \in page : n <= Last(page)
           /\ \A m \in page, n \in Inbox(path, dir) :
                 since < n /\ n < m => n \in page
<1> DEFINE newer == {m \in Inbox(path, dir) : m > since}
<1>1. page = {m \in newer : Cardinality({n \in newer : n < m}) < ListLimit}
  BY DEF ListEnvelopes
<1>2. Inbox(path, dir) \subseteq MsgIds /\ MsgIds \subseteq Nat
  BY IdsAssumption DEF Inbox
<1>3. newer \in SUBSET Nat /\ newer \subseteq Inbox(path, dir) BY <1>2
<1>4. ListLimit \in Nat BY BoundsAssumption
<1>5. \A n \in Inbox(path, dir) : since < n => n \in newer BY <1>2
<1> HIDE DEF newer
<1>6. /\ page # {} => \E x \in page : \A y \in page : y <= x
      /\ \A m \in page, n \in newer : n < m => n \in page
  BY <1>1, <1>3, <1>4, FirstElements
<1>7. page \subseteq newer BY <1>1
<1>8. ASSUME page # {} PROVE Last(page) \in page /\ \A n \in page : n <= Last(page)
  BY <1>6, <1>8 DEF Last
<1>9. Last(page) \in MsgIds \cup {0}
  BY <1>2, <1>3, <1>7, <1>8 DEF Last
<1> QED BY <1>3, <1>5, <1>6, <1>7, <1>8, <1>9

\* directionFrom and readDirectionFor: what one half reads the other wrote.
\* Nobody reads what its own key wrote, even if a nexus was paired with itself.
LEMMA PeerDirection ==
    ASSUME NEW pair \in PairRow, NEW j \in Nat, NEW k \in Nat,
           Identify(pair, j) # Null, Identify(pair, k) # Null,
           directionFrom(pair, Identify(pair, j))
             = readDirectionFor(pair, Identify(pair, k))
    PROVE  {j, k} = {Raw[pair.requester], Raw[pair.owner]}
BY DEF Identify, directionFrom, readDirectionFor

\* A direction belongs to one writer.
LEMMA OneWriter ==
    ASSUME NEW pair \in PairRow, NEW j \in Nat, NEW k \in Nat,
           Identify(pair, j) # Null, Identify(pair, k) # Null,
           directionFrom(pair, Identify(pair, j))
             = directionFrom(pair, Identify(pair, k))
    PROVE  j = k
BY DEF Identify, directionFrom

\* An authenticated caller has a direction to write and one to read, and its
\* key is one of the pair's.
LEMMA DirectionType ==
    ASSUME NEW path, NEW k, pairs[path] \in PairRow, Authentic(path, k)
    PROVE  /\ Writes(path, k) \in Directions /\ Reads(path, k) \in Directions
           /\ k \in {Raw[pairs[path].requester], Raw[pairs[path].owner]}
BY DEF Authentic, Caller, Identify, Writes, Reads, directionFrom,
       readDirectionFor, Directions

\* formatTime is a whole number and keeps the order.
LEMMA FormatFacts ==
    /\ \A t \in Int : formatTime(t) \in Int
    /\ \A s, t \in Int : s <= t => formatTime(s) <= formatTime(t)
<1>1. TicksPerSecond \in Nat \ {0} BY BoundsAssumption
<1>2. \A t \in Int : formatTime(t) \in Int BY <1>1, DivMod DEF formatTime
<1>3. \A s, t \in Int : s <= t => formatTime(s) <= formatTime(t)
  BY <1>1, DivMonotone DEF formatTime
<1> QED BY <1>2, <1>3

-----------------------------------------------------------------------------
(* What each step of a handler does to its own call. *)

Moves(p, X) == proc' = [proc EXCEPT ![p] = X]

\* A call that was refused; a call that goes on, or is answered, as it was.
Refused(X) == X.pc = "done" /\ X.op = "none" /\ X.resp \in Response
Same(p, X) ==
    /\ X.op = proc[p].op /\ X.path = proc[p].path /\ X.by = proc[p].by
    /\ X.dir = proc[p].dir /\ X.since = proc[p].since
Answered(p, X) ==
    Same(p, X) /\ X.ids = proc[p].ids /\ X.pc = "done" /\ X.resp \in Response

\* A call that has just been authenticated.
Opened(X, op) ==
    /\ X.op = op /\ X.path \in Paths /\ X.by \in Signers
    /\ Authentic(X.path, X.by)
    /\ X.dir \in Directions
    /\ X.dir = IF op = "put" THEN Writes(X.path, X.by) ELSE Reads(X.path, X.by)

\* A cursor is a number, 0 for none.
LEMMA CursorType == \A x \in MsgIds \cup {0} : x \in Nat
<1>1. \A x \in MsgIds : x \in Nat BY IdsAssumption
<1> QED BY <1>1

\* An answer is well-formed.
LEMMA AnswerType ==
    ASSUME NEW code \in Nat, NEW page \in SUBSET Item, NEW cur \in MsgIds \cup {0}
    PROVE  Answer(code, page, cur) \in Response
BY DEF Answer, Response

\* The locals of a call are well-formed.
LEMMA HoldingType ==
    ASSUME NEW pc \in {"idle", "insert", "list", "ackList", "delete", "done"},
           NEW op \in {"none", "put", "get", "ack"},
           NEW path \in Paths \cup {Null}, NEW by \in Signers \cup {Null},
           NEW dir \in Directions \cup {Null}, NEW ids \in SUBSET MsgIds,
           NEW since \in MsgIds \cup {0}, NEW now \in Nat,
           NEW resp \in Response \cup {Null}
    PROVE  Holding(pc, op, path, by, dir, ids, since, now, resp) \in Local
BY DEF Holding, Local

\* An unused slot.
LEMMA IdleFacts == Idle \in Local /\ Idle.pc = "idle" /\ Idle.op = "none"
<1>1. Idle \in Local BY HoldingType DEF Idle
<1> QED BY <1>1 DEF Idle, Holding

\* Refuse drops the call.
LEMMA RefuseStep ==
    ASSUME NEW p \in Procs, NEW code \in Nat, Refuse(p, code)
    PROVE  \E X \in Local : Moves(p, X) /\ Refused(X)
<1>1. PICK X : X = Holding("done", "none", Null, Null, Null, {}, 0, 0,
                           Answer(code, {}, 0))
  OBVIOUS
<1>2. Answer(code, {}, 0) \in Response BY AnswerType
<1>3. X \in Local BY <1>1, <1>2, HoldingType
<1>4. Refused(X) BY <1>1, <1>2 DEF Refused, Holding
<1> QED BY <1>1, <1>3, <1>4 DEF Refuse, Moves

\* Reply keeps the call and adds the answer.
LEMMA ReplyStep ==
    ASSUME proc \in [Procs -> Local], NEW p \in Procs,
           NEW r \in Response, Reply(p, r)
    PROVE  \E X \in Local : Moves(p, X) /\ Answered(p, X) /\ X.resp = r
<1>1. PICK X : X = Holding("done", proc[p].op, proc[p].path, proc[p].by,
                           proc[p].dir, proc[p].ids, proc[p].since, 0, r)
  OBVIOUS
<1>2. proc[p] \in Local OBVIOUS
<1>3. X \in Local
  <2>1. /\ proc[p].op \in {"none", "put", "get", "ack"}
        /\ proc[p].path \in Paths \cup {Null}
        /\ proc[p].by \in Signers \cup {Null}
        /\ proc[p].dir \in Directions \cup {Null}
        /\ proc[p].ids \in SUBSET MsgIds
        /\ proc[p].since \in MsgIds \cup {0}
    BY <1>2 DEF Local
  <2> QED BY <1>1, <2>1, HoldingType
<1>4. Answered(p, X) /\ X.resp = r
  BY <1>1 DEF Answered, Same, Holding
<1> QED BY <1>1, <1>3, <1>4 DEF Reply, Moves

\* put: refused, or authenticated with one id of the caller's.
LEMMA PutStep ==
    ASSUME Base, NEW p \in Procs, put(p)
    PROVE  \E X \in Local :
              /\ Moves(p, X)
              /\ \/ Refused(X)
                 \/ /\ Opened(X, "put") /\ X.pc = "insert" /\ X.now = clock
                    /\ \E m \in Mints[X.path][X.by] :
                          X.ids = {m} /\ InTurn(X.path, X.by, m)
<1>0. proc \in [Procs -> Local] /\ clock \in Nat BY DEF Base, TypeOK
<1>1. PICK path \in Paths, k \in Signers, ts \in Timestamps, valid \in BOOLEAN :
        \E m \in Mints[path][k] :
          /\ InTurn(path, k, m)
          /\ IF pairs[path] = Null THEN Refuse(p, 404)
             ELSE IF ~Acceptable(valid, ts, clock) THEN Refuse(p, 400)
             ELSE IF Caller(path, k) = Null THEN Refuse(p, 401)
             ELSE proc' = [proc EXCEPT ![p] =
                    Holding("insert", "put", path, k,
                            directionFrom(pairs[path], Caller(path, k)),
                            {m}, 0, clock, Null)]
  BY DEF put
<1>2. PICK m \in Mints[path][k] :
          /\ InTurn(path, k, m)
          /\ \/ Refuse(p, 404) \/ Refuse(p, 400) \/ Refuse(p, 401)
             \/ /\ Authentic(path, k)
                /\ proc' = [proc EXCEPT ![p] =
                    Holding("insert", "put", path, k, Writes(path, k),
                            {m}, 0, clock, Null)]
  BY <1>1 DEF Authentic, Writes
<1>3. CASE Refuse(p, 404) \/ Refuse(p, 400) \/ Refuse(p, 401)
  BY <1>3, RefuseStep
<1>4. CASE /\ Authentic(path, k)
           /\ proc' = [proc EXCEPT ![p] =
                Holding("insert", "put", path, k, Writes(path, k),
                        {m}, 0, clock, Null)]
  <2>1. PICK X : X = Holding("insert", "put", path, k, Writes(path, k),
                             {m}, 0, clock, Null)
    OBVIOUS
  <2>2. pairs[path] \in PairRow BY <1>4 DEF Base, TypeOK, Authentic
  <2>3. Writes(path, k) \in Directions BY <1>4, <2>2, DirectionType
  <2>4. {m} \in SUBSET MsgIds BY IdsAssumption
  <2>5. X \in Local BY <1>0, <2>1, <2>3, <2>4, HoldingType
  <2>6. /\ X.pc = "insert" /\ X.op = "put" /\ X.path = path /\ X.by = k
        /\ X.dir = Writes(path, k) /\ X.ids = {m} /\ X.now = clock
    BY <2>1 DEF Holding
  <2>7. Opened(X, "put") BY <1>4, <2>3, <2>6 DEF Opened
  <2> QED BY <1>2, <1>4, <2>1, <2>5, <2>6, <2>7 DEF Moves
<1> QED BY <1>2, <1>3, <1>4

\* InsertEnvelope: stored and accepted, a duplicate, or an error.
LEMMA InsertStep ==
    ASSUME Base, NEW p \in Procs, InsertEnvelope(p)
    PROVE  \E X \in Local, m \in MsgIds, row \in Row :
              /\ Moves(p, X)
              /\ proc[p].op = "put" /\ proc[p].ids = {m}
              /\ row.path = proc[p].path /\ row.dir = proc[p].dir
              /\ row.by = proc[p].by /\ row.received_at = formatTime(row.at)
              /\ \/ Refused(X) /\ UNCHANGED <<envelopes, stored>>
                 \/ /\ Answered(p, X) /\ envelopes[m] # Null
                    /\ UNCHANGED <<envelopes, stored>>
                 \/ /\ Answered(p, X) /\ envelopes[m] = Null
                    /\ envelopes' = [envelopes EXCEPT ![m] = row]
                    /\ stored' = stored \cup {<<m, row.path, row.dir>>}
<1>0. proc \in [Procs -> Local] /\ proc[p] \in Local BY DEF Base, TypeOK
<1>1. /\ proc[p].op = "put" /\ proc[p].path \in Paths /\ proc[p].by \in Signers
      /\ Authentic(proc[p].path, proc[p].by)
      /\ proc[p].dir = Writes(proc[p].path, proc[p].by)
      /\ \E m \in MsgIds : proc[p].ids = {m}
  BY DEF InsertEnvelope, Base, CallsAuthentic, Shaped
<1>2. PICK m \in MsgIds : proc[p].ids = {m} BY <1>1
<1>3. pairs[proc[p].path] \in PairRow BY <1>1 DEF Base, TypeOK, Authentic
<1>4. proc[p].dir \in Directions BY <1>1, <1>3, DirectionType
<1>5. proc[p].now \in Nat /\ formatTime(proc[p].now) \in Int
  BY <1>0, FormatFacts DEF Local
<1>6. PICK row : row = [path |-> proc[p].path, dir |-> proc[p].dir,
                        received_at |-> formatTime(proc[p].now),
                        at |-> proc[p].now, by |-> proc[p].by]
  OBVIOUS
<1>7. row \in Row BY <1>1, <1>4, <1>5, <1>6 DEF Row
<1>8. /\ row.path = proc[p].path /\ row.dir = proc[p].dir
      /\ row.by = proc[p].by /\ row.received_at = formatTime(row.at)
  BY <1>6
<1>9. \/ /\ envelopes[m] = Null
         /\ envelopes' = [envelopes EXCEPT ![m] = row]
         /\ stored' = stored \cup {<<m, row.path, row.dir>>}
         /\ Reply(p, Answer(202, {}, 0))
      \/ /\ envelopes[m] # Null
         /\ Reply(p, Answer(409, {}, 0))
         /\ UNCHANGED <<envelopes, stored>>
      \/ Refuse(p, 500) /\ UNCHANGED <<envelopes, stored>>
  BY <1>2, <1>6, <1>8 DEF InsertEnvelope
<1>10. Answer(202, {}, 0) \in Response /\ Answer(409, {}, 0) \in Response
  BY AnswerType
<1>11. PICK X \in Local :
         /\ Moves(p, X)
         /\ \/ Refused(X) /\ UNCHANGED <<envelopes, stored>>
            \/ /\ Answered(p, X) /\ envelopes[m] # Null
               /\ UNCHANGED <<envelopes, stored>>
            \/ /\ Answered(p, X) /\ envelopes[m] = Null
               /\ envelopes' = [envelopes EXCEPT ![m] = row]
               /\ stored' = stored \cup {<<m, row.path, row.dir>>}
  <2>1. CASE Refuse(p, 500) /\ UNCHANGED <<envelopes, stored>>
    BY <2>1, RefuseStep
  <2>2. CASE Reply(p, Answer(409, {}, 0)) /\ envelopes[m] # Null
             /\ UNCHANGED <<envelopes, stored>>
    BY <1>0, <1>10, <2>2, ReplyStep
  <2>3. CASE /\ Reply(p, Answer(202, {}, 0)) /\ envelopes[m] = Null
             /\ envelopes' = [envelopes EXCEPT ![m] = row]
             /\ stored' = stored \cup {<<m, row.path, row.dir>>}
    BY <1>0, <1>10, <2>3, ReplyStep
  <2> QED BY <1>9, <2>1, <2>2, <2>3
<1> WITNESS X \in Local, m \in MsgIds, row \in Row
<1> QED BY <1>1, <1>2, <1>7, <1>8, <1>11

\* get: refused, or authenticated, from the start or from the cursor.
LEMMA GetStep ==
    ASSUME Base, NEW p \in Procs, get(p)
    PROVE  \E X \in Local :
              /\ Moves(p, X)
              /\ \/ Refused(X)
                 \/ /\ Opened(X, "get") /\ X.pc = "list"
                    /\ X.since \in {0, cursor[<<X.path, X.dir>>]}
<1>0. /\ proc \in [Procs -> Local]
      /\ cursor \in [Inboxes -> MsgIds \cup {0}]
  BY DEF Base, TypeOK
<1>1. PICK path \in Paths, k \in Signers :
          \/ Refuse(p, 404) \/ Refuse(p, 401)
          \/ /\ Authentic(path, k)
             /\ \E since \in {0, cursor[<<path, Reads(path, k)>>]} :
                  proc' = [proc EXCEPT ![p] =
                    Holding("list", "get", path, k, Reads(path, k), {}, since, 0, Null)]
  BY DEF get, Authentic, Reads
<1>2. CASE Refuse(p, 404) \/ Refuse(p, 401) BY <1>2, RefuseStep
<1>3. CASE /\ Authentic(path, k)
           /\ \E since \in {0, cursor[<<path, Reads(path, k)>>]} :
                  proc' = [proc EXCEPT ![p] =
                    Holding("list", "get", path, k, Reads(path, k), {}, since, 0, Null)]
  <2>1. PICK since \in {0, cursor[<<path, Reads(path, k)>>]} :
                  proc' = [proc EXCEPT ![p] =
                    Holding("list", "get", path, k, Reads(path, k), {}, since, 0, Null)]
    BY <1>3
  <2>2. PICK X : X = Holding("list", "get", path, k, Reads(path, k), {}, since, 0, Null)
    OBVIOUS
  <2>3. pairs[path] \in PairRow BY <1>3 DEF Base, TypeOK, Authentic
  <2>4. Reads(path, k) \in Directions BY <1>3, <2>3, DirectionType
  <2>5. since \in MsgIds \cup {0} BY <1>0, <2>1, <2>4 DEF Inboxes
  <2>6. X \in Local BY <2>2, <2>4, <2>5, HoldingType
  <2>7. /\ X.pc = "list" /\ X.op = "get" /\ X.path = path /\ X.by = k
        /\ X.dir = Reads(path, k) /\ X.since = since
    BY <2>2 DEF Holding
  <2>8. Opened(X, "get") BY <1>3, <2>4, <2>7 DEF Opened
  <2> QED BY <2>1, <2>2, <2>6, <2>7, <2>8 DEF Moves
<1> QED BY <1>1, <1>2, <1>3

\* getList: refused, or answered with the page that follows since.
LEMMA GetListStep ==
    ASSUME Base, NEW p \in Procs, getList(p)
    PROVE  /\ proc[p].op = "get"
           /\ \E X \in Local :
              /\ Moves(p, X)
              /\ \/ Refused(X)
                 \/ /\ Answered(p, X)
                    /\ \E page : /\ page = ListEnvelopes(proc[p].path, proc[p].dir,
                                                         proc[p].since)
                                 /\ X.resp.page = {[msg |-> m, by |-> envelopes[m].by] :
                                                        m \in page}
                                 /\ X.resp.cursor = Last(page)
<1>0. /\ proc \in [Procs -> Local] /\ proc[p] \in Local
      /\ envelopes \in [MsgIds -> Row \cup {Null}]
  BY DEF Base, TypeOK
<1>1. proc[p].op = "get" BY DEF getList, Base, CallsAuthentic, Shaped
<1>2. PICK page : page = ListEnvelopes(proc[p].path, proc[p].dir, proc[p].since)
  OBVIOUS
<1>3. PICK items : items = {[msg |-> m, by |-> envelopes[m].by] : m \in page}
  OBVIOUS
<1>4. proc[p].since \in Nat
  <2>1. proc[p].since \in MsgIds \cup {0} BY <1>0 DEF Local
  <2> QED BY <2>1, CursorType
<1>5. /\ page \subseteq Inbox(proc[p].path, proc[p].dir)
      /\ Last(page) \in MsgIds \cup {0}
  BY <1>2, <1>4, ListFacts
<1>6. items \in SUBSET Item
  <2> SUFFICES ASSUME NEW m \in page
               PROVE  [msg |-> m, by |-> envelopes[m].by] \in Item
    BY <1>3
  <2>1. m \in MsgIds /\ envelopes[m] # Null BY <1>5 DEF Inbox
  <2>2. envelopes[m].by \in Signers BY <1>0, <2>1 DEF Row
  <2> QED BY <2>1, <2>2 DEF Item
<1>7. PICK r : r = Answer(200, items, Last(page)) OBVIOUS
<1>8. r \in Response /\ r.page = items /\ r.cursor = Last(page)
  <2>1. r \in Response BY <1>5, <1>6, <1>7, AnswerType
  <2> QED BY <1>7, <2>1 DEF Answer
<1>9. Reply(p, r) \/ Refuse(p, 500)
  BY <1>2, <1>3, <1>7 DEF getList
<1>10. CASE Refuse(p, 500) BY <1>1, <1>10, RefuseStep
<1>11. CASE Reply(p, r)
  <2>1. PICK X \in Local : Moves(p, X) /\ Answered(p, X) /\ X.resp = r
    BY <1>0, <1>8, <1>11, ReplyStep
  <2>2. X.resp.page = items /\ X.resp.cursor = Last(page) BY <1>8, <2>1
  <2> QED BY <1>1, <1>2, <1>3, <2>1, <2>2
<1> QED BY <1>9, <1>10, <1>11

\* ack: refused, answered if it names no id, or authenticated with its ids.
LEMMA AckStep ==
    ASSUME Base, NEW p \in Procs, ack(p)
    PROVE  \E X \in Local :
              /\ Moves(p, X)
              /\ \/ Refused(X)
                 \/ /\ Opened(X, "ack")
                    /\ X.pc = "ackList" \/ (X.pc = "done" /\ X.resp \in Response)
<1>0. proc \in [Procs -> Local] BY DEF Base, TypeOK
<1> DEFINE Call(path, k, ids) ==
        Holding("ackList", "ack", path, k, Reads(path, k), ids, 0, 0, Null)
           After200(c) == [c EXCEPT !.pc = "done", !.resp = Answer(200, {}, 0)]
<1>1. PICK path \in Paths, k \in Signers, ids \in SUBSET MsgIds :
          \/ Refuse(p, 404) \/ Refuse(p, 401) \/ Refuse(p, 400)
          \/ /\ Authentic(path, k)
             /\ proc' = [proc EXCEPT ![p] =
                   IF ids = {} THEN After200(Call(path, k, ids))
                   ELSE Call(path, k, ids)]
  <2>1. PICK path \in Paths, k \in Signers, ids \in SUBSET MsgIds :
           IF pairs[path] = Null THEN Refuse(p, 404)
           ELSE IF Caller(path, k) = Null THEN Refuse(p, 401)
           ELSE IF Cardinality(ids) > MaxAckBatch THEN Refuse(p, 400)
           ELSE proc' = [proc EXCEPT ![p] =
                   IF ids = {} THEN After200(Call(path, k, ids))
                   ELSE Call(path, k, ids)]
    BY DEF ack, Reads
  <2>2. \/ Refuse(p, 404) \/ Refuse(p, 401) \/ Refuse(p, 400)
        \/ /\ Authentic(path, k)
           /\ proc' = [proc EXCEPT ![p] =
                 IF ids = {} THEN After200(Call(path, k, ids))
                 ELSE Call(path, k, ids)]
    <3> HIDE DEF Call, After200
    <3> QED BY <2>1 DEF Authentic
  <2> HIDE DEF Call, After200
  <2> QED BY <2>2
<1>2. CASE Refuse(p, 404) \/ Refuse(p, 401) \/ Refuse(p, 400)
  BY <1>2, RefuseStep
<1>3. CASE /\ Authentic(path, k)
           /\ proc' = [proc EXCEPT ![p] =
                 IF ids = {} THEN After200(Call(path, k, ids))
                 ELSE Call(path, k, ids)]
  <2>1. pairs[path] \in PairRow BY <1>3 DEF Base, TypeOK, Authentic
  <2>2. Reads(path, k) \in Directions BY <1>3, <2>1, DirectionType
  <2>3. PICK r \in Response : r = Answer(200, {}, 0) BY AnswerType
  <2>4. PICK c : c = Call(path, k, ids) OBVIOUS
  <2>5. c \in Local
    BY <2>2, <2>4, HoldingType
  <2>6. PICK X : X = IF ids = {} THEN [c EXCEPT !.pc = "done", !.resp = r] ELSE c
    OBVIOUS
  <2>7. X \in Local BY <2>5, <2>6 DEF Local
  <2>8. /\ c.pc = "ackList" /\ c.op = "ack" /\ c.path = path /\ c.by = k
        /\ c.dir = Reads(path, k) /\ c.ids = ids
    BY <2>4 DEF Holding
  <2>9. /\ X.op = "ack" /\ X.path = path /\ X.by = k
        /\ X.dir = Reads(path, k) /\ X.ids = ids
        /\ X.pc = "ackList" \/ (X.pc = "done" /\ X.resp \in Response)
    BY <2>5, <2>6, <2>8 DEF Local
  <2>10. Opened(X, "ack") BY <1>3, <2>2, <2>9 DEF Opened
  <2>11. Moves(p, X) BY <1>3, <2>3, <2>4, <2>6 DEF Moves
  <2> QED BY <2>7, <2>9, <2>10, <2>11
<1> QED BY <1>1, <1>2, <1>3

\* ackList: refused, answered if nothing is left to delete, or narrowed to
\* rows of the caller's inbox.
LEMMA AckListStep ==
    ASSUME Base, NEW p \in Procs, ackList(p)
    PROVE  /\ proc[p].op = "ack"
           /\ \E X \in Local :
              /\ Moves(p, X)
              /\ \/ Refused(X) \/ Answered(p, X)
                 \/ /\ Same(p, X) /\ X.pc = "delete"
                    /\ X.ids \subseteq Inbox(proc[p].path, proc[p].dir)
                    /\ X.ids \subseteq proc[p].ids
<1>0. proc \in [Procs -> Local] /\ proc[p] \in Local BY DEF Base, TypeOK
<1>1. proc[p].op = "ack" BY DEF ackList, Base, CallsAuthentic, Shaped
<1>2. PICK mine : mine = ListEnvelopes(proc[p].path, proc[p].dir, 0) \cap proc[p].ids
  OBVIOUS
<1>3. /\ mine \subseteq Inbox(proc[p].path, proc[p].dir)
      /\ mine \subseteq proc[p].ids
  BY <1>2, ListFacts
<1>4. mine \in SUBSET MsgIds BY <1>0, <1>3 DEF Local
<1>5. Answer(200, {}, 0) \in Response BY AnswerType
<1>6. \/ Reply(p, Answer(200, {}, 0))
      \/ proc' = [proc EXCEPT ![p] = [proc[p] EXCEPT !.pc = "delete", !.ids = mine]]
      \/ Refuse(p, 500)
  BY <1>2 DEF ackList
<1>7. CASE Reply(p, Answer(200, {}, 0)) BY <1>0, <1>1, <1>5, <1>7, ReplyStep
<1>8. CASE Refuse(p, 500) BY <1>1, <1>8, RefuseStep
<1>9. CASE proc' = [proc EXCEPT ![p] = [proc[p] EXCEPT !.pc = "delete", !.ids = mine]]
  <2>1. PICK X : X = [proc[p] EXCEPT !.pc = "delete", !.ids = mine] OBVIOUS
  <2>2. X \in Local BY <1>0, <1>4, <2>1 DEF Local
  <2>3. Same(p, X) /\ X.pc = "delete" /\ X.ids = mine
    BY <1>0, <2>1 DEF Local, Same
  <2> QED BY <1>1, <1>3, <1>9, <2>1, <2>2, <2>3 DEF Moves
<1> QED BY <1>6, <1>7, <1>8, <1>9

\* ackDelete: refused, or the rows are deleted.
LEMMA AckDeleteStep ==
    ASSUME Base, NEW p \in Procs, ackDelete(p)
    PROVE  /\ proc[p].op = "ack" /\ proc[p].pc = "delete"
           /\ \E X \in Local :
              /\ Moves(p, X)
              /\ \/ Refused(X) /\ UNCHANGED envelopes
                 \/ /\ Answered(p, X)
                    /\ DeleteEnvelopesByMsgID(proc[p].path, proc[p].ids)
<1>0. proc \in [Procs -> Local] BY DEF Base, TypeOK
<1>1. proc[p].op = "ack" /\ proc[p].pc = "delete"
  BY DEF ackDelete, Base, CallsAuthentic, Shaped
<1>2. Answer(200, {}, 0) \in Response BY AnswerType
<1>3. CASE /\ DeleteEnvelopesByMsgID(proc[p].path, proc[p].ids)
           /\ Reply(p, Answer(200, {}, 0))
  BY <1>0, <1>1, <1>2, <1>3, ReplyStep
<1>4. CASE Refuse(p, 500) /\ UNCHANGED envelopes BY <1>1, <1>4, RefuseStep
<1> QED BY <1>3, <1>4 DEF ackDelete

-----------------------------------------------------------------------------
(* Base is inductive. *)

\* A row of the pairs table never changes.
PairsKept == \A path \in Paths : pairs[path] # Null => pairs'[path] = pairs[path]

\* Pairing's rows come from the rows a path may have.
LEMMA PairsStep ==
    ASSUME Base, [Next]_vars
    PROVE  /\ PairsKept /\ PairsGiven'
           /\ pairs' \in [Paths -> PairRow \cup {Null}]
<1>1. /\ pairs \in [Paths -> PairRow \cup {Null}]
      /\ \A path \in Paths : pairs[path] # Null => pairs[path] \in Activatable[path]
  BY DEF Base, TypeOK, PairsGiven
<1>2. ASSUME NEW path \in Paths, activate(path)
      PROVE  /\ PairsKept /\ PairsGiven'
             /\ pairs' \in [Paths -> PairRow \cup {Null}]
  <2>1. PICK row \in Activatable[path] :
           pairs[path] = Null /\ pairs' = [pairs EXCEPT ![path] = row]
    BY <1>2 DEF activate
  <2>2. row \in PairRow BY PairsAssumption
  <2>3. \A q \in Paths : pairs'[q] = IF q = path THEN row ELSE pairs[q]
    BY <1>1, <2>1
  <2>4. pairs' \in [Paths -> PairRow \cup {Null}] BY <1>1, <2>1, <2>2
  <2> QED BY <1>1, <2>1, <2>3, <2>4 DEF PairsKept, PairsGiven
<1>3. CASE UNCHANGED pairs BY <1>1, <1>3 DEF PairsKept, PairsGiven
<1>4. ASSUME NEW p \in Procs, Handler(p) PROVE UNCHANGED pairs
  BY <1>4 DEF Handler, badRequest, getPairFails, put, InsertEnvelope, get,
              getList, ack, ackList, ackDelete, finish, Quiet
<1> QED
  BY <1>2, <1>3, <1>4
     DEF Next, Tick, sweepStart, sweepEvict, sweepFail, Crash, vars

\* So whoever is authenticated stays so, with the same directions.
LEMMA AuthKept ==
    ASSUME PairsKept, NEW path \in Paths, NEW k, Authentic(path, k)
    PROVE  /\ Authentic(path, k)'
           /\ Writes(path, k)' = Writes(path, k)
           /\ Reads(path, k)' = Reads(path, k)
BY DEF PairsKept, Authentic, Writes, Reads, Caller

\* So a call in flight, and the page it may hold, stay authenticated.
LEMMA CallKept ==
    ASSUME PairsKept, NEW c, Shaped(c), PageAuthentic(c)
    PROVE  Shaped(c)' /\ PageAuthentic(c)'
<1>1. Shaped(c)'
  BY AuthKept DEF Shaped
<1>2. ASSUME c.pc = "done", c.op = "get", NEW item \in c.resp.page
      PROVE  Authentic(c.path, item.by)' /\ c.dir = Writes(c.path, item.by)'
  <2>1. c.path \in Paths BY <1>2 DEF Shaped
  <2>2. Authentic(c.path, item.by) /\ c.dir = Writes(c.path, item.by)
    BY <1>2 DEF PageAuthentic
  <2> QED BY <2>1, <2>2, AuthKept
<1> QED BY <1>1, <1>2 DEF PageAuthentic

\* Every step of a handler leaves its call authenticated, with a page of the
\* peer's envelopes only.
LEMMA CallMoves ==
    ASSUME Base, NEW p \in Procs, Handler(p)
    PROVE  \E X \in Local : Moves(p, X) /\ Shaped(X) /\ PageAuthentic(X)
<1>0. Shaped(proc[p]) BY DEF Base, CallsAuthentic
<1>1. ASSUME NEW X, Refused(X) PROVE Shaped(X) /\ PageAuthentic(X)
  BY <1>1 DEF Refused, Shaped, PageAuthentic
<1>2. ASSUME NEW X, Answered(p, X) PROVE Shaped(X)
  BY <1>0, <1>2 DEF Answered, Same, Shaped
<1>3. ASSUME badRequest(p) \/ getPairFails(p)
      PROVE  \E X \in Local : Moves(p, X) /\ Shaped(X) /\ PageAuthentic(X)
  <2>1. Refuse(p, 400) \/ Refuse(p, 500)
    BY <1>3 DEF badRequest, getPairFails
  <2>2. PICK X \in Local : Moves(p, X) /\ Refused(X) BY <2>1, RefuseStep
  <2> QED BY <1>1, <2>2
<1>4. ASSUME put(p)
      PROVE  \E X \in Local : Moves(p, X) /\ Shaped(X) /\ PageAuthentic(X)
  <2>1. PICK X \in Local :
          /\ Moves(p, X)
          /\ \/ Refused(X)
             \/ /\ Opened(X, "put") /\ X.pc = "insert"
                /\ \E m \in Mints[X.path][X.by] : X.ids = {m}
    BY <1>4, PutStep
  <2>2. ASSUME Opened(X, "put"), X.pc = "insert",
               NEW m \in Mints[X.path][X.by], X.ids = {m}
        PROVE  Shaped(X) /\ PageAuthentic(X)
    <3>1. m \in MsgIds BY <2>2, IdsAssumption DEF Opened
    <3> QED BY <2>2, <3>1 DEF Opened, Shaped, PageAuthentic
  <2> QED BY <1>1, <2>1, <2>2
<1>5. ASSUME InsertEnvelope(p)
      PROVE  \E X \in Local : Moves(p, X) /\ Shaped(X) /\ PageAuthentic(X)
  <2>1. PICK X \in Local : /\ Moves(p, X) /\ proc[p].op = "put"
                           /\ Refused(X) \/ Answered(p, X)
    BY <1>5, InsertStep
  <2>2. Answered(p, X) => PageAuthentic(X)
    BY <2>1 DEF Answered, Same, PageAuthentic
  <2> QED BY <1>1, <1>2, <2>1, <2>2
<1>6. ASSUME get(p)
      PROVE  \E X \in Local : Moves(p, X) /\ Shaped(X) /\ PageAuthentic(X)
  <2>1. PICK X \in Local :
          /\ Moves(p, X)
          /\ Refused(X) \/ (Opened(X, "get") /\ X.pc = "list")
    BY <1>6, GetStep
  <2>2. ASSUME Opened(X, "get"), X.pc = "list"
        PROVE  Shaped(X) /\ PageAuthentic(X)
    BY <2>2 DEF Opened, Shaped, PageAuthentic
  <2> QED BY <1>1, <2>1, <2>2
<1>7. ASSUME getList(p)
      PROVE  \E X \in Local : Moves(p, X) /\ Shaped(X) /\ PageAuthentic(X)
  <2>1. PICK X \in Local :
          /\ Moves(p, X)
          /\ \/ Refused(X)
             \/ /\ Answered(p, X)
                /\ \E page : /\ page = ListEnvelopes(proc[p].path, proc[p].dir,
                                                     proc[p].since)
                             /\ X.resp.page = {[msg |-> m, by |-> envelopes[m].by] :
                                                    m \in page}
    BY <1>7, GetListStep
  <2>2. ASSUME Answered(p, X), NEW page,
               page = ListEnvelopes(proc[p].path, proc[p].dir, proc[p].since),
               X.resp.page = {[msg |-> m, by |-> envelopes[m].by] : m \in page}
        PROVE  PageAuthentic(X)
    <3>1. proc[p].since \in Nat
      <4>1. proc[p].since \in MsgIds \cup {0} BY DEF Base, TypeOK, Local
      <4> QED BY <4>1, CursorType
    <3>2. page \subseteq Inbox(proc[p].path, proc[p].dir)
      BY <2>2, <3>1, ListFacts
    <3>3. X.path = proc[p].path /\ X.dir = proc[p].dir
      BY <2>2 DEF Answered, Same
    <3>4. ASSUME NEW item \in X.resp.page
          PROVE  Authentic(X.path, item.by) /\ X.dir = Writes(X.path, item.by)
      <4>1. PICK m \in page : item = [msg |-> m, by |-> envelopes[m].by]
        BY <2>2
      <4>2. /\ m \in MsgIds /\ envelopes[m] # Null
            /\ envelopes[m].path = X.path /\ envelopes[m].dir = X.dir
        BY <3>2, <3>3 DEF Inbox
      <4>3. item.by = envelopes[m].by BY <4>1
      <4> QED BY <4>2, <4>3 DEF Base, RowsAuthentic
    <3> QED BY <3>4 DEF PageAuthentic
  <2> QED BY <1>1, <1>2, <2>1, <2>2
<1>8. ASSUME ack(p)
      PROVE  \E X \in Local : Moves(p, X) /\ Shaped(X) /\ PageAuthentic(X)
  <2>1. PICK X \in Local :
          /\ Moves(p, X)
          /\ \/ Refused(X)
             \/ /\ Opened(X, "ack")
                /\ X.pc = "ackList" \/ (X.pc = "done" /\ X.resp \in Response)
    BY <1>8, AckStep
  <2>2. ASSUME Opened(X, "ack"),
               X.pc = "ackList" \/ (X.pc = "done" /\ X.resp \in Response)
        PROVE  Shaped(X) /\ PageAuthentic(X)
    BY <2>2 DEF Opened, Shaped, PageAuthentic
  <2> QED BY <1>1, <2>1, <2>2
<1>9. ASSUME ackList(p)
      PROVE  \E X \in Local : Moves(p, X) /\ Shaped(X) /\ PageAuthentic(X)
  <2>1. PICK X \in Local :
          /\ Moves(p, X) /\ proc[p].op = "ack"
          /\ Refused(X) \/ Answered(p, X) \/ (Same(p, X) /\ X.pc = "delete")
    BY <1>9, AckListStep
  <2>2. ASSUME Same(p, X), X.pc = "delete" PROVE Shaped(X)
    BY <1>0, <2>1, <2>2 DEF Same, Shaped
  <2>3. Answered(p, X) \/ Same(p, X) => PageAuthentic(X)
    BY <2>1 DEF Answered, Same, PageAuthentic
  <2> QED BY <1>1, <1>2, <2>1, <2>2, <2>3
<1>10. ASSUME ackDelete(p)
       PROVE  \E X \in Local : Moves(p, X) /\ Shaped(X) /\ PageAuthentic(X)
  <2>1. PICK X \in Local : /\ Moves(p, X) /\ proc[p].op = "ack"
                           /\ Refused(X) \/ Answered(p, X)
    BY <1>10, AckDeleteStep
  <2>2. Answered(p, X) => PageAuthentic(X)
    BY <2>1 DEF Answered, Same, PageAuthentic
  <2> QED BY <1>1, <1>2, <2>1, <2>2
<1>11. ASSUME finish(p)
       PROVE  \E X \in Local : Moves(p, X) /\ Shaped(X) /\ PageAuthentic(X)
  <2>1. Idle \in Local /\ Idle.pc = "idle" /\ Idle.op = "none" BY IdleFacts
  <2>2. Moves(p, Idle) BY <1>11 DEF finish, Moves
  <2>3. Shaped(Idle) /\ PageAuthentic(Idle) BY <2>1 DEF Shaped, PageAuthentic
  <2> QED BY <2>1, <2>2, <2>3
<1> QED BY <1>3, <1>4, <1>5, <1>6, <1>7, <1>8, <1>9, <1>10, <1>11 DEF Handler

\* The calls stay authenticated.
LEMMA CallsInductive ==
    ASSUME Base, [Next]_vars
    PROVE  CallsAuthentic' /\ proc' \in [Procs -> Local]
<1>0. /\ PairsKept /\ proc \in [Procs -> Local]
      /\ \A q \in Procs : Shaped(proc[q]) /\ PageAuthentic(proc[q])
  BY PairsStep DEF Base, TypeOK, CallsAuthentic
<1>1. Idle \in Local /\ Shaped(Idle) /\ PageAuthentic(Idle)
  BY IdleFacts DEF Shaped, PageAuthentic
<1>2. /\ proc' \in [Procs -> Local]
      /\ \A q \in Procs : \E Y \in Local :
            Y = proc'[q] /\ Shaped(Y) /\ PageAuthentic(Y)
  <2>1. ASSUME NEW p \in Procs, Handler(p)
        PROVE  /\ proc' \in [Procs -> Local]
               /\ \A q \in Procs : \E Y \in Local :
                     Y = proc'[q] /\ Shaped(Y) /\ PageAuthentic(Y)
    <3>1. PICK X \in Local : Moves(p, X) /\ Shaped(X) /\ PageAuthentic(X)
      BY <2>1, CallMoves
    <3>2. proc' = [proc EXCEPT ![p] = X] BY <3>1 DEF Moves
    <3>3. \A q \in Procs : proc'[q] = IF q = p THEN X ELSE proc[q]
      BY <1>0, <3>2
    <3>4. proc' \in [Procs -> Local] BY <1>0, <3>2
    <3>5. \A q \in Procs : proc[q] \in Local BY <1>0
    <3> QED BY <1>0, <3>1, <3>3, <3>4, <3>5, Zenon
  <2>2. CASE UNCHANGED proc BY <1>0, <2>2
  <2>3. CASE Crash
    <3>1. proc' = [p \in Procs |-> Idle] BY <2>3 DEF Crash
    <3> QED BY <1>1, <3>1
  <2> QED
    BY <2>1, <2>2, <2>3
       DEF Next, activate, Tick, sweepStart, sweepEvict, sweepFail, vars
<1>3. ASSUME NEW q \in Procs PROVE Shaped(proc[q])' /\ PageAuthentic(proc[q])'
  <2>1. PICK Y \in Local : Y = proc'[q] /\ Shaped(Y) /\ PageAuthentic(Y)
    BY <1>2
  <2>2. Shaped(Y)' /\ PageAuthentic(Y)' BY <1>0, <2>1, CallKept
  <2> QED BY <2>1, <2>2
     DEF Shaped, PageAuthentic, Authentic, Writes, Reads, Caller
<1> QED BY <1>2, <1>3 DEF CallsAuthentic

\* A row of the table is the one that was there, or one just inserted.
Inserts(p, m, row) ==
    /\ proc[p].op = "put" /\ proc[p].pc = "insert" /\ proc[p].ids = {m}
    /\ envelopes[m] = Null
    /\ row.path = proc[p].path /\ row.dir = proc[p].dir
    /\ row.by = proc[p].by /\ row.received_at = formatTime(row.at)
    /\ stored' = stored \cup {<<m, row.path, row.dir>>}
    /\ \E X \in Local : Moves(p, X) /\ Answered(p, X)

\* A step leaves an envelope row as it is, removes it, or inserted it.
LEMMA RowsStep ==
    ASSUME Base, [Next]_vars
    PROVE  /\ envelopes' \in [MsgIds -> Row \cup {Null}]
           /\ \A m \in MsgIds : envelopes'[m] # Null =>
                 \/ envelopes'[m] = envelopes[m]
                 \/ \E p \in Procs : Inserts(p, m, envelopes'[m])
<1> DEFINE Goal ==
        /\ envelopes' \in [MsgIds -> Row \cup {Null}]
        /\ \A m \in MsgIds : envelopes'[m] # Null =>
              \/ envelopes'[m] = envelopes[m]
              \/ \E p \in Procs : Inserts(p, m, envelopes'[m])
<1>0. envelopes \in [MsgIds -> Row \cup {Null}] BY DEF Base, TypeOK
<1>1. CASE UNCHANGED envelopes BY <1>0, <1>1
<1>2. ASSUME NEW p \in Procs, InsertEnvelope(p) PROVE Goal
  <2>1. PICK X \in Local, m \in MsgIds, row \in Row :
              /\ Moves(p, X)
              /\ proc[p].op = "put" /\ proc[p].ids = {m}
              /\ row.path = proc[p].path /\ row.dir = proc[p].dir
              /\ row.by = proc[p].by /\ row.received_at = formatTime(row.at)
              /\ \/ UNCHANGED envelopes
                 \/ /\ Answered(p, X) /\ envelopes[m] = Null
                    /\ envelopes' = [envelopes EXCEPT ![m] = row]
                    /\ stored' = stored \cup {<<m, row.path, row.dir>>}
    BY <1>2, InsertStep
  <2>2. proc[p].pc = "insert" BY <1>2 DEF InsertEnvelope
  <2>3. CASE UNCHANGED envelopes BY <1>0, <2>3
  <2>4. CASE /\ Answered(p, X) /\ envelopes[m] = Null
             /\ envelopes' = [envelopes EXCEPT ![m] = row]
             /\ stored' = stored \cup {<<m, row.path, row.dir>>}
    <3>1. envelopes' \in [MsgIds -> Row \cup {Null}] BY <1>0, <2>4
    <3>2. \A n \in MsgIds : envelopes'[n] = IF n = m THEN row ELSE envelopes[n]
      BY <1>0, <2>4
    <3>3. Inserts(p, m, row) BY <2>1, <2>2, <2>4 DEF Inserts
    <3> QED BY <3>1, <3>2, <3>3
  <2> QED BY <2>1, <2>3, <2>4
<1>3. ASSUME NEW p \in Procs, ackDelete(p) PROVE Goal
  <2>1. UNCHANGED envelopes
        \/ envelopes' = [m \in MsgIds |->
                IF m \in proc[p].ids /\ envelopes[m] # Null
                     /\ envelopes[m].path = proc[p].path
                THEN Null ELSE envelopes[m]]
    BY <1>3 DEF ackDelete, DeleteEnvelopesByMsgID
  <2> QED BY <1>0, <1>1, <2>1
<1>4. CASE sweepEvict
  BY <1>0, <1>4 DEF sweepEvict, DeleteEnvelopesOlderThan
<1>5. ASSUME NEW p \in Procs, Handler(p), ~InsertEnvelope(p), ~ackDelete(p)
      PROVE  UNCHANGED envelopes
  BY <1>5 DEF Handler, badRequest, getPairFails, put, get, getList, ack,
              ackList, finish
<1> HIDE DEF Goal
<1>6. Goal
  <2>1. CASE UNCHANGED envelopes BY <1>1, <2>1 DEF Goal
  <2>2. CASE sweepEvict BY <1>4, <2>2 DEF Goal
  <2> QED BY <1>2, <1>3, <1>5, <2>1, <2>2
     DEF Next, activate, Tick, sweepStart, sweepFail, Crash, vars
<1> QED BY <1>6 DEF Goal

\* A call belongs to an inbox.
LEMMA CallInbox ==
    ASSUME Base, NEW p \in Procs, proc[p].op # "none"
    PROVE  /\ proc[p].path \in Paths /\ proc[p].by \in Signers
           /\ proc[p].dir \in Directions
           /\ <<proc[p].path, proc[p].dir>> \in Inboxes
           /\ pairs[proc[p].path] \in PairRow
           /\ Authentic(proc[p].path, proc[p].by)
           /\ proc[p].dir = IF proc[p].op = "put"
                            THEN Writes(proc[p].path, proc[p].by)
                            ELSE Reads(proc[p].path, proc[p].by)
<1>1. /\ proc[p].path \in Paths /\ proc[p].by \in Signers
      /\ Authentic(proc[p].path, proc[p].by)
      /\ proc[p].dir = IF proc[p].op = "put"
                       THEN Writes(proc[p].path, proc[p].by)
                       ELSE Reads(proc[p].path, proc[p].by)
  BY DEF Base, CallsAuthentic, Shaped
<1>2. pairs[proc[p].path] \in PairRow BY <1>1 DEF Base, TypeOK, Authentic
<1>3. proc[p].dir \in Directions BY <1>1, <1>2, DirectionType
<1> QED BY <1>1, <1>2, <1>3 DEF Inboxes

\* What the clients keep changes only when an answer is delivered.
LEMMA ClientsStep ==
    ASSUME Base, [Next]_vars
    PROVE  /\ cursor' \in [Inboxes -> MsgIds \cup {0}]
           /\ seen' \in [Inboxes -> SUBSET MsgIds]
           /\ settled' \subseteq Paths \X Signers \X MsgIds
           /\ stored' \subseteq MsgIds \X Paths \X Directions
<1> DEFINE Goal == /\ cursor' \in [Inboxes -> MsgIds \cup {0}]
                   /\ seen' \in [Inboxes -> SUBSET MsgIds]
                   /\ settled' \subseteq Paths \X Signers \X MsgIds
                   /\ stored' \subseteq MsgIds \X Paths \X Directions
<1>0. /\ proc \in [Procs -> Local]
      /\ cursor \in [Inboxes -> MsgIds \cup {0}]
      /\ seen \in [Inboxes -> SUBSET MsgIds]
      /\ settled \subseteq Paths \X Signers \X MsgIds
      /\ stored \subseteq MsgIds \X Paths \X Directions
  BY DEF Base, TypeOK
<1>1. CASE UNCHANGED <<clients, stored>> BY <1>0, <1>1 DEF clients
<1>2. ASSUME NEW p \in Procs, finish(p) PROVE Goal
  <2>1. stored' = stored BY <1>2 DEF finish
  <2>2. proc[p] \in Local /\ proc[p].ids \subseteq MsgIds BY <1>0 DEF Local
  <2>3. ASSUME proc[p].op = "get"
        PROVE  /\ <<proc[p].path, proc[p].dir>> \in Inboxes
               /\ proc[p].resp.cursor \in MsgIds \cup {0}
               /\ {item.msg : item \in proc[p].resp.page} \subseteq MsgIds
    <3>1. proc[p].resp \in Response
      BY <1>2 DEF finish, Base, CallsAuthentic, Shaped
    <3>2. proc[p].resp.page \subseteq Item /\ proc[p].resp.cursor \in MsgIds \cup {0}
      BY <3>1 DEF Response
    <3>3. \A item \in Item : item.msg \in MsgIds BY DEF Item
    <3> QED BY <2>3, <3>2, <3>3, CallInbox
  <2>4. cursor' \in [Inboxes -> MsgIds \cup {0}] BY <1>0, <1>2, <2>3 DEF finish
  <2>5. seen' \in [Inboxes -> SUBSET MsgIds]
    <3>1. PICK msgs : msgs = {item.msg : item \in proc[p].resp.page} OBVIOUS
    <3>2. seen' = seen \/ (/\ proc[p].op = "get"
             /\ seen' = [seen EXCEPT ![<<proc[p].path, proc[p].dir>>] = @ \cup msgs])
      BY <1>2, <3>1 DEF finish
    <3>3. proc[p].op = "get" => msgs \subseteq MsgIds BY <2>3, <3>1
    <3> QED BY <1>0, <2>3, <3>2, <3>3
  <2>6. settled' \subseteq Paths \X Signers \X MsgIds
    <3>1. ASSUME NEW s \in settled' PROVE s \in Paths \X Signers \X MsgIds
      <4>1. s \in settled \/ (/\ proc[p].op = "put"
               /\ \E m \in proc[p].ids : s = <<proc[p].path, proc[p].by, m>>)
        BY <1>2, <3>1 DEF finish
      <4>2. CASE s \in settled BY <1>0, <4>2
      <4>3. CASE proc[p].op = "put"
                 /\ \E m \in proc[p].ids : s = <<proc[p].path, proc[p].by, m>>
        <5>1. proc[p].path \in Paths /\ proc[p].by \in Signers BY <4>3, CallInbox
        <5> QED BY <2>2, <4>3, <5>1
      <4> QED BY <4>1, <4>2, <4>3
    <3> QED BY <3>1
  <2> QED BY <1>0, <2>1, <2>4, <2>5, <2>6
<1>3. ASSUME NEW p \in Procs, InsertEnvelope(p) PROVE Goal
  <2>1. UNCHANGED clients BY <1>3 DEF InsertEnvelope, Quiet
  <2>2. PICK m \in MsgIds, row \in Row :
           \/ stored' = stored
           \/ stored' = stored \cup {<<m, row.path, row.dir>>}
    BY <1>3, InsertStep
  <2>3. row.path \in Paths /\ row.dir \in Directions BY DEF Row
  <2> QED BY <1>0, <2>1, <2>2, <2>3 DEF clients
<1>4. ASSUME NEW p \in Procs, Handler(p), ~InsertEnvelope(p), ~finish(p)
      PROVE  UNCHANGED <<clients, stored>>
  BY <1>4 DEF Handler, badRequest, getPairFails, put, get, getList, ack,
              ackList, ackDelete, Quiet
<1> HIDE DEF Goal
<1>5. Goal
  <2>1. CASE UNCHANGED <<clients, stored>> BY <1>1, <2>1 DEF Goal
  <2> QED BY <1>2, <1>3, <1>4, <2>1
     DEF Next, activate, Tick, sweepStart, sweepEvict, sweepFail, Crash, vars, clients
<1> QED BY <1>5 DEF Goal

\* The clock goes forward, up to its bound; a sweep reads it when it starts.
LEMMA ClocksStep ==
    ASSUME Base, [Next]_vars
    PROVE  /\ clock' \in Nat /\ crashes' \in Nat
           /\ sweeper' \in [pc : {"idle", "evict"}, now : Nat]
           /\ clock' <= MaxTime /\ sweeper'.now <= clock'
<1>0. /\ clock \in Nat /\ crashes \in Nat
      /\ sweeper \in [pc : {"idle", "evict"}, now : Nat]
      /\ clock <= MaxTime /\ sweeper.now <= clock /\ MaxTime \in Nat
  BY BoundsAssumption DEF Base, TypeOK, Times
<1>1. CASE UNCHANGED <<clock, crashes, sweeper>> BY <1>0, <1>1
<1>2. CASE Tick BY <1>0, <1>2 DEF Tick
<1>3. CASE sweepStart BY <1>0, <1>3 DEF sweepStart
<1>4. CASE sweepEvict BY <1>0, <1>4 DEF sweepEvict
<1>5. CASE sweepFail BY <1>0, <1>5 DEF sweepFail
<1>6. CASE Crash BY <1>0, <1>6 DEF Crash
<1>7. ASSUME NEW p \in Procs, Handler(p) PROVE UNCHANGED <<clock, crashes, sweeper>>
  BY <1>7 DEF Handler, badRequest, getPairFails, put, InsertEnvelope, get,
              getList, ack, ackList, ackDelete, finish, Quiet
<1> QED BY <1>1, <1>2, <1>3, <1>4, <1>5, <1>6, <1>7 DEF Next, activate, vars

\* The rows were written by a half of their pair, in its direction.
LEMMA RowsInductive ==
    ASSUME Base, [Next]_vars
    PROVE  /\ RowsAuthentic'
           /\ \A m \in MsgIds : envelopes'[m] # Null =>
                 envelopes'[m].received_at = formatTime(envelopes'[m].at)
<1>0. PairsKept BY PairsStep
<1>1. ASSUME NEW m \in MsgIds, envelopes'[m] # Null
      PROVE  \E path \in Paths, k \in Signers :
               /\ envelopes'[m].path = path /\ envelopes'[m].by = k
               /\ Authentic(path, k) /\ envelopes'[m].dir = Writes(path, k)
               /\ envelopes'[m].received_at = formatTime(envelopes'[m].at)
  <2>1. CASE envelopes'[m] = envelopes[m]
    <3>1. /\ envelopes[m] \in Row
          /\ Authentic(envelopes[m].path, envelopes[m].by)
          /\ envelopes[m].dir = Writes(envelopes[m].path, envelopes[m].by)
          /\ envelopes[m].received_at = formatTime(envelopes[m].at)
      BY <1>1, <2>1 DEF Base, TypeOK, RowsAuthentic, Times
    <3>2. envelopes[m].path \in Paths /\ envelopes[m].by \in Signers
      BY <3>1 DEF Row
    <3> QED BY <2>1, <3>1, <3>2
  <2>2. ASSUME NEW p \in Procs, Inserts(p, m, envelopes'[m])
        PROVE  \E path \in Paths, k \in Signers :
               /\ envelopes'[m].path = path /\ envelopes'[m].by = k
               /\ Authentic(path, k) /\ envelopes'[m].dir = Writes(path, k)
               /\ envelopes'[m].received_at = formatTime(envelopes'[m].at)
    BY <2>2, CallInbox DEF Inserts
  <2> QED BY <1>1, <2>1, <2>2, RowsStep
<1>2. ASSUME NEW m \in MsgIds, envelopes'[m] # Null
      PROVE  /\ Authentic(envelopes[m].path, envelopes[m].by)'
             /\ envelopes'[m].dir = Writes(envelopes[m].path, envelopes[m].by)'
             /\ envelopes'[m].received_at = formatTime(envelopes'[m].at)
  <2>1. PICK path \in Paths, k \in Signers :
               /\ envelopes'[m].path = path /\ envelopes'[m].by = k
               /\ Authentic(path, k) /\ envelopes'[m].dir = Writes(path, k)
               /\ envelopes'[m].received_at = formatTime(envelopes'[m].at)
    BY <1>1, <1>2
  <2>2. Authentic(path, k)' /\ Writes(path, k)' = Writes(path, k)
    BY <1>0, <2>1, AuthKept
  <2> QED BY <2>1, <2>2 DEF Authentic, Writes, Caller
<1> QED BY <1>2 DEF RowsAuthentic

\* Base holds in every reachable state.
THEOREM BaseInvariant == Spec => []Base
<1>1. Init => Base
  <2> SUFFICES ASSUME Init PROVE Base OBVIOUS
  <2>1. Idle \in Local /\ Idle.pc = "idle" /\ Idle.op = "none" BY IdleFacts
  <2>2. proc \in [Procs -> Local] BY <2>1 DEF Init
  <2>3. TypeOK BY <2>2 DEF Init, TypeOK
  <2>4. CallsAuthentic
    <3>1. \A p \in Procs : proc[p] = Idle BY DEF Init
    <3> QED BY <2>1, <3>1 DEF CallsAuthentic, Shaped, PageAuthentic
  <2>5. PairsGiven /\ RowsAuthentic BY DEF Init, PairsGiven, RowsAuthentic
  <2>6. Times BY BoundsAssumption DEF Init, Times
  <2> QED BY <2>3, <2>4, <2>5, <2>6 DEF Base
<1>2. Base /\ [Next]_vars => Base'
  <2> SUFFICES ASSUME Base, [Next]_vars PROVE Base' OBVIOUS
  <2>1. TypeOK'
    <3>1. pairs' \in [Paths -> PairRow \cup {Null}] BY PairsStep
    <3>2. proc' \in [Procs -> Local] BY CallsInductive
    <3>3. envelopes' \in [MsgIds -> Row \cup {Null}] BY RowsStep
    <3> QED BY <3>1, <3>2, <3>3, ClientsStep, ClocksStep DEF TypeOK
  <2>2. PairsGiven' BY PairsStep
  <2>3. CallsAuthentic' BY CallsInductive
  <2>4. RowsAuthentic' /\ Times' BY RowsInductive, ClocksStep DEF Times
  <2> QED BY <2>1, <2>2, <2>3, <2>4 DEF Base
<1> QED BY <1>1, <1>2, PTL DEF Spec

\* The table, the locals and what the clients keep have their types.
THEOREM TypeCorrect == Spec => []TypeOK
<1>1. Base => TypeOK BY DEF Base
<1> QED BY <1>1, BaseInvariant, PTL

\* A page holds the peer's envelopes only, whoever signs calls for whichever
\* pairs, also for a key that belongs to several of them.
THEOREM InboxIsolationHolds == Spec => []InboxIsolation
<1>1. Base => InboxIsolation
  <2> SUFFICES ASSUME Base, NEW p \in Procs,
                      proc[p].pc = "done", proc[p].op = "get",
                      NEW item \in proc[p].resp.page
               PROVE  {item.by, proc[p].by} = {Raw[pairs[proc[p].path].requester],
                                               Raw[pairs[proc[p].path].owner]}
    BY DEF InboxIsolation
  <2>1. /\ pairs[proc[p].path] \in PairRow /\ proc[p].by \in Nat
        /\ Authentic(proc[p].path, proc[p].by)
        /\ proc[p].dir = Reads(proc[p].path, proc[p].by)
    BY CallInbox, IdsAssumption
  <2>2. item.by \in Nat
    <3>1. proc[p].resp \in Response BY DEF Base, CallsAuthentic, Shaped
    <3>2. item \in Item BY <3>1 DEF Response
    <3> QED BY <3>2, IdsAssumption DEF Item
  <2>3. Authentic(proc[p].path, item.by) /\ proc[p].dir = Writes(proc[p].path, item.by)
    BY DEF Base, CallsAuthentic, PageAuthentic
  <2>4. PICK pair \in PairRow : pair = pairs[proc[p].path] BY <2>1
  <2>5. PICK j \in Nat, k \in Nat : j = item.by /\ k = proc[p].by BY <2>1, <2>2
  <2>6. /\ Identify(pair, j) # Null /\ Identify(pair, k) # Null
        /\ directionFrom(pair, Identify(pair, j))
             = readDirectionFor(pair, Identify(pair, k))
    BY <2>1, <2>3, <2>4, <2>5 DEF Authentic, Writes, Reads, Caller
  <2>7. {j, k} = {Raw[pair.requester], Raw[pair.owner]} BY <2>6, PeerDirection
  <2> QED BY <2>4, <2>5, <2>7
<1> QED BY <1>1, BaseInvariant, PTL

-----------------------------------------------------------------------------
(* Minted is inductive, if ids are not reused. *)

\* The ids of an inbox are those its writers mint for its path.
LEMMA IdsOfMember ==
    ASSUME NEW path, NEW dir, NEW m
    PROVE  m \in IdsOf(<<path, dir>>) <=>
              \E k \in Signers : /\ Authentic(path, k) /\ Writes(path, k) = dir
                                 /\ m \in Mints[path][k]
BY DEF IdsOf

\* The ids of an inbox do not change once its pair is there.
LEMMA IdsKept ==
    ASSUME PairsKept, NEW path \in Paths, NEW dir, pairs[path] # Null
    PROVE  IdsOf(<<path, dir>>)' = IdsOf(<<path, dir>>)
<1>1. pairs'[path] = pairs[path] BY DEF PairsKept
<1> QED BY <1>1 DEF IdsOf, Authentic, Writes, Caller

\* Whoever is authenticated is known, so an id has one pair and one writer.
LEMMA OneOrigin ==
    ASSUME Base, MintedOnce, NEW p \in Paths, NEW q \in Paths,
           NEW j \in Signers, NEW k \in Signers, NEW m,
           Authentic(p, j), Authentic(q, k), m \in Mints[p][j], m \in Mints[q][k]
    PROVE  p = q /\ j = k
<1>1. ASSUME NEW path \in Paths, NEW s \in Signers, Authentic(path, s)
      PROVE  Known(path, s)
  <2>1. pairs[path] \in PairRow /\ pairs[path] \in Activatable[path]
    BY <1>1 DEF Base, TypeOK, PairsGiven, Authentic
  <2>2. s \in {Raw[pairs[path].requester], Raw[pairs[path].owner]}
    BY <1>1, <2>1, DirectionType
  <2> QED BY <2>1, <2>2 DEF Known
<1>2. Known(p, j) /\ Known(q, k) BY <1>1
<1>3. Mints[p][j] \cap Mints[q][k] # {} OBVIOUS
<1> QED BY <1>2, <1>3 DEF MintedOnce

\* An envelope is in the inbox that its writer writes to.
LEMMA RowHome ==
    ASSUME Base, Minted, NEW m \in MsgIds, envelopes[m] # Null
    PROVE  /\ envelopes[m].path \in Paths /\ envelopes[m].by \in Signers
           /\ envelopes[m].dir \in Directions
           /\ Authentic(envelopes[m].path, envelopes[m].by)
           /\ envelopes[m].dir = Writes(envelopes[m].path, envelopes[m].by)
           /\ m \in Mints[envelopes[m].path][envelopes[m].by]
           /\ m \in IdsOf(<<envelopes[m].path, envelopes[m].dir>>)
<1>1. envelopes[m] \in Row BY DEF Base, TypeOK
<1>2. /\ envelopes[m].path \in Paths /\ envelopes[m].by \in Signers
      /\ envelopes[m].dir \in Directions
  BY <1>1 DEF Row
<1>3. /\ Authentic(envelopes[m].path, envelopes[m].by)
      /\ envelopes[m].dir = Writes(envelopes[m].path, envelopes[m].by)
  BY DEF Base, RowsAuthentic
<1>4. m \in Mints[envelopes[m].path][envelopes[m].by] BY DEF Minted
<1> QED BY <1>2, <1>3, <1>4, IdsOfMember

\* stored only grows.
LEMMA StoredGrows ==
    ASSUME Base, [Next]_vars PROVE stored \subseteq stored'
<1>1. ASSUME NEW p \in Procs, Handler(p) PROVE stored \subseteq stored'
  BY <1>1 DEF Handler, badRequest, getPairFails, put, InsertEnvelope, get,
              getList, ack, ackList, ackDelete, finish
<1> QED BY <1>1
  DEF Next, activate, Tick, sweepStart, sweepEvict, sweepFail, Crash, vars

\* What a call holds of minted ids outlives the steps of others.
LEMMA MintedCallKept ==
    ASSUME PairsKept, stored \subseteq stored', NEW c, Shaped(c), MintedCall(c)
    PROVE  MintedCall(c)'
<1>1. ASSUME c.pc = "delete" PROVE c.ids \subseteq IdsOf(<<c.path, c.dir>>)'
  <2>1. c.path \in Paths /\ pairs[c.path] # Null BY <1>1 DEF Shaped, Authentic
  <2>2. IdsOf(<<c.path, c.dir>>)' = IdsOf(<<c.path, c.dir>>) BY <2>1, IdsKept
  <2> QED BY <1>1, <2>2 DEF MintedCall
<1> QED BY <1>1 DEF MintedCall

\* The steps of a handler.
LEMMA MintedMoves ==
    ASSUME Base, Minted, MintedOnce, [Next]_vars, NEW p \in Procs, Handler(p)
    PROVE  \E X \in Local : Moves(p, X) /\ MintedCall(X)'
<1>0. /\ PairsKept /\ stored \subseteq stored' /\ MintedCall(proc[p])
  BY PairsStep, StoredGrows DEF Minted
<1>1. ASSUME NEW X, X.op # "put", X.pc # "delete" PROVE MintedCall(X)'
  BY <1>1 DEF MintedCall
<1>2. CASE badRequest(p) \/ getPairFails(p)
  <2>1. Refuse(p, 400) \/ Refuse(p, 500)
    BY <1>2 DEF badRequest, getPairFails
  <2>2. PICK X \in Local : Moves(p, X) /\ Refused(X) BY <2>1, RefuseStep
  <2> QED BY <1>1, <2>2 DEF Refused
<1>3. CASE put(p)
  <2>1. PICK X \in Local :
          /\ Moves(p, X)
          /\ \/ Refused(X)
             \/ /\ Opened(X, "put") /\ X.pc = "insert"
                /\ \E m \in Mints[X.path][X.by] : X.ids = {m}
    BY <1>3, PutStep
  <2>2. CASE Refused(X) BY <1>1, <2>1, <2>2 DEF Refused
  <2>3. CASE /\ X.pc = "insert"
             /\ \E m \in Mints[X.path][X.by] : X.ids = {m}
    <3>1. MintedCall(X)' BY <2>3 DEF MintedCall
    <3> QED BY <2>1, <3>1
  <2> QED BY <2>1, <2>2, <2>3
<1>4. CASE InsertEnvelope(p)
  <2>1. PICK X \in Local, m \in MsgIds, row \in Row :
              /\ Moves(p, X)
              /\ proc[p].op = "put" /\ proc[p].ids = {m}
              /\ row.path = proc[p].path /\ row.dir = proc[p].dir
              /\ \/ Refused(X)
                 \/ /\ Answered(p, X) /\ envelopes[m] # Null
                 \/ /\ Answered(p, X)
                    /\ stored' = stored \cup {<<m, row.path, row.dir>>}
    BY <1>4, InsertStep
  <2>2. CASE Refused(X) BY <1>1, <2>1, <2>2 DEF Refused
  <2>3. ASSUME Answered(p, X), <<m, proc[p].path, proc[p].dir>> \in stored'
        PROVE  MintedCall(X)'
    <3>1. /\ X.op = "put" /\ X.path = proc[p].path /\ X.by = proc[p].by
          /\ X.dir = proc[p].dir /\ X.ids = {m} /\ X.pc = "done"
      BY <2>1, <2>3 DEF Answered, Same
    <3>2. X.ids \subseteq Mints[X.path][X.by] BY <1>0, <2>1, <3>1 DEF MintedCall
    <3> QED BY <2>3, <3>1, <3>2 DEF MintedCall
  <2>4. CASE Answered(p, X) /\ envelopes[m] # Null
    <3>1. /\ proc[p].path \in Paths /\ proc[p].by \in Signers
          /\ Authentic(proc[p].path, proc[p].by)
          /\ proc[p].dir = Writes(proc[p].path, proc[p].by)
      BY <2>1, CallInbox
    <3>2. m \in Mints[proc[p].path][proc[p].by] BY <1>0, <2>1 DEF MintedCall
    <3>3. envelopes[m].path = proc[p].path /\ envelopes[m].by = proc[p].by
      <4>1. /\ envelopes[m].path \in Paths /\ envelopes[m].by \in Signers
            /\ Authentic(envelopes[m].path, envelopes[m].by)
            /\ m \in Mints[envelopes[m].path][envelopes[m].by]
        BY <2>4, RowHome
      <4> QED BY <3>1, <3>2, <4>1, OneOrigin
    <3>4. envelopes[m].dir = proc[p].dir BY <2>4, <3>1, <3>3, RowHome
    <3>5. <<m, envelopes[m].path, envelopes[m].dir>> \in stored
      BY <2>4 DEF Minted
    <3> QED BY <1>0, <2>1, <2>3, <2>4, <3>3, <3>4, <3>5
  <2>5. CASE Answered(p, X) /\ stored' = stored \cup {<<m, row.path, row.dir>>}
    BY <2>1, <2>3, <2>5
  <2> QED BY <2>1, <2>2, <2>4, <2>5
<1>5. CASE get(p)
  <2>1. PICK X \in Local :
          /\ Moves(p, X)
          /\ Refused(X) \/ (Opened(X, "get") /\ X.pc = "list")
    BY <1>5, GetStep
  <2> QED BY <1>1, <2>1 DEF Refused, Opened
<1>6. CASE getList(p)
  <2>1. PICK X \in Local :
          Moves(p, X) /\ proc[p].op = "get" /\ (Refused(X) \/ Answered(p, X))
    BY <1>6, GetListStep
  <2> QED BY <1>1, <2>1 DEF Refused, Answered, Same
<1>7. CASE ack(p)
  <2>1. PICK X \in Local :
          /\ Moves(p, X)
          /\ \/ Refused(X)
             \/ Opened(X, "ack") /\ (X.pc = "ackList" \/ X.pc = "done")
    BY <1>7, AckStep
  <2> QED BY <1>1, <2>1 DEF Refused, Opened
<1>8. CASE ackList(p)
  <2>1. PICK X \in Local :
          /\ Moves(p, X) /\ proc[p].op = "ack"
          /\ \/ Refused(X) \/ Answered(p, X)
             \/ /\ Same(p, X) /\ X.pc = "delete"
                /\ X.ids \subseteq Inbox(proc[p].path, proc[p].dir)
    BY <1>8, AckListStep
  <2>2. CASE Refused(X) \/ Answered(p, X)
    BY <1>1, <2>1, <2>2 DEF Refused, Answered, Same
  <2>3. CASE /\ Same(p, X) /\ X.pc = "delete"
             /\ X.ids \subseteq Inbox(proc[p].path, proc[p].dir)
    <3>1. X.op = "ack" /\ X.path = proc[p].path /\ X.dir = proc[p].dir
      BY <2>1, <2>3 DEF Same
    <3>2. ASSUME NEW m \in X.ids PROVE m \in IdsOf(<<X.path, X.dir>>)
      <4>1. /\ m \in MsgIds /\ envelopes[m] # Null
            /\ envelopes[m].path = X.path /\ envelopes[m].dir = X.dir
        BY <2>3, <3>1 DEF Inbox
      <4> QED BY <4>1, RowHome
    <3>3. X.path \in Paths /\ pairs[X.path] # Null
      BY <2>1, <3>1, CallInbox DEF Authentic
    <3>4. IdsOf(<<X.path, X.dir>>)' = IdsOf(<<X.path, X.dir>>)
      BY <1>0, <3>3, IdsKept
    <3>5. X.ids \subseteq IdsOf(<<X.path, X.dir>>)' BY <3>2, <3>4
    <3>6. MintedCall(X)' BY <3>1, <3>5 DEF MintedCall
    <3> QED BY <2>1, <3>6
  <2> QED BY <2>1, <2>2, <2>3
<1>9. CASE ackDelete(p)
  <2>1. PICK X \in Local :
          Moves(p, X) /\ proc[p].op = "ack" /\ (Refused(X) \/ Answered(p, X))
    BY <1>9, AckDeleteStep
  <2> QED BY <1>1, <2>1 DEF Refused, Answered, Same
<1>10. CASE finish(p)
  <2>1. Moves(p, Idle) BY <1>10 DEF finish, Moves
  <2> QED BY <1>1, <2>1, IdleFacts
<1> QED BY <1>2, <1>3, <1>4, <1>5, <1>6, <1>7, <1>8, <1>9, <1>10 DEF Handler

\* Lifting a fact about the call that moved to all of them.
LEMMA MintedInductive ==
    ASSUME Base, Minted, MintedOnce, [Next]_vars PROVE Minted'
<1>0. /\ PairsKept /\ stored \subseteq stored' /\ proc \in [Procs -> Local]
      /\ \A q \in Procs : Shaped(proc[q]) /\ MintedCall(proc[q])
  BY PairsStep, StoredGrows DEF Minted, Base, TypeOK, CallsAuthentic
<1>1. ASSUME NEW m \in MsgIds, envelopes'[m] # Null
      PROVE  /\ m \in Mints[envelopes'[m].path][envelopes'[m].by]
             /\ <<m, envelopes'[m].path, envelopes'[m].dir>> \in stored'
  <2>1. CASE envelopes'[m] = envelopes[m] BY <1>0, <1>1, <2>1 DEF Minted
  <2>2. ASSUME NEW p \in Procs, Inserts(p, m, envelopes'[m])
        PROVE  /\ m \in Mints[envelopes'[m].path][envelopes'[m].by]
               /\ <<m, envelopes'[m].path, envelopes'[m].dir>> \in stored'
    BY <1>0, <2>2 DEF Inserts, MintedCall
  <2> QED BY <1>1, <2>1, <2>2, RowsStep
<1>2. \A q \in Procs : \E Y \in Local : Y = proc'[q] /\ MintedCall(Y)'
  <2>0. \A q \in Procs : proc[q] \in Local BY <1>0
  <2>1. \A q \in Procs : \A c : c = proc[q] => MintedCall(c)'
    <3> SUFFICES ASSUME NEW q \in Procs, NEW c, c = proc[q] PROVE MintedCall(c)'
      OBVIOUS
    <3>1. Shaped(c) /\ MintedCall(c) BY <1>0
    <3> QED BY <1>0, <3>1, MintedCallKept
  <2>2. ASSUME NEW p \in Procs, Handler(p)
        PROVE  \A q \in Procs : \E Y \in Local : Y = proc'[q] /\ MintedCall(Y)'
    <3>1. PICK X \in Local : Moves(p, X) /\ MintedCall(X)'
      BY <2>2, MintedMoves
    <3>2. \A q \in Procs : proc'[q] = IF q = p THEN X ELSE proc[q]
      BY <1>0, <3>1 DEF Moves
    <3> SUFFICES ASSUME NEW q \in Procs
                 PROVE  \E Y \in Local : Y = proc'[q] /\ MintedCall(Y)'
      OBVIOUS
    <3>3. PICK c \in Local : c = proc[q] BY <2>0
    <3>4. MintedCall(c)' BY <2>1, <3>3
    <3> QED BY <3>1, <3>2, <3>3, <3>4
  <2>3. CASE UNCHANGED proc
    <3> SUFFICES ASSUME NEW q \in Procs
                 PROVE  \E Y \in Local : Y = proc'[q] /\ MintedCall(Y)'
      OBVIOUS
    <3>3. PICK c \in Local : c = proc[q] BY <2>0
    <3>4. MintedCall(c)' BY <2>1, <3>3
    <3> QED BY <2>3, <3>3, <3>4
  <2>4. CASE Crash
    <3>1. MintedCall(Idle)' BY IdleFacts DEF MintedCall
    <3>2. \A q \in Procs : proc'[q] = Idle BY <2>4 DEF Crash
    <3> QED BY <3>1, <3>2, IdleFacts
  <2> QED
    BY <2>2, <2>3, <2>4
       DEF Next, activate, Tick, sweepStart, sweepEvict, sweepFail, vars
<1>3. ASSUME NEW q \in Procs PROVE MintedCall(proc[q])'
  <2>1. PICK Y \in Local : Y = proc'[q] /\ MintedCall(Y)' BY <1>2
  <2> QED BY <2>1 DEF MintedCall, IdsOf, Authentic, Writes, Caller
<1> QED BY <1>1, <1>3 DEF Minted

\* Nothing is minted at the start.
LEMMA MintedInit == Init => Minted
<1> SUFFICES ASSUME Init PROVE Minted OBVIOUS
<1>1. \A p \in Procs : proc[p] = Idle BY DEF Init
<1>2. \A m \in MsgIds : envelopes[m] = Null BY DEF Init
<1> QED BY <1>1, <1>2, IdleFacts DEF Minted, MintedCall

\* InsertEnvelope answers 409 only for an envelope that was stored in the
\* inbox it was sent to, if ids are not reused.
THEOREM DuplicateMeansStoredHolds == Spec => []DuplicateMeansStored
<1>1. CASE MintedOnce
  <2>1. Base /\ Minted /\ [Next]_vars => Minted' BY <1>1, MintedInductive
  <2>2. Minted => DuplicateMeansStored
    BY DEF Minted, MintedCall, DuplicateMeansStored
  <2> QED BY <2>1, <2>2, MintedInit, BaseInvariant, PTL DEF Spec
<1>2. CASE ~MintedOnce
  <2>1. DuplicateMeansStored BY <1>2 DEF DuplicateMeansStored
  <2> QED BY <2>1, PTL
<1> QED BY <1>1, <1>2

\* Only a delete after an ack and the sweep take a row out, and nothing
\* overwrites one.
LEMMA RowGone ==
    ASSUME Base, [Next]_vars, NEW m \in MsgIds,
           envelopes[m] # Null, envelopes'[m] # envelopes[m]
    PROVE  \/ \E p \in Procs, X \in Local :
                 /\ ackDelete(p) /\ Moves(p, X) /\ Answered(p, X)
                 /\ m \in proc[p].ids /\ envelopes[m].path = proc[p].path
           \/ sweepEvict /\ Stale(envelopes[m], sweeper.now - EnvelopeMaxAge)
<1>0. envelopes \in [MsgIds -> Row \cup {Null}] BY DEF Base, TypeOK
<1>1. ASSUME NEW p \in Procs, InsertEnvelope(p) PROVE FALSE
  <2>1. PICK n \in MsgIds, row \in Row :
          \/ UNCHANGED envelopes
          \/ envelopes[n] = Null /\ envelopes' = [envelopes EXCEPT ![n] = row]
    BY <1>1, InsertStep
  <2> QED BY <1>0, <2>1
<1>2. ASSUME NEW p \in Procs, ackDelete(p)
      PROVE  \E X \in Local :
                 /\ Moves(p, X) /\ Answered(p, X)
                 /\ m \in proc[p].ids /\ envelopes[m].path = proc[p].path
  <2>1. PICK X \in Local :
           /\ Moves(p, X)
           /\ \/ UNCHANGED envelopes
              \/ /\ Answered(p, X)
                 /\ DeleteEnvelopesByMsgID(proc[p].path, proc[p].ids)
    BY <1>2, AckDeleteStep
  <2> QED BY <1>0, <2>1 DEF DeleteEnvelopesByMsgID
<1>3. CASE sweepEvict BY <1>0, <1>3 DEF sweepEvict, DeleteEnvelopesOlderThan
<1>4. ASSUME NEW p \in Procs, Handler(p)
      PROVE  InsertEnvelope(p) \/ ackDelete(p)
  BY <1>4 DEF Handler, badRequest, getPairFails, put, get, getList, ack,
              ackList, finish
<1> QED BY <1>1, <1>2, <1>3, <1>4
  DEF Next, activate, Tick, sweepStart, sweepFail, Crash, vars

\* DeleteEnvelopesByMsgID does not look at the direction, the sweep compares
\* truncated times: still, if ids are not reused, a row leaves the table only
\* because its addressee acked it or because it is older than EnvelopeMaxAge.
THEOREM EvictionAuthorisedHolds == Spec => EvictionAuthorised
<1> DEFINE Authorised(m) ==
            \/ \E p \in Procs :
                  /\ proc[p].pc = "delete" /\ proc'[p].pc = "done"
                  /\ m \in proc[p].ids
                  /\ envelopes[m].path = proc[p].path
                  /\ envelopes[m].dir = proc[p].dir
            \/ /\ sweeper.pc = "evict" /\ sweeper'.pc = "idle"
               /\ clock > envelopes[m].at + EnvelopeMaxAge
<1>1. MintedOnce => (Base /\ Minted /\ [Next]_vars => Minted') BY MintedInductive
<1>2. ASSUME MintedOnce, Base, Minted, [Next]_vars, NEW m \in MsgIds,
             envelopes[m] # Null, envelopes'[m] # envelopes[m]
      PROVE  Authorised(m)
  <2>1. ASSUME NEW p \in Procs, NEW X \in Local, ackDelete(p), Moves(p, X),
               Answered(p, X), m \in proc[p].ids,
               envelopes[m].path = proc[p].path
        PROVE  Authorised(m)
    <3>1. proc[p].op = "ack" /\ proc[p].pc = "delete" BY <1>2, <2>1, AckDeleteStep
    <3>2. proc'[p].pc = "done"
      BY <1>2, <2>1 DEF Moves, Answered, Base, TypeOK
    <3>3. m \in IdsOf(<<proc[p].path, proc[p].dir>>)
      BY <1>2, <2>1, <3>1 DEF Minted, MintedCall
    <3>4. PICK k \in Signers : /\ Authentic(proc[p].path, k)
                               /\ Writes(proc[p].path, k) = proc[p].dir
                               /\ m \in Mints[proc[p].path][k]
      BY <3>3, IdsOfMember
    <3>5. /\ envelopes[m].path \in Paths /\ envelopes[m].by \in Signers
          /\ Authentic(envelopes[m].path, envelopes[m].by)
          /\ envelopes[m].dir = Writes(envelopes[m].path, envelopes[m].by)
          /\ m \in Mints[envelopes[m].path][envelopes[m].by]
      BY <1>2, RowHome
    <3>6. envelopes[m].by = k BY <1>2, <2>1, <3>4, <3>5, OneOrigin
    <3>7. envelopes[m].dir = proc[p].dir BY <2>1, <3>4, <3>5, <3>6
    <3> QED BY <2>1, <3>1, <3>2, <3>7
  <2>2. ASSUME sweepEvict, Stale(envelopes[m], sweeper.now - EnvelopeMaxAge)
        PROVE  Authorised(m)
    <3>1. envelopes[m] \in Row BY <1>2 DEF Base, TypeOK
    <3>2. PICK at \in Nat : at = envelopes[m].at BY <3>1 DEF Row
    <3>3. PICK now \in Nat : now = sweeper.now BY <1>2 DEF Base, TypeOK
    <3>4. formatTime(at) < formatTime(now - EnvelopeMaxAge)
      BY <1>2, <2>2, <3>2, <3>3 DEF Stale, Base, Times
    <3>5. EnvelopeMaxAge \in Nat BY BoundsAssumption
    <3>6. at < now - EnvelopeMaxAge
      <4>1. PICK cut \in Int : cut = now - EnvelopeMaxAge BY <3>5
      <4>2. formatTime(at) \in Int /\ formatTime(cut) \in Int BY FormatFacts
      <4>3. cut <= at => formatTime(cut) <= formatTime(at) BY FormatFacts
      <4> QED BY <3>4, <4>1, <4>2, <4>3
    <3>7. now <= clock /\ clock \in Nat BY <1>2, <3>3 DEF Base, TypeOK, Times
    <3>8. clock > envelopes[m].at + EnvelopeMaxAge BY <3>2, <3>5, <3>6, <3>7
    <3>9. sweeper.pc = "evict" /\ sweeper'.pc = "idle" BY <2>2 DEF sweepEvict
    <3> QED BY <3>8, <3>9
  <2> HIDE DEF Authorised
  <2> QED BY <1>2, <2>1, <2>2, RowGone
<1>3. ASSUME MintedOnce, Base, Minted, [Next]_vars
      PROVE  \A m \in MsgIds :
                (envelopes[m] # Null /\ envelopes'[m] # envelopes[m]) => Authorised(m)
  <2> HIDE DEF Authorised
  <2> QED BY <1>2, <1>3
<1>4. CASE MintedOnce
  <2>1. Base /\ Minted /\ [Next]_vars => Minted' BY <1>1, <1>4
  <2>2. Base /\ Minted /\ [Next]_vars =>
          [MintedOnce => \A m \in MsgIds :
              (envelopes[m] # Null /\ envelopes'[m] # envelopes[m]) => Authorised(m)]_vars
    <3> HIDE DEF Authorised
    <3> QED BY <1>3, <1>4
  <2> QED BY <2>1, <2>2, MintedInit, BaseInvariant, PTL DEF Spec, EvictionAuthorised
<1>5. CASE ~MintedOnce
  <2>1. [MintedOnce => \A m \in MsgIds :
            (envelopes[m] # Null /\ envelopes'[m] # envelopes[m]) => Authorised(m)]_vars
    <3> HIDE DEF Authorised
    <3> QED BY <1>5
  <2> QED BY <2>1, PTL DEF EvictionAuthorised
<1> QED BY <1>4, <1>5

-----------------------------------------------------------------------------
(* Ordered is inductive, if senders put in the order of their ids. *)

\* The clients' histories only grow.
LEMMA ClientsGrow ==
    ASSUME Base, [Next]_vars
    PROVE  settled \subseteq settled' /\ \A i \in Inboxes : seen[i] \subseteq seen'[i]
<1>0. seen \in [Inboxes -> SUBSET MsgIds] BY DEF Base, TypeOK
<1>1. CASE UNCHANGED clients BY <1>1 DEF clients
<1>2. ASSUME NEW p \in Procs, finish(p)
      PROVE  settled \subseteq settled' /\ \A i \in Inboxes : seen[i] \subseteq seen'[i]
  <2>1. settled \subseteq settled' BY <1>2 DEF finish
  <2>2. PICK inbox, msgs : \/ seen' = seen
                           \/ seen' = [seen EXCEPT ![inbox] = @ \cup msgs]
    BY <1>2 DEF finish
  <2> QED BY <1>0, <2>1, <2>2
<1>3. ASSUME NEW p \in Procs, Handler(p), ~finish(p) PROVE UNCHANGED clients
  BY <1>3 DEF Handler, badRequest, getPairFails, put, InsertEnvelope, get,
              getList, ack, ackList, ackDelete, Quiet
<1> QED BY <1>1, <1>2, <1>3
  DEF Next, activate, Tick, sweepStart, sweepEvict, sweepFail, Crash, vars, clients

\* An id is settled only when its put, answered, is delivered.
LEMMA SettledStep ==
    ASSUME [Next]_vars, NEW s \in settled', s \notin settled
    PROVE  \E q \in Procs : /\ proc[q].op = "put" /\ proc[q].pc = "done"
                            /\ \E m \in proc[q].ids :
                                  s = <<proc[q].path, proc[q].by, m>>
<1>1. ASSUME NEW p \in Procs, finish(p)
      PROVE  /\ proc[p].op = "put" /\ proc[p].pc = "done"
             /\ \E m \in proc[p].ids : s = <<proc[p].path, proc[p].by, m>>
  BY <1>1 DEF finish
<1>2. ASSUME NEW p \in Procs, Handler(p), ~finish(p) PROVE UNCHANGED settled
  BY <1>2 DEF Handler, badRequest, getPairFails, put, InsertEnvelope, get,
              getList, ack, ackList, ackDelete, Quiet, clients
<1> QED BY <1>1, <1>2
  DEF Next, activate, Tick, sweepStart, sweepEvict, sweepFail, Crash, vars, clients

\* Two signers that write in the same direction of a pair are one.
LEMMA SameWriter ==
    ASSUME Base, NEW path \in Paths, NEW j \in Signers, NEW k \in Signers,
           Authentic(path, j), Authentic(path, k), Writes(path, j) = Writes(path, k)
    PROVE  j = k
<1>1. j \in Nat /\ k \in Nat BY IdsAssumption
<1>2. PICK pair \in PairRow : pair = pairs[path] BY DEF Authentic, Base, TypeOK
<1>3. /\ Identify(pair, j) # Null /\ Identify(pair, k) # Null
      /\ directionFrom(pair, Identify(pair, j)) = directionFrom(pair, Identify(pair, k))
  BY <1>2 DEF Authentic, Writes, Caller
<1> QED BY <1>1, <1>3, OneWriter

\* What a reader has reached it keeps: a row inserted at or below c is c, for
\* its writer has settled every smaller id and puts a settled one no more.
LEMMA ReachedKept ==
    ASSUME Base, Ordered, [Next]_vars, NEW path \in Paths, NEW dir \in Directions,
           NEW c \in MsgIds \cup {0}, NEW known, NEW more, known \subseteq more,
           Reached(path, dir, c, known)
    PROVE  Reached(path, dir, c, more)'
<1>0. PairsKept /\ settled \subseteq settled' BY PairsStep, ClientsGrow
<1>1. ASSUME c # 0
      PROVE  /\ c \in more
             /\ \E k \in Signers : /\ Authentic(path, k)' /\ Writes(path, k)' = dir
                                   /\ After(path, k, c)'
  <2>1. PICK k \in Signers : /\ Authentic(path, k) /\ Writes(path, k) = dir
                             /\ After(path, k, c)
    BY <1>1 DEF Reached
  <2>2. Authentic(path, k)' /\ Writes(path, k)' = dir BY <1>0, <2>1, AuthKept
  <2>3. After(path, k, c)' BY <1>0, <2>1 DEF After
  <2>4. c \in more BY <1>1 DEF Reached
  <2> QED BY <2>2, <2>3, <2>4
<1>2. ASSUME NEW n \in MsgIds, envelopes'[n] # Null, envelopes'[n].path = path,
             envelopes'[n].dir = dir, n <= c
      PROVE  n \in known
  <2>1. CASE envelopes'[n] = envelopes[n]
    <3>1. n \in Inbox(path, dir) BY <1>2, <2>1 DEF Inbox
    <3> QED BY <1>2, <3>1 DEF Reached
  <2>2. ASSUME NEW p \in Procs, Inserts(p, n, envelopes'[n]) PROVE n \in known
    <3>1. /\ proc[p].op = "put" /\ proc[p].pc = "insert" /\ proc[p].ids = {n}
          /\ proc[p].path = path /\ proc[p].dir = dir
      BY <1>2, <2>2 DEF Inserts
    <3>2. n \in Nat \ {0} /\ c \in Nat BY IdsAssumption, CursorType
    <3>3. c # 0 BY <1>2, <3>2
    <3>4. PICK k \in Signers : /\ Authentic(path, k) /\ Writes(path, k) = dir
                               /\ After(path, k, c)
      BY <3>3 DEF Reached
    <3>5. PICK j \in Signers : /\ j = proc[p].by /\ Authentic(path, j)
                               /\ Writes(path, j) = dir
      BY <3>1, CallInbox
    <3>6. j = k BY <3>4, <3>5, SameWriter
    <3>7. n \in Mints[path][k] /\ <<path, k, n>> \notin settled
      BY <3>1, <3>5, <3>6 DEF Ordered, OrderedCall
    <3>8. ~(n < c) BY <3>4, <3>7 DEF After
    <3>9. n = c BY <1>2, <3>2, <3>8
    <3> QED BY <3>3, <3>9 DEF Reached
  <2> QED BY <1>2, <2>1, <2>2, RowsStep
<1>3. \A n \in Inbox(path, dir)' : n <= c => n \in more BY <1>2 DEF Inbox
<1> QED BY <1>1, <1>3 DEF Reached

\* A call that another one's step leaves alone.
LEMMA OrderedCallKept ==
    ASSUME Base, Ordered, [Next]_vars, NEW p \in Procs, NEW c \in Local, c = proc[p]
    PROVE  OrderedCall(c)'
<1>0. /\ settled \subseteq settled' /\ OrderedCall(c) /\ Shaped(c)
      /\ \A i \in Inboxes : seen[i] \subseteq seen'[i]
  BY ClientsGrow DEF Ordered, Base, CallsAuthentic
<1>1. CASE c.op = "none"
  BY <1>0, <1>1 DEF OrderedCall, Shaped
<1>2. CASE c.op # "none"
  <2>1. PICK path \in Paths, dir \in Directions :
           path = c.path /\ dir = c.dir /\ <<path, dir>> \in Inboxes
    BY <1>2, CallInbox
  <2>2. ASSUME c.op = "put", NEW m \in c.ids
        PROVE  /\ m \in Mints[c.path][c.by] /\ After(c.path, c.by, m)'
               /\ c.pc = "insert" => <<c.path, c.by, m>> \notin settled'
    <3>1. m \in Mints[c.path][c.by] /\ After(c.path, c.by, m)'
      BY <1>0, <2>2 DEF OrderedCall, After
    <3>2. ASSUME c.pc = "insert", <<c.path, c.by, m>> \in settled' PROVE FALSE
      <4>1. <<c.path, c.by, m>> \notin settled BY <1>0, <2>2, <3>2 DEF OrderedCall
      <4>2. PICK q \in Procs : /\ proc[q].op = "put" /\ proc[q].pc = "done"
                               /\ proc[q].path = c.path /\ proc[q].by = c.by
        BY <3>2, <4>1, SettledStep
      <4>3. q = p BY <2>2, <4>2 DEF Ordered, Alone
      <4> QED BY <3>2, <4>2, <4>3
    <3> QED BY <3>1, <3>2
  <2>3. PICK had, more : /\ had = seen[<<path, dir>>] /\ more = seen'[<<path, dir>>]
                         /\ had \subseteq more
    BY <1>0, <2>1
  <2>4. ASSUME c.pc = "list" PROVE Reached(path, dir, c.since, more)'
    <3>1. Reached(path, dir, c.since, had) BY <1>0, <2>1, <2>3, <2>4 DEF OrderedCall
    <3>2. c.since \in MsgIds \cup {0} BY DEF Local
    <3> QED BY <2>3, <3>1, <3>2, ReachedKept
  <2>5. PICK page : page = {item.msg : item \in c.resp.page} OBVIOUS
  <2>6. ASSUME c.op = "get", c.pc = "done", c.resp.page # {}
        PROVE  Reached(path, dir, c.resp.cursor, more \cup page)'
    <3>1. Reached(path, dir, c.resp.cursor, had \cup page)
      BY <1>0, <2>1, <2>3, <2>5, <2>6 DEF OrderedCall
    <3>2. c.resp.cursor \in MsgIds \cup {0} BY <1>0, <2>6 DEF Shaped, Response
    <3>3. had \cup page \subseteq more \cup page BY <2>3
    <3> QED BY <3>1, <3>2, <3>3, ReachedKept
  <2>7. c.pc = "list" => Reached(c.path, c.dir, c.since, seen[<<c.path, c.dir>>])'
    BY <2>1, <2>3, <2>4 DEF Reached, Inbox
  <2>8. c.op = "get" /\ c.pc = "done" /\ c.resp.page # {} =>
          Reached(c.path, c.dir, c.resp.cursor,
                  seen[<<c.path, c.dir>>] \cup {item.msg : item \in c.resp.page})'
    BY <2>1, <2>3, <2>5, <2>6 DEF Reached, Inbox
  <2> QED BY <2>2, <2>7, <2>8 DEF OrderedCall
<1> QED BY <1>1, <1>2

\* A page takes its reader to its last id: everything of the inbox up to there
\* it has had before, or is on the page.
LEMMA PageReaches ==
    ASSUME Base, Ordered, NEW path \in Paths, NEW dir \in Directions,
           NEW since \in Nat, NEW known, Reached(path, dir, since, known),
           NEW page, page = ListEnvelopes(path, dir, since), page # {}
    PROVE  Reached(path, dir, Last(page), known \cup page)
<1>1. PICK L : L = Last(page) OBVIOUS
<1>2. L \in page /\ L \in Inbox(path, dir) BY <1>1, ListFacts
<1>3. /\ L \in MsgIds /\ envelopes[L] # Null
      /\ envelopes[L].path = path /\ envelopes[L].dir = dir
  BY <1>2 DEF Inbox
<1>4. envelopes[L] \in Row BY <1>3 DEF Base, TypeOK
<1>5. PICK k \in Signers : k = envelopes[L].by BY <1>4 DEF Row
<1>6. Authentic(path, k) /\ Writes(path, k) = dir
  BY <1>3, <1>5 DEF Base, RowsAuthentic
<1>7. After(path, k, L) BY <1>3, <1>5 DEF Ordered
<1>8. ASSUME NEW n \in Inbox(path, dir), n <= L PROVE n \in known \cup page
  <2>1. n \in Nat /\ L \in Nat BY <1>3, IdsAssumption DEF Inbox
  <2>2. CASE n <= since BY <2>2 DEF Reached
  <2>3. CASE since < n /\ n < L BY <1>2, <2>3, ListFacts
  <2>4. CASE n = L BY <1>2, <2>4
  <2> QED BY <1>8, <2>1, <2>2, <2>3, <2>4
<1> QED BY <1>1, <1>2, <1>6, <1>7, <1>8 DEF Reached

\* The answer of getList.
LEMMA OrderedList ==
    ASSUME Base, Ordered, [Next]_vars, NEW p \in Procs, getList(p)
    PROVE  \E X \in Local : Moves(p, X) /\ OrderedCall(X)' /\ X.op # "put"
<1>1. PICK X \in Local :
        /\ Moves(p, X)
        /\ \/ Refused(X)
           \/ /\ Answered(p, X)
              /\ \E page : /\ page = ListEnvelopes(proc[p].path, proc[p].dir,
                                                   proc[p].since)
                           /\ X.resp.page = {[msg |-> m, by |-> envelopes[m].by] :
                                                  m \in page}
                           /\ X.resp.cursor = Last(page)
  BY GetListStep
<1>2. proc[p].op = "get" BY GetListStep
<1>3. CASE Refused(X)
  <2>1. OrderedCall(X)' BY <1>3 DEF Refused, OrderedCall
  <2> QED BY <1>1, <1>3, <2>1 DEF Refused
<1>4. ASSUME Answered(p, X), NEW page,
             page = ListEnvelopes(proc[p].path, proc[p].dir, proc[p].since),
             X.resp.page = {[msg |-> m, by |-> envelopes[m].by] : m \in page},
             X.resp.cursor = Last(page)
      PROVE  OrderedCall(X)'
  <2>1. PICK path \in Paths, dir \in Directions :
           path = proc[p].path /\ dir = proc[p].dir
    BY <1>2, CallInbox
  <2>2. PICK since \in Nat : since = proc[p].since
    <3>1. proc[p].since \in MsgIds \cup {0} BY DEF Base, TypeOK, Local
    <3> QED BY <3>1, CursorType
  <2>3. /\ X.op = "get" /\ X.path = path /\ X.dir = dir /\ X.pc = "done"
    BY <1>2, <1>4, <2>1 DEF Answered, Same
  <2>4. {item.msg : item \in X.resp.page} = page
    <3> DEFINE Entry(m) == [msg |-> m, by |-> envelopes[m].by]
    <3>1. \A m : Entry(m).msg = m OBVIOUS
    <3>2. X.resp.page = {Entry(m) : m \in page} BY <1>4
    <3> HIDE DEF Entry
    <3>3. \A x : x \in {item.msg : item \in X.resp.page} <=> x \in page
      BY <3>1, <3>2
    <3> QED BY <3>3
  <2>5. PICK had : had = seen[<<path, dir>>] OBVIOUS
  <2>6. seen'[<<path, dir>>] = had BY <2>5 DEF getList, Quiet, clients
  <2>7. Reached(path, dir, since, had)
    BY <2>1, <2>2, <2>5 DEF Ordered, OrderedCall, getList
  <2>8. page = ListEnvelopes(path, dir, since) BY <1>4, <2>1, <2>2
  <2>9. X.resp.page # {} => page # {} BY <1>4
  <2>10. PICK last : last = Last(page) OBVIOUS
  <2>11. ASSUME page # {} PROVE Reached(path, dir, last, had \cup page)'
    <3>1. Reached(path, dir, last, had \cup page)
      BY <2>7, <2>8, <2>10, <2>11, PageReaches
    <3>2. last \in MsgIds \cup {0} BY <2>8, <2>10, ListFacts
    <3> QED BY <3>1, <3>2, ReachedKept
  <2>12. X.resp.page # {} =>
           Reached(X.path, X.dir, X.resp.cursor,
                   seen[<<X.path, X.dir>>] \cup {item.msg : item \in X.resp.page})'
    <3>1. X.resp.cursor = last BY <1>4, <2>10
    <3> QED BY <2>3, <2>4, <2>6, <2>9, <2>11, <3>1 DEF Reached, Inbox
  <2> QED BY <2>3, <2>12 DEF OrderedCall
<1>5. X.op # "put" BY <1>1, <1>2 DEF Refused, Answered, Same
<1> QED BY <1>1, <1>3, <1>4, <1>5

\* The steps of a handler.
LEMMA OrderedMoves ==
    ASSUME Base, Ordered, Disciplined, [Next]_vars, NEW p \in Procs, Handler(p)
    PROVE  \E X \in Local : /\ Moves(p, X) /\ OrderedCall(X)'
                            /\ X.op = "put" => Alone(p, X.path, X.by)
<1>0. /\ settled \subseteq settled' /\ OrderedCall(proc[p])
      /\ proc[p].op = "put" => Alone(p, proc[p].path, proc[p].by)
  BY ClientsGrow DEF Ordered
<1>1. ASSUME NEW X, X.op = "none" \/ X.op = "ack", X.pc # "list"
      PROVE  OrderedCall(X)'
  BY <1>1 DEF OrderedCall
<1>2. CASE badRequest(p) \/ getPairFails(p)
  <2>1. Refuse(p, 400) \/ Refuse(p, 500)
    BY <1>2 DEF badRequest, getPairFails
  <2>2. PICK X \in Local : Moves(p, X) /\ Refused(X) BY <2>1, RefuseStep
  <2> QED BY <1>1, <2>2 DEF Refused
<1>3. CASE put(p)
  <2>1. PICK X \in Local :
          /\ Moves(p, X)
          /\ \/ Refused(X)
             \/ /\ Opened(X, "put") /\ X.pc = "insert"
                /\ \E m \in Mints[X.path][X.by] :
                      X.ids = {m} /\ InTurn(X.path, X.by, m)
    BY <1>3, PutStep
  <2>2. CASE Refused(X) BY <1>1, <2>1, <2>2 DEF Refused
  <2>3. ASSUME Opened(X, "put"), X.pc = "insert",
               NEW m \in Mints[X.path][X.by], X.ids = {m}, InTurn(X.path, X.by, m)
        PROVE  OrderedCall(X)' /\ Alone(p, X.path, X.by)
    <3>1. UNCHANGED settled BY <1>3 DEF put, Quiet, clients
    <3>2. After(X.path, X.by, m)' /\ <<X.path, X.by, m>> \notin settled'
      BY <2>3, <3>1 DEF InTurn, After
    <3>3. Alone(p, X.path, X.by) BY <2>3 DEF InTurn, Alone
    <3> QED BY <2>3, <3>2, <3>3 DEF Opened, OrderedCall
  <2> QED BY <2>1, <2>2, <2>3
<1>4. CASE InsertEnvelope(p)
  <2>1. PICK X \in Local :
          Moves(p, X) /\ proc[p].op = "put" /\ (Refused(X) \/ Answered(p, X))
    BY <1>4, InsertStep
  <2>2. CASE Refused(X) BY <1>1, <2>1, <2>2 DEF Refused
  <2>3. CASE Answered(p, X)
    <3>1. /\ X.op = "put" /\ X.path = proc[p].path /\ X.by = proc[p].by
          /\ X.ids = proc[p].ids /\ X.pc = "done"
      BY <2>1, <2>3 DEF Answered, Same
    <3>2. \A m \in X.ids : m \in Mints[X.path][X.by] /\ After(X.path, X.by, m)'
      BY <1>0, <2>1, <3>1 DEF OrderedCall, After
    <3> QED BY <1>0, <2>1, <3>1, <3>2 DEF OrderedCall
  <2> QED BY <2>1, <2>2, <2>3
<1>5. CASE get(p)
  <2>1. PICK X \in Local :
          /\ Moves(p, X)
          /\ \/ Refused(X)
             \/ /\ Opened(X, "get") /\ X.pc = "list"
                /\ X.since \in {0, cursor[<<X.path, X.dir>>]}
    BY <1>5, GetStep
  <2>2. CASE Refused(X) BY <1>1, <2>1, <2>2 DEF Refused
  <2>3. ASSUME Opened(X, "get"), X.pc = "list",
               X.since \in {0, cursor[<<X.path, X.dir>>]}
        PROVE  OrderedCall(X)'
    <3>1. PICK path \in Paths, dir \in Directions : path = X.path /\ dir = X.dir
      BY <2>3 DEF Opened
    <3>2. PICK had : had = seen[<<path, dir>>] OBVIOUS
    <3>3. Reached(path, dir, cursor[<<path, dir>>], had) BY <3>2 DEF Ordered
    <3>4. Reached(path, dir, 0, had)
      <4>1. \A n \in Inbox(path, dir) : ~(n <= 0) BY IdsAssumption DEF Inbox
      <4> QED BY <4>1 DEF Reached
    <3>5. Reached(path, dir, X.since, had) BY <2>3, <3>1, <3>3, <3>4
    <3>6. X.since \in MsgIds \cup {0} BY DEF Local
    <3>7. Reached(path, dir, X.since, had)' BY <3>5, <3>6, ReachedKept
    <3>8. seen'[<<path, dir>>] = had BY <1>5, <3>2 DEF get, Quiet, clients
    <3>9. Reached(X.path, X.dir, X.since, seen[<<X.path, X.dir>>])'
      BY <3>1, <3>7, <3>8 DEF Reached, Inbox
    <3> QED BY <2>3, <3>9 DEF Opened, OrderedCall
  <2> QED BY <2>1, <2>2, <2>3 DEF Opened
<1>6. CASE getList(p) BY <1>6, OrderedList
<1>7. CASE ack(p)
  <2>1. PICK X \in Local :
          /\ Moves(p, X)
          /\ \/ Refused(X)
             \/ Opened(X, "ack") /\ (X.pc = "ackList" \/ X.pc = "done")
    BY <1>7, AckStep
  <2> QED BY <1>1, <2>1 DEF Refused, Opened
<1>8. CASE ackList(p)
  <2>1. PICK X \in Local :
          /\ Moves(p, X) /\ proc[p].op = "ack"
          /\ \/ Refused(X) \/ Answered(p, X)
             \/ Same(p, X) /\ X.pc = "delete"
    BY <1>8, AckListStep
  <2> QED BY <1>1, <2>1 DEF Refused, Answered, Same
<1>9. CASE ackDelete(p)
  <2>1. PICK X \in Local :
          Moves(p, X) /\ proc[p].op = "ack" /\ (Refused(X) \/ Answered(p, X))
    BY <1>9, AckDeleteStep
  <2> QED BY <1>1, <2>1 DEF Refused, Answered, Same
<1>10. CASE finish(p)
  <2>1. Moves(p, Idle) BY <1>10 DEF finish, Moves
  <2> QED BY <1>1, <2>1, IdleFacts
<1> QED BY <1>2, <1>3, <1>4, <1>5, <1>6, <1>7, <1>8, <1>9, <1>10 DEF Handler

\* What a reader knows when an answer may have been delivered.
LEMMA OrderedInboxes ==
    ASSUME Base, Ordered, [Next]_vars, NEW path \in Paths, NEW dir \in Directions
    PROVE  Reached(path, dir, cursor[<<path, dir>>], seen[<<path, dir>>])'
<1>0. PICK i \in Inboxes : i = <<path, dir>> BY DEF Inboxes
<1>1. /\ cursor \in [Inboxes -> MsgIds \cup {0}]
      /\ seen \in [Inboxes -> SUBSET MsgIds] /\ proc \in [Procs -> Local]
  BY DEF Base, TypeOK
<1>2. PICK c \in MsgIds \cup {0}, had \in SUBSET MsgIds : c = cursor[i] /\ had = seen[i]
  BY <1>1
<1>3. Reached(path, dir, c, had) BY <1>0, <1>2 DEF Ordered
<1>4. CASE cursor'[i] = c /\ seen'[i] = had
  <2>1. Reached(path, dir, c, had)' BY <1>3, ReachedKept
  <2> QED BY <1>0, <1>4, <2>1 DEF Reached, Inbox
<1>5. ASSUME NEW p \in Procs, finish(p)
      PROVE  Reached(path, dir, cursor[<<path, dir>>], seen[<<path, dir>>])'
  <2>1. PICK page : page = {item.msg : item \in proc[p].resp.page} OBVIOUS
  <2>2. CASE ~(proc[p].op = "get" /\ proc[p].resp.page # {})
    BY <1>2, <1>4, <1>5, <2>2 DEF finish
  <2>3. CASE proc[p].op = "get" /\ proc[p].resp.page # {}
    <3>1. PICK j \in Inboxes : j = <<proc[p].path, proc[p].dir>>
      BY <2>3, CallInbox
    <3>2. /\ cursor' = [cursor EXCEPT ![j] = proc[p].resp.cursor]
          /\ seen' = [seen EXCEPT ![j] = @ \cup page]
      BY <1>5, <2>1, <2>3, <3>1 DEF finish
    <3>3. CASE i # j BY <1>1, <1>2, <1>4, <3>2, <3>3
    <3>4. CASE i = j
      <4>1. PICK d : d = proc[p].resp.cursor OBVIOUS
      <4>2. cursor'[i] = d /\ seen'[i] = had \cup page
        BY <1>1, <1>2, <3>2, <3>4, <4>1
      <4>3. proc[p].pc = "done" BY <1>5 DEF finish
      <4>4. path = proc[p].path /\ dir = proc[p].dir BY <1>0, <3>1, <3>4
      <4>5. Reached(path, dir, d, had \cup page)
        BY <1>0, <1>2, <2>1, <2>3, <4>1, <4>3, <4>4 DEF Ordered, OrderedCall
      <4>6. d \in MsgIds \cup {0}
        BY <4>1, <4>3 DEF Base, CallsAuthentic, Shaped, Response
      <4>7. Reached(path, dir, d, had \cup page)' BY <4>5, <4>6, ReachedKept
      <4> QED BY <1>0, <4>2, <4>7 DEF Reached, Inbox
    <3> QED BY <3>3, <3>4
  <2> QED BY <2>2, <2>3
<1>6. ASSUME NEW p \in Procs, Handler(p), ~finish(p) PROVE UNCHANGED clients
  BY <1>6 DEF Handler, badRequest, getPairFails, put, InsertEnvelope, get,
              getList, ack, ackList, ackDelete, Quiet
<1>7. CASE UNCHANGED clients BY <1>2, <1>4, <1>7 DEF clients
<1> QED BY <1>5, <1>6, <1>7
  DEF Next, activate, Tick, sweepStart, sweepEvict, sweepFail, Crash, vars, clients

\* One step keeps the walk of every reader complete.
LEMMA OrderedInductive ==
    ASSUME Base, Ordered, Disciplined, [Next]_vars PROVE Ordered'
<1>0. settled \subseteq settled' /\ proc \in [Procs -> Local]
  BY ClientsGrow DEF Base, TypeOK
<1>1. ASSUME NEW m \in MsgIds, envelopes'[m] # Null
      PROVE  After(envelopes[m].path, envelopes[m].by, m)'
  <2>1. CASE envelopes'[m] = envelopes[m]
    BY <1>0, <1>1, <2>1 DEF Ordered, After
  <2>2. ASSUME NEW p \in Procs, Inserts(p, m, envelopes'[m])
        PROVE  After(envelopes[m].path, envelopes[m].by, m)'
    <3>1. After(proc[p].path, proc[p].by, m) BY <2>2 DEF Inserts, Ordered, OrderedCall
    <3> QED BY <1>0, <2>2, <3>1 DEF Inserts, After
  <2> QED BY <1>1, <2>1, <2>2, RowsStep
<1>2. \A q \in Procs : \E c \in Local : c = proc[q] /\ OrderedCall(c)'
  <2> SUFFICES ASSUME NEW q \in Procs
               PROVE  \E c \in Local : c = proc[q] /\ OrderedCall(c)'
    OBVIOUS
  <2>1. PICK c \in Local : c = proc[q] BY <1>0
  <2> QED BY <2>1, OrderedCallKept
<1> DEFINE Goal == \A q \in Procs :
              /\ \E Y \in Local : Y = proc'[q] /\ OrderedCall(Y)'
              /\ proc'[q].op = "put" => Alone(q, proc[q].path, proc[q].by)'
<1>3. Goal
  <2>1. ASSUME NEW p \in Procs, Handler(p) PROVE Goal
    <3>1. PICK X \in Local : /\ Moves(p, X) /\ OrderedCall(X)'
                             /\ X.op = "put" => Alone(p, X.path, X.by)
      BY <2>1, OrderedMoves
    <3>2. \A q \in Procs : proc'[q] = IF q = p THEN X ELSE proc[q]
      BY <1>0, <3>1 DEF Moves
    <3>3. \A q \in Procs : \E Y \in Local : Y = proc'[q] /\ OrderedCall(Y)'
      <4> SUFFICES ASSUME NEW q \in Procs
                   PROVE  \E Y \in Local : Y = proc'[q] /\ OrderedCall(Y)'
        OBVIOUS
      <4>1. PICK c \in Local : c = proc[q] /\ OrderedCall(c)' BY <1>2
      <4> QED BY <3>1, <3>2, <4>1
    <3>4. \A q \in Procs : proc[q].op = "put" => Alone(q, proc[q].path, proc[q].by)
      BY DEF Ordered
    <3>5. \A q \in Procs :
             proc'[q].op = "put" => Alone(q, proc[q].path, proc[q].by)'
      BY <3>1, <3>2, <3>4 DEF Alone
    <3> QED BY <3>3, <3>5
  <2>2. CASE UNCHANGED proc BY <1>2, <2>2 DEF Ordered, Alone
  <2>3. CASE Crash
    <3>1. OrderedCall(Idle)' BY IdleFacts DEF OrderedCall
    <3>2. \A q \in Procs : proc'[q] = Idle BY <2>3 DEF Crash
    <3> QED BY <3>1, <3>2, IdleFacts
  <2> HIDE DEF Goal
  <2> QED
    BY <2>1, <2>2, <2>3
       DEF Next, activate, Tick, sweepStart, sweepEvict, sweepFail, vars
<1>4. ASSUME NEW q \in Procs PROVE OrderedCall(proc[q])'
  <2>1. PICK Y \in Local : Y = proc'[q] /\ OrderedCall(Y)' BY <1>3
  <2> QED BY <2>1 DEF OrderedCall, Reached, After, Inbox, Authentic, Writes, Caller
<1>5. \A q \in Procs : (proc[q].op = "put" => Alone(q, proc[q].path, proc[q].by))'
  BY <1>3
<1> QED BY <1>1, <1>4, <1>5, OrderedInboxes DEF Ordered

\* A reader that walks its inbox with the returned cursor misses nothing that
\* is there, if senders put one envelope at a time, in the order of their ids,
\* and again until it is answered 202 or 409.  Nothing is asked of the other
\* pairs' ids, of what readers ack or of how long envelopes are kept: a row
\* that is evicted and put again is one that its reader has had, or one that
\* is not yet behind the cursor.
THEOREM CursorCompleteHolds ==
    ASSUME Disciplined PROVE Spec => []CursorComplete
<1>1. Init => Ordered
  <2> SUFFICES ASSUME Init PROVE Ordered OBVIOUS
  <2>1. \A p \in Procs : proc[p] = Idle BY DEF Init
  <2>2. \A p \in Procs : OrderedCall(proc[p]) /\ proc[p].op # "put"
    BY <2>1, IdleFacts DEF OrderedCall
  <2>3. ASSUME NEW path \in Paths, NEW dir \in Directions
        PROVE  Reached(path, dir, cursor[<<path, dir>>], seen[<<path, dir>>])
    <3>1. cursor[<<path, dir>>] = 0 BY DEF Init, Inboxes
    <3>2. \A n : n \notin Inbox(path, dir) BY DEF Init, Inbox
    <3> QED BY <3>1, <3>2 DEF Reached
  <2> QED BY <2>2, <2>3 DEF Init, Ordered
<1>2. Base /\ Ordered /\ [Next]_vars => Ordered' BY OrderedInductive
<1>3. Ordered => CursorComplete
  <2> SUFFICES ASSUME Ordered, NEW i \in Inboxes,
                      NEW m \in Inbox(i[1], i[2]), m <= cursor[i]
               PROVE  m \in seen[i]
    BY DEF CursorComplete
  <2>1. i = <<i[1], i[2]>> /\ i[1] \in Paths /\ i[2] \in Directions BY DEF Inboxes
  <2>2. Reached(i[1], i[2], cursor[i], seen[i]) BY <2>1 DEF Ordered
  <2> QED BY <2>2 DEF Reached
<1> QED BY <1>1, <1>2, <1>3, BaseInvariant, PTL DEF Spec
=============================================================================
