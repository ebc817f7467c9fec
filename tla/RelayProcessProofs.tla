------------------------- MODULE RelayProcessProofs -------------------------
(***************************************************************************)
(* RelayProcess's invariants, for any number of connections and any window. *)
(*                                                                          *)
(* CutOnlyAfterWindow and WorkersStopFirst speak of the closed store only.   *)
(* What they rest on is where main was before: DrainPast records, for every  *)
(* server whose Shutdown main has returned from, that its listener accepts   *)
(* no more and that no call is left or the window is used up.               *)
(***************************************************************************)
EXTENDS RelayProcess, TLAPS

\* The positions of main in and after the Shutdown of server s.
InShutdown(s) ==
    IF s = "public"
    THEN {"drain public", "drain tailnet", "wait", "closed"}
    ELSE {"drain tailnet", "wait", "closed"}
PastShutdown(s) ==
    IF s = "public" THEN {"drain tailnet", "wait", "closed"}
    ELSE {"wait", "closed"}

\* A server is shut from its Shutdown on, and drained once that has returned.
DrainPast ==
    \A s \in Servers :
        /\ main \in InShutdown(s) => listener[s] = "shut"
        /\ main \in PastShutdown(s) => Drained(s)

\* The limiter is stopped before main waits, the sweeper before main closes
\* the store, and nothing else closes it.
StopOrder ==
    /\ main \in {"wait", "closed"} => ~limiter
    /\ main = "closed" => sweeper = "returned"
    /\ store = "closed" => main = "closed"

IInv == TypeOK /\ DrainPast /\ StopOrder

\* Every state component keeps its type, whatever main, the listeners, the
\* calls and the sweeper do.
LEMMA TypeInductive ==
    ASSUME TypeOK, [Next]_vars
    PROVE  TypeOK'
<1>1. CASE Main
  <2> USE NullAssumption DEF TypeOK
  <2>1. CASE open BY <2>1 DEF open
  <2>2. CASE start BY <2>2 DEF start
  <2>3. CASE drainPublic BY <2>3 DEF drainPublic, Servers
  <2>4. CASE drainTailnet BY <2>4 DEF drainTailnet, Servers
  <2>5. CASE rateShutdown BY <2>5 DEF rateShutdown
  <2>6. CASE waitSweep BY <2>6 DEF waitSweep
  <2>7. CASE leave BY <2>7 DEF leave
  <2> QED BY <1>1, <2>1, <2>2, <2>3, <2>4, <2>5, <2>6, <2>7 DEF Main
<1>2. CASE signal BY <1>2, NullAssumption DEF signal, TypeOK
<1>3. CASE Sweep
  BY <1>3 DEF Sweep, sweepTick, sweepStep, sweepReturn, TypeOK
<1>4. CASE tick
  <2>1. PICK s \in Servers : /\ window[s] < DrainWindow
                             /\ window' = [window EXCEPT ![s] = @ + 1]
    BY <1>4 DEF tick
  <2>2. \A w \in 0 .. DrainWindow : w < DrainWindow => w + 1 \in 0 .. DrainWindow
    BY WindowAssumption
  <2>3. window[s] + 1 \in 0 .. DrainWindow
    BY <2>1, <2>2 DEF TypeOK
  <2>4. window' \in [Servers -> 0 .. DrainWindow]
    BY <2>1, <2>3 DEF TypeOK
  <2> QED BY <1>4, <2>4 DEF tick, TypeOK
<1>5. ASSUME NEW s \in Servers, listen(s) \/ listenFail(s) PROVE TypeOK'
  BY <1>5 DEF listen, listenFail, TypeOK
<1>6. ASSUME NEW s \in Servers, NEW i \in Slots,
             begin(s, i) \/ useStore(s, i) \/ end(s, i)
      PROVE  TypeOK'
  <2>1. PICK v \in {"idle", "run", "failed"} :
            call' = [call EXCEPT ![s][i] = v]
    BY <1>6 DEF begin, useStore, end
  <2>2. call' \in [Servers -> [Slots -> {"idle", "run", "failed"}]]
    BY <2>1 DEF TypeOK
  <2> QED BY <1>6, <2>2 DEF begin, useStore, end, TypeOK
<1>7. CASE UNCHANGED vars BY <1>7 DEF vars, TypeOK
<1> QED BY <1>1, <1>2, <1>3, <1>4, <1>5, <1>6, <1>7 DEF Next

\* A shut listener stays shut and a drained server stays drained: no new call
\* is accepted, and a window that is used up stays so.
LEMMA DrainInductive ==
    ASSUME IInv, [Next]_vars
    PROVE  DrainPast'
<1> SUFFICES ASSUME NEW s \in Servers
             PROVE  /\ (main \in InShutdown(s) => listener[s] = "shut")'
                    /\ (main \in PastShutdown(s) => Drained(s))'
  BY DEF DrainPast
<1> USE DEF Servers, InShutdown, PastShutdown
<1>1. /\ TypeOK
      /\ main \in InShutdown(s) => listener[s] = "shut"
      /\ main \in PastShutdown(s) => Drained(s)
  BY DEF IInv, DrainPast
<1>2. CASE Main
  <2>1. UNCHANGED <<call, window>> /\ (Drained(s))' = Drained(s)
    BY <1>2 DEF Main, open, start, drainPublic, drainTailnet, rateShutdown,
                waitSweep, leave, Drained, Running
  <2>2. CASE start BY <1>1, <2>1, <2>2 DEF start
  <2>3. CASE drainPublic BY <1>1, <2>1, <2>3 DEF drainPublic, TypeOK
  <2>4. CASE drainTailnet BY <1>1, <2>1, <2>4 DEF drainTailnet, TypeOK
  <2>5. CASE rateShutdown BY <1>1, <2>1, <2>5 DEF rateShutdown
  <2>6. CASE open \/ waitSweep \/ leave
    BY <1>1, <2>1, <2>6 DEF open, waitSweep, leave
  <2> QED BY <1>2, <2>2, <2>3, <2>4, <2>5, <2>6 DEF Main
<1>3. CASE signal \/ Sweep \/ UNCHANGED vars
  <2>1. UNCHANGED <<main, listener, call, window>>
    BY <1>3 DEF signal, Sweep, sweepTick, sweepStep, sweepReturn, vars
  <2> QED BY <1>1, <2>1 DEF Drained, Running
<1>4. CASE tick
  <2>1. UNCHANGED <<main, listener, call>> BY <1>4 DEF tick
  <2>2. ASSUME main \in PastShutdown(s) PROVE window'[s] = window[s]
    BY <1>1, <1>4, <2>2 DEF tick, TypeOK
  <2> QED BY <1>1, <2>1, <2>2 DEF Drained, Running
<1>5. ASSUME NEW t \in Servers, listen(t) \/ listenFail(t)
      PROVE  /\ (main \in InShutdown(s) => listener[s] = "shut")'
             /\ (main \in PastShutdown(s) => Drained(s))'
  <2>1. UNCHANGED <<main, call, window>>
    BY <1>5 DEF listen, listenFail
  <2>2. listener[s] = "shut" => listener'[s] = "shut"
    BY <1>1, <1>5 DEF listen, listenFail, TypeOK
  <2> QED BY <1>1, <2>1, <2>2 DEF Drained, Running
<1>6. ASSUME NEW t \in Servers, NEW i \in Slots,
             begin(t, i) \/ useStore(t, i) \/ end(t, i)
      PROVE  /\ (main \in InShutdown(s) => listener[s] = "shut")'
             /\ (main \in PastShutdown(s) => Drained(s))'
  <2>1. UNCHANGED <<main, listener, window>>
    BY <1>6 DEF begin, useStore, end
  <2>2. ASSUME listener[s] = "shut" PROVE Running(s)' \subseteq Running(s)
    <3> SUFFICES ASSUME NEW j \in Slots, call'[s][j] \in {"run", "failed"}
                 PROVE  call[s][j] \in {"run", "failed"}
      BY DEF Running
    <3> HIDE DEF Servers
    <3>1. CASE begin(t, i)
      BY <1>1, <2>2, <3>1 DEF begin, TypeOK
    <3>2. CASE useStore(t, i)
      BY <1>1, <3>2 DEF useStore, TypeOK
    <3>3. CASE end(t, i)
      BY <1>1, <3>3 DEF end, TypeOK
    <3> QED BY <1>6, <3>1, <3>2, <3>3
  <2> QED BY <1>1, <2>1, <2>2 DEF Drained
<1> QED BY <1>2, <1>3, <1>4, <1>5, <1>6 DEF Next

\* main goes on in its order and the sweeper, once returned, stays so.
LEMMA StopInductive ==
    ASSUME IInv, [Next]_vars
    PROVE  StopOrder'
<1>0. StopOrder BY DEF IInv
<1> USE <1>0 DEF StopOrder
<1>1. CASE Main
  <2>1. CASE open BY <2>1 DEF open
  <2>2. CASE start BY <2>2 DEF start
  <2>3. CASE drainPublic \/ drainTailnet
    BY <2>3 DEF drainPublic, drainTailnet
  <2>4. CASE rateShutdown BY <2>4 DEF rateShutdown
  <2>5. CASE waitSweep \/ leave BY <2>5 DEF waitSweep, leave
  <2> QED BY <1>1, <2>1, <2>2, <2>3, <2>4, <2>5 DEF Main
<1>2. CASE signal \/ tick \/ UNCHANGED vars
  <2>1. UNCHANGED <<main, sweeper, limiter, store>>
    BY <1>2 DEF signal, tick, vars
  <2> QED BY <2>1
<1>3. CASE Sweep
  BY <1>3 DEF Sweep, sweepTick, sweepStep, sweepReturn
<1>4. ASSUME NEW s \in Servers, listen(s) \/ listenFail(s) PROVE StopOrder'
  BY <1>4 DEF listen, listenFail
<1>5. ASSUME NEW s \in Servers, NEW i \in Slots,
             begin(s, i) \/ useStore(s, i) \/ end(s, i)
      PROVE  StopOrder'
  BY <1>5 DEF begin, useStore, end
<1> QED BY <1>1, <1>2, <1>3, <1>4, <1>5 DEF Next

\* The inductive invariant holds in every reachable state of the process.
THEOREM ProcessInvariant == Spec => []IInv
<1>1. Init => IInv
  <2> SUFFICES ASSUME Init PROVE IInv
    OBVIOUS
  <2>1. 0 \in 0 .. DrainWindow BY WindowAssumption
  <2>2. TypeOK BY <2>1 DEF Init, TypeOK
  <2>3. DrainPast BY DEF Init, DrainPast, InShutdown, PastShutdown
  <2>4. StopOrder BY DEF Init, StopOrder
  <2> QED BY <2>2, <2>3, <2>4 DEF IInv
<1>2. IInv /\ [Next]_vars => IInv'
  BY TypeInductive, DrainInductive, StopInductive DEF IInv
<1> QED BY <1>1, <1>2, PTL DEF Spec

\* Every state component keeps its type.
THEOREM TypeCorrect == Spec => []TypeOK
<1>1. IInv => TypeOK BY DEF IInv
<1> QED BY <1>1, ProcessInvariant, PTL

\* main's two Shutdown calls: no call finds the store closed, or is cut by an
\* orderly end, before its own server had its whole window.
THEOREM CutOnlyAfterWindowHolds == Spec => []CutOnlyAfterWindow
<1>1. IInv => CutOnlyAfterWindow
  BY DEF IInv, StopOrder, DrainPast, PastShutdown, Servers, Drained,
         CutOnlyAfterWindow
<1> QED BY <1>1, ProcessInvariant, PTL

\* main's last statements: the sweeper has returned and the limiter's loop is
\* told to stop before the store is closed.
THEOREM WorkersStopFirstHolds == Spec => []WorkersStopFirst
<1>1. IInv => WorkersStopFirst
  BY DEF IInv, StopOrder, WorkersStopFirst
<1> QED BY <1>1, ProcessInvariant, PTL
=============================================================================
