---------------------------- MODULE RelayProcess ----------------------------
(***************************************************************************)
(* cmd/interchange's main: it opens the store, starts the sweeper, the       *)
(* public and the tailnet server, waits for a signal, drains the two servers *)
(* one after the other, each with a window of its own, stops the rate        *)
(* limiter, waits for the sweeper and closes the store.                     *)
(*                                                                          *)
(* The goroutines are those of main, of the two listeners, of the sweeper    *)
(* and of every call.  net/http's Shutdown is external: it closes the        *)
(* listener and returns when no call is left or its context is done; the     *)
(* calls that are left keep running until the process ends.                 *)
(***************************************************************************)
EXTENDS Naturals

CONSTANTS
    Slots,        \* connections of each server
    DrainWindow,  \* the 10 s of each Shutdown, in ticks
    Null          \* still running

ASSUME WindowAssumption == DrainWindow \in Nat \ {0}
ASSUME NullAssumption == Null \notin {0, 1}

Servers == {"public", "tailnet"}

VARIABLES
    main,      \* where main is
    ctx,       \* is the signal's context cancelled?
    listener,  \* server -> its listener
    call,      \* server -> slot -> its call
    window,    \* server -> ticks its Shutdown has waited
    sweeper,   \* the goroutine of sw.Run
    limiter,   \* does the limiter's eviction loop run, not told to stop?
    store,     \* the *sql.DB
    exit       \* the exit code, Null while the process runs

vars == <<main, ctx, listener, call, window, sweeper, limiter, store, exit>>

Alive == exit = Null
Running(s) == {i \in Slots : call[s][i] \in {"run", "failed"}}

Init ==
    /\ main = "start"
    /\ ctx = FALSE
    /\ listener = [s \in Servers |-> "down"]
    /\ call = [s \in Servers |-> [i \in Slots |-> "idle"]]
    /\ window = [s \in Servers |-> 0]
    /\ sweeper = "down"
    /\ limiter = FALSE
    /\ store = "absent"
    /\ exit = Null

-----------------------------------------------------------------------------
(* main *)

\* -version returns; OpenSQLite and CreateSchema, or a missing -id.  log.Fatal
\* and Fatalf end the process with code 1 and run no deferred call.
open ==
    /\ Alive /\ main = "start"
    /\ \/ exit' = 0 /\ UNCHANGED <<store, main>>
       \/ /\ store' = "open" /\ main' = "opened" /\ UNCHANGED exit
       \/ exit' = 1 /\ store' \in {"absent", "open"} /\ UNCHANGED main
    /\ UNCHANGED <<ctx, listener, call, window, sweeper, limiter>>

\* From here a signal cancels ctx; the sweeper, the limiter's loop and the
\* goroutines of the two listeners are started.
start ==
    /\ Alive /\ main = "opened"
    /\ main' = "serving"
    /\ sweeper' = "select"
    /\ limiter' = TRUE
    /\ listener' = [s \in Servers |-> "starting"]
    /\ UNCHANGED <<ctx, call, window, store, exit>>

\* SIGINT or SIGTERM: before signal.NotifyContext, and when main's deferred
\* stop() has run, it kills the process (the runtime's default, modelled as
\* code 1); in between, any number of signals cancels ctx once.
signal ==
    /\ Alive
    /\ \/ main \in {"start", "opened", "closed"} /\ exit' = 1 /\ UNCHANGED ctx
       \/ main \notin {"start", "opened", "closed"} /\ ~ctx /\ ctx' = TRUE
          /\ UNCHANGED exit
    /\ UNCHANGED <<main, listener, call, window, sweeper, limiter, store>>

\* <-ctx.Done(), then publicSrv.Shutdown is called.
drainPublic ==
    /\ Alive /\ main = "serving" /\ ctx
    /\ main' = "drain public"
    /\ listener' = [listener EXCEPT !["public"] = "shut"]
    /\ UNCHANGED <<ctx, call, window, sweeper, limiter, store, exit>>

\* Mutant of Drained: one deadline for both servers.
DrainedShared(s) ==
    \/ Running(s) = {}
    \/ window["public"] + window["tailnet"] >= DrainWindow

\* Mutant of Drained: Shutdown without a deadline.
DrainedForever(s) == Running(s) = {}

\* Shutdown returns when no call is left or its deadline has passed.
Drained(s) == Running(s) = {} \/ window[s] = DrainWindow

\* Shutdown of the public server returns, whatever it returned; then the
\* tailnet server's is called, with a new deadline.
drainTailnet ==
    /\ Alive /\ main = "drain public" /\ Drained("public")
    /\ main' = "drain tailnet"
    /\ listener' = [listener EXCEPT !["tailnet"] = "shut"]
    /\ UNCHANGED <<ctx, call, window, sweeper, limiter, store, exit>>

rateShutdown ==
    /\ Alive /\ main = "drain tailnet" /\ Drained("tailnet")
    /\ limiter' = FALSE
    /\ main' = "wait"
    /\ UNCHANGED <<ctx, listener, call, window, sweeper, store, exit>>

\* Mutant of waitSweep: the store is closed without waiting.
waitSweepNot ==
    /\ Alive /\ main = "wait"
    /\ store' = "closed"
    /\ main' = "closed"
    /\ UNCHANGED <<ctx, listener, call, window, sweeper, limiter, exit>>

\* sweepWG.Wait(); main returns and its deferred store.Close() runs.
waitSweep ==
    /\ Alive /\ main = "wait" /\ sweeper = "returned"
    /\ store' = "closed"
    /\ main' = "closed"
    /\ UNCHANGED <<ctx, listener, call, window, sweeper, limiter, exit>>

leave ==
    /\ Alive /\ main = "closed"
    /\ exit' = 0
    /\ UNCHANGED <<main, ctx, listener, call, window, sweeper, limiter, store>>

-----------------------------------------------------------------------------
(* The listeners' goroutines and the calls. *)

\* ListenAndServe binds and accepts.
listen(s) ==
    /\ Alive /\ listener[s] = "starting"
    /\ listener' = [listener EXCEPT ![s] = "up"]
    /\ UNCHANGED <<main, ctx, call, window, sweeper, limiter, store, exit>>

\* ListenAndServe fails otherwise than by Shutdown: Fatalf, at any time.
listenFail(s) ==
    /\ Alive /\ listener[s] \in {"starting", "up"}
    /\ exit' = 1
    /\ UNCHANGED <<main, ctx, listener, call, window, sweeper, limiter, store>>

begin(s, i) ==
    /\ Alive /\ listener[s] = "up" /\ call[s][i] = "idle"
    /\ call' = [call EXCEPT ![s][i] = "run"]
    /\ UNCHANGED <<main, ctx, listener, window, sweeper, limiter, store, exit>>

\* A call uses the store: after Close it gets an error and will answer 500.
useStore(s, i) ==
    /\ Alive /\ call[s][i] = "run" /\ store = "closed"
    /\ call' = [call EXCEPT ![s][i] = "failed"]
    /\ UNCHANGED <<main, ctx, listener, window, sweeper, limiter, store, exit>>

\* The call answers, or its handler panics and Recover answers.
end(s, i) ==
    /\ Alive /\ call[s][i] \in {"run", "failed"}
    /\ call' = [call EXCEPT ![s][i] = "idle"]
    /\ UNCHANGED <<main, ctx, listener, window, sweeper, limiter, store, exit>>

-----------------------------------------------------------------------------
(* The sweeper's goroutine: Run's loop around Once. *)

\* The ticker's case of the select; it may be taken after ctx is cancelled.
sweepTick ==
    /\ Alive /\ sweeper = "select"
    /\ sweeper' = "evict"
    /\ UNCHANGED <<main, ctx, listener, call, window, limiter, store, exit>>

\* DeleteEnvelopesOlderThan, then ExpirePendingRequests; an error, of the
\* cancelled context too, stops neither.
sweepStep ==
    /\ Alive /\ sweeper \in {"evict", "expire"}
    /\ sweeper' = IF sweeper = "evict" THEN "expire" ELSE "select"
    /\ UNCHANGED <<main, ctx, listener, call, window, limiter, store, exit>>

sweepReturn ==
    /\ Alive /\ sweeper = "select" /\ ctx
    /\ sweeper' = "returned"
    /\ UNCHANGED <<main, ctx, listener, call, window, limiter, store, exit>>

\* Mutant of tick: the deadline is noticed a tick late.
tickLate ==
    /\ Alive
    /\ \E s \in Servers :
          /\ main = (IF s = "public" THEN "drain public" ELSE "drain tailnet")
          /\ window[s] <= DrainWindow
          /\ window' = [window EXCEPT ![s] = @ + 1]
    /\ UNCHANGED <<main, ctx, listener, call, sweeper, limiter, store, exit>>

\* Time passes for the Shutdown that main is in.
tick ==
    /\ Alive
    /\ \E s \in Servers :
          /\ main = (IF s = "public" THEN "drain public" ELSE "drain tailnet")
          /\ window[s] < DrainWindow
          /\ window' = [window EXCEPT ![s] = @ + 1]
    /\ UNCHANGED <<main, ctx, listener, call, sweeper, limiter, store, exit>>

Main == open \/ start \/ drainPublic \/ drainTailnet \/ rateShutdown
            \/ waitSweep \/ leave
Sweep == sweepTick \/ sweepStep \/ sweepReturn

Next ==
    \/ Main \/ signal \/ Sweep \/ tick
    \/ \E s \in Servers :
          \/ listen(s) \/ listenFail(s)
          \/ \E i \in Slots : begin(s, i) \/ useStore(s, i) \/ end(s, i)

Spec == Init /\ [][Next]_vars

\* Main, the sweeper's statements and time go on.  Strong fairness of
\* sweepReturn: a select with two ready cases picks at random.  Nothing is
\* assumed of the calls: a handler may hang.
Fairness ==
    /\ WF_vars(Main) /\ WF_vars(tick) /\ WF_vars(sweepStep)
    /\ SF_vars(sweepReturn)
FairSpec == Spec /\ Fairness

-----------------------------------------------------------------------------
(* Properties. *)

\* Type invariant.
TypeOK ==
    /\ main \in {"start", "opened", "serving", "drain public",
                 "drain tailnet", "wait", "closed"}
    /\ ctx \in BOOLEAN
    /\ listener \in [Servers -> {"down", "starting", "up", "shut"}]
    /\ call \in [Servers -> [Slots -> {"idle", "run", "failed"}]]
    /\ window \in [Servers -> 0 .. DrainWindow]
    /\ sweeper \in {"down", "select", "evict", "expire", "returned"}
    /\ limiter \in BOOLEAN
    /\ store \in {"absent", "open", "closed"}
    /\ exit \in {Null, 0, 1}

\* A call finds the store closed, or is cut by an orderly end of the process,
\* only after its own server was given a whole drain window: a slow public
\* drain, during which the tailnet server goes on accepting, takes nothing
\* from the owner's calls.
CutOnlyAfterWindow ==
    store = "closed" => \A s \in Servers :
        Running(s) # {} => window[s] = DrainWindow

\* The sweeper, which runs on after the signal and during both drains, never
\* works on a closed store; by then the limiter's loop is told to stop, too.
WorkersStopFirst ==
    store = "closed" => sweeper = "returned" /\ ~limiter

\* A signal ends the process although calls may hang and the sweeper may be
\* in the middle of a sweep.
ShutsDown == ctx ~> ~Alive
=============================================================================
