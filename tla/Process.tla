------------------------------- MODULE Process ------------------------------
(***************************************************************************)
(* The exporter as one process: the main goroutine and the web server of   *)
(* Daemon around the polling loops of Poller.  They share the context that *)
(* the signal cancels, and main waits for Poller.Run before it exits.      *)
(*                                                                         *)
(* Daemon takes a loop to be something that, once started, runs until some *)
(* time after the context is cancelled it has stopped.  Here the loops are *)
(* the real ones, in the middle of a request, a reconnection or a sleep;   *)
(* ImplementsDaemon says that Daemon is right about them.                  *)
(***************************************************************************)
EXTENDS Poller

CONSTANTS Requests, MayFail     \* as in Daemon

ASSUME MayFailAssumption == MayFail \in BOOLEAN

VARIABLES main, result, listener, serve, errc, request     \* as in Daemon

serverVars  == <<main, result, listener, serve, errc, request>>
pollerVars  == <<started, entry, lastSuccess, loopVars, envVars>>
processVars == <<vars, serverVars>>

\* What main can tell of a loop: go poll.Run(ctx) is behind it, which it never is
\* when the port cannot be bound, or the loop has returned.  A loop that Run has
\* yet to register counts as running.
loops ==
    [d \in Device |->
        IF pc[d] = "stopped" THEN "stopped"
        ELSE IF pc[d] = "off" /\ main \in {"new", "start", "exit1"} THEN "off"
        ELSE "running"]

D == INSTANCE Daemon WITH Devices <- Device

\* The goroutine of Poller.Run, and with it the loops, from its start to the end
\* of the process.
Alive == main \notin {"new", "start"} /\ ~D!Exited

ProcessInit == Init /\ D!Init

-----------------------------------------------------------------------------
\* main, the goroutine in Serve and the handlers of requests.
Server ==
    /\ UNCHANGED pollerVars
    /\ D!Main \/ D!ServeReturns
       \/ \E r \in Requests : D!Accept(r) \/ D!Answered(r)

\* One signal, one context.
Signal == UNCHANGED pollerVars /\ D!Signal

Polling ==
    /\ Alive
    /\ Register \/ \E d \in Device : Loop(d)
    /\ UNCHANGED serverVars

\* Time and the devices, which need not settle, do not wait for the process.
Outside ==
    /\ Alive
    /\ Tick \/ \E d \in Device : Change(d)
    /\ UNCHANGED serverVars

ProcessNext == Server \/ Signal \/ Polling \/ Outside

ProcessSpec == ProcessInit /\ [][ProcessNext]_processVars

\* Every goroutine of the process runs; see Daemon and Poller.
ProcessFairness ==
    /\ WF_processVars(UNCHANGED pollerVars /\ D!Main)
    /\ WF_processVars(Alive /\ Register /\ UNCHANGED serverVars)
    /\ \A d \in Device :
            WF_processVars(Alive /\ Loop(d) /\ UNCHANGED serverVars)

FairProcessSpec == ProcessSpec /\ ProcessFairness
-----------------------------------------------------------------------------
\* The inductive invariant: those of both halves, and that no loop is registered
\* before go poll.Run(ctx).
ProcessInv ==
    /\ IInv /\ D!Inv
    /\ main \in {"new", "start"} => started = 0

\* Refinement: with these loops the process does what Daemon says, and nothing
\* else; in particular a loop stops only after the context was cancelled.
ImplementsDaemon == D!Spec

\* A regular end is a clean one (see Daemon), with the real loops.
CleanExit == D!CleanExit

\* No loop polls before the port is bound, or is cut off by the end of the
\* process (see Daemon), with the real loops.
LoopsWithinProcess == D!LoopsWithinProcess

\* After a signal, at any point of the start, of a poll, of a request being
\* served or of a shutdown, the process ends (see Daemon).
ExitsAfterSignal == D!ExitsAfterSignal
=============================================================================
