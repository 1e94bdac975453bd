------------------------------- MODULE Daemon -------------------------------
(***************************************************************************)
(* The life of the daemon: cmd/homewizard_exporter's runDaemon starts the  *)
(* polling loops beside internal/web's Server, which serves until it fails *)
(* or the context is cancelled, then drains; the process ends when both    *)
(* have.  Goroutines: main (runDaemon inside Server.Run), the goroutine in *)
(* Serve, the polling loops, one per request being handled.                *)
(*                                                                         *)
(* What a loop does before it stops is module Poller; here it is running   *)
(* until, some time after the context is cancelled, it is not.  Module     *)
(* Process puts the real loops in their place, and checks the properties.  *)
(***************************************************************************)
CONSTANTS
    Devices,    \* the polling loops
    Requests,   \* what clients send: each is served at most once
    MayFail     \* whether Serve may end on its own

VARIABLES
    ctx,        \* "live", or "done" once SIGINT or SIGTERM has come
    main,       \* where runDaemon is
    result,     \* the error of Server.Run: "none" while it has not returned
    listener,   \* "unbound", "open" or "closed"
    serve,      \* the goroutine in Serve: "off", "accepting" or "returned"
    errc,       \* the buffered channel of Server.Run
    loops,      \* device -> "off", "running" or "stopped"
    request     \* request -> "unsent", "running", "answered" or "cut"

vars == <<ctx, main, result, listener, serve, errc, loops, request>>

Exited == main \in {"exit0", "exit1"}

TypeOK ==
    /\ ctx \in {"live", "done"}
    /\ main \in {"new", "start", "run", "select", "shutdown", "wait", "exit0",
                 "exit1"}
    /\ result \in {"none", "nil", "serve error", "deadline exceeded"}
    /\ main \in {"wait", "exit0"} => result # "none"
    /\ listener \in {"unbound", "open", "closed"}
    /\ serve \in {"off", "accepting", "returned"}
    /\ errc \in {"empty", "ErrServerClosed", "error"}
    /\ loops \in [Devices -> {"off", "running", "stopped"}]
    /\ request \in [Requests -> {"unsent", "running", "answered", "cut"}]

Init ==
    /\ ctx = "live" /\ main = "new" /\ result = "none"
    /\ listener = "unbound" /\ serve = "off" /\ errc = "empty"
    /\ loops = [d \in Devices |-> "off"]
    /\ request = [r \in Requests |-> "unsent"]

Running == {r \in Requests : request[r] = "running"}

-----------------------------------------------------------------------------
\* web.New: the listener is bound, or the process ends.
New ==
    /\ main = "new"
    /\ \/ main' = "start" /\ listener' = "open"
       \/ main' = "exit1" /\ UNCHANGED listener
    /\ UNCHANGED <<ctx, result, serve, errc, loops, request>>

\* go poll.Run(ctx)
StartPoller ==
    /\ main = "start"
    /\ main' = "run"
    /\ loops' = [d \in Devices |-> "running"]
    /\ UNCHANGED <<ctx, result, listener, serve, errc, request>>

\* server.Run: go Serve(listener)
StartServe ==
    /\ main = "run"
    /\ main' = "select"
    /\ serve' = "accepting"
    /\ UNCHANGED <<ctx, result, listener, errc, loops, request>>

\* Serve returns: because Shutdown closed the listener, or on its own, closing
\* the listener as it goes.  The channel has room for what it sends.
ServeReturns ==
    /\ ~Exited /\ serve = "accepting"
    /\ \/ listener = "closed" /\ errc' = "ErrServerClosed"
       \/ MayFail /\ listener = "open" /\ errc' = "error"
    /\ serve' = "returned"
    /\ listener' = "closed"
    /\ UNCHANGED <<ctx, main, result, loops, request>>

\* The select of Run takes errc: Run returns at once.
TakeErrc ==
    /\ main = "select" /\ errc # "empty"
    /\ result' = IF errc = "ErrServerClosed" THEN "nil" ELSE "serve error"
    /\ main' = "wait"
    /\ UNCHANGED <<ctx, listener, serve, errc, loops, request>>

\* The select of Run takes ctx.Done(): Shutdown closes the listener.
ReturnUndrained ==
    /\ main = "select" /\ ctx = "done"
    /\ main' = "wait" /\ result' = "nil"
    /\ listener' = "closed"
    /\ UNCHANGED <<ctx, serve, errc, loops, request>>
TakeDone ==
    /\ main = "select" /\ ctx = "done"
    /\ main' = "shutdown"
    /\ listener' = "closed"
    /\ UNCHANGED <<ctx, result, serve, errc, loops, request>>

\* Shutdown returns once nothing is being handled, or after five seconds.
ShutdownWithoutDeadline ==
    /\ main = "shutdown" /\ Running = {}
    /\ main' = "wait" /\ result' = "nil"
    /\ UNCHANGED <<ctx, listener, serve, errc, loops, request>>
ShutdownUnreported ==
    /\ main = "shutdown"
    /\ main' = "wait"
    /\ UNCHANGED <<ctx, result, listener, serve, errc, loops, request>>
ShutdownReturns ==
    /\ main = "shutdown"
    /\ \/ Running = {} /\ result' = "nil"
       \/ result' = "deadline exceeded"
    /\ main' = "wait"
    /\ UNCHANGED <<ctx, listener, serve, errc, loops, request>>

\* wg.Wait(), and the end of the process with all that is still running.
ExitWithoutWaiting ==
    /\ main = "wait"
    /\ main' = IF result = "nil" THEN "exit0" ELSE "exit1"
    /\ request' = [r \in Requests |->
                    IF r \in Running THEN "cut" ELSE request[r]]
    /\ UNCHANGED <<ctx, result, listener, serve, errc, loops>>
Exit ==
    /\ main = "wait"
    /\ \A d \in Devices : loops[d] = "stopped"
    /\ main' = IF result = "nil" THEN "exit0" ELSE "exit1"
    /\ request' = [r \in Requests |->
                    IF r \in Running THEN "cut" ELSE request[r]]
    /\ UNCHANGED <<ctx, result, listener, serve, errc, loops>>

Main ==
    \/ New \/ StartPoller \/ StartServe \/ TakeErrc \/ TakeDone
    \/ ShutdownReturns \/ Exit

\* Poller.loop sees ctx.Done().
LoopStops(d) ==
    /\ ~Exited /\ ctx = "done" /\ loops[d] = "running"
    /\ loops' = [loops EXCEPT ![d] = "stopped"]
    /\ UNCHANGED <<ctx, main, result, listener, serve, errc, request>>

\* A request is accepted and handled; one that arrives before Serve runs waits
\* in the backlog of the listener.
Accept(r) ==
    /\ ~Exited /\ serve = "accepting" /\ listener = "open"
    /\ request[r] = "unsent"
    /\ request' = [request EXCEPT ![r] = "running"]
    /\ UNCHANGED <<ctx, main, result, listener, serve, errc, loops>>

Answered(r) ==
    /\ ~Exited /\ request[r] = "running"
    /\ request' = [request EXCEPT ![r] = "answered"]
    /\ UNCHANGED <<ctx, main, result, listener, serve, errc, loops>>

\* The signal handler, from signal.NotifyContext on; it is never removed
\* before the process ends, so a second signal changes nothing.
Signal ==
    /\ ~Exited /\ ctx = "live"
    /\ ctx' = "done"
    /\ UNCHANGED <<main, result, listener, serve, errc, loops, request>>

Next ==
    \/ Main \/ Signal \/ ServeReturns
    \/ \E d \in Devices : LoopStops(d)
    \/ \E r \in Requests : Accept(r) \/ Answered(r)

Spec == Init /\ [][Next]_vars

-----------------------------------------------------------------------------
\* A regular end is a clean one: when the process exits with status 0, every
\* request it accepted has been answered and every loop has been waited for.
CleanExit ==
    main = "exit0" => /\ \A r \in Requests : request[r] \in {"unsent", "answered"}
                      /\ \A d \in Devices : loops[d] = "stopped"

\* No loop polls for a process that cannot publish, or outlives it: "a port
\* clash is reported before any polling starts" (server.go:37), and the end of
\* the process waits for the loops, however Run ended.
LoopsWithinProcess ==
    /\ listener = "unbound" => \A d \in Devices : loops[d] = "off"
    /\ Exited => \A d \in Devices : loops[d] # "running"

\* After a signal the process ends, at whatever point it was, whatever its
\* clients do and whether or not Serve has failed before.
ExitsAfterSignal == ctx = "done" ~> Exited
-----------------------------------------------------------------------------
(* The inductive invariant behind CleanExit and LoopsWithinProcess.          *)

\* Nothing runs before it was started.
StartedInOrder ==
    /\ main \in {"new", "start"} \/ listener = "unbound" =>
            \A d \in Devices : loops[d] = "off"
    /\ main = "new" => listener = "unbound"
    /\ main \in {"start", "run"} => listener = "open"
    /\ listener = "unbound" => main \in {"new", "exit1"}
    /\ serve = "off" <=> main \in {"start", "run"} \/ listener = "unbound"
    /\ serve = "off" => \A r \in Requests : request[r] = "unsent"

\* Until Run has reacted, Serve can only have ended by itself; after that it no
\* longer accepts anything.
ServedInOrder ==
    /\ main = "select" =>
            \/ serve = "accepting" /\ listener = "open"
            \/ serve = "returned" /\ listener = "closed" /\ errc = "error"
    /\ serve = "off" \/ (main = "select" /\ serve = "accepting") => errc = "empty"
    /\ main \in {"shutdown", "wait", "exit0"} => listener = "closed"

\* Server.Run returns nil only once every request it accepted is answered, and
\* the process ends only once every loop has returned.
DrainedInOrder ==
    /\ result = "nil" =>
            /\ main \in {"wait", "exit0"}
            /\ \A r \in Requests : request[r] \in {"unsent", "answered"}
    /\ main = "exit0" => result = "nil"
    /\ \A r \in Requests : request[r] = "cut" => main = "exit1"
    /\ Exited => \A d \in Devices :
            loops[d] = IF listener = "unbound" THEN "off" ELSE "stopped"

Inv == TypeOK /\ StartedInOrder /\ ServedInOrder /\ DrainedInOrder
=============================================================================
