----------------------------- MODULE ProcessProofs -----------------------------
(***************************************************************************)
(* The daemon for any number of devices and requests, any configuration    *)
(* and any timing: its inductive invariant, that the process with the real *)
(* polling loops implements Daemon, and that inside it the loops keep the  *)
(* invariant of Poller.                                                    *)
(***************************************************************************)
EXTENDS Process, PollerProofs

-----------------------------------------------------------------------------
(* What main, Serve, the signal and the requests do to each other, whatever *)
(* the loops are.                                                           *)

LEMMA DaemonInit == D!Init => D!Inv
BY DEF D!Init, D!Inv, D!TypeOK, D!StartedInOrder, D!ServedInOrder,
       D!DrainedInOrder, D!Exited

\* Server.Run and runDaemon, one step after the other.
LEMMA MainStep ==
    ASSUME D!Inv, D!Main
    PROVE  D!Inv'
<1> USE DEF D!Inv, D!TypeOK, D!StartedInOrder, D!ServedInOrder,
            D!DrainedInOrder, D!Exited
<1>1. CASE D!New
    BY <1>1 DEF D!New
<1>2. CASE D!StartPoller
    BY <1>2 DEF D!StartPoller
<1>3. CASE D!StartServe
    BY <1>3 DEF D!StartServe
<1>4. CASE D!TakeErrc
    BY <1>4 DEF D!TakeErrc
<1>5. CASE D!TakeDone
    BY <1>5 DEF D!TakeDone
<1>6. CASE D!ShutdownReturns
    BY <1>6 DEF D!ShutdownReturns, D!Running
<1>7. CASE D!Exit
    <2>1. /\ main = "wait" /\ result \in {"nil", "serve error", "deadline exceeded"}
          /\ listener = "closed"
          /\ \A d \in Device : loops[d] = "stopped"
          /\ \A r \in Requests : request[r] # "cut"
        BY <1>7 DEF D!Exit
    <2>2. /\ main' = IF result = "nil" THEN "exit0" ELSE "exit1"
          /\ request' = [r \in Requests |->
                            IF request[r] = "running" THEN "cut" ELSE request[r]]
          /\ UNCHANGED <<ctx, result, listener, serve, errc, loops>>
        BY <1>7 DEF D!Exit, D!Running
    <2>3. D!TypeOK'
        BY <2>1, <2>2
    <2>4. D!StartedInOrder' /\ D!ServedInOrder'
        BY <2>1, <2>2
    <2>5. D!DrainedInOrder'
        BY <2>1, <2>2
    <2> QED
        BY <2>3, <2>4, <2>5
<1> QED
    BY <1>1, <1>2, <1>3, <1>4, <1>5, <1>6, <1>7 DEF D!Main

\* Everyone else.
LEMMA OthersStep ==
    ASSUME D!Inv,
           \/ D!Signal \/ D!ServeReturns
           \/ \E d \in Device : D!LoopStops(d)
           \/ \E r \in Requests : D!Accept(r) \/ D!Answered(r)
    PROVE  D!Inv'
<1> USE DEF D!Inv, D!TypeOK, D!StartedInOrder, D!ServedInOrder,
            D!DrainedInOrder, D!Exited
<1>1. CASE D!Signal
    BY <1>1 DEF D!Signal
<1>2. CASE D!ServeReturns
    BY <1>2 DEF D!ServeReturns
<1>3. ASSUME NEW d \in Device, D!LoopStops(d) PROVE D!Inv'
    BY <1>3 DEF D!LoopStops
<1>4. ASSUME NEW r \in Requests, D!Accept(r) PROVE D!Inv'
    BY <1>4 DEF D!Accept
<1>5. ASSUME NEW r \in Requests, D!Answered(r) PROVE D!Inv'
    BY <1>5 DEF D!Answered
<1> QED
    BY <1>1, <1>2, <1>3, <1>4, <1>5

LEMMA DaemonNext == D!Inv /\ [D!Next]_(D!vars) => D!Inv'
<1>1. ASSUME D!Inv, UNCHANGED D!vars PROVE D!Inv'
    BY <1>1 DEF D!vars, D!Inv, D!TypeOK, D!StartedInOrder, D!ServedInOrder,
                D!DrainedInOrder, D!Exited
<1> QED
    BY <1>1, MainStep, OthersStep DEF D!Next

-----------------------------------------------------------------------------
(* What a step of the process is to each of its halves.                     *)

\* To the loops, the server is nothing and the signal the end of the context.
LEMMA PollerView ==
    ASSUME ProcessInv, ProcessNext \/ UNCHANGED processVars
    PROVE  Next \/ Cancelled \/ UNCHANGED vars
<1>1. CASE Server
    <2>1. ctx' = ctx
        BY <1>1 DEF Server, D!Main, D!New, D!StartPoller, D!StartServe,
           D!TakeErrc, D!TakeDone, D!ShutdownReturns, D!Exit, D!ServeReturns,
           D!Accept, D!Answered
    <2> QED
        BY <1>1, <2>1 DEF Server, pollerVars, vars, loopVars, envVars
<1>2. CASE Signal
    BY <1>2 DEF Signal, D!Signal, Cancelled, pollerVars, loopVars, envVars
<1>3. CASE Polling \/ Outside
    BY <1>3 DEF Polling, Outside, Next
<1>4. CASE UNCHANGED processVars
    BY <1>4 DEF processVars
<1> QED
    BY <1>1, <1>2, <1>3, <1>4 DEF ProcessNext

\* While the process is alive, main sees of a loop whether it has returned.
LEMMA LoopsSeen ==
    ASSUME Alive
    PROVE  loops = [d \in Device |-> IF pc[d] = "stopped" THEN "stopped"
                                                          ELSE "running"]
BY DEF Alive, loops, D!Exited

\* A loop stops only when the context is done.
LEMMA OnlyDoneStops ==
    ASSUME IInv, NEW d \in Device, Loop(d)
    PROVE  /\ ctx' = ctx /\ pc[d] # "stopped"
           /\ pc'[d] = "stopped" => ctx = "done"
           /\ \A x \in Device \ {d} : pc'[x] = pc[x]
<1>1. pc \in [Device -> {"off", "wait", "observe", "stopped"} \cup Request]
    BY DEF IInv, TypeOK
<1>2. CASE Select(d)
    BY <1>1, <1>2 DEF Select, Goto
<1>3. CASE Stop(d)
    BY <1>1, <1>3 DEF Stop
<1>4. CASE Probe(d)
    BY <1>1, <1>4 DEF Probe, Goto
<1>5. CASE Measurement(d)
    <2>1. AfterMeasurement(client[d].caps, entry[d])
            \in {"state", "system", "batteries", "observe"}
        BY NextEndpoint
    <2> QED
        BY <1>1, <1>5, <2>1 DEF Measurement, Goto
<1>6. CASE State(d) \/ System(d) \/ Batteries(d)
    <2>1. PICK endpoint, at, label :
            /\ Secondary(d, endpoint, at, label)
            /\ endpoint \in {"state", "system", "batteries"}
            /\ label \in {"system", "batteries", "observe"}
        BY <1>6, NextEndpoint DEF State, System, Batteries
    <2> QED
        BY <1>1, <2>1 DEF Secondary, Goto
<1>7. CASE Observe(d)
    BY <1>1, <1>7 DEF Observe, returns
<1> QED
    BY <1>2, <1>3, <1>4, <1>5, <1>6, <1>7 DEF Loop

\* To the rest of the daemon, a step of a loop is nothing or the end of the loop,
\* and so is everything else that is not a step of its own.
LEMMA DaemonView ==
    ASSUME ProcessInv, ProcessNext \/ UNCHANGED processVars
    PROVE  [D!Next]_(D!vars)
<1>1. CASE Server
    BY <1>1 DEF Server, D!Next
<1>2. CASE Signal
    BY <1>2 DEF Signal, D!Next
<1>3. CASE Polling \/ Outside
    <2>1. /\ main' = main /\ result' = result /\ listener' = listener
          /\ serve' = serve /\ errc' = errc /\ request' = request
          /\ Alive /\ Alive'
        BY <1>3 DEF Polling, Outside, serverVars, Alive, D!Exited
    <2>2. /\ loops  = [d \in Device |-> IF pc[d] = "stopped" THEN "stopped"
                                                             ELSE "running"]
          /\ loops' = [d \in Device |-> IF pc'[d] = "stopped" THEN "stopped"
                                                              ELSE "running"]
        <3>1. ASSUME Alive'
              PROVE  loops' = [d \in Device |->
                                IF pc'[d] = "stopped" THEN "stopped" ELSE "running"]
            BY <3>1 DEF Alive, loops, D!Exited
        <3> QED
            BY <2>1, <3>1, LoopsSeen
    <2>3. ASSUME ctx' = ctx,
                 \A d \in Device : pc'[d] = "stopped" <=> pc[d] = "stopped"
          PROVE  UNCHANGED D!vars
        BY <2>1, <2>2, <2>3 DEF D!vars
    <2>4. CASE Register
        <3>1. /\ ctx' = ctx
              /\ pc' = [pc EXCEPT ![Devices[started + 1]] = "wait"]
              /\ started + 1 \in 1 .. Len(Devices) /\ started + 1 > started
            <4>1. Len(Devices) \in Nat /\ started \in 0 .. Len(Devices)
                BY DevicesAssumption DEF ProcessInv, IInv, TypeOK
            <4> QED
                BY <2>4, <4>1 DEF Register
        <3>2. pc[Devices[started + 1]] = "off"
            BY <3>1 DEF ProcessInv, IInv, Registered
        <3>3. \A d \in Device : pc'[d] = "stopped" <=> pc[d] = "stopped"
            BY <3>1, <3>2 DEF ProcessInv, IInv, TypeOK
        <3> QED
            BY <2>3, <3>1, <3>3
    <2>5. ASSUME NEW d \in Device, Loop(d)
          PROVE  [D!Next]_(D!vars)
        <3>1. /\ ctx' = ctx /\ pc[d] # "stopped"
              /\ pc'[d] = "stopped" => ctx = "done"
              /\ \A x \in Device \ {d} : pc'[x] = pc[x]
            BY <2>5, OnlyDoneStops DEF ProcessInv
        <3>2. CASE pc'[d] = "stopped"
            <4>1. loops' = [loops EXCEPT ![d] = "stopped"] /\ loops[d] = "running"
                BY <2>2, <3>1, <3>2
            <4>2. D!LoopStops(d)
                BY <2>1, <3>1, <3>2, <4>1 DEF D!LoopStops, Alive
            <4> QED
                BY <4>2 DEF D!Next
        <3>3. CASE pc'[d] # "stopped"
            BY <2>3, <3>1, <3>3
        <3> QED
            BY <3>2, <3>3
    <2>6. CASE Tick \/ \E d \in Device : Change(d)
        BY <2>3, <2>6 DEF Tick, Change, loopVars
    <2> QED
        BY <1>3, <2>4, <2>5, <2>6 DEF Polling, Outside
<1>4. CASE UNCHANGED processVars
    BY <1>4 DEF processVars, vars, serverVars, loopVars, D!vars, loops
<1> QED
    BY <1>1, <1>2, <1>3, <1>4 DEF ProcessNext

-----------------------------------------------------------------------------
(* The theorems.                                                            *)

LEMMA ProcessInvInit == ProcessInit => ProcessInv
<1> SUFFICES ASSUME ProcessInit PROVE ProcessInv
    OBVIOUS
<1>1. IInv /\ D!Inv
    BY InitInvariant, DaemonInit DEF ProcessInit
<1>2. started = 0
    BY DEF ProcessInit, Init
<1> QED
    BY <1>1, <1>2 DEF ProcessInv

LEMMA ProcessInvNext == ProcessInv /\ [ProcessNext]_processVars => ProcessInv'
<1> SUFFICES ASSUME ProcessInv, [ProcessNext]_processVars PROVE ProcessInv'
    OBVIOUS
<1>1. IInv'
    BY PollerView, NextInvariant, EnvironmentStep DEF ProcessInv
<1>2. D!Inv'
    BY DaemonView, DaemonNext DEF ProcessInv
<1>3. ASSUME main' \in {"new", "start"} PROVE started' = 0
    <2>1. main \in {"new", "start"}
        BY <1>3 DEF ProcessNext, Server, Signal, Polling, Outside, processVars,
           serverVars, D!Signal, D!Main, D!New, D!StartPoller, D!StartServe,
           D!TakeErrc, D!TakeDone, D!ShutdownReturns, D!Exit, D!ServeReturns,
           D!Accept, D!Answered
    <2>2. started' = started
        BY <2>1 DEF ProcessNext, Server, Signal, Polling, Outside, Alive,
           processVars, pollerVars, vars
    <2> QED
        BY <2>1, <2>2 DEF ProcessInv
<1> QED
    BY <1>1, <1>2, <1>3 DEF ProcessInv

\* Both halves keep their invariants in the whole daemon, and no loop is
\* registered before main has started the poller (main.go:119).
THEOREM ProcessInvariant == ProcessSpec => []ProcessInv
BY ProcessInvInit, ProcessInvNext, PTL DEF ProcessSpec

\* The daemon with the real polling loops is the one Daemon describes: a loop
\* is running, until some time after the context is cancelled it is not.
THEOREM ProcessImplementsDaemon == ProcessSpec => ImplementsDaemon
<1>1. ProcessInit => D!Init
    BY DEF ProcessInit
<1>2. ProcessInv /\ [ProcessNext]_processVars => [D!Next]_(D!vars)
    BY DaemonView
<1> QED
    BY ProcessInvariant, <1>1, <1>2, PTL DEF ProcessSpec, ImplementsDaemon, D!Spec

\* Inside the daemon, where anyone may send it a signal at any time, the loops
\* behave as Poller says: what is proved of Poller holds of the daemon.
THEOREM ProcessImplementsPoller == MayCancel => (ProcessSpec => Spec)
<1> SUFFICES ASSUME MayCancel PROVE ProcessSpec => Spec
    OBVIOUS
<1>1. ProcessInit => Init
    BY DEF ProcessInit
<1>2. ProcessInv /\ [ProcessNext]_processVars => [Next]_vars
    <2> SUFFICES ASSUME ProcessInv, [ProcessNext]_processVars
                 PROVE  Next \/ UNCHANGED vars
        OBVIOUS
    <2>1. CASE ctx = "live"
        BY <2>1, PollerView DEF Next, Cancel, Cancelled
    <2>2. CASE ctx # "live"
        BY <2>2, PollerView DEF Cancelled, vars, ProcessInv, IInv, TypeOK
    <2> QED
        BY <2>1, <2>2
<1> QED
    BY ProcessInvariant, <1>1, <1>2, PTL DEF ProcessSpec, Spec

\* Status 0 means that every request was answered and every loop waited for
\* (server.go:117, main.go:128).
THEOREM ExitIsClean == ProcessSpec => []CleanExit
<1>1. ProcessInv => CleanExit
    <2> SUFFICES ASSUME ProcessInv, main = "exit0"
                 PROVE  /\ \A r \in Requests : request[r] \in {"unsent", "answered"}
                        /\ \A d \in Device : loops[d] = "stopped"
        BY DEF CleanExit, D!CleanExit
    <2>1. D!StartedInOrder /\ D!DrainedInOrder
        BY DEF ProcessInv, D!Inv
    <2> QED
        BY <2>1 DEF D!StartedInOrder, D!DrainedInOrder, D!Exited
<1> QED
    BY <1>1, ProcessInvariant, PTL

\* No loop polls before the port is bound, and none is cut off.
THEOREM NoLoopOutlivesProcess == ProcessSpec => []LoopsWithinProcess
<1>1. ProcessInv => LoopsWithinProcess
    BY DEF ProcessInv, D!Inv, D!StartedInOrder, D!DrainedInOrder,
       LoopsWithinProcess, D!LoopsWithinProcess
<1> QED
    BY <1>1, ProcessInvariant, PTL
=============================================================================
