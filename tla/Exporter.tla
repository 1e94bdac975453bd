------------------------------ MODULE Exporter ------------------------------
(***************************************************************************)
(* What the exporter promises those who scrape it, whatever the devices    *)
(* and the network do: a device is listed once configured and identified   *)
(* before anything is read from it; nothing but a measurement makes its    *)
(* readings recent, and what is read or reported on the strength of one    *)
(* comes within Lag of it; and nothing that was shown is taken back, but   *)
(* for growing old, at the same pace for all.  Poller is shown to          *)
(* implement this.  A reading's time is its age: see Views.                *)
(***************************************************************************)
EXTENDS Views

CONSTANTS
    Device,
    Lag         \* how long a poll goes on after its measurement

VARIABLES
    status,     \* device -> "unknown", "listed" or "identified"
    measured,   \* device -> the age of its measurement
    updated,    \* device -> the age of its newest reading: last_update
    succeeded   \* device -> the age of its last successful poll

Init ==
    /\ status = [d \in Device |-> "unknown"]
    /\ measured = [d \in Device |-> Never]
    /\ updated = [d \in Device |-> Never]
    /\ succeeded = [d \in Device |-> Never]

List(d) ==
    /\ status[d] = "unknown"
    /\ status' = [status EXCEPT ![d] = "listed"]
    /\ UNCHANGED <<measured, updated, succeeded>>

Identify(d) ==
    /\ status[d] # "unknown"
    /\ status' = [status EXCEPT ![d] = "identified"]
    /\ UNCHANGED <<measured, updated, succeeded>>

Measure(d) ==
    /\ status[d] = "identified"
    /\ measured' = [measured EXCEPT ![d] = 0]
    /\ updated' = [updated EXCEPT ![d] = 0]
    /\ UNCHANGED <<status, succeeded>>

\* The measurement that what happens now is the sequel of.
JustMeasured(d) == measured[d] # Never /\ measured[d] <= Lag

\* A reading of another kind.
Refresh(d) ==
    /\ JustMeasured(d)
    /\ updated' = [updated EXCEPT ![d] = 0]
    /\ UNCHANGED <<status, measured, succeeded>>

Succeed(d) ==
    /\ JustMeasured(d)
    /\ succeeded' = [succeeded EXCEPT ![d] = 0]
    /\ UNCHANGED <<status, measured, updated>>

Pass ==
    /\ measured' = [d \in Device |-> Older(measured[d])]
    /\ updated' = [d \in Device |-> Older(updated[d])]
    /\ succeeded' = [d \in Device |-> Older(succeeded[d])]
    /\ UNCHANGED status

Next ==
    \/ Pass
    \/ \E d \in Device :
        List(d) \/ Identify(d) \/ Measure(d) \/ Refresh(d) \/ Succeed(d)

Spec == Init /\ [][Next]_<<status, measured, updated, succeeded>>
=============================================================================
