------------------------------- MODULE Views --------------------------------
(***************************************************************************)
(* The readers of a snapshot: snapshot.Device's LastUpdate and Fresh, and  *)
(* what the collector, the health check and the dashboard derive from      *)
(* them.  They share no code beyond Fresh, and must not contradict each    *)
(* other about the same device.                                            *)
(*                                                                         *)
(* A timestamp is represented by its age.  Go's zero time is older than    *)
(* any reading, so it is the largest age, Never.  Ages stop growing at     *)
(* AgeCap, beyond every threshold the code compares an age with.           *)
(***************************************************************************)
EXTENDS Integers, FiniteSets

CONSTANTS
    StaleAfter,     \* poll.stale_after
    AgeCap          \* ages saturate here

ASSUME StaleAfterAssumption == StaleAfter \in Nat \ {0}
ASSUME AgeCapAssumption == AgeCap \in Nat /\ AgeCap >= StaleAfter

Never == AgeCap + 1

Age == 0 .. Never

Older(age) == IF age < AgeCap THEN age + 1 ELSE age

Newer(age1, age2) == IF age1 < age2 THEN age1 ELSE age2

-----------------------------------------------------------------------------
\* d.LastUpdate(): the most recent successful read of any kind.
LastUpdate(d) ==
    Newer(Newer(Newer(d.MeasuredAt, d.SystemAt), d.StateAt), d.BatteriesAt)

Fresh(d) == LastUpdate(d) # Never /\ LastUpdate(d) < StaleAfter

(* What one scrape exports.  devices is the snapshot: a function from the   *)
(* names it holds to their devices.                                         *)
Collect(devices) ==
    [ total |-> Cardinality(DOMAIN devices),
      up    |-> [n \in DOMAIN devices |-> IF Fresh(devices[n]) THEN 1 ELSE 0],
      lastUpdate |-> {n \in DOMAIN devices : LastUpdate(devices[n]) # Never},
      readings   |-> [n \in DOMAIN devices |->
            {g \in {"MeasuredAt", "SystemAt", "StateAt", "BatteriesAt"} :
                devices[n][g] # Never}] ]

\* Whether /healthz answers 200.
HealthyOnceRead(devices) ==
    {n \in DOMAIN devices : LastUpdate(devices[n]) # Never} # {}
Healthz(devices) ==
    /\ DOMAIN devices # {}
    /\ {n \in DOMAIN devices : Fresh(devices[n])} # {}

\* The dashboard's summary of the household.
buildView(devices) ==
    LET online  == Cardinality({n \in DOMAIN devices : Fresh(devices[n])})
        updated == \E n \in DOMAIN devices : LastUpdate(devices[n]) # Never
    IN  CASE ~updated ->
               [up |-> FALSE, status |-> "waiting for the first poll"]
          [] updated /\ online = 0 ->
               [up |-> FALSE, status |-> "no device has fresh readings"]
          [] updated /\ online > 0 /\ online < Cardinality(DOMAIN devices) ->
               [up |-> TRUE, status |-> "some devices are not reporting"]
          [] OTHER -> [up |-> TRUE, status |-> "ok"]
=============================================================================
