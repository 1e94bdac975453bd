---------------------------- MODULE MCDiscovery ----------------------------
(* Small instances of Discovery for TLC. *)
EXTENDS Discovery

Entry(instance, serial, type, host) ==
    [instance |-> instance, serial |-> serial, type |-> type, host |-> host]

\* One P1 Meter on both services, under two instance names and sometimes without
\* an address; another one that gives no serial; a socket on the older service
\* only.
Meters == {"p1", "other p1", "socket"}
MeterAdverts ==
    [h \in Meters |-> [s \in {"_homewizard._tcp", "_hwenergy._tcp"} |->
        CASE h = "p1" /\ s = "_homewizard._tcp" ->
                {Entry("HomeWizard P1", "3c", "HWE-P1", "10.0.0.1")}
          [] h = "p1" /\ s = "_hwenergy._tcp" ->
                {Entry("p1meter-3c", "3c", "HWE-P1", a) : a \in {"", "10.0.0.1"}}
          [] h = "other p1" /\ s = "_homewizard._tcp" ->
                {Entry("p1meter-5d", "", t, a) :
                    t \in {"", "HWE-P1"}, a \in {"", "10.0.0.2"}}
          [] h = "socket" /\ s = "_hwenergy._tcp" ->
                {Entry("socket-7f", "7f", "HWE-SKT", "10.0.0.3")}
          [] OTHER -> {}]]
=============================================================================
