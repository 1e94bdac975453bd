---------------------------- MODULE PollerClaims ----------------------------
(***************************************************************************)
(* What the repository's documentation says of the poller and TLC refutes, *)
(* quoted with the line it is on; README.md tells the counterexample.      *)
(***************************************************************************)
EXTENDS Poller

\* README.md:294: "Devices are connected to lazily and reconnected
\* automatically.  A meter rebooting for a firmware update [...] comes back on
\* its own without restarting the exporter": once it serves an API the exporter
\* has the means to speak.
ComesBackOnItsOwn ==
    \A d \in Device :
        (serves[d]["v2"] = "ok" /\ token[d] = "present") ~> Up(d)
=============================================================================
