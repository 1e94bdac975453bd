----------------------------- MODULE MCPoller ------------------------------
(* Small instances of Poller, and of the claims about it, for TLC. *)
EXTENDS PollerClaims, TLC

OneDevice == <<"p1">>

AutoConfig == [d \in Device |-> [APIVersion |-> "auto", Type |-> "", Interval |-> 0]]

\* A P1 Meter before and after the firmware that brings API 2.1, and a socket.
MCAPIOf == ("p1-old" :> <<1, 0>>) @@ ("p1-new" :> <<2, 1, 0>>)
            @@ ("skt" :> <<1>>)
MCProductOf == ("p1-old" :> "HWE-P1") @@ ("p1-new" :> "HWE-P1")
            @@ ("skt" :> "HWE-SKT")

\* One firmware, and devices that settle on v2 or on both generations.
P1APIOf == [f \in {"p1-new"} |-> <<2, 1, 0>>]
P1ProductOf == [f \in {"p1-new"} |-> "HWE-P1"]
ServesOnlyV2 == {[v \in Version |-> IF v = "v2" THEN "ok" ELSE "gone"]}
ServesBoth == {[v \in Version |-> "ok"]}
=============================================================================
