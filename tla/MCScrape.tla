------------------------------ MODULE MCScrape ------------------------------
(***************************************************************************)
(* A P1 Meter in every state of a small house and on any firmware, and one *)
(* house each with a socket, a water meter and a battery.  Every quantity  *)
(* has a value of its own, so that none can pass for another.              *)
(***************************************************************************)
EXTENDS Scrape

Meters == {"gas", "water"}
Types  == [u \in Meters |-> u \o "_meter"]
Units  == [u \in Meters |-> "m3"]

\* A leap day, a time whose compact form begins with zeros, and no time.
Peak   == <<2024, 2, 29, 14, 12, 34>>
Set    == <<2009, 3, 1, 0, 5, 9>>
Broken == <<2063, 25, 25, 25, 25, 25>>

\* No meters, nothing to measure.
Empty == [power |-> nil, flow |-> nil, charge |-> nil,
          phases |-> [n \in Phase |-> nil], ssid |-> "home", clock |-> Zero,
          peak |-> Zero, listed |-> <<>>, value |-> [u \in Meters |-> nil],
          time |-> [u \in Meters |-> Zero], firmware |-> "new"]

Wired(phases) == [n \in Phase |-> If(n \in phases, 10 * n)]

Metered ==
    {[Empty EXCEPT
        !.power = ptr(7), !.phases = Wired(IF water THEN {1, 3} ELSE {1}), !.clock = Peak, !.peak = Peak,
        !.listed = (IF g = "none" THEN <<>> ELSE <<"gas">>)
                   \o (IF water THEN <<"water">> ELSE <<>>),
        !.value = [gas |-> If(g = "heard", 2569), water |-> If(water, 123)],
        !.time = [u \in Meters |-> at], !.firmware = firmware] :
            g \in {"none", "silent", "heard"},
            water \in BOOLEAN, at \in {Zero, Broken, Set},
            firmware \in {"unique_gas_id", "gas_unique_id", "new"}}

SmallHouses ==
    [p \in {"HWE-P1", "HWE-SKT", "HWE-WTR", "HWE-BAT"} |->
        CASE p = "HWE-P1"  -> Metered
          [] p = "HWE-SKT" -> {[Empty EXCEPT !.power = ptr(7), !.phases = Wired({1})]}
          [] p = "HWE-WTR" -> {[Empty EXCEPT !.flow = ptr(8)]}
          [] p = "HWE-BAT" -> {[Empty EXCEPT !.power = ptr(7), !.charge = ptr(50)]}]

\* The v1 API says only whether the cloud is on.
SystemAnswers ==
    [v \in Version |->
        {IF v = "v1"
         THEN [WifiSSID |-> nil, UptimeS |-> nil, CloudEnabled |-> <<1>>]
         ELSE [WifiSSID |-> ptr("home"), UptimeS |-> ptr(356), CloudEnabled |-> <<1>>]}]

StateAnswers == {[PowerOn |-> ptr(on)] : on \in {0, 1}}

BatteryAnswers ==
    {[Mode |-> "standby", Permissions |-> <<>>, PowerW |-> nil],
     [Mode |-> "zero", Permissions |-> <<"charge_allowed", "discharge_allowed">>,
      PowerW |-> ptr(404)]}
=============================================================================
