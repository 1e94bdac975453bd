------------------------------- MODULE Scrape -------------------------------
(***************************************************************************)
(* What a household looks like in the metrics and on the dashboard: one    *)
(* device is polled, its answers are decoded (Measurement), published into *)
(* its entry of the snapshot, and rendered by internal/metrics' collector  *)
(* and by internal/web's describe.  Meanwhile the house is rewired, meters *)
(* come, go and lose their clock, the firmware is updated, and the client  *)
(* reconnects on the other API generation.                                 *)
(*                                                                         *)
(* When things happen, and whether they are fresh, is Poller's and Views'  *)
(* subject; this module is about what is shown.  Of an endpoint's fields   *)
(* it has one of each kind, as Measurement does.                           *)
(***************************************************************************)
EXTENDS Measurement, Client, FiniteSets

CONSTANTS
    Quantity,   \* what a number in an answer may be
    Network,    \* names of Wi-Fi networks
    Utility,    \* identifiers of utility meters,
    Gas,        \* among them the gas meter's,
    MeterType,  \* their types
    MeterUnit,  \* and units
    Houses,     \* product type -> the states a house with that device can be in
    Systems,    \* API generation -> its answers about the system
    States,     \* answers about a socket
    Batteries   \* and about a battery group

Product == DOMAIN Houses

Optional(S) == {nil} \cup {ptr(x) : x \in S}

\* Two digits.
Pair == 0 .. 99

\* What a clock may send: the zero time, or six numbers of two digits, be they a
\* time or not, which are not all zero, since that is how the zero time is sent.
Clock ==
    {Zero} \cup {t \in (1969 .. 2068) \X Pair \X Pair \X Pair \X Pair \X Pair :
                    t # <<2000, 0, 0, 0, 0, 0>>}

\* What there is to measure; the network, the device's clock and the time of the
\* peak; the utility meters as they are listed, a silent one without a value,
\* each with a clock of its own; and the firmware: the two older ones know the gas
\* meter only, under either spelling of its identifier, and no v2.
House ==
    [power : Optional(Quantity), flow : Optional(Quantity),
     charge : Optional(Quantity), phases : [Phase -> Optional(Quantity)],
     ssid : Network \cup {""}, clock : {t \in Clock : Time(t).ok},
     peak : {t \in Clock : Time(t).ok},
     listed : Seq(Utility), value : [Utility -> Optional(Quantity)],
     time : [Utility -> Clock],
     firmware : {"unique_gas_id", "gas_unique_id", "new"}]

\* No two meters share an identifier, and none that is heard is left out.
HouseAssumption ==
    /\ Gas \in Utility /\ "" \notin Utility
    /\ MeterType[Gas] = "gas_meter" /\ MeterUnit[Gas] = "m3"
    /\ \A p \in Product : \A h \in Houses[p] :
        /\ h \in House
        /\ \A i, j \in DOMAIN h.listed : h.listed[i] = h.listed[j] => i = j
        /\ \A u \in Utility : h.value[u] # nil =>
                \E i \in DOMAIN h.listed : h.listed[i] = u

ASSUME HouseAssumption

\* A permission is listed once.
AnswerAssumption ==
    /\ \A v \in Version : Systems[v] \subseteq
            [WifiSSID : Optional(Network), UptimeS : Optional(Quantity),
             CloudEnabled : Optional({0, 1})]
    /\ States \subseteq [PowerOn : Optional({0, 1})]
    /\ Batteries \subseteq
            [Mode : STRING, Permissions : Seq(STRING), PowerW : Optional(Quantity)]
    /\ \A b \in Batteries : \A i, j \in DOMAIN b.Permissions :
            b.Permissions[i] = b.Permissions[j] => i = j

ASSUME AnswerAssumption

VARIABLES
    product,    \* the device's product type
    house,      \* what there is to measure
    version,    \* the API generation of the current client
    todo,       \* the endpoints the current poll has yet to read, in order
    entry,      \* the device in the snapshot; read has those with a time of reading
    seen,       \* history: the house when a measurement was last readable
    told        \* history: the last answer of each secondary endpoint

vars == <<product, house, version, todo, entry, seen, told>>

-----------------------------------------------------------------------------
(* What a device answers, after the examples the repository keeps in        *)
(* testdata.                                                                *)

Served(p, h) ==
    {v \in Version : /\ v = "v1" => p # "HWE-BAT"
                     /\ v = "v2" => p # "HWE-WTR" /\ h.firmware = "new"}

\* YYMMDDhhmmss in its two halves; 0 is how an unset clock is sent.
Digits(t) ==
    IF t = Zero THEN [date |-> 0, clock |-> 0]
    ELSE [date  |-> (t[1] % 100) * 10000 + t[2] * 100 + t[3],
          clock |-> t[4] * 10000 + t[5] * 100 + t[6]]

If(condition, value) == IF condition THEN ptr(value) ELSE nil

\* The utility meters, each generation with timestamps of its own kind.
Entries(h, v) ==
    [i \in DOMAIN h.listed |->
        LET u == h.listed[i] IN
        [unique_id |-> u, type |-> MeterType[u], unit |-> MeterUnit[u],
         value |-> h.value[u],
         timestamp |-> IF v = "v1" THEN ptr(Digits(h.time[u])) ELSE h.time[u]]]

\* A device sends only what it has.
v1Answer(h) ==
    [v1Data EXCEPT
        !.active_power_w = h.power, !.active_power_l1_w = h.phases[1],
        !.active_power_l2_w = h.phases[2], !.active_power_l3_w = h.phases[3],
        !.active_liter_lpm = h.flow, !.wifi_ssid = h.ssid,
        !.montly_power_peak_timestamp = If(h.peak # Zero, Digits(h.peak)),
        !.total_gas_m3 = h.value[Gas],
        !.gas_timestamp = If(h.time[Gas] # Zero, Digits(h.time[Gas])),
        !.unique_gas_id = IF h.firmware = "unique_gas_id" THEN Gas ELSE "",
        !.gas_unique_id = IF h.firmware # "unique_gas_id" THEN Gas ELSE "",
        !.external = IF h.firmware = "new" THEN Entries(h, "v1") ELSE <<>>]

v2Answer(h) ==
    [v2Data EXCEPT
        !.power_w = h.power, !.power_l1_w = h.phases[1],
        !.power_l2_w = h.phases[2], !.power_l3_w = h.phases[3],
        !.state_of_charge_pct = h.charge, !.timestamp = h.clock,
        !.monthly_power_peak_timestamp = h.peak, !.external = Entries(h, "v2")]

Answers(v, endpoint) ==
    CASE endpoint = "system"    -> Systems[v]
      [] endpoint = "state"     -> States
      [] endpoint = "batteries" -> Batteries

-----------------------------------------------------------------------------
(* The poll: see Poller for its control, and for its failures' causes.      *)

\* The zero values of a device's readings.
Blank ==
    [read |-> {}, APIVersion |-> "", measurement |-> NoMeasurement,
     system      |-> [WifiSSID |-> nil, UptimeS |-> nil, CloudEnabled |-> nil],
     state       |-> [PowerOn |-> nil],
     batteries   |-> [Mode |-> "", Permissions |-> <<>>, PowerW |-> nil]]

Secondary == {"state", "system", "batteries"}

\* The first connection has been made, nothing has been read.
Init ==
    /\ product \in Product
    /\ house \in Houses[product]
    /\ version \in Served(product, house)
    /\ todo = <<>>
    /\ entry = [Blank EXCEPT !.APIVersion = version]
    /\ seen = nil
    /\ told = [e \in Secondary |-> Blank[e]]

\* Update: the reading of one endpoint replaces the previous one.
decodedOverPrevious(d, endpoint, answer) ==
    IF endpoint # "system"
    THEN [d EXCEPT ![endpoint] = answer, !.read = @ \cup {endpoint}]
    ELSE [d EXCEPT !.system = [f \in DOMAIN answer |->
                                 IF answer[f] = nil THEN @[f] ELSE answer[f]],
                   !.read = @ \cup {endpoint}]
published(d, endpoint, answer) ==
    [d EXCEPT ![endpoint] = answer, !.read = @ \cup {endpoint}]

\* Client.Measurement: the answer of either generation, decoded.
Measured(v, h) ==
    IF v = "v2" THEN v2Measurement(v2Answer(h)) ELSE v1Measurement(v1Answer(h))

\* The meters whose readings an answer has, and whether the answer can be read:
\* none of those may have a clock that tells no time.
Readings(h) ==
    {u \in Utility : h.value[u] # nil /\ (u = Gas \/ h.firmware = "new")}
Readable(h) == \A u \in Readings(h) : Time(h.time[u]).ok

\* The slow endpoints are read when they are due.
secondaries(caps, slow) ==
    (IF "state" \in caps THEN <<"state">> ELSE <<>>)
    \o (IF slow THEN <<"system">> ELSE <<>>)
    \o (IF slow /\ "batteries" \in caps THEN <<"batteries">> ELSE <<>>)

\* The measurement is read first; if that fails, for a reason of the network or of
\* its own, the poll ends and the entry stays as it is.
Poll ==
    /\ todo = <<>>
    /\ LET answer == Measured(version, house) IN
       IF answer.ok
       THEN /\ entry' = published(entry, "measurement", answer.m)
            /\ \E slow \in BOOLEAN :
                todo' = secondaries(capabilitiesFor(product, <<2, 1>>, version), slow)
       ELSE UNCHANGED <<todo, entry>>
    /\ seen' = IF Readable(house) THEN ptr(house) ELSE seen
    /\ UNCHANGED <<product, house, version, told>>

\* The next endpoint of the poll answers, or does not.
ReadSecondary ==
    /\ todo # <<>>
    /\ todo' = Tail(todo)
    /\ LET endpoint == Head(todo) IN
       \/ \E answer \in Answers(version, endpoint) :
            /\ entry' = published(entry, endpoint, answer)
            /\ told' = [told EXCEPT ![endpoint] = answer]
       \/ UNCHANGED <<entry, told>>
    /\ UNCHANGED <<product, house, version, seen>>

\* A new client, after a poll that was rejected; publishIdentity leaves the
\* readings of the previous one alone.
Connect(v) ==
    /\ todo = <<>>
    /\ v \in Served(product, house)
    /\ version' = v
    /\ entry' = [entry EXCEPT !.APIVersion = v]
    /\ UNCHANGED <<product, house, todo, seen, told>>

\* The house is rewired, its meters and clocks change, the firmware is updated.
Change ==
    /\ house' \in Houses[product]
    /\ version \in Served(product, house')
    /\ UNCHANGED <<product, version, todo, entry, seen, told>>

Next ==
    \/ Poll
    \/ ReadSecondary
    \/ \E v \in Version : Connect(v)
    \/ Change

Spec == Init /\ [][Next]_vars
-----------------------------------------------------------------------------
(* The collector: the series of a scrape.  nth tells apart those that one    *)
(* place in the code emits; the names tell apart the places.                *)

phaseNames == <<"l1", "l2", "l3">>

gauge(name, nth, value, labels) ==
    {[name |-> name, nth |-> nth, value |-> value, labels |-> labels]}

optional(name, nth, value, labels) ==
    IF value = nil THEN {} ELSE gauge(name, nth, value, labels)

perPhase(name, values) ==
    UNION {optional(name, n, values[n], <<phaseNames[n]>>) : n \in Phase}

\* A percentage is exported as a fraction.
ratio(percentage) == IF percentage = nil THEN nil ELSE <<percentage[1], 100>>

collectExternal(i, e) ==
    gauge("external_meter_value", i, e.Value, <<e.UniqueID, e.Type, e.Unit>>)
    \cup optional("external_meter_timestamp_seconds", i, e.Timestamp,
                  <<e.UniqueID, e.Type>>)

collectMeasurement(m) ==
    optional("active_power_watts", 1, m.PowerW, <<>>)
    \cup optional("active_water_liters_per_minute", 1, m.ActiveWaterLPM, <<>>)
    \cup perPhase("active_power_phase_watts", m.PowerPhaseW)
    \cup optional("battery_state_of_charge_ratio", 1, ratio(m.StateOfChargePct), <<>>)
    \cup optional("measurement_timestamp_seconds", 1, m.Timestamp, <<>>)
    \cup optional("monthly_power_peak_timestamp_seconds", 1, m.MonthlyPowerPeakAt,
                  <<>>)
    \cup UNION {collectExternal(i, m.External[i]) : i \in DOMAIN m.External}

collectSystem(s) ==
    optional("uptime_seconds", 1, s.UptimeS, <<>>)
    \cup optional("cloud_enabled", 1, s.CloudEnabled, <<>>)

collectState(s) == optional("socket_power_on", 1, s.PowerOn, <<>>)

collectBatteries(b) ==
    optional("batteries_power_watts", 1, b.PowerW, <<>>)
    \cup (IF b.Mode = "" THEN {}
          ELSE gauge("batteries_mode_info", 1, <<1>>, <<b.Mode>>))
    \cup UNION {gauge("batteries_permission", i, <<1>>, <<b.Permissions[i]>>) :
                    i \in DOMAIN b.Permissions}

wifiSSID(d) ==
    IF "system" \in d.read /\ d.system.WifiSSID \notin {nil, ptr("")}
    THEN d.system.WifiSSID[1]
    ELSE IF "measurement" \in d.read THEN d.measurement.WifiSSID ELSE ""

collectDevice(d) ==
    LET ifRead(endpoint, series) == IF endpoint \in d.read THEN series ELSE {}
    IN  gauge("device_info", 1, <<1>>, <<product, d.APIVersion>>)
        \cup ifRead("measurement", collectMeasurement(d.measurement))
        \cup ifRead("system", collectSystem(d.system))
        \cup ifRead("state", collectState(d.state))
        \cup ifRead("batteries", collectBatteries(d.batteries))
        \cup (IF wifiSSID(d) = "" THEN {}
              ELSE gauge("wifi_info", 1, <<1>>, <<wifiSSID(d)>>))

-----------------------------------------------------------------------------
(* The dashboard: what it draws of one device.                              *)

viewNames == <<"L1", "L2", "L3">>

NumberedAsDrawn(watts) ==
    LET drawn == {n \in Phase : watts[n] # nil} IN
    {[Name |-> viewNames[Cardinality({k \in drawn : k <= n})], Watts |-> watts[n]] :
        n \in drawn}
viewPhases(watts) ==
    {[Name |-> viewNames[n], Watts |-> watts[n]] : n \in {k \in Phase : watts[k] # nil}}

describe(d) ==
    LET m == d.measurement IN
    [Watts      |-> m.PowerW,
     WaterLPM   |-> m.ActiveWaterLPM,
     BatteryPct |-> m.StateOfChargePct,
     Phases     |-> viewPhases(m.PowerPhaseW),
     External   |-> {[Type |-> e.Type, Unit |-> e.Unit, Value |-> e.Value] :
                        e \in {m.External[i] : i \in DOMAIN m.External}},
     SocketOn   |-> d.state.PowerOn,
     WifiSSID   |-> IF d.system.WifiSSID # nil /\ m.WifiSSID = ""
                    THEN d.system.WifiSSID[1] ELSE m.WifiSSID]
-----------------------------------------------------------------------------
Scraped == collectDevice(entry)

\* The series of these names, as Prometheus sees them.
Series(names) ==
    {[name |-> s.name, labels |-> s.labels, value |-> s.value] :
        s \in {x \in Scraped : x.name \in names}}

Values(name) == {s.value : s \in Series({name})}

\* The types of the variables; an external meter in the snapshot has a value,
\* and every time in it is one of a calendar.
ScrapeTypeOK ==
    /\ product \in Product /\ house \in Houses[product]
    /\ version \in Served(product, house)
    /\ todo \in Seq(Secondary)
    /\ entry = [f \in DOMAIN Blank |-> entry[f]]
    /\ entry.APIVersion = version
    /\ entry.read \subseteq Secondary \cup {"measurement"}
    /\ seen \in Optional(Houses[product])
    /\ told = [e \in Secondary |-> told[e]]
    /\ \A e \in Secondary :
            told[e] \in {Blank[e]} \cup UNION {Answers(v, e) : v \in Version}
    /\ LET meters == entry.measurement.External IN
       \A i \in DOMAIN meters : Len(meters[i].Value) = 1 /\ Time(meters[i].Timestamp).ok

\* The measurement in the snapshot is what one of the API generations makes of the
\* house as it was when it was last readable.
MeasurementFits ==
    IF seen = nil
    THEN "measurement" \notin entry.read /\ entry.measurement = NoMeasurement
    ELSE /\ "measurement" \in entry.read /\ Readable(seen[1])
         /\ \E v \in Served(product, seen[1]) :
                entry.measurement = Measured(v, seen[1]).m

\* The other readings are the last answers.
SecondariesFit ==
    \A e \in Secondary :
        /\ entry[e] = told[e]
        /\ e \notin entry.read => entry[e] = Blank[e]

\* The invariant that the proofs are by.
IInv == ScrapeTypeOK /\ MeasurementFits /\ SecondariesFit

\* No scrape contains a series twice (the registry would report an error and drop
\* one), whatever the meters, the firmware and the connections before: the gas
\* meter in particular, which an answer may contain twice.
NoDuplicateSeries ==
    \A r, s \in Scraped : r.name = s.name /\ r.labels = s.labels => r = s

\* The meters of house h as metrics: what must be shown of them, whichever
\* firmware and API generation reported them.
MeterSeries(h) ==
    {[name |-> "external_meter_value", labels |-> <<u, MeterType[u], MeterUnit[u]>>,
      value |-> h.value[u]] : u \in Readings(h)}
    \cup
    {[name |-> "external_meter_timestamp_seconds", labels |-> <<u, MeterType[u]>>,
      value |-> h.time[u]] : u \in {r \in Readings(h) : h.time[r] # Zero}}

PhaseSeries(h) ==
    {[name |-> "active_power_phase_watts", labels |-> <<phaseNames[n]>>,
      value |-> h.phases[n]] : n \in {k \in Phase : h.phases[k] # nil}}

\* The phases and external meters a scrape shows are those of the house when the
\* device last gave a readable answer, under the same names on either API
\* generation and any firmware: a reconnection starts no new series, and an
\* answer that cannot be read neither adds a reading nor removes one.
ShowsLastReading ==
    Series({"active_power_phase_watts", "external_meter_value",
            "external_meter_timestamp_seconds"})
    = IF seen = nil THEN {} ELSE MeterSeries(seen[1]) \cup PhaseSeries(seen[1])

\* What is shown of a secondary endpoint is one answer: no field outlives the
\* answer it came in, be it one of another connection.
SecondariesAreOneAnswer ==
    /\ Values("uptime_seconds") = {told["system"].UptimeS} \ {nil}
    /\ Values("cloud_enabled") = {told["system"].CloudEnabled} \ {nil}
    /\ Values("socket_power_on") = {told["state"].PowerOn} \ {nil}
    /\ Values("batteries_power_watts") = {told["batteries"].PowerW} \ {nil}
    /\ {s.labels[1] : s \in Series({"batteries_permission"})}
            = {told["batteries"].Permissions[i] :
                    i \in DOMAIN told["batteries"].Permissions}

\* The dashboard and the metrics, which read the snapshot with code of their own,
\* show the same readings of a device.
DashboardAgrees ==
    LET view == describe(entry) IN
    /\ Values("active_power_watts") = {view.Watts} \ {nil}
    /\ Values("active_water_liters_per_minute") = {view.WaterLPM} \ {nil}
    /\ Values("battery_state_of_charge_ratio") = {ratio(view.BatteryPct)} \ {nil}
    /\ Values("socket_power_on") = {view.SocketOn} \ {nil}
    /\ Series({"active_power_phase_watts"}) =
            {[name |-> "active_power_phase_watts", value |-> p.Watts,
              labels |-> <<phaseNames[CHOOSE n \in Phase : viewNames[n] = p.Name]>>] :
                p \in view.Phases}
    /\ {[Type |-> s.labels[2], Unit |-> s.labels[3], Value |-> s.value] :
            s \in Series({"external_meter_value"})} = view.External
    /\ (Series({"wifi_info"}) = {}) <=> (view.WifiSSID = "")
=============================================================================
