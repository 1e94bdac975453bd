---------------------------- MODULE Measurement ----------------------------
(***************************************************************************)
(* internal/homewizard's v1.go, v2.go and models.go: how the answer of     *)
(* either API generation to a request for its measurement becomes one      *)
(* Measurement, or an error.  Pure; Scrape supplies the answers.           *)
(*                                                                         *)
(* A *float64 is a sequence of at most one number.  Of the fields that are *)
(* copied as they are there is one of each kind: power, which both         *)
(* generations report, water (v1 only), charge (v2 only), and power per    *)
(* phase, which stands for all arrays.  What is left of a list keeps the   *)
(* places it had in it: a list is a function on its places.                *)
(***************************************************************************)
EXTENDS Integers, Sequences

nil    == <<>>
ptr(v) == <<v>>

phaseCount == 3
Phase == 1 .. phaseCount

-----------------------------------------------------------------------------
(* Times: the zero time, or the year, month, day, hour, minute and second.  *)
Zero == <<>>

DaysIn(year, month) ==
    CASE month = 2 /\ year % 4 = 0 /\ (year % 100 # 0 \/ year % 400 = 0) -> 29
      [] month = 2 /\ ~(year % 4 = 0 /\ (year % 100 # 0 \/ year % 400 = 0)) -> 28
      [] month \in {4, 6, 9, 11} -> 30
      [] OTHER -> 31

Calendar(t) ==
    /\ t[2] \in 1 .. 12 /\ t[3] \in 1 .. DaysIn(t[1], t[2])
    /\ t[4] \in 0 .. 23 /\ t[5] \in 0 .. 59 /\ t[6] \in 0 .. 59

\* The time a stamp stands for, and whether it stands for one.
Time(t) == [ok |-> t = Zero \/ Calendar(t), time |-> t]
NoTime  == [ok |-> FALSE, time |-> Zero]

\* "2006-01-02T15:04:05": the text as its six numbers, Zero for the empty text.
parseISOTimestamp(s) == Time(s)

\* YYMMDDhhmmss as one number, here its first and its last six digits; padded
\* with zeros, which is what the first digits of a small number are.
ShortStampsRejected(n) ==
    IF n.date < 100000 THEN NoTime
    ELSE Time(<<2000 + n.date \div 10000, (n.date \div 100) % 100, n.date % 100,
                n.clock \div 10000, (n.clock \div 100) % 100, n.clock % 100>>)
parseCompactTimestamp(n) ==
    LET yy == n.date \div 10000 IN
    IF n.date <= 0 /\ n.clock <= 0 THEN Time(Zero)
    ELSE IF yy > 99 THEN NoTime
    ELSE Time(<<IF yy < 69 THEN 2000 + yy ELSE 1900 + yy,
                (n.date \div 100) % 100, n.date % 100,
                n.clock \div 10000, (n.clock \div 100) % 100, n.clock % 100>>)

\* A v1 timestamp may be absent.
compact(stamp) ==
    IF stamp = nil THEN Time(Zero) ELSE parseCompactTimestamp(stamp[1])

-----------------------------------------------------------------------------
(* External meters.  An entry without a value is skipped; a bad timestamp   *)
(* of one that has a value fails the whole measurement.                     *)
External(e, at) ==
    [UniqueID |-> e.unique_id, Type |-> e.type, Unit |-> e.unit,
     Value |-> e.value, Timestamp |-> at.time]

Listed(e)   == TRUE
HasValue(e) == e.value # nil

kept(entries) ==
    [i \in {j \in DOMAIN entries : HasValue(entries[j])} |-> entries[i]]

uniqueGasIDOnly(v, w) == v
firstNonEmpty(v, w) == IF v # "" THEN v ELSE w

\* The meter that older firmware reports only through the flat fields.
gas(d) ==
    [unique_id |-> firstNonEmpty(d.unique_gas_id, d.gas_unique_id),
     type |-> "gas_meter", unit |-> "m3",
     value |-> d.total_gas_m3, timestamp |-> d.gas_timestamp]

promotedAlways(d, listed) ==
    IF d.total_gas_m3 = nil THEN listed
    ELSE [i \in DOMAIN listed \cup {0} |-> IF i = 0 THEN gas(d) ELSE listed[i]]
promoted(d, listed) ==
    IF DOMAIN listed = {} /\ d.total_gas_m3 # nil THEN <<gas(d)>> ELSE listed

-----------------------------------------------------------------------------
(* The structs of the two API generations with their zero values, which a   *)
(* field keeps when the body of JSON does not have it.                      *)
v1Data ==
    [active_power_w |-> nil, active_power_l1_w |-> nil,
     active_power_l2_w |-> nil, active_power_l3_w |-> nil,
     active_liter_lpm |-> nil, wifi_ssid |-> "",
     montly_power_peak_timestamp |-> nil,
     total_gas_m3 |-> nil, gas_timestamp |-> nil,
     unique_gas_id |-> "", gas_unique_id |-> "", external |-> <<>>]

v2Data ==
    [power_w |-> nil, power_l1_w |-> nil, power_l2_w |-> nil,
     power_l3_w |-> nil, state_of_charge_pct |-> nil,
     timestamp |-> Zero, monthly_power_peak_timestamp |-> Zero,
     external |-> <<>>]

\* The struct both become, with its zero values.
NoMeasurement ==
    [PowerW |-> nil, ActiveWaterLPM |-> nil, StateOfChargePct |-> nil,
     WifiSSID |-> "", PowerPhaseW |-> <<nil, nil, nil>>, Timestamp |-> Zero,
     MonthlyPowerPeakAt |-> Zero, External |-> <<>>]

Rejected == [ok |-> FALSE]

\* The measurement, or an error when one of its timestamps is none.  meters are
\* the entries that become external meters, times what their timestamps say.
assembled(m, at, peak, meters, times) ==
    IF at.ok /\ peak.ok /\ \A i \in DOMAIN times : times[i].ok
    THEN [ok |-> TRUE,
          m |-> [m EXCEPT
                    !.Timestamp = at.time, !.MonthlyPowerPeakAt = peak.time,
                    !.External = [i \in DOMAIN meters |->
                                    External(meters[i], times[i])]]]
    ELSE Rejected

\* v1Data.measurement(); the answer has no charge and no timestamp of its own.
v1Measurement(d) ==
    LET meters == promoted(d, kept(d.external)) IN
    assembled(
        [NoMeasurement EXCEPT
            !.PowerW = d.active_power_w, !.ActiveWaterLPM = d.active_liter_lpm,
            !.WifiSSID = d.wifi_ssid,
            !.PowerPhaseW = <<d.active_power_l1_w, d.active_power_l2_w,
                              d.active_power_l3_w>>],
        Time(Zero), compact(d.montly_power_peak_timestamp),
        meters, [i \in DOMAIN meters |-> compact(meters[i].timestamp)])

\* v2Measurement.measurement(); no water, and Wi-Fi is asked for elsewhere.
v2Measurement(d) ==
    LET meters == kept(d.external) IN
    assembled(
        [NoMeasurement EXCEPT
            !.PowerW = d.power_w, !.StateOfChargePct = d.state_of_charge_pct,
            !.PowerPhaseW = <<d.power_l1_w, d.power_l2_w, d.power_l3_w>>],
        parseISOTimestamp(d.timestamp),
        parseISOTimestamp(d.monthly_power_peak_timestamp),
        meters, [i \in DOMAIN meters |-> parseISOTimestamp(meters[i].timestamp)])
=============================================================================
