---------------------------- MODULE PollerProofs ----------------------------
(***************************************************************************)
(* Poller's safety properties, for every configuration that Validate       *)
(* accepts: any number of devices, any intervals, timeout and backoff.     *)
(***************************************************************************)
EXTENDS Poller, FiniteSetTheorems, TLAPS

-----------------------------------------------------------------------------
(* Facts about the functions the loop is built from.                        *)

\* Time moves ages on, and never turns an age into "never" or back.
LEMMA OlderAge ==
    ASSUME NEW a \in Age
    PROVE  /\ Older(a) \in Age /\ a <= Older(a) /\ Older(a) <= a + 1
           /\ Older(a) = Never <=> a = Never
           /\ Older(a) < Never => Older(a) <= AgeCap
BY AgeCapAssumption, StaleAfterAssumption DEF Older, Age, Never

\* Time keeps the order of two ages.
LEMMA OlderKeepsOrder ==
    ASSUME NEW a \in Age, NEW b \in Age, a <= b
    PROVE  Older(a) <= Older(b)
BY AgeCapAssumption, StaleAfterAssumption DEF Older, Age, Never

\* LastUpdate is the youngest of the four readings.
LEMMA LastUpdateIsYoungest ==
    ASSUME NEW e \in Entry
    PROVE  /\ LastUpdate(e) \in Age
           /\ LastUpdate(e) \in
                {e.MeasuredAt, e.SystemAt, e.StateAt, e.BatteriesAt}
           /\ LastUpdate(e) <= e.MeasuredAt /\ LastUpdate(e) <= e.SystemAt
           /\ LastUpdate(e) <= e.StateAt /\ LastUpdate(e) <= e.BatteriesAt
<1>1. /\ e.MeasuredAt \in Age /\ e.SystemAt \in Age
      /\ e.StateAt \in Age /\ e.BatteriesAt \in Age
    BY DEF Entry
<1>2. Age \subseteq Int
    BY AgeCapAssumption, StaleAfterAssumption DEF Age, Never
<1>3. \A a, b \in Age : /\ Newer(a, b) \in {a, b}
                        /\ Newer(a, b) <= a /\ Newer(a, b) <= b
    BY <1>2 DEF Newer
<1> DEFINE n == Newer(e.MeasuredAt, e.SystemAt)
           m == Newer(n, e.StateAt)
<1>4. n \in Age /\ n \in {e.MeasuredAt, e.SystemAt}
      /\ n <= e.MeasuredAt /\ n <= e.SystemAt
    BY <1>1, <1>3
<1>5. m \in Age /\ m \in {n, e.StateAt} /\ m <= n /\ m <= e.StateAt
    BY <1>1, <1>3, <1>4
<1>6. LastUpdate(e) = Newer(m, e.BatteriesAt)
    BY DEF LastUpdate
<1>7. LastUpdate(e) \in Age /\ LastUpdate(e) \in {m, e.BatteriesAt}
      /\ LastUpdate(e) <= m /\ LastUpdate(e) <= e.BatteriesAt
    BY <1>1, <1>3, <1>5, <1>6
<1> HIDE DEF n, m
<1>8. /\ n \in Int /\ m \in Int /\ LastUpdate(e) \in Int
      /\ e.MeasuredAt \in Int /\ e.SystemAt \in Int
      /\ e.StateAt \in Int /\ e.BatteriesAt \in Int
    BY <1>1, <1>2, <1>4, <1>5, <1>7
<1>9. /\ LastUpdate(e) <= e.MeasuredAt /\ LastUpdate(e) <= e.SystemAt
      /\ LastUpdate(e) <= e.StateAt /\ LastUpdate(e) <= e.BatteriesAt
    BY <1>4, <1>5, <1>7, <1>8
<1> QED
    BY <1>4, <1>5, <1>7, <1>9

\* No product has the relay state and the battery group on the same API.
LEMMA CapsAreEndpoints ==
    ASSUME NEW product, NEW apiVersion, NEW version
    PROVE  LET caps == capabilitiesFor(product, apiVersion, version) IN
           /\ caps \subseteq Endpoint
           /\ ~({"state", "batteries"} \subseteq caps)
BY DEF capabilitiesFor, Endpoint, ProductP1, ProductSocket, KWhMeters

\* At most two versions are tried, and at least one.
LEMMA ProbeOrderIsShort ==
    ASSUME NEW v \in Version \cup {"auto"}, NEW t \in BOOLEAN
    PROVE  /\ probeOrder(v, t) \in Seq(Version)
           /\ Len(probeOrder(v, t)) \in {1, 2}
<1>1. CASE v \in Version
    <2>1. probeOrder(v, t) = <<v>>
        BY <1>1 DEF probeOrder, Version
    <2> QED
        BY <1>1, <2>1
<1>2. CASE v = "auto" /\ t
    <2>1. probeOrder(v, t) = <<"v2", "v1">>
        BY <1>2 DEF probeOrder, Version
    <2> QED
        BY <2>1 DEF Version
<1>3. CASE v = "auto" /\ ~t
    <2>1. probeOrder(v, t) = <<"v1", "v2">>
        BY <1>3 DEF probeOrder, Version
    <2> QED
        BY <2>1 DEF Version
<1> QED
    BY <1>1, <1>2, <1>3

\* Every failure is one of the errors.
LEMMA ErrorsAreErrors ==
    ASSUME NEW resp
    PROVE  do(resp) \subseteq Error /\ fetchInfo(resp) \subseteq Error
<1>1. statusError(resp) \subseteq Error
    BY DEF statusError, Error
<1> QED
    BY <1>1 DEF do, fetchInfo, Error

\* Integer division keeps order.
LEMMA DivKeepsOrder ==
    ASSUME NEW a \in Nat, NEW b \in Nat, a <= b
    PROVE  /\ a \div JitterDivisor \in Nat
           /\ a \div JitterDivisor <= b \div JitterDivisor
<1> DEFINE J == JitterDivisor
           q == a \div J
           r == b \div J
<1>1. J \in Nat /\ J > 0
    BY TimesAssumption
<1>2. q \in Nat /\ r \in Nat
    BY <1>1
<1>3. J * q <= a /\ b < J * (r + 1)
    BY <1>1, <1>2
<1>4. ASSUME q >= r + 1 PROVE J * (r + 1) <= J * q
    BY <1>1, <1>2, <1>4
<1> QED
    BY <1>1, <1>2, <1>3, <1>4

\* A loop is never told to sleep for longer than MaxSleep.
LEMMA SleepIsBounded ==
    ASSUME NEW d \in Device
    PROVE  /\ interval(d) \in Nat /\ MaxSleep(d) \in Nat
           /\ \A j \in jitter(interval(d)) :
                j \in Nat /\ interval(d) + j <= MaxSleep(d)
           /\ \A b \in BackoffMin .. BackoffMax : \A j \in jitter(b) :
                j \in Nat /\ b + j <= MaxSleep(d)
<1>1. interval(d) \in Nat /\ BackoffMin \in Nat /\ BackoffMax \in Nat
    BY ConfigAssumption, TimesAssumption DEF interval
<1> DEFINE longest == IF interval(d) > BackoffMax THEN interval(d) ELSE BackoffMax
<1>2. longest \in Nat /\ interval(d) <= longest /\ BackoffMax <= longest
    BY <1>1
<1>3. MaxSleep(d) = longest + longest \div JitterDivisor
    BY DEF MaxSleep
<1>4. longest \div JitterDivisor \in Nat
    BY <1>2, DivKeepsOrder
<1>5. ASSUME NEW b \in Nat, b <= longest, NEW j \in jitter(b)
      PROVE  j \in Nat /\ b + j <= MaxSleep(d)
    <2>1. /\ b \div JitterDivisor \in Nat
          /\ b \div JitterDivisor <= longest \div JitterDivisor
        BY <1>2, <1>5, DivKeepsOrder
    <2> HIDE DEF longest
    <2> QED
        BY <1>2, <1>3, <1>4, <1>5, <2>1 DEF jitter
<1> QED
    BY <1>1, <1>2, <1>3, <1>4, <1>5

-----------------------------------------------------------------------------
(* What a step has to show.                                                 *)

\* The loop of d and the snapshot are all that one iteration's step touches.
OnlyTouches(d) ==
    /\ started' = started
    /\ \A x \in Device \ {d} :
        /\ pc'[x] = pc[x] /\ entry'[x] = entry[x] /\ client'[x] = client[x]
        /\ timer'[x] = timer[x] /\ start'[x] = start[x] /\ err'[x] = err[x]
        /\ dial'[x] = dial[x] /\ waited'[x] = waited[x]
        /\ lastSuccess'[x] = lastSuccess[x]

\* A device that is in the table, and one that is not yet.
LEMMA InTable ==
    ASSUME Registered, NEW d \in Device
    PROVE  /\ pc[d] # "off" => entry[d] \in Entry
           /\ pc[d] = "off" => /\ entry[d] = Absent /\ client[d] = None
                               /\ err[d] = {} /\ start[d] = Never
                               /\ lastSuccess[d] = Never
<1>1. PICK i \in 1 .. Len(Devices) : d = Devices[i]
    BY DEF Device
<1> QED
    BY <1>1 DEF Registered

\* What the invariant says of a device depends on its own variables only.
LEMMA Untouched ==
    ASSUME NEW d \in Device, DeviceInv(d),
           pc'[d] = pc[d], entry'[d] = entry[d], client'[d] = client[d],
           timer'[d] = timer[d], start'[d] = start[d], err'[d] = err[d],
           dial'[d] = dial[d], waited'[d] = waited[d],
           lastSuccess'[d] = lastSuccess[d]
    PROVE  DeviceInv(d)'
<1>1. LocalsFitPC(d)'
    BY DEF DeviceInv, LocalsFitPC
<1>2. MeasurementAge(d)'
    BY DEF DeviceInv, MeasurementAge
<1>3. PollAge(d)'
    BY DEF DeviceInv, PollAge
<1>4. SuccessCovers(d)'
    BY DEF DeviceInv, SuccessCovers, Covered
<1>5. Identified(d)'
    BY DEF DeviceInv, Identified
<1> QED
    BY <1>1, <1>2, <1>3, <1>4, <1>5 DEF DeviceInv

\* The clocks of a loop are numbers.
LEMMA LocalNumbers ==
    ASSUME TypeOK, NEW d \in Device
    PROVE  /\ Timeout \in Nat \ {0} /\ Never \in Nat \ {0}
           /\ start[d] \in Nat /\ lastSuccess[d] \in Nat
           /\ waited[d] \in Nat /\ waited[d] <= Timeout
<1>1. /\ start[d] \in Age /\ lastSuccess[d] \in Age
      /\ waited[d] \in 0 .. Timeout
    BY DEF TypeOK
<1>2. Timeout \in Nat \ {0} /\ Never \in Nat \ {0} /\ Age \subseteq Nat
    BY TimesAssumption, AgeCapAssumption, StaleAfterAssumption DEF Age, Never
<1>3. start[d] \in Nat /\ lastSuccess[d] \in Nat
    BY <1>1, <1>2
<1>4. waited[d] \in Nat /\ waited[d] <= Timeout
    BY <1>1, <1>2
<1> QED
    BY <1>2, <1>3, <1>4

\* The readings of a device in the table have ages.
LEMMA EntryNumbers ==
    ASSUME NEW e \in Entry
    PROVE  /\ e.MeasuredAt \in Nat /\ e.SystemAt \in Nat
           /\ e.StateAt \in Nat /\ e.BatteriesAt \in Nat
<1>1. /\ e.MeasuredAt \in Age /\ e.SystemAt \in Age
      /\ e.StateAt \in Age /\ e.BatteriesAt \in Age
    BY DEF Entry
<1>2. Age \subseteq Nat
    BY AgeCapAssumption, StaleAfterAssumption DEF Age, Never
<1> QED
    BY <1>1, <1>2

\* A step of one loop has to re-establish that loop's part, and the types.
LEMMA OneLoop ==
    ASSUME IInv, NEW d \in Device, pc[d] # "off",
           OnlyTouches(d), TypeOK', pc'[d] # "off", entry'[d] \in Entry,
           DeviceInv(d)'
    PROVE  IInv'
<1>1. Registered'
    <2> SUFFICES ASSUME NEW i \in 1 .. Len(Devices)
                 PROVE  LET x == Devices[i] IN
                        /\ pc'[x] = "off" <=> i > started'
                        /\ pc'[x] = "off" =>
                            /\ entry'[x] = Absent /\ client'[x] = None
                            /\ err'[x] = {} /\ start'[x] = Never
                            /\ lastSuccess'[x] = Never
                        /\ pc'[x] # "off" => entry'[x] \in Entry
        BY DEF Registered
    <2> DEFINE x == Devices[i]
    <2>1. x \in Device
        BY DEF Device
    <2>2. /\ pc[x] = "off" <=> i > started
          /\ pc[x] = "off" => /\ entry[x] = Absent /\ client[x] = None
                              /\ err[x] = {} /\ start[x] = Never
                              /\ lastSuccess[x] = Never
          /\ pc[x] # "off" => entry[x] \in Entry
        BY DEF IInv, Registered
    <2>3. CASE x = d
        BY <2>2, <2>3 DEF OnlyTouches
    <2>4. CASE x # d
        BY <2>1, <2>2, <2>4 DEF OnlyTouches
    <2> QED
        BY <2>3, <2>4
<1>2. ASSUME NEW x \in Device, pc'[x] # "off" PROVE DeviceInv(x)'
    <2>1. CASE x = d
        BY <2>1
    <2>2. CASE x # d
        BY <1>2, <2>2, Untouched DEF OnlyTouches, IInv
    <2> QED
        BY <2>1, <2>2
<1> QED
    BY <1>1, <1>2 DEF IInv

-----------------------------------------------------------------------------
(* One lemma for each step of a loop.                                       *)

\* The loop returns.
LEMMA StopStep ==
    ASSUME IInv, NEW d \in Device, Stop(d)
    PROVE  IInv'
<1>1. TypeOK'
    BY DEF Stop, IInv, TypeOK, envVars
<1>2. OnlyTouches(d) /\ pc'[d] = "stopped" /\ pc[d] = "wait"
    BY DEF Stop, IInv, TypeOK, OnlyTouches, envVars
<1>3. /\ entry' = entry /\ client' = client /\ timer' = timer
      /\ start' = start /\ err' = err /\ dial' = dial /\ waited' = waited
      /\ lastSuccess' = lastSuccess
    BY DEF Stop, envVars
<1>4. DeviceInv(d) /\ entry[d] \in Entry
    BY <1>2, InTable DEF IInv
<1>5. LocalsFitPC(d)' /\ MeasurementAge(d)' /\ PollAge(d)'
    BY <1>2, <1>3, <1>4 DEF DeviceInv, LocalsFitPC, MeasurementAge, PollAge
<1>6. SuccessCovers(d)' /\ Identified(d)'
    BY <1>2, <1>3, <1>4 DEF DeviceInv, SuccessCovers, Covered, Identified
<1> QED
    BY <1>1, <1>2, <1>3, <1>4, <1>5, <1>6, OneLoop DEF DeviceInv

\* A poll starts: on the client at hand, by probing, or by failing at once.
LEMMA SelectStep ==
    ASSUME IInv, NEW d \in Device, Select(d)
    PROVE  IInv'
<1> DEFINE order == probeOrder(Config[d].APIVersion, token[d] = "present")
<1>0. TypeOK /\ Timeout \in Nat \ {0} /\ 0 \in Age
    BY TimesAssumption, AgeCapAssumption, StaleAfterAssumption
    DEF IInv, Age, Never
<1>1. order \in Seq(Version) /\ Len(order) \in {1, 2}
    BY ProbeOrderIsShort, ConfigAssumption
<1>2. /\ pc[d] = "wait"
      /\ \/ pc'[d] = "measurement" /\ client[d] # None
            /\ err'[d] = err[d] /\ dial'[d] = dial[d]
         \/ pc'[d] = "observe" /\ client[d] = None
            /\ err'[d] = {"other"} /\ dial'[d] = dial[d]
         \/ pc'[d] = "probe" /\ client[d] = None
            /\ err'[d] = err[d]
            /\ dial'[d] = [token |-> token[d] = "present", versions |-> order]
      /\ waited'[d] = 0 /\ start'[d] = 0
      /\ entry' = entry /\ client' = client /\ timer' = timer
      /\ lastSuccess' = lastSuccess
    BY <1>0 DEF Select, Goto, TypeOK, envVars
<1>3. TypeOK'
    <2>1. /\ start \in [Device -> Age] /\ waited \in [Device -> 0 .. Timeout]
          /\ err \in [Device -> SUBSET Error]
          /\ dial \in [Device -> [token : BOOLEAN, versions : Seq(Version)]]
          /\ pc \in [Device -> {"off", "wait", "observe", "stopped"} \cup Request]
        BY <1>0 DEF TypeOK
    <2>2. start' \in [Device -> Age] /\ waited' \in [Device -> 0 .. Timeout]
        <3>1. start' = [start EXCEPT ![d] = 0] /\ waited' = [waited EXCEPT ![d] = 0]
            BY DEF Select, Goto
        <3>2. 0 \in 0 .. Timeout
            BY <1>0
        <3> QED
            BY <1>0, <2>1, <3>1, <3>2
    <2>3. err' \in [Device -> SUBSET Error]
        BY <2>1 DEF Select, Error
    <2>4. [token |-> token[d] = "present", versions |-> order]
            \in [token : BOOLEAN, versions : Seq(Version)]
        BY <1>1
    <2>5. dial' \in [Device -> [token : BOOLEAN, versions : Seq(Version)]]
        BY <2>1, <2>4 DEF Select
    <2>6. pc' \in [Device -> {"off", "wait", "observe", "stopped"} \cup Request]
        BY <2>1 DEF Select, Goto, Request
    <2> QED
        BY <1>0, <2>2, <2>3, <2>5, <2>6 DEF Select, TypeOK, envVars
<1>4. OnlyTouches(d)
    BY <1>0 DEF Select, Goto, TypeOK, OnlyTouches, envVars
<1>5. DeviceInv(d) /\ entry[d] \in Entry
    BY <1>2, InTable DEF IInv
<1>6. LocalsFitPC(d)'
    BY <1>1, <1>2, <1>5 DEF DeviceInv, LocalsFitPC
<1>7. MeasurementAge(d)' /\ Identified(d)'
    BY <1>2, <1>5 DEF DeviceInv, MeasurementAge, Identified
<1>8. PollAge(d)'
    BY <1>0, <1>2 DEF PollAge
<1>9. SuccessCovers(d)'
    BY <1>2, <1>5 DEF DeviceInv, SuccessCovers, Covered
<1> QED
    BY <1>2, <1>3, <1>4, <1>5, <1>6, <1>7, <1>8, <1>9, OneLoop DEF DeviceInv

\* New returns a well-formed client, whose capabilities fit one product.
LEMMA ConnectedIsAClient ==
    ASSUME TypeOK, NEW d \in Device, NEW v \in Version
    PROVE  /\ connected(d, v) \in ClientState
           /\ connected(d, v) # None
           /\ connected(d, v).version = v
           /\ ~({"state", "batteries"} \subseteq connected(d, v).caps)
<1> DEFINE product == IF Config[d].Type # "" THEN Config[d].Type
                                             ELSE ProductOf[firmware[d]]
           caps == capabilitiesFor(product, APIOf[firmware[d]], v)
<1>1. firmware[d] \in Firmware /\ product \in STRING /\ dial[d].token \in BOOLEAN
    BY ConfigAssumption DEF TypeOK
<1>2. caps \subseteq Endpoint /\ ~({"state", "batteries"} \subseteq caps)
    BY CapsAreEndpoints
<1>3. connected(d, v) =
        [version |-> v, token |-> dial[d].token,
         info |-> [product |-> product, firmware |-> firmware[d]],
         caps |-> caps]
    BY DEF connected
<1> HIDE DEF product, caps
<1>4. [product |-> product, firmware |-> firmware[d]] \in Info
    BY <1>1 DEF Info
<1> QED
    BY <1>1, <1>2, <1>3, <1>4 DEF ClientState, None

\* A version answered, or did not and the next one is tried.
LEMMA ProbeStep ==
    ASSUME IInv, NEW d \in Device, Probe(d)
    PROVE  IInv'
<1> DEFINE version == Head(dial[d].versions)
           others  == Tail(dial[d].versions)
           c       == connected(d, version)
<1>0. /\ TypeOK /\ Timeout \in Nat \ {0} /\ 0 \in 0 .. Timeout
      /\ pc[d] = "probe" /\ DeviceInv(d) /\ entry[d] \in Entry
      /\ start[d] \in Age /\ waited[d] \in 0 .. Timeout /\ Age \subseteq Int
      /\ dial[d].versions \in Seq(Version) /\ dial[d].token \in BOOLEAN
    <2>1. TypeOK /\ pc[d] = "probe" /\ Timeout \in Nat \ {0}
        BY TimesAssumption DEF IInv, Probe
    <2>2. start[d] \in Age /\ waited[d] \in 0 .. Timeout
        BY <2>1 DEF TypeOK
    <2>3. dial[d] \in [token : BOOLEAN, versions : Seq(Version)]
        BY <2>1 DEF TypeOK
    <2>4. DeviceInv(d) /\ entry[d] \in Entry
        BY <2>1, InTable DEF IInv
    <2> QED
        BY <2>1, <2>2, <2>3, <2>4, AgeCapAssumption, StaleAfterAssumption
        DEF Age, Never
<1>1. /\ Len(dial[d].versions) \in {1, 2} /\ version \in Version
      /\ others \in Seq(Version) /\ Len(others) = Len(dial[d].versions) - 1
    <2> DEFINE versions == dial[d].versions
    <2>1. versions \in Seq(Version) /\ Len(versions) \in {1, 2}
        BY <1>0 DEF DeviceInv, LocalsFitPC
    <2> HIDE DEF versions
    <2>2. /\ Head(versions) \in Version /\ Tail(versions) \in Seq(Version)
          /\ Len(Tail(versions)) = Len(versions) - 1
        BY <2>1
    <2> QED
        BY <2>1, <2>2 DEF versions
<1>2. others # <<>> => Len(others) = 1 /\ Len(dial[d].versions) = 2
    <2> HIDE DEF others
    <2>1. Len(others) \in {0, 1}
        BY <1>1
    <2>2. Len(others) = 0 => others = <<>>
        BY <1>1
    <2> QED
        BY <1>1, <2>1, <2>2
<1>3. /\ c \in ClientState /\ c # None /\ c.version = version
      /\ ~({"state", "batteries"} \subseteq c.caps)
    BY <1>0, <1>1, ConnectedIsAClient
<1>4. /\ version \in Version
      /\ c.info \in Info /\ c.caps \subseteq Endpoint
    BY <1>1, <1>3 DEF ClientState
<1>5. /\ publishIdentity(entry[d], c) \in Entry
      /\ publishIdentity(entry[d], c).version = c.version
      /\ publishIdentity(entry[d], c).info = c.info
      /\ publishIdentity(entry[d], c).caps = c.caps
      /\ \A at \in {"MeasuredAt", "SystemAt", "StateAt", "BatteriesAt"} :
            publishIdentity(entry[d], c)[at] = entry[d][at]
    BY <1>0, <1>3, <1>4 DEF publishIdentity, Entry
<1>6. PICK resp \in Replies(d, version, dial[d].token, "api") :
        \/ /\ fetchInfo(resp) = {}
           /\ client' = [client EXCEPT ![d] = c]
           /\ entry' = [entry EXCEPT ![d] = publishIdentity(@, c)]
           /\ err' = [err EXCEPT ![d] = {}]
           /\ dial' = [dial EXCEPT ![d] = Hangup]
           /\ Goto(d, "measurement")
        \/ /\ fetchInfo(resp) # {}
           /\ err' = [err EXCEPT ![d] = @ \cup fetchInfo(resp)]
           /\ dial' = [dial EXCEPT ![d] = IF others = <<>> THEN Hangup
                                          ELSE [@ EXCEPT !.versions = others]]
           /\ Goto(d, IF others = <<>> THEN "observe" ELSE "probe")
           /\ UNCHANGED <<client, entry>>
    BY DEF Probe
<1> HIDE DEF version, others, c
<1>7. /\ ctx' = ctx /\ started' = started /\ lastSuccess' = lastSuccess
      /\ backoff' = backoff /\ timer' = timer /\ start' = start
      /\ serves' = serves /\ firmware' = firmware /\ token' = token
    BY DEF Probe, envVars
<1>8. /\ entry \in [Device -> Entry \cup {Absent}]
      /\ pc \in [Device -> {"off", "wait", "observe", "stopped"} \cup Request]
      /\ client \in [Device -> ClientState \cup {None}]
      /\ err \in [Device -> SUBSET Error]
      /\ dial \in [Device -> [token : BOOLEAN, versions : Seq(Version)]]
      /\ waited \in [Device -> 0 .. Timeout]
    BY <1>0 DEF TypeOK
<1>9. Hangup \in [token : BOOLEAN, versions : Seq(Version)]
    BY DEF Hangup
<1>10. /\ Timeout \in Nat /\ start[d] \in Int
       /\ waited[d] \in Nat /\ waited[d] <= Timeout
    BY <1>0, LocalNumbers
<1>11. /\ start[d] <= 2 * Timeout
       /\ Len(dial[d].versions) = 2 => start[d] <= Timeout
    <2>1. /\ start[d] <= Timeout + waited[d]
          /\ Len(dial[d].versions) = 2 => start[d] <= waited[d]
        BY <1>0 DEF DeviceInv, PollAge
    <2> QED
        BY <2>1, <1>10
<1>12. CASE fetchInfo(resp) = {}
    <2>1. /\ client' = [client EXCEPT ![d] = c]
          /\ entry' = [entry EXCEPT ![d] = publishIdentity(entry[d], c)]
          /\ err' = [err EXCEPT ![d] = {}]
          /\ dial' = [dial EXCEPT ![d] = Hangup]
          /\ pc' = [pc EXCEPT ![d] = "measurement"]
          /\ waited' = [waited EXCEPT ![d] = 0]
        BY <1>6, <1>12 DEF Goto
    <2>2. TypeOK'
        <3>1. /\ entry' \in [Device -> Entry \cup {Absent}]
              /\ client' \in [Device -> ClientState \cup {None}]
              /\ err' \in [Device -> SUBSET Error]
            BY <1>3, <1>5, <1>8, <2>1
        <3>2. /\ dial' \in [Device -> [token : BOOLEAN, versions : Seq(Version)]]
              /\ waited' \in [Device -> 0 .. Timeout]
            BY <1>0, <1>8, <1>9, <2>1
        <3>3. pc' \in [Device -> {"off", "wait", "observe", "stopped"} \cup Request]
            BY <1>8, <2>1 DEF Request
        <3> QED
            BY <1>0, <1>7, <3>1, <3>2, <3>3 DEF TypeOK
    <2>3. OnlyTouches(d)
        BY <1>7, <1>8, <2>1 DEF OnlyTouches
    <2>4. /\ client'[d] = c /\ entry'[d] = publishIdentity(entry[d], c)
          /\ err'[d] = {} /\ pc'[d] = "measurement" /\ waited'[d] = 0
        BY <1>8, <2>1
    <2>5. LocalsFitPC(d)' /\ Identified(d)'
        BY <1>3, <1>4, <1>5, <2>4 DEF LocalsFitPC, Identified
    <2>6. MeasurementAge(d)'
        BY <1>0, <1>5, <2>4 DEF DeviceInv, MeasurementAge
    <2>7. PollAge(d)'
        BY <1>7, <1>11, <1>10, <2>4 DEF PollAge
    <2>8. SuccessCovers(d)'
        <3>1. Covered(d)
            BY <1>0 DEF DeviceInv, SuccessCovers
        <3>2. LastUpdate(entry'[d]) = LastUpdate(entry[d])
            BY <1>5, <2>4 DEF LastUpdate
        <3> QED
            BY <1>5, <1>7, <2>4, <3>1, <3>2 DEF SuccessCovers, Covered
    <2> QED
        BY <1>0, <1>5, <2>2, <2>3, <2>4, <2>5, <2>6, <2>7, <2>8, OneLoop
        DEF DeviceInv
<1>13. CASE fetchInfo(resp) # {}
    <2> DEFINE label == IF others = <<>> THEN "observe" ELSE "probe"
               call  == IF others = <<>> THEN Hangup
                        ELSE [dial[d] EXCEPT !.versions = others]
    <2>1. /\ client' = client /\ entry' = entry
          /\ err' = [err EXCEPT ![d] = err[d] \cup fetchInfo(resp)]
          /\ dial' = [dial EXCEPT ![d] = call]
          /\ pc' = [pc EXCEPT ![d] = label]
          /\ waited' = [waited EXCEPT ![d] = 0]
        BY <1>6, <1>13 DEF Goto
    <2>2. call \in [token : BOOLEAN, versions : Seq(Version)]
        BY <1>1, <1>8, <1>9
    <2>3. others # <<>> => call.versions = others
        BY <1>8
    <2>4. /\ label \in {"observe", "probe"}
          /\ label = "probe" => /\ Len(call.versions) = 1
                                /\ Len(dial[d].versions) = 2
        BY <1>2, <2>3
    <2> HIDE DEF label, call
    <2>5. fetchInfo(resp) \subseteq Error
        BY ErrorsAreErrors
    <2>6. TypeOK'
        <3>1. /\ err' \in [Device -> SUBSET Error]
              /\ dial' \in [Device -> [token : BOOLEAN, versions : Seq(Version)]]
            BY <1>8, <2>1, <2>2, <2>5
        <3>2. waited' \in [Device -> 0 .. Timeout]
            BY <1>0, <1>8, <2>1
        <3>3. pc' \in [Device -> {"off", "wait", "observe", "stopped"} \cup Request]
            BY <1>8, <2>1, <2>4 DEF Request
        <3> QED
            BY <1>0, <1>7, <2>1, <3>1, <3>2, <3>3 DEF TypeOK
    <2>7. OnlyTouches(d)
        BY <1>7, <1>8, <2>1 DEF OnlyTouches
    <2>8. /\ client'[d] = client[d] /\ entry'[d] = entry[d]
          /\ err'[d] = err[d] \cup fetchInfo(resp) /\ err'[d] # {}
          /\ pc'[d] = label /\ waited'[d] = 0 /\ dial'[d] = call
        BY <1>8, <1>13, <2>1
    <2>9. LocalsFitPC(d)' /\ Identified(d)'
        BY <1>0, <2>4, <2>8 DEF DeviceInv, LocalsFitPC, Identified
    <2>10. MeasurementAge(d)'
        BY <1>0, <2>4, <2>8 DEF DeviceInv, MeasurementAge
    <2>11. PollAge(d)'
        BY <1>7, <1>11, <1>10, <2>4, <2>8 DEF PollAge
    <2>12. SuccessCovers(d)'
        BY <1>0, <1>7, <2>4, <2>8 DEF DeviceInv, SuccessCovers, Covered
    <2> QED
        BY <1>0, <2>4, <2>6, <2>7, <2>8, <2>9, <2>10, <2>11, <2>12, OneLoop
        DEF DeviceInv
<1> QED
    BY <1>12, <1>13

\* Where a poll goes next depends on the capabilities alone, up to "due".
LEMMA NextEndpoint ==
    ASSUME NEW caps, NEW e
    PROVE  /\ AfterSystem(caps) \in {"batteries", "observe"}
           /\ AfterSystem(caps) = "batteries" => "batteries" \in caps
           /\ AfterState(caps, e) \in {"system", "batteries", "observe"}
           /\ AfterState(caps, e) = "batteries" => "batteries" \in caps
           /\ AfterMeasurement(caps, e) \in
                {"state", "system", "batteries", "observe"}
           /\ AfterMeasurement(caps, e) = "batteries" => "batteries" \in caps
           /\ AfterMeasurement(caps, e) = "state" => "state" \in caps
           /\ AfterState(caps, e) = "system" => due(e)
           /\ AfterMeasurement(caps, e) = "system" => due(e)
BY DEF AfterMeasurement, AfterState, AfterSystem

\* The measurement arrives and is published, or the poll has failed.
LEMMA MeasurementStep ==
    ASSUME IInv, NEW d \in Device, Measurement(d)
    PROVE  IInv'
<1> DEFINE label == AfterMeasurement(client[d].caps, entry[d])
           e     == [entry[d] EXCEPT !.MeasuredAt = 0]
<1>0. TypeOK /\ pc[d] = "measurement"
    BY DEF IInv, Measurement
<1>1. DeviceInv(d) /\ entry[d] \in Entry
    BY <1>0, InTable DEF IInv
<1>2. /\ client[d] # None /\ err[d] = {}
      /\ ~({"state", "batteries"} \subseteq client[d].caps)
      /\ client[d] \in ClientState /\ client[d].version \in Version
    <2>1. /\ client[d] # None /\ err[d] = {}
          /\ ~({"state", "batteries"} \subseteq client[d].caps)
        BY <1>0, <1>1 DEF DeviceInv, LocalsFitPC
    <2>2. client[d] \in ClientState
        BY <1>0, <2>1 DEF TypeOK
    <2> QED
        BY <2>1, <2>2 DEF ClientState
<1>3. /\ e \in Entry /\ e.MeasuredAt = 0 /\ e.SystemAt = entry[d].SystemAt
      /\ e.StateAt = entry[d].StateAt /\ e.BatteriesAt = entry[d].BatteriesAt
      /\ e.version = entry[d].version /\ e.info = entry[d].info
      /\ e.caps = entry[d].caps
    <2>1. 0 \in Age
        BY AgeCapAssumption, StaleAfterAssumption DEF Age, Never
    <2> QED
        BY <1>1, <2>1 DEF Entry
<1>4. /\ label \in {"state", "system", "batteries", "observe"}
      /\ label = "batteries" => "batteries" \in client[d].caps
      /\ label = "state" => "state" \in client[d].caps
      /\ label = "system" => due(entry[d])
    BY NextEndpoint
<1>5. /\ Timeout \in Nat \ {0} /\ Never \in Nat \ {0} /\ start[d] \in Nat
      /\ waited[d] \in Nat /\ waited[d] <= Timeout
      /\ entry[d].SystemAt \in Nat /\ entry[d].StateAt \in Nat
      /\ entry[d].BatteriesAt \in Nat
    BY <1>0, <1>1, LocalNumbers, EntryNumbers
<1>6. start[d] <= 3 * Timeout
    <2>1. start[d] <= 2 * Timeout + waited[d]
        BY <1>0, <1>1 DEF DeviceInv, PollAge
    <2> QED
        BY <1>5, <2>1
<1>7. PICK resp \in Replies(d, client[d].version, client[d].token, "data") :
        \/ /\ do(resp) = {}
           /\ entry' = [entry EXCEPT ![d].MeasuredAt = 0]
           /\ Goto(d, label)
           /\ UNCHANGED err
        \/ /\ do(resp) # {}
           /\ err' = [err EXCEPT ![d] = do(resp)]
           /\ Goto(d, "observe")
           /\ UNCHANGED entry
    BY DEF Measurement
<1> HIDE DEF label, e
<1>8. /\ ctx' = ctx /\ started' = started /\ lastSuccess' = lastSuccess
      /\ client' = client /\ backoff' = backoff /\ timer' = timer
      /\ start' = start /\ dial' = dial
      /\ serves' = serves /\ firmware' = firmware /\ token' = token
    BY DEF Measurement, envVars
<1>9. /\ entry \in [Device -> Entry \cup {Absent}]
      /\ pc \in [Device -> {"off", "wait", "observe", "stopped"} \cup Request]
      /\ err \in [Device -> SUBSET Error]
      /\ waited \in [Device -> 0 .. Timeout]
      /\ 0 \in 0 .. Timeout
    BY <1>0, <1>5 DEF TypeOK
<1>10. CASE do(resp) = {}
    <2>1. /\ entry' = [entry EXCEPT ![d] = e]
          /\ pc' = [pc EXCEPT ![d] = label] /\ err' = err
          /\ waited' = [waited EXCEPT ![d] = 0]
        BY <1>7, <1>10 DEF Goto, e
    <2>2. TypeOK'
        <3>1. /\ entry' \in [Device -> Entry \cup {Absent}]
              /\ waited' \in [Device -> 0 .. Timeout]
            BY <1>3, <1>9, <2>1
        <3>2. pc' \in [Device -> {"off", "wait", "observe", "stopped"} \cup Request]
            BY <1>4, <1>9, <2>1 DEF Request
        <3> QED
            BY <1>0, <1>8, <2>1, <3>1, <3>2 DEF TypeOK
    <2>3. OnlyTouches(d)
        BY <1>8, <1>9, <2>1 DEF OnlyTouches
    <2>4. /\ client'[d] = client[d] /\ entry'[d] = e /\ err'[d] = {}
          /\ pc'[d] = label /\ waited'[d] = 0 /\ start'[d] = start[d]
        BY <1>2, <1>8, <1>9, <2>1
    <2>5. LocalsFitPC(d)'
        BY <1>2, <1>3, <1>4, <2>4 DEF LocalsFitPC, due
    <2>6. Identified(d)'
        BY <1>1, <1>2, <1>3, <2>4 DEF DeviceInv, Identified
    <2>7. MeasurementAge(d)'
        BY <1>3, <1>5, <2>4 DEF MeasurementAge
    <2>8. PollAge(d)'
        BY <1>4, <1>5, <1>6, <2>4 DEF PollAge
    <2>9. SuccessCovers(d)'
        BY <1>3, <1>4, <1>5, <2>4 DEF SuccessCovers
    <2> QED
        BY <1>0, <1>3, <1>4, <2>2, <2>3, <2>4, <2>5, <2>6, <2>7, <2>8, <2>9,
           OneLoop
        DEF DeviceInv
<1>11. CASE do(resp) # {}
    <2>1. /\ entry' = entry /\ pc' = [pc EXCEPT ![d] = "observe"]
          /\ err' = [err EXCEPT ![d] = do(resp)]
          /\ waited' = [waited EXCEPT ![d] = 0]
        BY <1>7, <1>11 DEF Goto
    <2>2. TypeOK'
        <3>1. /\ err' \in [Device -> SUBSET Error]
              /\ waited' \in [Device -> 0 .. Timeout]
            BY <1>9, <2>1, ErrorsAreErrors
        <3>2. pc' \in [Device -> {"off", "wait", "observe", "stopped"} \cup Request]
            BY <1>9, <2>1
        <3> QED
            BY <1>0, <1>8, <2>1, <3>1, <3>2 DEF TypeOK
    <2>3. OnlyTouches(d)
        BY <1>8, <1>9, <2>1 DEF OnlyTouches
    <2>4. /\ client'[d] = client[d] /\ entry'[d] = entry[d] /\ err'[d] # {}
          /\ pc'[d] = "observe" /\ waited'[d] = 0 /\ start'[d] = start[d]
          /\ lastSuccess'[d] = lastSuccess[d]
        BY <1>8, <1>9, <1>11, <2>1
    <2>5. LocalsFitPC(d)' /\ Identified(d)' /\ MeasurementAge(d)'
        BY <1>1, <2>4 DEF DeviceInv, LocalsFitPC, Identified, MeasurementAge
    <2>6. PollAge(d)'
        BY <1>5, <1>6, <2>4 DEF PollAge
    <2>7. SuccessCovers(d)'
        BY <1>0, <1>1, <2>4 DEF DeviceInv, SuccessCovers, Covered
    <2> QED
        BY <1>0, <1>1, <2>2, <2>3, <2>4, <2>5, <2>6, <2>7, OneLoop
        DEF DeviceInv
<1> QED
    BY <1>10, <1>11

\* A secondary endpoint: published, forgotten, or failed and passed over.
\* What is assumed of label is what the callers below show.
LEMMA SecondaryStep ==
    ASSUME IInv, NEW d \in Device, NEW endpoint, NEW at, NEW label,
           <<endpoint, at>> \in {<<"state", "StateAt">>, <<"system", "SystemAt">>,
                                <<"batteries", "BatteriesAt">>},
           Secondary(d, endpoint, at, label),
           label \in {"system", "batteries", "observe"},
           label = "system" => endpoint = "state" /\ due(entry[d]),
           label = "batteries" => /\ endpoint # "batteries"
                                  /\ "batteries" \in client[d].caps
    PROVE  IInv'
<1> DEFINE e    == [entry[d] EXCEPT ![at] = 0]
           less == Disable(client[d].caps, endpoint)
           f    == [entry[d] EXCEPT !.caps = less]
           g    == [client[d] EXCEPT !.caps = less]
<1>0. /\ TypeOK /\ pc[d] = endpoint
      /\ endpoint \in {"state", "system", "batteries"}
      /\ at \in {"StateAt", "SystemAt", "BatteriesAt"}
    BY DEF IInv, Secondary
<1>1. DeviceInv(d) /\ entry[d] \in Entry
    BY <1>0, InTable DEF IInv
<1>2. /\ client[d] # None /\ err[d] = {} /\ client[d] \in ClientState
      /\ ~({"state", "batteries"} \subseteq client[d].caps)
      /\ endpoint = "state" => "state" \in client[d].caps
      /\ endpoint = "batteries" => "batteries" \in client[d].caps
    <2>1. client[d] # None
        BY <1>0, <1>1 DEF DeviceInv, LocalsFitPC
    <2>2. client[d] \in ClientState
        BY <1>0, <2>1 DEF TypeOK
    <2> QED
        BY <1>0, <1>1, <2>1, <2>2 DEF DeviceInv, LocalsFitPC
<1>3. /\ client[d].version \in Version /\ client[d].caps \subseteq Endpoint
      /\ client[d].version = entry[d].version /\ client[d].info = entry[d].info
      /\ client[d].caps = entry[d].caps
    BY <1>1, <1>2 DEF ClientState, DeviceInv, Identified
<1>4. /\ Timeout \in Nat \ {0} /\ Never \in Nat \ {0} /\ start[d] \in Nat
      /\ waited[d] \in Nat /\ waited[d] <= Timeout
    BY <1>0, LocalNumbers
<1>5. /\ entry[d].MeasuredAt \in Nat /\ entry[d].SystemAt \in Nat
      /\ entry[d].StateAt \in Nat /\ entry[d].BatteriesAt \in Nat
    BY <1>1, EntryNumbers
\* The measurement this read follows is at most two requests old.
<1>6. /\ entry[d].MeasuredAt # Never
      /\ entry[d].MeasuredAt <= 2 * Timeout
      /\ label \in {"system", "batteries"} => entry[d].MeasuredAt <= Timeout
    <2>1. entry[d].MeasuredAt # Never
        BY <1>0, <1>1 DEF DeviceInv, SuccessCovers
    <2>2. /\ endpoint = "state" => entry[d].MeasuredAt <= waited[d]
          /\ endpoint \in {"system", "batteries"} =>
                entry[d].MeasuredAt <= Timeout + waited[d]
          /\ endpoint = "system" /\ "batteries" \in client[d].caps =>
                entry[d].MeasuredAt <= waited[d]
        BY <1>0, <1>1 DEF DeviceInv, MeasurementAge
    <2> QED
        BY <1>0, <1>4, <1>5, <2>1, <2>2
<1>7. /\ start[d] <= 5 * Timeout
      /\ label \in {"system", "batteries"} => start[d] <= 4 * Timeout
    <2>1. /\ endpoint = "state" => start[d] <= 3 * Timeout + waited[d]
          /\ endpoint \in {"system", "batteries"} =>
                start[d] <= 4 * Timeout + waited[d]
          /\ endpoint = "system" /\ "batteries" \in client[d].caps =>
                start[d] <= 3 * Timeout + waited[d]
        BY <1>0, <1>1 DEF DeviceInv, PollAge
    <2> QED
        BY <1>0, <1>4, <2>1
<1>8. /\ ctx' = ctx /\ started' = started /\ lastSuccess' = lastSuccess
      /\ backoff' = backoff /\ timer' = timer
      /\ start' = start /\ dial' = dial /\ err' = err
      /\ serves' = serves /\ firmware' = firmware /\ token' = token
      /\ pc' = [pc EXCEPT ![d] = label] /\ waited' = [waited EXCEPT ![d] = 0]
    BY DEF Secondary, Goto, envVars
<1>9. /\ entry \in [Device -> Entry \cup {Absent}]
      /\ client \in [Device -> ClientState \cup {None}]
      /\ pc \in [Device -> {"off", "wait", "observe", "stopped"} \cup Request]
      /\ waited \in [Device -> 0 .. Timeout]
      /\ 0 \in 0 .. Timeout
    BY <1>0, <1>4 DEF TypeOK
<1> HIDE DEF e, f, g, less
\* Whatever becomes of the entry and the client, as long as they agree.
<1>10. ASSUME NEW x \in Entry, NEW y \in ClientState, y # None,
              entry' = [entry EXCEPT ![d] = x],
              client' = [client EXCEPT ![d] = y],
              x.version = y.version, x.info = y.info, x.caps = y.caps,
              y.version \in Version, y.caps \subseteq client[d].caps,
              x.MeasuredAt = entry[d].MeasuredAt,
              \A z \in {"SystemAt", "StateAt", "BatteriesAt"} :
                    x[z] \in {0, entry[d][z]},
              label = "system" => x.SystemAt = entry[d].SystemAt,
              label = "batteries" => "batteries" \in y.caps
       PROVE  IInv'
    <2>1. TypeOK'
        <3>1. /\ entry' \in [Device -> Entry \cup {Absent}]
              /\ client' \in [Device -> ClientState \cup {None}]
              /\ waited' \in [Device -> 0 .. Timeout]
            BY <1>8, <1>9, <1>10
        <3>2. pc' \in [Device -> {"off", "wait", "observe", "stopped"} \cup Request]
            BY <1>8, <1>9 DEF Request
        <3> QED
            BY <1>0, <1>8, <3>1, <3>2 DEF TypeOK
    <2>2. OnlyTouches(d)
        BY <1>8, <1>9, <1>10 DEF OnlyTouches
    <2>3. /\ client'[d] = y /\ entry'[d] = x /\ err'[d] = {}
          /\ pc'[d] = label /\ waited'[d] = 0 /\ start'[d] = start[d]
        BY <1>2, <1>8, <1>9, <1>10
    <2>4. LocalsFitPC(d)'
        BY <1>2, <1>10, <2>3 DEF LocalsFitPC, due
    <2>5. Identified(d)'
        BY <1>10, <2>3 DEF Identified
    <2>6. MeasurementAge(d)'
        <3>1. \A z \in {"SystemAt", "StateAt", "BatteriesAt"} :
                x.MeasuredAt # Never /\ x.MeasuredAt <= x[z] + 2 * Timeout
            BY <1>4, <1>5, <1>6, <1>10
        <3>2. ~(label = "system" /\ "batteries" \in y.caps)
            BY <1>2, <1>10
        <3> QED
            BY <1>4, <1>5, <1>6, <1>10, <2>3, <3>1, <3>2 DEF MeasurementAge
    <2>7. PollAge(d)'
        <3>1. ~(label = "system" /\ "batteries" \in y.caps)
            BY <1>2, <1>10
        <3> QED
            BY <1>4, <1>7, <2>3, <3>1 DEF PollAge
    <2>8. SuccessCovers(d)'
        BY <1>6, <1>10, <2>3 DEF SuccessCovers
    <2> QED
        BY <1>0, <1>10, <2>1, <2>2, <2>3, <2>4, <2>5, <2>6, <2>7, <2>8, OneLoop
        DEF DeviceInv
<1>11. CASE entry' = [entry EXCEPT ![d][at] = 0] /\ UNCHANGED client
    <2>1. 0 \in Age
        BY AgeCapAssumption, StaleAfterAssumption DEF Age, Never
    <2>2. /\ e \in Entry /\ e.MeasuredAt = entry[d].MeasuredAt
          /\ e.version = entry[d].version /\ e.info = entry[d].info
          /\ e.caps = entry[d].caps
          /\ \A z \in {"SystemAt", "StateAt", "BatteriesAt"} :
                e[z] \in {0, entry[d][z]}
          /\ at = "StateAt" => e.SystemAt = entry[d].SystemAt
        <3>1. CASE at = "StateAt"
            BY <1>1, <2>1, <3>1 DEF e, Entry
        <3>2. CASE at = "SystemAt"
            BY <1>1, <2>1, <3>2 DEF e, Entry
        <3>3. CASE at = "BatteriesAt"
            BY <1>1, <2>1, <3>3 DEF e, Entry
        <3> QED
            BY <1>0, <3>1, <3>2, <3>3
    <2>3. /\ entry' = [entry EXCEPT ![d] = e]
          /\ client' = [client EXCEPT ![d] = client[d]]
        BY <1>9, <1>11 DEF e
    <2> QED
        BY <1>0, <1>2, <1>3, <1>10, <2>2, <2>3
<1>12. CASE /\ client' = [client EXCEPT ![d].caps = less]
            /\ entry' = [entry EXCEPT ![d].caps = less]
    <2>1. /\ less \subseteq client[d].caps
          /\ label = "batteries" => "batteries" \in less
        BY <1>0 DEF less, Disable
    <2>2. /\ f \in Entry /\ f.MeasuredAt = entry[d].MeasuredAt
          /\ f.version = entry[d].version /\ f.info = entry[d].info
          /\ f.caps = less
          /\ \A z \in {"SystemAt", "StateAt", "BatteriesAt"} :
                f[z] = entry[d][z]
        BY <1>1, <1>3, <2>1 DEF f, Entry
    <2>3. /\ g \in ClientState /\ g.version = client[d].version
          /\ g.info = client[d].info /\ g.caps = less
        BY <1>2, <1>3, <2>1 DEF g, ClientState
    <2>4. g # None
        BY <1>3, <2>3 DEF None, Version
    <2>5. /\ entry' = [entry EXCEPT ![d] = f]
          /\ client' = [client EXCEPT ![d] = g]
        BY <1>9, <1>12 DEF f, g
    <2> QED
        BY <1>3, <1>10, <2>1, <2>2, <2>3, <2>4, <2>5
<1>13. CASE UNCHANGED <<client, entry>>
    <2>1. /\ entry' = [entry EXCEPT ![d] = entry[d]]
          /\ client' = [client EXCEPT ![d] = client[d]]
        BY <1>9, <1>13
    <2> QED
        BY <1>1, <1>2, <1>3, <1>10, <2>1
<1> QED
    BY <1>11, <1>12, <1>13 DEF Secondary, less

\* The three secondary reads are instances of it.
LEMMA SecondariesStep ==
    ASSUME IInv, NEW d \in Device, State(d) \/ System(d) \/ Batteries(d)
    PROVE  IInv'
<1>1. ASSUME pc[d] = "state"
      PROVE  /\ "state" \in client[d].caps
             /\ "batteries" \notin client[d].caps
    <2>1. DeviceInv(d) /\ client[d] # None
        BY <1>1 DEF IInv, DeviceInv, LocalsFitPC
    <2> QED
        BY <1>1, <2>1 DEF DeviceInv, LocalsFitPC
<1>2. CASE State(d)
    <2> DEFINE label == AfterState(client[d].caps, entry[d])
    <2>1. Secondary(d, "state", "StateAt", label) /\ pc[d] = "state"
        BY <1>2 DEF State, Secondary
    <2>2. /\ label \in {"system", "observe"}
          /\ label = "system" => due(entry[d])
        BY <1>1, <2>1, NextEndpoint
    <2> HIDE DEF label
    <2> QED
        BY <2>1, <2>2, SecondaryStep
<1>3. CASE System(d)
    <2> DEFINE label == AfterSystem(client[d].caps)
    <2>1. Secondary(d, "system", "SystemAt", label)
        BY <1>3 DEF System
    <2>2. /\ label \in {"batteries", "observe"}
          /\ label = "batteries" => "batteries" \in client[d].caps
        BY NextEndpoint
    <2> HIDE DEF label
    <2> QED
        BY <2>1, <2>2, SecondaryStep
<1>4. CASE Batteries(d)
    BY <1>4, SecondaryStep DEF Batteries
<1> QED
    BY <1>2, <1>3, <1>4

\* The poll ends, and the loop returns or sleeps.
LEMMA ObserveStep ==
    ASSUME IInv, NEW d \in Device, Observe(d)
    PROVE  IInv'
<1> DEFINE next == IF err[d] = {} THEN interval(d) ELSE backoff[d]
           keep == IF rejected(err[d]) THEN None ELSE client[d]
           later == IF err[d] = {} THEN BackoffMin ELSE doubled(backoff[d])
           stamp == IF err[d] = {} THEN 0 ELSE lastSuccess[d]
<1>0. TypeOK /\ pc[d] = "observe"
    BY DEF IInv, Observe
<1>1. DeviceInv(d) /\ entry[d] \in Entry
    BY <1>0, InTable DEF IInv
<1>2. /\ entry \in [Device -> Entry \cup {Absent}]
      /\ client \in [Device -> ClientState \cup {None}]
      /\ pc \in [Device -> {"off", "wait", "observe", "stopped"} \cup Request]
      /\ err \in [Device -> SUBSET Error]
      /\ backoff \in [Device -> BackoffMin .. BackoffMax]
      /\ timer \in [Device -> Nat] /\ \A x \in Device : timer[x] <= MaxSleep(x)
      /\ lastSuccess \in [Device -> Age]
    BY <1>0 DEF TypeOK
<1>3. /\ Timeout \in Nat \ {0} /\ Never \in Nat \ {0} /\ start[d] \in Nat
      /\ start[d] <= 5 * Timeout /\ MaxSleep(d) \in Nat
    BY <1>0, <1>1, LocalNumbers, SleepIsBounded DEF DeviceInv, PollAge
<1>4. /\ lastSuccess' = [lastSuccess EXCEPT ![d] = stamp]
      /\ err' = [err EXCEPT ![d] = {}]
      /\ ctx' = ctx /\ started' = started /\ entry' = entry /\ start' = start
      /\ dial' = dial /\ waited' = waited
      /\ serves' = serves /\ firmware' = firmware /\ token' = token
    BY <1>2 DEF Observe, observe, envVars
<1>5. stamp \in Age /\ 0 \in Age
    BY <1>2, AgeCapAssumption, StaleAfterAssumption DEF Age, Never
<1>6. later \in BackoffMin .. BackoffMax /\ backoff[d] \in BackoffMin .. BackoffMax
    BY <1>2, TimesAssumption DEF doubled
<1>7. \A j \in jitter(next) : next + j \in Nat /\ next + j <= MaxSleep(d)
    <2>1. CASE err[d] = {}
        BY <2>1, SleepIsBounded
    <2>2. CASE err[d] # {}
        <3>1. next = backoff[d] /\ backoff[d] \in Nat
            BY <1>6, <2>2, TimesAssumption
        <3> QED
            BY <1>6, <3>1, SleepIsBounded
    <2> QED
        BY <2>1, <2>2
<1>8. keep \in ClientState \cup {None} /\ keep \in {client[d], None}
    BY <1>2
<1>9. \/ /\ pc' = [pc EXCEPT ![d] = "stopped"]
         /\ client' = client /\ backoff' = backoff /\ timer' = timer
      \/ /\ pc' = [pc EXCEPT ![d] = "wait"]
         /\ client' = [client EXCEPT ![d] = keep]
         /\ backoff' = [backoff EXCEPT ![d] = later]
         /\ \E j \in jitter(next) : timer' = [timer EXCEPT ![d] = next + j]
    BY <1>2 DEF Observe
<1> HIDE DEF next, keep, later, stamp
<1>10. /\ client' \in [Device -> ClientState \cup {None}]
       /\ client'[d] \in {client[d], None}
       /\ pc'[d] \in {"wait", "stopped"}
       /\ pc' \in [Device -> {"off", "wait", "observe", "stopped"} \cup Request]
       /\ \A x \in Device \ {d} : pc'[x] = pc[x] /\ client'[x] = client[x]
    BY <1>2, <1>8, <1>9
<1>11. /\ timer' \in [Device -> Nat]
       /\ \A x \in Device : timer'[x] <= MaxSleep(x)
       /\ \A x \in Device \ {d} : timer'[x] = timer[x]
       /\ backoff' \in [Device -> BackoffMin .. BackoffMax]
    <2>1. CASE timer' = timer /\ backoff' = backoff
        BY <1>2, <2>1
    <2>2. CASE /\ backoff' = [backoff EXCEPT ![d] = later]
               /\ \E j \in jitter(next) : timer' = [timer EXCEPT ![d] = next + j]
        <3>1. PICK j \in jitter(next) : timer' = [timer EXCEPT ![d] = next + j]
            BY <2>2
        <3>2. next + j \in Nat /\ next + j <= MaxSleep(d)
            BY <1>7
        <3> DEFINE t == next + j
        <3>3. timer' = [timer EXCEPT ![d] = t] /\ t \in Nat /\ t <= MaxSleep(d)
            BY <3>1, <3>2
        <3> HIDE DEF t
        <3> QED
            BY <1>2, <1>6, <2>2, <3>3
    <2> QED
        BY <1>9, <2>1, <2>2
<1>12. TypeOK'
    <2>1. /\ err' \in [Device -> SUBSET Error]
          /\ lastSuccess' \in [Device -> Age]
        BY <1>2, <1>4, <1>5
    <2> QED
        BY <1>0, <1>4, <1>10, <1>11, <2>1 DEF TypeOK
<1>13. OnlyTouches(d)
    BY <1>2, <1>4, <1>10, <1>11 DEF OnlyTouches
<1>14. /\ entry'[d] = entry[d] /\ err'[d] = {} /\ start'[d] = start[d]
       /\ lastSuccess'[d] = stamp
    BY <1>2, <1>4
<1>15. LocalsFitPC(d)' /\ Identified(d)' /\ MeasurementAge(d)'
    BY <1>1, <1>10, <1>14
    DEF DeviceInv, LocalsFitPC, Identified, MeasurementAge
<1>16. PollAge(d)'
    <2>1. timer'[d] \in Nat /\ timer'[d] <= MaxSleep(d)
        BY <1>11
    <2> QED
        BY <1>3, <1>10, <1>14, <2>1 DEF PollAge
<1>17. SuccessCovers(d)'
    <2>1. CASE err[d] = {}
        <3>1. stamp = 0 /\ entry[d].MeasuredAt # Never
            BY <1>0, <1>1, <2>1 DEF DeviceInv, SuccessCovers, stamp
        <3>2. LastUpdate(entry[d]) \in Age
            BY <1>1, LastUpdateIsYoungest
        <3>3. 0 <= LastUpdate(entry[d]) /\ stamp # Never
            BY <1>3, <3>1, <3>2, AgeCapAssumption, StaleAfterAssumption
            DEF Age, Never
        <3> QED
            BY <1>10, <1>14, <3>1, <3>3 DEF SuccessCovers, Covered
    <2>2. CASE err[d] # {}
        <3>1. stamp = lastSuccess[d] /\ Covered(d)
            BY <1>0, <1>1, <2>2 DEF DeviceInv, SuccessCovers, stamp
        <3> QED
            BY <1>10, <1>14, <3>1 DEF SuccessCovers, Covered
    <2> QED
        BY <2>1, <2>2
<1> QED
    BY <1>0, <1>1, <1>10, <1>12, <1>13, <1>14, <1>15, <1>16, <1>17, OneLoop
    DEF DeviceInv

-----------------------------------------------------------------------------
(* The remaining steps.                                                     *)

\* Run puts the next device in the snapshot.
LEMMA RegisterStep ==
    ASSUME IInv, Register
    PROVE  IInv'
<1> DEFINE d == Devices[started + 1]
<1>1. /\ TypeOK /\ Registered /\ started \in 0 .. Len(Devices)
      /\ started < Len(Devices) /\ Len(Devices) \in Nat
    BY DevicesAssumption DEF IInv, TypeOK, Register
<1>2. started + 1 \in 1 .. Len(Devices) /\ started' = started + 1 /\ d \in Device
    BY <1>1 DEF Register, Device
<1>3. /\ pc[d] = "off" /\ client[d] = None /\ err[d] = {} /\ start[d] = Never
      /\ lastSuccess[d] = Never
    BY <1>1, <1>2 DEF Registered
<1>4. /\ Blank \in Entry /\ Blank.MeasuredAt = Never /\ Blank.SystemAt = Never
      /\ Blank.StateAt = Never /\ Blank.BatteriesAt = Never
    <2>1. Never \in Age
        BY AgeCapAssumption, StaleAfterAssumption DEF Age, Never
    <2>2. [product |-> "", firmware |-> ""] \in Info
        BY DEF Info
    <2> QED
        BY <2>1, <2>2 DEF Blank, Entry
<1>5. /\ entry \in [Device -> Entry \cup {Absent}]
      /\ pc \in [Device -> {"off", "wait", "observe", "stopped"} \cup Request]
    BY <1>1 DEF TypeOK
<1>6. /\ entry' = [entry EXCEPT ![d] = Blank] /\ pc' = [pc EXCEPT ![d] = "wait"]
      /\ ctx' = ctx /\ lastSuccess' = lastSuccess /\ client' = client
      /\ backoff' = backoff /\ timer' = timer /\ start' = start /\ err' = err
      /\ dial' = dial /\ waited' = waited
      /\ serves' = serves /\ firmware' = firmware /\ token' = token
    BY DEF Register, envVars
<1> HIDE DEF d
<1>7. /\ entry'[d] = Blank /\ pc'[d] = "wait"
      /\ \A x \in Device \ {d} : entry'[x] = entry[x] /\ pc'[x] = pc[x]
    BY <1>2, <1>5, <1>6
<1>8. TypeOK'
    <2>1. entry' \in [Device -> Entry \cup {Absent}] /\ started' \in 0 .. Len(Devices)
        BY <1>1, <1>2, <1>4, <1>5, <1>6
    <2>2. pc' \in [Device -> {"off", "wait", "observe", "stopped"} \cup Request]
        BY <1>5, <1>6
    <2> QED
        BY <1>1, <1>6, <2>1, <2>2 DEF TypeOK
<1>9. Registered'
    <2> SUFFICES ASSUME NEW i \in 1 .. Len(Devices)
                 PROVE  LET x == Devices[i] IN
                        /\ pc'[x] = "off" <=> i > started'
                        /\ pc'[x] = "off" =>
                            /\ entry'[x] = Absent /\ client'[x] = None
                            /\ err'[x] = {} /\ start'[x] = Never
                            /\ lastSuccess'[x] = Never
                        /\ pc'[x] # "off" => entry'[x] \in Entry
        BY DEF Registered
    <2> DEFINE x == Devices[i]
    <2>1. /\ pc[x] = "off" <=> i > started
          /\ pc[x] = "off" => /\ entry[x] = Absent /\ client[x] = None
                              /\ err[x] = {} /\ start[x] = Never
                              /\ lastSuccess[x] = Never
          /\ pc[x] # "off" => entry[x] \in Entry
        BY <1>1 DEF Registered
    <2>2. x \in Device
        BY DEF Device
    <2>3. CASE i = started + 1
        <3>1. x = d
            BY <2>3 DEF d
        <3>2. ~(i > started')
            BY <1>1, <1>2, <2>3
        <3> HIDE DEF x
        <3> QED
            BY <1>4, <1>7, <3>1, <3>2 DEF x
    <2>4. CASE i # started + 1
        <3>1. x # d
            BY <1>2, <2>4, DevicesAssumption DEF d
        <3>2. i > started <=> i > started'
            BY <1>1, <1>2, <2>4
        <3> HIDE DEF x
        <3> QED
            BY <1>6, <1>7, <2>1, <2>2, <3>1, <3>2 DEF x
    <2> QED
        BY <2>3, <2>4
<1>10. ASSUME NEW x \in Device, pc'[x] # "off" PROVE DeviceInv(x)'
    <2>1. CASE x # d
        BY <1>6, <1>7, <1>10, <2>1, Untouched DEF IInv
    <2>2. CASE x = d
        <3>1. LastUpdate(Blank) = Never
            BY <1>4 DEF LastUpdate, Newer
        <3>2. Never \in Nat
            BY AgeCapAssumption, StaleAfterAssumption DEF Never
        <3>3. /\ entry'[x] = Blank /\ pc'[x] = "wait" /\ client'[x] = None
              /\ err'[x] = {} /\ start'[x] = Never /\ lastSuccess'[x] = Never
            BY <1>3, <1>6, <1>7, <2>2
        <3>4. LocalsFitPC(x)' /\ PollAge(x)'
            BY <3>3 DEF LocalsFitPC, PollAge
        <3>5. MeasurementAge(x)' /\ Identified(x)'
            BY <1>4, <3>3 DEF MeasurementAge, Identified
        <3>6. SuccessCovers(x)'
            BY <1>4, <3>1, <3>2, <3>3 DEF SuccessCovers, Covered
        <3> QED
            BY <3>4, <3>5, <3>6 DEF DeviceInv
    <2> QED
        BY <2>1, <2>2
<1> QED
    BY <1>8, <1>9, <1>10 DEF IInv

\* Whoever cancels the context.
Cancelled ==
    /\ ctx' = "done"
    /\ UNCHANGED <<started, entry, lastSuccess, loopVars, envVars>>

\* The context, and what the devices and their token files are up to.
LEMMA EnvironmentStep ==
    ASSUME IInv,
           \/ Cancelled \/ UNCHANGED vars
           \/ \E d \in Device : Settle(d) \/ Change(d)
    PROVE  IInv'
<1>1. /\ started' = started /\ entry' = entry /\ lastSuccess' = lastSuccess
      /\ pc' = pc /\ client' = client /\ backoff' = backoff /\ timer' = timer
      /\ start' = start /\ err' = err /\ dial' = dial /\ waited' = waited
    BY DEF Cancelled, Settle, Change, vars, loopVars, envVars
<1>2. TypeOK'
    <2>1. /\ serves \in [Device -> [Version -> Behaviour]]
          /\ firmware \in [Device -> Firmware] /\ token \in [Device -> TokenFile]
          /\ ctx \in {"live", "done"} /\ TypeOK
        BY DEF IInv, TypeOK
    <2>2. serves' \in [Device -> [Version -> Behaviour]]
        <3>1. Settled \subseteq [Version -> Behaviour]
            BY ConfigAssumption
        <3> QED
            BY <2>1, <3>1 DEF Cancelled, Settle, Change, vars, envVars
    <2>3. /\ firmware' \in [Device -> Firmware] /\ token' \in [Device -> TokenFile]
          /\ ctx' \in {"live", "done"}
        BY <2>1 DEF Cancelled, Settle, Change, vars, envVars
    <2> QED
        BY <1>1, <2>1, <2>2, <2>3 DEF TypeOK
<1>3. Registered'
    BY <1>1 DEF IInv, Registered
<1>4. ASSUME NEW x \in Device, pc'[x] # "off" PROVE DeviceInv(x)'
    BY <1>1, <1>4, Untouched DEF IInv
<1> QED
    BY <1>2, <1>3, <1>4 DEF IInv

\* Ages never lose their order, nor become "never", as time passes.
LEMMA TickEntry ==
    ASSUME NEW e \in Entry
    PROVE  LET o == [e EXCEPT !.MeasuredAt = Older(@), !.SystemAt = Older(@),
                              !.StateAt = Older(@), !.BatteriesAt = Older(@)]
           IN  /\ o \in Entry /\ o.version = e.version /\ o.info = e.info
               /\ o.caps = e.caps
               /\ o.MeasuredAt = Older(e.MeasuredAt)
               /\ o.SystemAt = Older(e.SystemAt)
               /\ o.StateAt = Older(e.StateAt)
               /\ o.BatteriesAt = Older(e.BatteriesAt)
               /\ LastUpdate(o) = Older(LastUpdate(e))
<1> DEFINE o == [e EXCEPT !.MeasuredAt = Older(@), !.SystemAt = Older(@),
                          !.StateAt = Older(@), !.BatteriesAt = Older(@)]
<1>1. /\ e.MeasuredAt \in Age /\ e.SystemAt \in Age
      /\ e.StateAt \in Age /\ e.BatteriesAt \in Age
    BY DEF Entry
<1>2. \A a \in Age : Older(a) \in Age
    BY OlderAge
<1>3. /\ o \in Entry /\ o.version = e.version /\ o.info = e.info
      /\ o.caps = e.caps
      /\ o.MeasuredAt = Older(e.MeasuredAt) /\ o.SystemAt = Older(e.SystemAt)
      /\ o.StateAt = Older(e.StateAt) /\ o.BatteriesAt = Older(e.BatteriesAt)
    BY <1>1, <1>2 DEF Entry
<1>4. \A a, b \in Age : /\ Newer(Older(a), Older(b)) = Older(Newer(a, b))
                        /\ Newer(a, b) \in Age
    <2> SUFFICES ASSUME NEW a \in Age, NEW b \in Age
                 PROVE  /\ Newer(Older(a), Older(b)) = Older(Newer(a, b))
                        /\ Newer(a, b) \in Age
        OBVIOUS
    <2> QED
        BY AgeCapAssumption, StaleAfterAssumption DEF Newer, Older, Age, Never
<1> HIDE DEF o
<1>5. LastUpdate(o) = Older(LastUpdate(e))
    BY <1>1, <1>3, <1>4 DEF LastUpdate
<1> QED
    BY <1>3, <1>5 DEF o

\* A reading that is at most c older than another stays so.
LEMMA OlderKeepsDistance ==
    ASSUME NEW a \in Age, NEW b \in Age, NEW c \in Nat, a # Never, a <= b + c
    PROVE  Older(a) <= Older(b) + c
BY AgeCapAssumption, StaleAfterAssumption DEF Older, Age, Never

\* What is due stays so: ages outlast the interval of the slow endpoints.
LEMMA OlderKeepsDue ==
    ASSUME NEW a \in Age, a = Never \/ a >= SystemInterval
    PROVE  Older(a) = Never \/ Older(a) >= SystemInterval
BY AgeCapAssumption, StaleAfterAssumption, TimesAssumption DEF Older, Age, Never

\* Time passes: for every device alike, and not past a request's timeout.
LEMMA TickStep ==
    ASSUME IInv, Tick
    PROVE  IInv'
<1>1. TypeOK /\ Registered /\ started = Len(Devices) /\ Len(Devices) \in Nat
    <2>1. Len(Devices) \in Nat
        BY DevicesAssumption
    <2> QED
        BY <2>1 DEF IInv, Tick
<1>2. \A d \in Device : pc[d] # "off" /\ entry[d] \in Entry /\ DeviceInv(d)
    <2> SUFFICES ASSUME NEW d \in Device
                 PROVE  pc[d] # "off" /\ entry[d] \in Entry /\ DeviceInv(d)
        OBVIOUS
    <2>1. PICK i \in 1 .. Len(Devices) : d = Devices[i]
        BY DEF Device
    <2>2. pc[d] # "off"
        BY <1>1, <2>1 DEF Registered
    <2> QED
        BY <1>1, <2>2, InTable DEF IInv
<1>3. /\ ctx' = ctx /\ started' = started /\ pc' = pc /\ client' = client
      /\ backoff' = backoff /\ err' = err /\ dial' = dial
      /\ serves' = serves /\ firmware' = firmware /\ token' = token
    BY DEF Tick, envVars
<1> DEFINE o(d) == [entry[d] EXCEPT !.MeasuredAt = Older(@),
                        !.SystemAt = Older(@), !.StateAt = Older(@),
                        !.BatteriesAt = Older(@)]
           t(d) == IF pc[d] = "wait" THEN timer[d] - 1 ELSE timer[d]
           w(d) == IF pc[d] \in Request THEN waited[d] + 1 ELSE waited[d]
<1>4. /\ entry' = [d \in Device |-> o(d)] /\ timer' = [d \in Device |-> t(d)]
      /\ waited' = [d \in Device |-> w(d)]
      /\ start' = [d \in Device |-> Older(start[d])]
      /\ lastSuccess' = [d \in Device |-> Older(lastSuccess[d])]
    BY DEF Tick
<1>5. \A d \in Device : o(d) \in Entry
    BY <1>2, TickEntry
<1>6. \A d \in Device :
        /\ t(d) \in Nat /\ t(d) <= MaxSleep(d)
        /\ pc[d] = "wait" => t(d) = timer[d] - 1
    <2> SUFFICES ASSUME NEW d \in Device
                 PROVE  /\ t(d) \in Nat /\ t(d) <= MaxSleep(d)
                        /\ pc[d] = "wait" => t(d) = timer[d] - 1
        OBVIOUS
    <2>1. /\ timer[d] \in Nat /\ timer[d] <= MaxSleep(d) /\ MaxSleep(d) \in Nat
          /\ pc[d] = "wait" => timer[d] > 0
        BY <1>1, SleepIsBounded DEF TypeOK, Tick
    <2> QED
        BY <2>1
<1>7. \A d \in Device :
        /\ w(d) \in 0 .. Timeout
        /\ pc[d] \in Request => w(d) = waited[d] + 1
    <2> SUFFICES ASSUME NEW d \in Device
                 PROVE  /\ w(d) \in 0 .. Timeout
                        /\ pc[d] \in Request => w(d) = waited[d] + 1
        OBVIOUS
    <2>1. /\ waited[d] \in Nat /\ waited[d] <= Timeout /\ Timeout \in Nat
          /\ pc[d] \in Request => waited[d] < Timeout
        BY <1>1, LocalNumbers DEF Tick
    <2> QED
        BY <2>1
<1>8. \A d \in Device : /\ start[d] \in Age /\ Older(start[d]) \in Age
                        /\ lastSuccess[d] \in Age /\ Older(lastSuccess[d]) \in Age
    BY <1>1, OlderAge DEF TypeOK
<1> HIDE DEF o, t, w
<1>9. TypeOK'
    <2>1. /\ entry' \in [Device -> Entry \cup {Absent}]
          /\ timer' \in [Device -> Nat] /\ \A d \in Device : timer'[d] <= MaxSleep(d)
        BY <1>4, <1>5, <1>6
    <2>2. /\ waited' \in [Device -> 0 .. Timeout]
          /\ start' \in [Device -> Age] /\ lastSuccess' \in [Device -> Age]
        BY <1>4, <1>7, <1>8
    <2> QED
        BY <1>1, <1>3, <2>1, <2>2 DEF TypeOK
<1>10. Registered'
    <2> SUFFICES ASSUME NEW i \in 1 .. Len(Devices)
                 PROVE  /\ pc'[Devices[i]] # "off" /\ ~(i > started')
                        /\ entry'[Devices[i]] \in Entry
        BY DEF Registered
    <2>1. Devices[i] \in Device
        BY DEF Device
    <2>2. ~(i > started)
        BY <1>1
    <2> QED
        BY <1>2, <1>3, <1>4, <1>5, <2>1, <2>2
<1>11. ASSUME NEW d \in Device PROVE DeviceInv(d)'
    <2> DEFINE e == entry[d]
    <2>1. /\ e \in Entry /\ DeviceInv(d) /\ pc[d] # "observe"
        BY <1>2 DEF Tick
    <2>2. /\ entry'[d] = o(d) /\ o(d).version = e.version /\ o(d).info = e.info
          /\ o(d).caps = e.caps /\ o(d).MeasuredAt = Older(e.MeasuredAt)
          /\ o(d).SystemAt = Older(e.SystemAt) /\ o(d).StateAt = Older(e.StateAt)
          /\ o(d).BatteriesAt = Older(e.BatteriesAt)
          /\ LastUpdate(o(d)) = Older(LastUpdate(e))
        BY <1>2, <1>4, TickEntry DEF o
    <2>3. /\ pc'[d] = pc[d] /\ client'[d] = client[d] /\ err'[d] = err[d]
          /\ dial'[d] = dial[d] /\ start'[d] = Older(start[d])
          /\ lastSuccess'[d] = Older(lastSuccess[d])
          /\ pc[d] = "wait" => timer'[d] = timer[d] - 1
          /\ pc[d] \in Request => waited'[d] = waited[d] + 1
        BY <1>3, <1>4, <1>6, <1>7
    <2>4. /\ e.MeasuredAt \in Age /\ e.SystemAt \in Age
          /\ e.StateAt \in Age /\ e.BatteriesAt \in Age
          /\ LastUpdate(e) \in Age
        BY <2>1, LastUpdateIsYoungest DEF Entry
    <2>5. \A a \in Age : /\ Older(a) \in Nat /\ a \in Nat /\ Older(a) <= a + 1
                         /\ Older(a) = Never <=> a = Never
        BY OlderAge, AgeCapAssumption, StaleAfterAssumption DEF Age, Never
    <2>6. /\ Timeout \in Nat \ {0} /\ waited[d] \in Nat /\ waited[d] <= Timeout
          /\ timer[d] \in Nat /\ MaxSleep(d) \in Nat /\ Never \in Nat \ {0}
        BY <1>1, LocalNumbers, SleepIsBounded DEF TypeOK
    <2> HIDE DEF e
    <2>7. LocalsFitPC(d)'
        <3>1. due(e) => due(o(d))
            BY <2>2, <2>4, OlderKeepsDue DEF due
        <3> QED
            BY <2>1, <2>2, <2>3, <3>1 DEF DeviceInv, LocalsFitPC, e
    <2>8. Identified(d)'
        BY <2>1, <2>2, <2>3, <2>4, <2>5 DEF DeviceInv, Identified, e
    <2>9. MeasurementAge(d)'
        <3>1. \A at \in {"SystemAt", "StateAt", "BatteriesAt"} :
                e[at] # Never => /\ e.MeasuredAt # Never
                                 /\ e.MeasuredAt <= e[at] + 2 * Timeout
            BY <2>1 DEF DeviceInv, MeasurementAge, e
        <3>2. ASSUME NEW at \in {"SystemAt", "StateAt", "BatteriesAt"},
                     o(d)[at] # Never
              PROVE  /\ o(d).MeasuredAt # Never
                     /\ o(d).MeasuredAt <= o(d)[at] + 2 * Timeout
            <4>1. e[at] \in Age /\ o(d)[at] = Older(e[at])
                BY <2>2, <2>4
            <4>2. /\ e.MeasuredAt # Never
                  /\ e.MeasuredAt <= e[at] + 2 * Timeout
                BY <2>5, <3>1, <3>2, <4>1
            <4> DEFINE c == 2 * Timeout
            <4>3. c \in Nat /\ e.MeasuredAt <= e[at] + c
                BY <2>6, <4>2
            <4> HIDE DEF c
            <4>4. Older(e.MeasuredAt) <= Older(e[at]) + c
                BY <2>4, <4>1, <4>2, <4>3, OlderKeepsDistance
            <4> QED
                BY <2>2, <2>4, <2>5, <4>1, <4>2, <4>4 DEF c
        <3>3. /\ pc[d] = "state" => e.MeasuredAt <= waited[d]
              /\ pc[d] \in {"system", "batteries"} =>
                    e.MeasuredAt <= Timeout + waited[d]
              /\ pc[d] = "system" /\ "batteries" \in client[d].caps =>
                    e.MeasuredAt <= waited[d]
            BY <2>1 DEF DeviceInv, MeasurementAge, e
        <3>4. e.MeasuredAt \in Nat /\ Older(e.MeasuredAt) \in Nat
              /\ Older(e.MeasuredAt) <= e.MeasuredAt + 1
            BY <2>4, <2>5
        <3>5. /\ pc[d] = "state" => o(d).MeasuredAt <= waited'[d]
              /\ pc[d] \in {"system", "batteries"} =>
                    o(d).MeasuredAt <= Timeout + waited'[d]
              /\ pc[d] = "system" /\ "batteries" \in client[d].caps =>
                    o(d).MeasuredAt <= waited'[d]
            BY <2>2, <2>3, <2>6, <3>3, <3>4 DEF Request
        <3> QED
            BY <2>1, <2>2, <2>3, <3>2, <3>5 DEF MeasurementAge
    <2>10. PollAge(d)'
        <3>1. /\ start[d] \in Nat /\ Older(start[d]) \in Nat
              /\ Older(start[d]) <= start[d] + 1
              /\ Older(start[d]) = Never <=> start[d] = Never
            BY <1>8, <2>5
        <3> QED
            BY <2>1, <2>3, <2>6, <3>1 DEF DeviceInv, PollAge, Request
    <2>11. SuccessCovers(d)'
        <3>1. Covered(d) => Covered(d)'
            <4>1. lastSuccess[d] \in Age
                BY <1>8
            <4>2. lastSuccess[d] <= LastUpdate(e) =>
                    Older(lastSuccess[d]) <= Older(LastUpdate(e))
                BY <2>4, <4>1, OlderKeepsOrder
            <4> QED
                BY <2>2, <2>3, <2>4, <2>5, <4>1, <4>2 DEF Covered, e
        <3> QED
            BY <2>1, <2>2, <2>3, <2>4, <2>5, <3>1 DEF DeviceInv, SuccessCovers, e
    <2> QED
        BY <2>7, <2>8, <2>9, <2>10, <2>11 DEF DeviceInv
<1> QED
    BY <1>9, <1>10, <1>11 DEF IInv

-----------------------------------------------------------------------------
(* The theorems.                                                            *)

\* The invariant holds when Run is called...
LEMMA InitInvariant == Init => IInv
<1> SUFFICES ASSUME Init PROVE IInv
    OBVIOUS
<1>1. Never \in Age /\ 0 \in 0 .. Timeout /\ Len(Devices) \in Nat
    <2>1. Len(Devices) \in Nat
        BY DevicesAssumption
    <2> QED
        BY <2>1, AgeCapAssumption, StaleAfterAssumption, TimesAssumption
        DEF Age, Never
<1>2. BackoffMin \in BackoffMin .. BackoffMax
    BY TimesAssumption
<1>3. \A d \in Device : MaxSleep(d) \in Nat
    BY SleepIsBounded
<1>4. Hangup \in [token : BOOLEAN, versions : Seq(Version)]
    BY DEF Hangup
<1>5. /\ entry \in [Device -> Entry \cup {Absent}]
      /\ client \in [Device -> ClientState \cup {None}]
      /\ lastSuccess \in [Device -> Age] /\ start \in [Device -> Age]
      /\ err \in [Device -> SUBSET Error]
    BY <1>1 DEF Init
<1>6. /\ pc \in [Device -> {"off", "wait", "observe", "stopped"} \cup Request]
      /\ backoff \in [Device -> BackoffMin .. BackoffMax]
      /\ waited \in [Device -> 0 .. Timeout]
      /\ dial \in [Device -> [token : BOOLEAN, versions : Seq(Version)]]
      /\ serves \in [Device -> [Version -> Behaviour]]
    BY <1>1, <1>2, <1>4 DEF Init, Behaviour
<1>7. /\ timer \in [Device -> Nat] /\ \A d \in Device : timer[d] <= MaxSleep(d)
    BY <1>3 DEF Init
<1>8. TypeOK
    BY <1>1, <1>5, <1>6, <1>7 DEF Init, TypeOK
<1>9. Registered
    <2> SUFFICES ASSUME NEW i \in 1 .. Len(Devices)
                 PROVE  LET d == Devices[i] IN
                        /\ pc[d] = "off" /\ i > started
                        /\ entry[d] = Absent /\ client[d] = None
                        /\ err[d] = {} /\ start[d] = Never
                        /\ lastSuccess[d] = Never
        BY DEF Registered
    <2>1. Devices[i] \in Device
        BY DEF Device
    <2>2. i > started
        BY <1>1 DEF Init
    <2> QED
        BY <2>1, <2>2 DEF Init
<1>10. \A d \in Device : pc[d] = "off"
    BY DEF Init
<1> QED
    BY <1>8, <1>9, <1>10 DEF IInv

\* ... and every step keeps it.
LEMMA NextInvariant == IInv /\ [Next]_vars => IInv'
<1> SUFFICES ASSUME IInv, [Next]_vars PROVE IInv'
    OBVIOUS
<1>1. CASE Register
    BY <1>1, RegisterStep
<1>2. CASE Tick
    BY <1>2, TickStep
<1>3. CASE Cancel \/ UNCHANGED vars
    BY <1>3, EnvironmentStep DEF Cancel, Cancelled
<1>4. ASSUME NEW d \in Device, Settle(d) \/ Change(d) PROVE IInv'
    BY <1>4, EnvironmentStep
<1>5. ASSUME NEW d \in Device, Loop(d) PROVE IInv'
    <2>1. CASE Select(d)
        BY <2>1, SelectStep
    <2>2. CASE Stop(d)
        BY <2>2, StopStep
    <2>3. CASE Probe(d)
        BY <2>3, ProbeStep
    <2>4. CASE Measurement(d)
        BY <2>4, MeasurementStep
    <2>5. CASE State(d) \/ System(d) \/ Batteries(d)
        BY <2>5, SecondariesStep
    <2>6. CASE Observe(d)
        BY <2>6, ObserveStep
    <2> QED
        BY <1>5, <2>1, <2>2, <2>3, <2>4, <2>5, <2>6 DEF Loop
<1> QED
    BY <1>1, <1>2, <1>3, <1>4, <1>5 DEF Next

\* The inductive invariant holds in every state of every configuration.
THEOREM Invariant == Spec => []IInv
BY InitInvariant, NextInvariant, PTL DEF Spec

\* Every variable of the poller keeps to its type: no timer exceeds the
\* longest sleep, no request its timeout, no backoff its bounds.
THEOREM TypeCorrect == Spec => []TypeOK
<1>1. IInv => TypeOK
    BY DEF IInv
<1> QED
    BY <1>1, Invariant, PTL

\* A device that counts as up has a measurement younger than stale_after and
\* two request timeouts, although Fresh accepts a reading of any kind.
THEOREM UpMeansMeasured == Spec => []UpBoundsMeasurementAge
<1>1. IInv => UpBoundsMeasurementAge
    <2> SUFFICES ASSUME IInv, NEW d \in Device, Up(d)
                 PROVE  entry[d].MeasuredAt < StaleAfter + 2 * Timeout
        BY DEF UpBoundsMeasurementAge
    <2> DEFINE e == entry[d]
    <2>1. pc[d] # "off" /\ e \in Entry /\ Fresh(e) /\ MeasurementAge(d)
        BY InTable DEF Up, IInv, DeviceInv
    <2>2. PICK at \in {"MeasuredAt", "SystemAt", "StateAt", "BatteriesAt"} :
            LastUpdate(e) = e[at]
        BY <2>1, LastUpdateIsYoungest
    <2>3. e[at] # Never /\ e[at] < StaleAfter
        BY <2>1, <2>2 DEF Fresh
    <2>4. /\ e.MeasuredAt \in Nat /\ e[at] \in Nat
          /\ Timeout \in Nat /\ StaleAfter \in Nat
        BY <2>1, EntryNumbers, TimesAssumption, StaleAfterAssumption
    <2>5. CASE at = "MeasuredAt"
        BY <2>3, <2>4, <2>5
    <2>6. CASE at \in {"SystemAt", "StateAt", "BatteriesAt"}
        <3>1. e.MeasuredAt <= e[at] + 2 * Timeout
            BY <2>1, <2>3, <2>6 DEF MeasurementAge
        <3> QED
            BY <2>3, <2>4, <3>1
    <2> QED
        BY <2>5, <2>6
<1> QED
    BY <1>1, Invariant, PTL

\* Two polls of a device start at most five request timeouts and one longest
\* sleep apart, whatever the device answers.
THEOREM PollsComeRound == Spec => []PollGapBounded
<1>1. IInv => PollGapBounded
    <2> SUFFICES ASSUME IInv, NEW d \in Device, start[d] # Never,
                        pc[d] \notin {"off", "stopped"}
                 PROVE  start[d] <= 5 * Timeout + MaxSleep(d)
        BY DEF PollGapBounded
    <2>1. TypeOK /\ PollAge(d)
        BY DEF IInv, DeviceInv
    <2>2. /\ start[d] \in Nat /\ waited[d] \in Nat /\ waited[d] <= Timeout
          /\ Timeout \in Nat /\ MaxSleep(d) \in Nat /\ timer[d] \in Nat
        BY <2>1, LocalNumbers, SleepIsBounded DEF TypeOK
    <2>3. pc[d] \in {"wait", "observe"} \cup Request
        BY <2>1 DEF TypeOK
    <2> QED
        BY <2>1, <2>2, <2>3 DEF PollAge, Request
<1> QED
    BY <1>1, Invariant, PTL

\* Between polls nothing in the snapshot is newer than the last success.
THEOREM SuccessIsHonest == Spec => []LastSuccessCoversReadings
<1>1. IInv => LastSuccessCoversReadings
    <2> SUFFICES ASSUME IInv, NEW d \in Device, Resting(d)
                 PROVE  Covered(d)
        BY DEF LastSuccessCoversReadings, Covered
    <2> QED
        BY DEF IInv, DeviceInv, SuccessCovers, Resting
<1> QED
    BY <1>1, Invariant, PTL

\* The snapshot identifies a device the way its loop treats it, and has no
\* readings of a device it cannot identify.
THEOREM IdentityIsPublished == Spec => []PublishedIdentity
<1>1. IInv => PublishedIdentity
    <2> SUFFICES ASSUME IInv, NEW d \in Device
                 PROVE  /\ client[d] # None =>
                            \A field \in {"version", "info", "caps"} :
                                entry[d][field] = client[d][field]
                        /\ (entry[d] # Absent /\ LastUpdate(entry[d]) # Never) =>
                                entry[d].version \in Version
        BY DEF PublishedIdentity
    <2>1. CASE pc[d] = "off"
        BY <2>1, InTable DEF IInv
    <2>2. CASE pc[d] # "off"
        <3>1. Identified(d) /\ MeasurementAge(d) /\ entry[d] \in Entry
            BY <2>2, InTable DEF IInv, DeviceInv
        <3>2. LastUpdate(entry[d]) # Never => entry[d].MeasuredAt # Never
            BY <3>1, LastUpdateIsYoungest DEF MeasurementAge
        <3> QED
            BY <3>1, <3>2 DEF Identified
    <2> QED
        BY <2>1, <2>2
<1> QED
    BY <1>1, Invariant, PTL

\* There are finitely many devices: they are a list.
LEMMA DevicesAreFinite == IsFiniteSet(Device)
<1>1. Devices \in Seq(STRING)
    BY DevicesAssumption
<1>2. Len(Devices) \in Nat /\ DOMAIN Devices = 1 .. Len(Devices)
    BY <1>1
<1>3. IsFiniteSet(1 .. Len(Devices))
    BY <1>2, FS_Interval
<1> DEFINE f == [i \in 1 .. Len(Devices) |-> Devices[i]]
<1>4. f \in Surjection(1 .. Len(Devices), Device)
    BY DEF Surjection, Device
<1> HIDE DEF f
<1> QED
    BY <1>3, <1>4, FS_Surjection

\* The health check, the metrics and the dashboard agree on every snapshot the
\* loops publish, for a household of any size.
THEOREM HealthIsAgreed == Spec => []HealthAgreement
<1>1. IInv => HealthAgreement
    <2> SUFFICES ASSUME IInv PROVE HealthAgreement
        OBVIOUS
    <2> DEFINE s == Snapshot
               D == DOMAIN s
               online == {n \in D : Fresh(s[n])}
               read == {n \in D : LastUpdate(s[n]) # Never}
    <2>1. \A d \in D : d \in Device /\ s[d] = entry[d] /\ entry[d] # Absent
        BY DEF Snapshot
    <2>2. \A d \in D : MeasurementAge(d) /\ entry[d] \in Entry
        BY <2>1, InTable DEF IInv, DeviceInv
    <2>3. \A d \in online : s[d].MeasuredAt # Never
        <3> SUFFICES ASSUME NEW d \in online PROVE entry[d].MeasuredAt # Never
            BY <2>1
        <3>1. MeasurementAge(d) /\ entry[d] \in Entry /\ LastUpdate(entry[d]) # Never
            BY <2>1, <2>2 DEF Fresh
        <3> QED
            BY <3>1, LastUpdateIsYoungest DEF MeasurementAge
    <2>4. IsFiniteSet(D) /\ online \subseteq D /\ online \subseteq read
        <3>1. D \subseteq Device
            BY <2>1
        <3> QED
            BY <3>1, DevicesAreFinite, FS_Subset DEF Fresh
    <2>5. /\ Cardinality(D) \in Nat /\ Cardinality(online) \in Nat
          /\ Cardinality(online) <= Cardinality(D)
          /\ Cardinality(online) = Cardinality(D) => online = D
          /\ Cardinality(online) = 0 <=> online = {}
        BY <2>4, FS_Subset, FS_CardinalityType, FS_EmptySet
    <2>6. Healthz(s) <=> online # {}
        BY DEF Healthz
    <2>7. \A d \in D : Collect(s).up[d] = 1 <=> d \in online
        BY DEF Collect
    <2>8. \A d \in online : "MeasuredAt" \in Collect(s).readings[d]
        BY <2>3 DEF Collect
    <2>9. /\ buildView(s).up <=> online # {}
          /\ buildView(s).status = "ok" => online = D
        <3> DEFINE n == Cardinality(online)
                   all == Cardinality(D)
                   updated == \E m \in D : LastUpdate(s[m]) # Never
        <3>1. updated <=> read # {}
            OBVIOUS
        <3>2. n # 0 => updated
            BY <2>4, <2>5, <3>1
        <3>3. CASE ~updated
            BY <2>5, <3>2, <3>3 DEF buildView
        <3>4. CASE updated /\ n = 0
            BY <2>5, <3>4 DEF buildView
        <3>5. CASE updated /\ n > 0 /\ n < all
            BY <2>5, <3>5 DEF buildView
        <3>6. CASE updated /\ n > 0 /\ n = all
            BY <2>5, <3>6 DEF buildView
        <3> QED
            BY <2>5, <3>3, <3>4, <3>5, <3>6
    <2> HIDE DEF s, D, online, read
    <2>10. s = Snapshot /\ D = DOMAIN Snapshot
        BY DEF s, D
    <2>11. online \subseteq D
        BY <2>4
    <2> QED
        BY <2>6, <2>7, <2>8, <2>9, <2>10, <2>11 DEF HealthAgreement
<1> QED
    BY <1>1, Invariant, PTL

-----------------------------------------------------------------------------
(* The slow endpoints.                                                      *)

\* A step makes the system reading of a device younger only if it reads it.
LEMMA OnlySystemRenews ==
    ASSUME IInv, Next, NEW d \in Device, entry[d] # Absent, pc[d] # "system"
    PROVE  entry'[d].SystemAt \in {entry[d].SystemAt, Older(entry[d].SystemAt)}
<1>1. /\ entry \in [Device -> Entry \cup {Absent}] /\ entry[d] \in Entry
      /\ pc[d] # "off"
    BY InTable DEF IInv, TypeOK
<1>2. CASE Register
    <2>1. entry' = [entry EXCEPT ![Devices[started + 1]] = Blank]
        BY <1>2 DEF Register
    <2>2. Devices[started + 1] # d
        <3>1. started + 1 \in 1 .. Len(Devices) /\ started + 1 > started
            <4>1. Len(Devices) \in Nat /\ started \in 0 .. Len(Devices)
                BY DevicesAssumption DEF IInv, TypeOK
            <4> QED
                BY <1>2, <4>1 DEF Register
        <3> QED
            BY <1>1, <3>1 DEF IInv, Registered
    <2> QED
        BY <1>1, <2>1, <2>2
<1>3. CASE Tick
    <2>1. entry'[d] = [entry[d] EXCEPT !.MeasuredAt = Older(@),
                        !.SystemAt = Older(@), !.StateAt = Older(@),
                        !.BatteriesAt = Older(@)]
        BY <1>3 DEF Tick
    <2> QED
        BY <1>1, <2>1, TickEntry
<1>4. CASE entry' = entry
    BY <1>4
<1>5. ASSUME NEW x \in Device, Probe(x)
      PROVE  entry'[d].SystemAt = entry[d].SystemAt
    <2>1. \/ entry' = entry
          \/ \E c : entry' = [entry EXCEPT ![x] = publishIdentity(@, c)]
        BY <1>5 DEF Probe
    <2>2. \A c : publishIdentity(entry[d], c).SystemAt = entry[d].SystemAt
        BY <1>1 DEF publishIdentity, Entry
    <2> QED
        BY <1>1, <2>1, <2>2
<1>6. ASSUME NEW x \in Device, Measurement(x)
      PROVE  entry'[d].SystemAt = entry[d].SystemAt
    <2>1. \/ entry' = entry
          \/ entry' = [entry EXCEPT ![x] = [@ EXCEPT !.MeasuredAt = 0]]
        BY <1>6 DEF Measurement
    <2>2. [entry[d] EXCEPT !.MeasuredAt = 0].SystemAt = entry[d].SystemAt
        BY <1>1 DEF Entry
    <2> QED
        BY <1>1, <2>1, <2>2
<1>7. ASSUME NEW x \in Device, State(x) \/ System(x) \/ Batteries(x)
      PROVE  entry'[d].SystemAt = entry[d].SystemAt
    <2>1. PICK endpoint, at, label :
            /\ Secondary(x, endpoint, at, label)
            /\ <<endpoint, at>> \in {<<"state", "StateAt">>,
                        <<"system", "SystemAt">>, <<"batteries", "BatteriesAt">>}
        BY <1>7 DEF State, System, Batteries
    <2>2. pc[x] = endpoint
        BY <2>1 DEF Secondary
    <2>3. \/ entry' = entry
          \/ entry' = [entry EXCEPT ![x] = [@ EXCEPT ![at] = 0]]
          \/ \E caps : entry' = [entry EXCEPT ![x] = [@ EXCEPT !.caps = caps]]
        BY <2>1 DEF Secondary
    <2>4. CASE x # d
        BY <1>1, <2>3, <2>4
    <2>5. CASE x = d
        <3>1. at = "StateAt" \/ at = "BatteriesAt"
            BY <2>1, <2>2, <2>5
        <3>2. /\ [entry[d] EXCEPT ![at] = 0].SystemAt = entry[d].SystemAt
              /\ \A caps : [entry[d] EXCEPT !.caps = caps].SystemAt
                                = entry[d].SystemAt
            BY <1>1, <3>1 DEF Entry
        <3>3. \/ entry'[d] = entry[d] \/ entry'[d] = [entry[d] EXCEPT ![at] = 0]
              \/ \E caps : entry'[d] = [entry[d] EXCEPT !.caps = caps]
            BY <1>1, <2>3, <2>5
        <3> QED
            BY <3>2, <3>3, Zenon
    <2> QED
        BY <2>4, <2>5
<1>8. ASSUME NEW x \in Device,
             Select(x) \/ Stop(x) \/ Observe(x) \/ Settle(x) \/ Change(x)
      PROVE  entry' = entry
    BY <1>8 DEF Select, Stop, Observe, Settle, Change
<1> QED
    BY <1>2, <1>3, <1>4, <1>5, <1>6, <1>7, <1>8 DEF Next, Loop, Cancel

\* The system endpoint is read no sooner than SystemInterval after its last
\* reading, for any household: through failed polls, endpoints that disappear
\* and reconnections (poller.go:220).
THEOREM SystemIsPaced == Spec => SystemPaced
<1>1. IInv /\ [Next]_vars =>
        [\A d \in Device :
            (/\ entry[d] # Absent
             /\ entry[d].SystemAt # Never
             /\ entry'[d].SystemAt < entry[d].SystemAt)
                => entry[d].SystemAt >= SystemInterval]_vars
    <2> SUFFICES ASSUME IInv, Next, NEW d \in Device,
                        entry[d] # Absent, entry[d].SystemAt # Never,
                        entry'[d].SystemAt < entry[d].SystemAt
                 PROVE  entry[d].SystemAt >= SystemInterval
        OBVIOUS
    <2>1. pc[d] # "off" /\ entry[d].SystemAt \in Age
        <3>1. pc[d] # "off" /\ entry[d] \in Entry
            BY InTable DEF IInv, TypeOK
        <3> QED
            BY <3>1 DEF Entry
    <2>2. CASE pc[d] = "system"
        BY <2>1, <2>2 DEF IInv, DeviceInv, LocalsFitPC, due
    <2>3. CASE pc[d] # "system"
        <3>1. entry'[d].SystemAt \in {entry[d].SystemAt, Older(entry[d].SystemAt)}
            BY <2>3, OnlySystemRenews
        <3>2. ~(Older(entry[d].SystemAt) < entry[d].SystemAt)
            BY <2>1, AgeCapAssumption, StaleAfterAssumption
            DEF Older, Age, Never
        <3>3. ~(entry[d].SystemAt < entry[d].SystemAt)
            BY <2>1, AgeCapAssumption, StaleAfterAssumption DEF Age, Never
        <3> QED
            BY <3>1, <3>2, <3>3
    <2> QED
        BY <2>2, <2>3
<1> QED
    BY Invariant, <1>1, PTL DEF Spec, SystemPaced

-----------------------------------------------------------------------------
(* The abstract specification.                                              *)

\* What is shown of a device depends on its entry only.
LEMMA ShownOfOne ==
    ASSUME NEW d \in Device, NEW e,
           entry \in [Device -> Entry \cup {Absent}],
           entry' = [entry EXCEPT ![d] = e]
    PROVE  /\ Statuses' = [Statuses EXCEPT ![d] = StatusOf(e)]
           /\ Measured' = [Measured EXCEPT ![d] = MeasuredOf(e)]
           /\ Updated' = [Updated EXCEPT ![d] = UpdatedOf(e)]
<1>1. \A x \in Device : entry'[x] = IF x = d THEN e ELSE entry[x]
    OBVIOUS
<1> QED
    BY <1>1 DEF Statuses, Measured, Updated

\* An entry that is replaced by one that shows the same shows nothing.
LEMMA ShowsTheSame ==
    ASSUME NEW d \in Device, NEW e,
           entry \in [Device -> Entry \cup {Absent}],
           entry' = [entry EXCEPT ![d] = e],
           MeasuredOf(e) = MeasuredOf(entry[d]),
           UpdatedOf(e) = UpdatedOf(entry[d])
    PROVE  /\ Measured' = Measured /\ Updated' = Updated
           /\ StatusOf(e) = StatusOf(entry[d]) => Statuses' = Statuses
<1>1. \A x \in Device : entry'[x] = IF x = d THEN e ELSE entry[x]
    OBVIOUS
<1> QED
    BY <1>1 DEF Statuses, Measured, Updated

\* What is shown of a device in the table.
LEMMA ShownOfEntry ==
    ASSUME NEW e \in Entry
    PROVE  /\ MeasuredOf(e) = e.MeasuredAt /\ UpdatedOf(e) = LastUpdate(e)
           /\ e.version \in Version => StatusOf(e) = "identified"
           /\ e.version = "" => StatusOf(e) = "listed"
           /\ StatusOf(e) # "unknown"
<1>1. e # Absent
    <2>1. DOMAIN e = {"version", "info", "caps", "MeasuredAt", "SystemAt",
                      "StateAt", "BatteriesAt"}
        BY DEF Entry
    <2>2. DOMAIN Absent = {"name"}
        BY DEF Absent
    <2> QED
        BY <2>1, <2>2
<1> QED
    BY <1>1 DEF MeasuredOf, UpdatedOf, StatusOf, Version

\* A reading that has just arrived is the newest there is.
LEMMA NewReadingIsNewest ==
    ASSUME NEW e \in Entry,
           0 \in {e.MeasuredAt, e.SystemAt, e.StateAt, e.BatteriesAt}
    PROVE  LastUpdate(e) = 0
<1>1. LastUpdate(e) \in Nat
    BY LastUpdateIsYoungest, AgeCapAssumption, StaleAfterAssumption DEF Age, Never
<1>2. LastUpdate(e) <= 0
    BY LastUpdateIsYoungest
<1> QED
    BY <1>1, <1>2

\* The device is listed when Run registers it.
LEMMA RegisterLists ==
    ASSUME IInv, Register
    PROVE  \E d \in Device : Shown!List(d)
<1> DEFINE d == Devices[started + 1]
<1>1. d \in Device /\ pc[d] = "off" /\ entry[d] = Absent
    <2>1. Len(Devices) \in Nat /\ started \in 0 .. Len(Devices)
        BY DevicesAssumption DEF IInv, TypeOK
    <2>2. started + 1 \in 1 .. Len(Devices) /\ started + 1 > started
        BY <2>1 DEF Register
    <2>3. d \in Device /\ pc[d] = "off"
        BY <2>2 DEF Device, IInv, Registered
    <2> QED
        BY <2>3, InTable DEF IInv
<1>2. /\ entry' = [entry EXCEPT ![d] = Blank] /\ lastSuccess' = lastSuccess
      /\ entry \in [Device -> Entry \cup {Absent}]
    BY DEF Register, IInv, TypeOK
<1> HIDE DEF d
<1>3. /\ Blank \in Entry /\ Blank.MeasuredAt = Never /\ Blank.version = ""
      /\ LastUpdate(Blank) = Never
    <2>1. Blank \in Entry /\ Blank.MeasuredAt = Never /\ Blank.SystemAt = Never
          /\ Blank.StateAt = Never /\ Blank.BatteriesAt = Never
          /\ Blank.version = ""
        BY AgeCapAssumption, StaleAfterAssumption
        DEF Blank, Entry, Info, Age, Never
    <2> QED
        BY <2>1, LastUpdateIsYoungest
<1>4. /\ MeasuredOf(Absent) = Never /\ UpdatedOf(Absent) = Never
      /\ StatusOf(Absent) = "unknown"
    BY DEF MeasuredOf, UpdatedOf, StatusOf
<1>5. /\ MeasuredOf(Blank) = Never /\ UpdatedOf(Blank) = Never
      /\ StatusOf(Blank) = "listed"
    BY <1>3, ShownOfEntry
<1>6. Statuses' = [Statuses EXCEPT ![d] = "listed"]
    <2>1. Statuses' = [Statuses EXCEPT ![d] = StatusOf(Blank)]
        BY <1>1, <1>2, ShownOfOne
    <2> QED
        BY <1>5, <2>1
<1>7. Measured' = Measured /\ Updated' = Updated
    BY <1>1, <1>2, <1>4, <1>5, ShowsTheSame
<1>8. Statuses[d] = "unknown"
    BY <1>1, <1>4 DEF Statuses
<1>9. Shown!List(d)
    BY <1>2, <1>6, <1>7, <1>8 DEF Shown!List, Statuses, Measured, Updated
<1> QED
    BY <1>1, <1>9

\* What the mapped variables may not do, for a step to show.
NothingShown == /\ Statuses' = Statuses /\ Measured' = Measured
                /\ Updated' = Updated /\ lastSuccess' = lastSuccess

\* A connection identifies the device, a failed one shows nothing.
LEMMA ProbeIdentifies ==
    ASSUME IInv, NEW d \in Device, Probe(d)
    PROVE  Shown!Identify(d) \/ NothingShown
<1>1. /\ TypeOK /\ pc[d] = "probe" /\ lastSuccess' = lastSuccess
      /\ entry \in [Device -> Entry \cup {Absent}]
    BY DEF IInv, TypeOK, Probe
<1>2. entry[d] \in Entry
    BY <1>1, InTable DEF IInv
<1>3. CASE entry' = entry
    BY <1>1, <1>3 DEF NothingShown, Statuses, Measured, Updated
<1>4. CASE entry' # entry
    <2> DEFINE version == Head(dial[d].versions)
               c == connected(d, version)
               e == publishIdentity(entry[d], c)
    <2>1. version \in Version
        <3>1. dial[d].versions \in Seq(Version) /\ Len(dial[d].versions) \in {1, 2}
            BY <1>1 DEF IInv, DeviceInv, LocalsFitPC, TypeOK
        <3> QED
            BY <3>1
    <2>2. entry' = [entry EXCEPT ![d] = e]
        BY <1>4 DEF Probe
    <2>3. c \in ClientState /\ c.version = version
        BY <1>1, <2>1, ConnectedIsAClient DEF connected
    <2> HIDE DEF c, version
    <2>4. /\ e \in Entry /\ e.version = version
          /\ e.MeasuredAt = entry[d].MeasuredAt /\ e.SystemAt = entry[d].SystemAt
          /\ e.StateAt = entry[d].StateAt /\ e.BatteriesAt = entry[d].BatteriesAt
        BY <1>2, <2>3 DEF publishIdentity, Entry, ClientState
    <2> HIDE DEF e
    <2>5. LastUpdate(e) = LastUpdate(entry[d])
        BY <2>4 DEF LastUpdate
    <2>6. /\ MeasuredOf(e) = MeasuredOf(entry[d]) /\ UpdatedOf(e) = UpdatedOf(entry[d])
          /\ StatusOf(e) = "identified" /\ StatusOf(entry[d]) # "unknown"
        BY <1>2, <2>1, <2>4, <2>5, ShownOfEntry
    <2>7. Measured' = Measured /\ Updated' = Updated
        BY <1>1, <2>2, <2>6, ShowsTheSame
    <2>8. Statuses' = [Statuses EXCEPT ![d] = "identified"]
        <3>1. Statuses' = [Statuses EXCEPT ![d] = StatusOf(e)]
            BY <1>1, <2>2, ShownOfOne
        <3> QED
            BY <2>6, <3>1
    <2>9. Statuses[d] # "unknown"
        BY <2>6 DEF Statuses
    <2> QED
        BY <1>1, <2>7, <2>8, <2>9 DEF Shown!Identify, Statuses, Measured, Updated
<1> QED
    BY <1>3, <1>4

\* A measurement is of a device that has been identified.
LEMMA MeasurementShows ==
    ASSUME IInv, NEW d \in Device, Measurement(d)
    PROVE  Shown!Measure(d) \/ NothingShown
<1>1. /\ pc[d] = "measurement" /\ lastSuccess' = lastSuccess
      /\ entry \in [Device -> Entry \cup {Absent}]
    BY DEF IInv, TypeOK, Measurement
<1>2. entry[d] \in Entry /\ entry[d].version \in Version
    <2>1. entry[d] \in Entry /\ DeviceInv(d)
        BY <1>1, InTable DEF IInv
    <2>2. client[d] # None /\ client[d] \in ClientState
        BY <1>1, <2>1 DEF DeviceInv, LocalsFitPC, IInv, TypeOK
    <2> QED
        BY <2>1, <2>2 DEF DeviceInv, Identified, ClientState
<1>3. CASE entry' = entry
    BY <1>1, <1>3 DEF NothingShown, Statuses, Measured, Updated
<1>4. CASE entry' # entry
    <2> DEFINE e == [entry[d] EXCEPT !.MeasuredAt = 0]
    <2>1. entry' = [entry EXCEPT ![d] = e]
        BY <1>4 DEF Measurement
    <2>2. /\ e \in Entry /\ e.MeasuredAt = 0 /\ e.version = entry[d].version
        <3>1. 0 \in Age
            BY AgeCapAssumption, StaleAfterAssumption DEF Age, Never
        <3> QED
            BY <1>2, <3>1 DEF Entry
    <2> HIDE DEF e
    <2>3. LastUpdate(e) = 0
        BY <2>2, NewReadingIsNewest
    <2>4. /\ MeasuredOf(e) = 0 /\ UpdatedOf(e) = 0
          /\ StatusOf(e) = "identified" /\ StatusOf(entry[d]) = "identified"
        BY <1>2, <2>2, <2>3, ShownOfEntry
    <2>5. /\ Statuses' = [Statuses EXCEPT ![d] = StatusOf(e)]
          /\ Measured' = [Measured EXCEPT ![d] = MeasuredOf(e)]
          /\ Updated' = [Updated EXCEPT ![d] = UpdatedOf(e)]
        BY <1>1, <2>1, ShownOfOne
    <2>6. Statuses[d] = "identified"
        BY <2>4 DEF Statuses
    <2>7. Statuses' = Statuses
        BY <2>4, <2>5, <2>6 DEF Statuses
    <2> QED
        BY <1>1, <2>4, <2>5, <2>6, <2>7 DEF Shown!Measure, Statuses, Measured, Updated
<1> QED
    BY <1>3, <1>4

\* How recent the measurement is that a poll is the sequel of.
LEMMA PollFollowsMeasurement ==
    ASSUME IInv, NEW d \in Device,
           \/ pc[d] \in {"state", "system", "batteries"}
           \/ pc[d] = "observe" /\ err[d] = {}
    PROVE  /\ entry[d] \in Entry /\ Shown!JustMeasured(d)
<1>1. entry[d] \in Entry /\ DeviceInv(d) /\ TypeOK
    BY InTable DEF IInv
<1>2. entry[d].MeasuredAt # Never
    BY <1>1 DEF DeviceInv, SuccessCovers
<1>3. entry[d].MeasuredAt <= 2 * Timeout
    <2>1. /\ Timeout \in Nat /\ waited[d] \in Nat /\ waited[d] <= Timeout
          /\ entry[d].MeasuredAt \in Nat
        BY <1>1, LocalNumbers, EntryNumbers
    <2>2. /\ pc[d] = "state" => entry[d].MeasuredAt <= waited[d]
          /\ pc[d] \in {"system", "batteries"} =>
                entry[d].MeasuredAt <= Timeout + waited[d]
          /\ pc[d] = "observe" /\ err[d] = {} => entry[d].MeasuredAt <= 2 * Timeout
        BY <1>1 DEF DeviceInv, MeasurementAge
    <2> QED
        BY <2>1, <2>2
<1>4. Measured[d] = entry[d].MeasuredAt
    BY <1>1, ShownOfEntry DEF Measured
<1> QED
    BY <1>1, <1>2, <1>3, <1>4 DEF Shown!JustMeasured, Shown!Never, Never, Measured

\* A secondary reading follows a measurement; an endpoint that the device does
\* not have is forgotten without a trace.
LEMMA SecondaryShows ==
    ASSUME IInv, NEW d \in Device, State(d) \/ System(d) \/ Batteries(d)
    PROVE  Shown!Refresh(d) \/ NothingShown
<1>1. PICK endpoint, at, label :
            /\ Secondary(d, endpoint, at, label)
            /\ <<endpoint, at>> \in {<<"state", "StateAt">>,
                        <<"system", "SystemAt">>, <<"batteries", "BatteriesAt">>}
    BY DEF State, System, Batteries
<1>2. /\ pc[d] \in {"state", "system", "batteries"} /\ lastSuccess' = lastSuccess
      /\ entry \in [Device -> Entry \cup {Absent}]
      /\ at \in {"StateAt", "SystemAt", "BatteriesAt"}
    BY <1>1 DEF IInv, TypeOK, Secondary
<1>3. entry[d] \in Entry /\ Shown!JustMeasured(d)
    BY <1>2, PollFollowsMeasurement
<1>4. \/ entry' = entry
      \/ entry' = [entry EXCEPT ![d] = [@ EXCEPT ![at] = 0]]
      \/ \E caps : entry' = [entry EXCEPT ![d] = [@ EXCEPT !.caps = caps]]
    BY <1>1 DEF Secondary
<1>5. CASE entry' = entry
    BY <1>2, <1>5 DEF NothingShown, Statuses, Measured, Updated
<1>6. CASE entry' = [entry EXCEPT ![d] = [@ EXCEPT ![at] = 0]]
    <2> DEFINE e == [entry[d] EXCEPT ![at] = 0]
    <2>1. entry' = [entry EXCEPT ![d] = e]
        BY <1>2, <1>6
    <2>2. /\ e \in Entry /\ e.MeasuredAt = entry[d].MeasuredAt
          /\ e.version = entry[d].version /\ e[at] = 0
        <3>1. 0 \in Age
            BY AgeCapAssumption, StaleAfterAssumption DEF Age, Never
        <3> QED
            BY <1>2, <1>3, <3>1 DEF Entry
    <2> HIDE DEF e
    <2>3. LastUpdate(e) = 0
        BY <1>2, <2>2, NewReadingIsNewest
    <2>4. /\ MeasuredOf(e) = MeasuredOf(entry[d]) /\ UpdatedOf(e) = 0
          /\ StatusOf(e) = StatusOf(entry[d])
        <3>1. e # Absent /\ entry[d] # Absent
            BY <1>3, <2>2, ShownOfEntry DEF StatusOf
        <3> QED
            BY <1>3, <2>2, <2>3, <3>1 DEF MeasuredOf, UpdatedOf, StatusOf
    <2>5. /\ Statuses' = [Statuses EXCEPT ![d] = StatusOf(e)]
          /\ Measured' = [Measured EXCEPT ![d] = MeasuredOf(e)]
          /\ Updated' = [Updated EXCEPT ![d] = UpdatedOf(e)]
        BY <1>2, <2>1, ShownOfOne
    <2>6. Statuses' = Statuses /\ Measured' = Measured
        BY <2>4, <2>5 DEF Statuses, Measured
    <2> QED
        BY <1>2, <1>3, <2>4, <2>5, <2>6 DEF Shown!Refresh, Statuses, Measured, Updated
<1>7. ASSUME NEW caps, entry' = [entry EXCEPT ![d] = [@ EXCEPT !.caps = caps]]
      PROVE  NothingShown
    <2> DEFINE e == [entry[d] EXCEPT !.caps = caps]
    <2>1. entry' = [entry EXCEPT ![d] = e]
        BY <1>2, <1>7
    <2>2. /\ e.MeasuredAt = entry[d].MeasuredAt /\ e.SystemAt = entry[d].SystemAt
          /\ e.StateAt = entry[d].StateAt /\ e.BatteriesAt = entry[d].BatteriesAt
          /\ e.version = entry[d].version
        BY <1>3 DEF Entry
    <2>3. e # Absent /\ entry[d] # Absent
        <3>1. "caps" \in DOMAIN e /\ "caps" \in DOMAIN entry[d]
            BY <1>3 DEF Entry
        <3>2. "caps" \notin DOMAIN Absent
            BY DEF Absent
        <3> QED
            BY <3>1, <3>2
    <2> HIDE DEF e
    <2>4. LastUpdate(e) = LastUpdate(entry[d])
        BY <2>2 DEF LastUpdate
    <2>5. /\ MeasuredOf(e) = MeasuredOf(entry[d]) /\ UpdatedOf(e) = UpdatedOf(entry[d])
          /\ StatusOf(e) = StatusOf(entry[d])
        BY <2>2, <2>3, <2>4 DEF MeasuredOf, UpdatedOf, StatusOf
    <2> QED
        BY <1>2, <2>1, <2>5, ShowsTheSame DEF NothingShown
<1> QED
    BY <1>4, <1>5, <1>6, <1>7

\* The gauge of the last success vouches for a measurement of the same poll.
LEMMA ObserveShows ==
    ASSUME IInv, NEW d \in Device, Observe(d)
    PROVE  Shown!Succeed(d) \/ NothingShown
<1>1. /\ pc[d] = "observe" /\ entry' = entry /\ lastSuccess \in [Device -> Age]
      /\ lastSuccess' = [lastSuccess EXCEPT ![d] = IF err[d] = {} THEN 0 ELSE @]
    BY DEF IInv, TypeOK, Observe, observe
<1>2. Statuses' = Statuses /\ Measured' = Measured /\ Updated' = Updated
    BY <1>1 DEF Statuses, Measured, Updated
<1>3. CASE err[d] = {}
    <2>1. Shown!JustMeasured(d)
        BY <1>1, <1>3, PollFollowsMeasurement
    <2>2. lastSuccess' = [lastSuccess EXCEPT ![d] = 0]
        BY <1>1, <1>3
    <2> QED
        BY <1>2, <2>1, <2>2 DEF Shown!Succeed, Statuses, Measured, Updated
<1>4. CASE err[d] # {}
    BY <1>1, <1>2, <1>4 DEF NothingShown
<1> QED
    BY <1>3, <1>4

\* Everything shown ages at the same pace.
LEMMA TickPasses ==
    ASSUME IInv, Tick
    PROVE  Shown!Pass
<1> DEFINE o(d) == [entry[d] EXCEPT !.MeasuredAt = Older(@),
                        !.SystemAt = Older(@), !.StateAt = Older(@),
                        !.BatteriesAt = Older(@)]
<1>1. /\ entry' = [d \in Device |-> o(d)]
      /\ lastSuccess' = [d \in Device |-> Older(lastSuccess[d])]
    BY DEF Tick
<1>2. ASSUME NEW d \in Device
      PROVE  /\ MeasuredOf(o(d)) = Older(MeasuredOf(entry[d]))
             /\ UpdatedOf(o(d)) = Older(UpdatedOf(entry[d]))
             /\ StatusOf(o(d)) = StatusOf(entry[d])
    <2>1. entry[d] \in Entry
        <3>1. PICK i \in 1 .. Len(Devices) : d = Devices[i]
            BY DEF Device
        <3>2. Len(Devices) \in Nat
            BY DevicesAssumption
        <3>3. started = Len(Devices)
            BY DEF Tick
        <3>4. ~(i > started)
            BY <3>2, <3>3
        <3>5. pc[Devices[i]] = "off" <=> i > started
            BY DEF IInv, Registered
        <3>6. pc[d] # "off"
            BY <3>1, <3>4, <3>5
        <3> QED
            BY <3>6, InTable DEF IInv
    <2>2. /\ o(d) \in Entry /\ o(d).version = entry[d].version
          /\ o(d).MeasuredAt = Older(entry[d].MeasuredAt)
          /\ LastUpdate(o(d)) = Older(LastUpdate(entry[d]))
        BY <2>1, TickEntry
    <2> HIDE DEF o
    <2>3. o(d) # Absent /\ entry[d] # Absent
        BY <2>1, <2>2, ShownOfEntry DEF StatusOf
    <2> QED
        BY <2>2, <2>3 DEF MeasuredOf, UpdatedOf, StatusOf
<1> HIDE DEF o
<1>3. /\ Statuses' = Statuses
      /\ Measured' = [d \in Device |-> Older(Measured[d])]
      /\ Updated' = [d \in Device |-> Older(Updated[d])]
    BY <1>1, <1>2 DEF Statuses, Measured, Updated
<1>4. \A age : Shown!Older(age) = Older(age)
    BY DEF Shown!Older, Older
<1> QED
    BY <1>1, <1>3, <1>4 DEF Shown!Pass, Statuses, Measured, Updated

\* What a scrape sees of the loops is a behaviour of Exporter, whatever the
\* devices do, for any household and any times (poller.go, and Collect).
THEOREM PollerImplementsExporter == Spec => ImplementsExporter
<1>1. Init => Shown!Init
    <2> SUFFICES ASSUME Init PROVE Shown!Init
        OBVIOUS
    <2>1. Shown!Never = Never
        BY DEF Shown!Never, Never
    <2> QED
        BY <2>1 DEF Init, Shown!Init, Statuses, Measured, Updated,
                    StatusOf, MeasuredOf, UpdatedOf
<1>2. IInv /\ [Next]_vars =>
        [Shown!Next]_<<Statuses, Measured, Updated, lastSuccess>>
    <2> SUFFICES ASSUME IInv, [Next]_vars
                 PROVE  Shown!Next \/ NothingShown
        BY DEF NothingShown
    <2>1. CASE Register
        BY <2>1, RegisterLists DEF Shown!Next
    <2>2. CASE Tick
        BY <2>2, TickPasses DEF Shown!Next
    <2>3. CASE entry' = entry /\ lastSuccess' = lastSuccess
        BY <2>3 DEF NothingShown, Statuses, Measured, Updated
    <2>4. CASE Cancel \/ UNCHANGED vars
        BY <2>3, <2>4 DEF Cancel, vars
    <2>5. ASSUME NEW d \in Device, Settle(d) \/ Change(d)
          PROVE  Shown!Next \/ NothingShown
        BY <2>3, <2>5 DEF Settle, Change
    <2>6. ASSUME NEW d \in Device, Loop(d)
          PROVE  Shown!Next \/ NothingShown
        <3>1. CASE Select(d) \/ Stop(d)
            BY <2>3, <3>1 DEF Select, Stop
        <3>2. CASE Probe(d)
            BY <3>2, ProbeIdentifies DEF Shown!Next
        <3>3. CASE Measurement(d)
            BY <3>3, MeasurementShows DEF Shown!Next
        <3>4. CASE State(d) \/ System(d) \/ Batteries(d)
            BY <3>4, SecondaryShows DEF Shown!Next
        <3>5. CASE Observe(d)
            BY <3>5, ObserveShows DEF Shown!Next
        <3> QED
            BY <2>6, <3>1, <3>2, <3>3, <3>4, <3>5 DEF Loop
    <2> QED
        BY <2>1, <2>2, <2>4, <2>5, <2>6 DEF Next
<1> QED
    BY Invariant, <1>1, <1>2, PTL DEF Spec, ImplementsExporter, Shown!Spec
=============================================================================
