---------------------------- MODULE ConfigProofs ----------------------------
(***************************************************************************)
(* Proofs about Config, for any texts, any configuration files and any     *)
(* environment: what Load returns is derived in full and has none of the   *)
(* problems that Validate looks for, and so it is what poller.New, the     *)
(* client and web.New take for granted.                                    *)
(***************************************************************************)
EXTENDS Config, FiniteSetTheorems, TLAPS

\* The rank of a known host counts from 1 to their number without a gap, so
\* each number has its host.
LEMMA PlaceIsKnown ==
    ASSUME NEW hosts \in Seq(Text), NEW i \in 1 .. Cardinality(Known(hosts))
    PROVE  place(hosts, i) \in Known(hosts)
<1> DEFINE K == Known(hosts)
           n == Cardinality(K)
           upTo(p) == {q \in K : q <= p}
           rank == [p \in K |-> Rank(hosts, p)]
<1>1. IsFiniteSet(K) /\ K \subseteq Int
  <2>1. 1 \in Int /\ Len(hosts) \in Int
    OBVIOUS
  <2>2. IsFiniteSet(1 .. Len(hosts))
    BY <2>1, FS_Interval
  <2>3. DOMAIN hosts = 1 .. Len(hosts)
    OBVIOUS
  <2>4. K \in SUBSET (1 .. Len(hosts))
    BY <2>3 DEF Known
  <2>5. 1 .. Len(hosts) \subseteq Int
    BY <2>1
  <2> HIDE DEF K
  <2> QED BY <2>2, <2>4, <2>5, FS_Subset
<1>2. n \in Nat
  BY <1>1, FS_CardinalityType
<1>3. \A p \in K : rank[p] = Cardinality(upTo(p))
  BY DEF Rank
<1> HIDE DEF K, n, rank
<1>4. \A p \in K : IsFiniteSet(upTo(p)) /\ Cardinality(upTo(p)) \in 1 .. n
  <2> SUFFICES ASSUME NEW p \in K
               PROVE  IsFiniteSet(upTo(p)) /\ Cardinality(upTo(p)) \in 1 .. n
    OBVIOUS
  <2>1. upTo(p) \in SUBSET K /\ p \in upTo(p)
    BY <1>1
  <2> HIDE DEF upTo
  <2>2. IsFiniteSet(upTo(p)) /\ Cardinality(upTo(p)) <= n
    BY <1>1, <2>1, FS_Subset DEF n
  <2>3. Cardinality(upTo(p)) \in Nat /\ Cardinality(upTo(p)) # 0
    BY <2>1, <2>2, FS_CardinalityType, FS_EmptySet
  <2> QED BY <1>2, <2>2, <2>3
<1>5. \A p, q \in K : p < q => Cardinality(upTo(p)) # Cardinality(upTo(q))
  <2> SUFFICES ASSUME NEW p \in K, NEW q \in K, p < q
               PROVE  Cardinality(upTo(p)) # Cardinality(upTo(q))
    OBVIOUS
  <2>1. p \in Int /\ q \in Int
    BY <1>1
  <2>2. q \in upTo(q) /\ q \notin upTo(p)
    BY <2>1
  <2>3. \A r \in K : r <= p => r <= q
    BY <1>1, <2>1
  <2>4. upTo(p) \in SUBSET upTo(q)
    BY <2>3
  <2>5. IsFiniteSet(upTo(q))
    BY <1>4
  <2> HIDE DEF upTo
  <2> QED BY <2>2, <2>4, <2>5, FS_Subset
<1>6. rank \in Injection(K, 1 .. n)
  <2>1. DOMAIN rank = K
    BY DEF rank
  <2>2. rank \in [K -> 1 .. n]
    BY <1>3, <1>4, <2>1 DEF rank
  <2>3. \A p, q \in K : rank[p] = rank[q] => ~ (p < q)
    BY <1>3, <1>5
  <2>4. \A p, q \in K : rank[p] = rank[q] => p = q
    BY <1>1, <2>3
  <2>5. IsInjective(rank)
    BY <2>1, <2>4 DEF IsInjective
  <2> QED BY <2>2, <2>5 DEF Injection
<1>7. rank \in Surjection(K, 1 .. n)
  <2>1. IsFiniteSet(1 .. n) /\ Cardinality(1 .. n) = n
    BY <1>2, FS_Interval
  <2> QED BY <1>6, <2>1, FS_Injection DEF n
<1>8. PICK p \in K : rank[p] = i
  BY <1>7 DEF Surjection, K, n
<1> QED BY <1>8 DEF place, K, rank

-----------------------------------------------------------------------------
(* What the steps make of the Go types.                                      *)

\* The texts that the code brings along.
LEMMA Words ==
    /\ "" \in Word /\ ":9833" \in Word /\ "metrics" \in Word /\ "info" \in Word
    /\ "text" \in Word /\ "auto" \in Word /\ "verify" \in Word
BY InputAssumption

LEMMA TextTypes == "" \in Text /\ \A t \in Text : Trimmed[t] \in Text
BY TextAssumption

LEMMA BareType == \A h \in Text : Bare(h) \in Device
<1>1. \A n, h \in Text, w \in Word, i \in Int :
        [name |-> n, host |-> h, api |-> w, token |-> w, tokenFile |-> w,
         tls |-> w, interval |-> i] \in Device
  BY DEF Device
<1>2. 0 \in Int
  OBVIOUS
<1> QED BY <1>1, <1>2, TextTypes, Words, Zenon DEF Bare

LEMMA EnvDevicesType ==
    ASSUME NEW hosts \in Seq(Text)
    PROVE  EnvDevices(hosts) \in Seq(Device)
<1> DEFINE n == Cardinality(Known(hosts))
<1>1. n \in Nat
  <2>1. 1 \in Int /\ Len(hosts) \in Int /\ DOMAIN hosts = 1 .. Len(hosts)
    OBVIOUS
  <2>2. IsFiniteSet(DOMAIN hosts)
    BY <2>1, FS_Interval
  <2>3. Known(hosts) \in SUBSET DOMAIN hosts
    BY DEF Known
  <2>4. IsFiniteSet(Known(hosts))
    BY <2>2, <2>3, FS_Subset
  <2> QED BY <2>4, FS_CardinalityType
<1>2. \A h \in Text : Bare(Trimmed[h]) \in Device
  BY BareType, TextTypes
<1>3. \A i \in 1 .. n : hosts[place(hosts, i)] \in Text
  <2>1. \A i \in 1 .. n : place(hosts, i) \in Known(hosts)
    BY PlaceIsKnown
  <2>2. \A p \in DOMAIN hosts : hosts[p] \in Text
    OBVIOUS
  <2>3. Known(hosts) \subseteq DOMAIN hosts
    BY DEF Known
  <2> QED BY <2>1, <2>2, <2>3
<1>4. \A i \in 1 .. n : Bare(Trimmed[hosts[place(hosts, i)]]) \in Device
  BY <1>2, <1>3
<1> HIDE DEF n
<1>5. [i \in 1 .. n |-> Bare(Trimmed[hosts[place(hosts, i)]])] \in Seq(Device)
  BY <1>1, <1>4
<1> QED BY <1>5 DEF EnvDevices, n

LEMMA DefaultType == Default \in Configuration
<1>1. \A a, b, c, l, m \in Word :
        [devices   |-> <<>>,
         poll      |-> [interval |-> 10, system |-> 60, timeout |-> 5, stale |-> 60],
         server    |-> [listen |-> a, metrics |-> <<b>>],
         dashboard |-> [enabled |-> FALSE, path |-> <<c>>, refresh |-> 10],
         log       |-> [level |-> l, format |-> m]] \in Configuration
  BY DEF Configuration
<1> QED BY <1>1, Words, Zenon DEF Default

LEMMA ApplyEnvType ==
    ASSUME NEW c \in Configuration, NEW e \in Envs
    PROVE  applyEnv(c, e) \in Configuration
<1>1. e \in Environment
  BY InputAssumption
<1>2. EnvDevices(e.devices) \in Seq(Device)
  BY <1>1, EnvDevicesType DEF Environment
<1>3. c.devices \o EnvDevices(e.devices) \in Seq(Device)
  BY <1>2 DEF Configuration
<1> QED BY <1>1, <1>3 DEF applyEnv, Override, Configuration, Environment

LEMMA DerivedType ==
    ASSUME NEW d \in Device, NEW c \in Configuration, NEW e \in Envs
    PROVE  derived(d, c, e) \in Device
<1>1. e.tokens \in [{VarOf[t] : t \in Text} -> Word]
  BY InputAssumption DEF Environment
<1>2. \A t \in Text : e.tokens[VarOf[t]] \in Word
  BY <1>1
<1> DEFINE host == Trimmed[d.host]
           name == IF Trimmed[d.name] = "" THEN host ELSE Trimmed[d.name]
           token == Override(e.tokens[VarOf[name]], d.token)
           interval == IF d.interval <= 0 THEN c.poll.interval ELSE d.interval
<1>3. host \in Text /\ name \in Text
  BY TextTypes DEF Device
<1>4. token \in Word
  BY <1>2, <1>3 DEF Override, Device
<1>5. interval \in Int
  BY DEF Device, Configuration
<1>6. derived(d, c, e) =
        [d EXCEPT !.host = host, !.name = name,
                  !.api = IF d.api = "" THEN "auto" ELSE d.api,
                  !.tls = IF d.tls = "" THEN "verify" ELSE d.tls,
                  !.interval = interval, !.token = token]
  BY DEF derived
<1> HIDE DEF host, name, token, interval
<1> QED BY <1>3, <1>4, <1>5, <1>6, Words DEF Device

LEMMA NormaliseType ==
    ASSUME NEW c \in Configuration, NEW e \in Envs
    PROVE  normalise(c, e) \in Configuration
<1>1. c.devices \in Seq(Device)
  BY DEF Configuration
<1>2. [i \in DOMAIN c.devices |-> derived(c.devices[i], c, e)] \in Seq(Device)
  BY <1>1, DerivedType
<1> QED BY <1>2 DEF normalise, Configuration

\* A device that has been normalised is left alone by normalise.
LEMMA DerivedOnce ==
    ASSUME NEW d \in Device, NEW c \in Configuration, NEW e \in Envs,
           NEW c2 \in Configuration, c2.poll = c.poll
    PROVE  derived(derived(d, c, e), c2, e) = derived(d, c, e)
<1> DEFINE host == Trimmed[d.host]
           name == IF Trimmed[d.name] = "" THEN host ELSE Trimmed[d.name]
           D == derived(d, c, e)
<1>1. D \in Device
  BY DerivedType
<1>2. D.host = host /\ D.name = name
  BY DEF derived, Device
<1>3. Trimmed[host] = host /\ Trimmed[name] = name
  BY TextAssumption DEF Device
<1>4. Trimmed[D.host] = D.host /\ Trimmed[D.name] = D.name
  BY <1>2, <1>3
<1>5. D.name = "" => D.host = ""
  BY <1>2
<1>6. D.api # "" /\ D.tls # ""
  BY DEF derived, Device
<1>7. D.interval <= 0 => c2.poll.interval = D.interval
  BY DEF derived, Device, Configuration
<1>8. Override(e.tokens[VarOf[D.name]], D.token) = D.token
  BY <1>2 DEF derived, Device, Override
<1> HIDE DEF D
<1>9. derived(D, c2, e) =
        [D EXCEPT !.host = D.host, !.name = D.name, !.api = D.api, !.tls = D.tls,
                  !.interval = D.interval, !.token = D.token]
  BY <1>4, <1>5, <1>6, <1>7, <1>8 DEF derived
<1>10. derived(D, c2, e) = D
  BY <1>1, <1>9 DEF Device
<1> QED BY <1>10 DEF D

LEMMA NormaliseOnce ==
    ASSUME NEW c \in Configuration, NEW e \in Envs
    PROVE  normalise(normalise(c, e), e) = normalise(c, e)
<1> DEFINE C == normalise(c, e)
<1>1. C \in Configuration
  BY NormaliseType
<1>2. /\ C.poll = c.poll
      /\ C.devices = [i \in DOMAIN c.devices |-> derived(c.devices[i], c, e)]
  BY DEF normalise, Configuration
<1>3. \A i \in DOMAIN c.devices : c.devices[i] \in Device
  BY DEF Configuration
<1>4. \A i \in DOMAIN c.devices : derived(C.devices[i], C, e) = C.devices[i]
  <2> HIDE DEF C
  <2> QED BY <1>1, <1>2, <1>3, DerivedOnce
<1> HIDE DEF C
<1>5. [i \in DOMAIN C.devices |-> derived(C.devices[i], C, e)] = C.devices
  BY <1>2, <1>4
<1>6. normalise(C, e) = [C EXCEPT !.devices = C.devices]
  BY <1>5 DEF normalise
<1>7. normalise(C, e) = C
  BY <1>1, <1>6 DEF Configuration
<1> QED BY <1>7 DEF C

\* Validate reports of a device, or of the whole, by the names of the problems.
LEMMA ProblemTypes ==
    ASSUME NEW c \in Configuration, NEW e \in Envs
    PROVE  Validate(c, e) \subseteq
            (0 .. Len(c.devices)) \X
            {"host", "url", "name", "api", "token", "tls", "interval", "devices",
             "poll", "system", "timeout", "stale", "listen", "metrics", "path",
             "both", "refresh", "level", "format"}
<1> DEFINE Names ==
            {"host", "url", "name", "api", "token", "tls", "interval", "devices",
             "poll", "system", "timeout", "stale", "listen", "metrics", "path",
             "both", "refresh", "level", "format"}
<1>1. Len(c.devices) \in Nat /\ DOMAIN c.devices = 1 .. Len(c.devices)
  BY DEF Configuration
<1>2. \A i : Failed(DeviceChecks(c, i, e)) \subseteq Names
  BY DEF Failed, DeviceChecks
<1>3. Failed(Checks(c)) \subseteq Names
  BY DEF Failed, Checks
<1> HIDE DEF Names
<1>4. GlobalProblems(c) \subseteq (0 .. Len(c.devices)) \X Names
  BY <1>1, <1>3 DEF GlobalProblems
<1>5. \A i \in DOMAIN c.devices :
        DeviceProblems(c, i, e) \subseteq (0 .. Len(c.devices)) \X Names
  BY <1>1, <1>2 DEF DeviceProblems
<1>6. Validate(c, e) \subseteq (0 .. Len(c.devices)) \X Names
  BY <1>4, <1>5 DEF Validate
<1> QED BY <1>6 DEF Names

-----------------------------------------------------------------------------
(* The inductive invariant.                                                  *)

LEMMA InitInv == Init => IInv
<1> SUFFICES ASSUME Init PROVE IInv
  OBVIOUS
<1> USE DEF Init
<1>1. file.config \in Configuration
  BY InputAssumption
<1>2. TypeOK
  BY <1>1, DefaultType DEF TypeOK
<1> QED BY <1>2 DEF IInv, NormaliseIsFinal, NothingFoundYet,
    LoadedIsValid

LEMMA ReadKeeps == IInv /\ Read => IInv'
<1> SUFFICES ASSUME IInv, Read PROVE IInv'
  OBVIOUS
<1> USE DEF IInv
<1>1. /\ stage' \in {"failed", "env"} /\ cfg' \in {cfg, file.config}
      /\ UNCHANGED <<file, env, problems>> /\ problems = {}
  BY DEF Read, NothingFoundYet
<1> QED BY <1>1 DEF TypeOK, NormaliseIsFinal, NothingFoundYet,
    LoadedIsValid

LEMMA ApplyEnvKeeps == IInv /\ ApplyEnv => IInv'
<1> SUFFICES ASSUME IInv, ApplyEnv PROVE IInv'
  OBVIOUS
<1> USE DEF IInv
<1>1. cfg' \in Configuration
  BY ApplyEnvType DEF ApplyEnv, TypeOK
<1> QED BY <1>1 DEF ApplyEnv, TypeOK, NormaliseIsFinal, NothingFoundYet,
    LoadedIsValid

LEMMA NormaliseKeeps == IInv /\ Normalise => IInv'
<1> SUFFICES ASSUME IInv, Normalise PROVE IInv'
  OBVIOUS
<1> USE DEF IInv
<1>1. cfg' \in Configuration
  BY NormaliseType DEF Normalise, TypeOK
<1>2. normalise(cfg', env') = cfg'
  BY NormaliseOnce DEF Normalise, TypeOK
<1> QED BY <1>1, <1>2 DEF Normalise, TypeOK, NormaliseIsFinal, NothingFoundYet,
    LoadedIsValid

LEMMA CheckKeeps == IInv /\ Check => IInv'
<1> SUFFICES ASSUME IInv, Check PROVE IInv'
  OBVIOUS
<1> USE DEF IInv
<1>1. /\ problems' = Validate(cfg, env) /\ stage' \in {"loaded", "failed"}
      /\ stage' = "loaded" => problems' = {}
      /\ stage = "validate" /\ UNCHANGED <<file, env, cfg>>
  BY DEF Check
<1>2. TypeOK'
  BY <1>1, ProblemTypes DEF TypeOK
<1>3. NormaliseIsFinal' /\ NothingFoundYet' /\ LoadedIsValid'
  BY <1>1 DEF NormaliseIsFinal, NothingFoundYet,
    LoadedIsValid
<1> QED BY <1>2, <1>3

\* Load keeps its types from step to step, normalise has nothing left to do
\* once it has run, and what is returned was found valid as it is returned.
THEOREM Invariant == Spec => []IInv
<1>1. IInv /\ [Next]_vars => IInv'
  <2> SUFFICES ASSUME IInv, [Next]_vars PROVE IInv'
    OBVIOUS
  <2>1. CASE UNCHANGED vars
    BY <2>1 DEF vars, IInv, TypeOK, NormaliseIsFinal, NothingFoundYet,
                LoadedIsValid
  <2> QED BY <2>1, ReadKeeps, ApplyEnvKeeps, NormaliseKeeps, CheckKeeps DEF Next
<1> QED BY InitInv, <1>1, PTL DEF Spec

\* config.go:222: after normalise, no fallback is left to apply, in any
\* configuration file and environment.
THEOREM NothingIsLeftToDerive == Spec => []NormaliseIsFinal
<1>1. IInv => NormaliseIsFinal
  BY DEF IInv
<1> QED BY Invariant, <1>1, PTL

\* A configuration without problems has none of each device.
LEMMA ValidDevice ==
    ASSUME NEW c, NEW e, Validate(c, e) = {}, NEW i \in DOMAIN c.devices
    PROVE  LET d == c.devices[i] IN
           /\ d.host # "" /\ d.host \notin URL
           /\ d.name # "" => \A j \in 1 .. i - 1 : c.devices[j].name # d.name
           /\ d.api \in {"auto", "v1", "v2"}
           /\ d.api = "v2" => HasToken(d, e)
           /\ ~ (d.interval > 0 /\ d.interval < MinInterval)
<1> DEFINE check == DeviceChecks(c, i, e)
<1>1. DeviceProblems(c, i, e) = {}
  BY Zenon DEF Validate
<1>2. Failed(check) = {}
  BY <1>1, Zenon DEF DeviceProblems
<1>3. \A p \in DOMAIN check : ~ check[p]
  BY <1>2, Zenon DEF Failed
<1>4. DOMAIN check = {"host", "url", "name", "api", "token", "tls", "interval"}
  BY DEF DeviceChecks
<1> HIDE DEF check
<1>5. /\ ~ check.host /\ ~ check.url /\ ~ check.name /\ ~ check.api
      /\ ~ check.token /\ ~ check.tls /\ ~ check.interval
  BY <1>3, <1>4
<1> QED BY <1>5, Zenon DEF check, DeviceChecks

\* ... nor of the settings that all devices share.
LEMMA ValidSettings ==
    ASSUME NEW c \in Configuration, NEW e, Validate(c, e) = {}
    PROVE  /\ c.devices # <<>>
           /\ c.poll.interval >= MinInterval
           /\ c.poll.system > 0 /\ c.poll.timeout > 0
           /\ c.poll.stale > c.poll.interval
           /\ c.dashboard.enabled =>
                /\ c.dashboard.path \notin {c.server.metrics, <<>>}
                /\ c.dashboard.refresh > 0
<1> DEFINE check == Checks(c)
<1>1. Failed(check) = {}
  BY Zenon DEF Validate, GlobalProblems
<1>2. \A p \in DOMAIN check : ~ check[p]
  BY <1>1, Zenon DEF Failed
<1>3. {"devices", "poll", "system", "timeout", "stale", "path", "both", "refresh"}
            \subseteq DOMAIN check
  BY DEF Checks
<1> HIDE DEF check
<1>4. /\ ~ check.devices /\ ~ check.poll /\ ~ check.system /\ ~ check.timeout
      /\ ~ check.stale /\ ~ check.path /\ ~ check.both /\ ~ check.refresh
  BY <1>2, <1>3
<1>5. /\ c.devices # <<>>
      /\ ~ (c.poll.interval < MinInterval)
      /\ ~ (c.poll.system <= 0) /\ ~ (c.poll.timeout <= 0)
      /\ ~ (c.poll.stale <= c.poll.interval)
      /\ c.dashboard.enabled => /\ c.dashboard.path # c.server.metrics
                                /\ c.dashboard.path # <<>>
                                /\ ~ (c.dashboard.refresh <= 0)
  BY <1>4, Zenon DEF check, Checks
<1>6. /\ c.poll.interval \in Int /\ c.poll.system \in Int
      /\ c.poll.timeout \in Int /\ c.poll.stale \in Int
      /\ c.dashboard.refresh \in Int
  BY DEF Configuration
<1> QED BY <1>5, <1>6, MinIntervalAssumption

\* What Load returns can be polled: whatever the file and the environment say,
\* names are there, are not repeated and need no trimming, intervals are set,
\* and every v2 device has its token.
THEOREM LoadReturnsPollable == Spec => []AcceptedIsPollable
<1>1. IInv => AcceptedIsPollable
  <2> SUFFICES ASSUME IInv, stage = "loaded" PROVE AcceptedIsPollable
    BY DEF AcceptedIsPollable
  <2>1. /\ cfg \in Configuration /\ env \in Envs
        /\ normalise(cfg, env) = cfg /\ Validate(cfg, env) = {}
    BY DEF IInv, TypeOK, NormaliseIsFinal, LoadedIsValid
  <2>2. /\ DOMAIN cfg.devices = 1 .. Len(cfg.devices) /\ Len(cfg.devices) \in Nat
        /\ \A i \in DOMAIN cfg.devices : cfg.devices[i] \in Device
    BY <2>1 DEF Configuration
  <2>3. \A i \in DOMAIN cfg.devices :
            cfg.devices[i] = derived(cfg.devices[i], cfg, env)
    BY <2>1 DEF normalise, Configuration
  <2>4. \A i \in DOMAIN cfg.devices :
            LET d == cfg.devices[i] IN
            /\ d.name # "" /\ d.host # "" /\ d.host \notin URL
            /\ Trimmed[d.name] = d.name /\ Trimmed[d.host] = d.host
            /\ d.interval >= MinInterval
            /\ d.api \in {"auto", "v1", "v2"}
            /\ d.api = "v2" => HasToken(d, env)
    <3> SUFFICES ASSUME NEW i \in DOMAIN cfg.devices
                 PROVE  LET d == cfg.devices[i] IN
                        /\ d.name # "" /\ d.host # "" /\ d.host \notin URL
                        /\ Trimmed[d.name] = d.name /\ Trimmed[d.host] = d.host
                        /\ d.interval >= MinInterval
                        /\ d.api \in {"auto", "v1", "v2"}
                        /\ d.api = "v2" => HasToken(d, env)
      OBVIOUS
    <3> DEFINE d == cfg.devices[i]
    <3>1. d \in Device /\ d = derived(d, cfg, env)
      BY <2>2, <2>3
    <3>2. /\ d.host # "" /\ d.host \notin URL
          /\ d.api \in {"auto", "v1", "v2"}
          /\ d.api = "v2" => HasToken(d, env)
          /\ ~ (d.interval > 0 /\ d.interval < MinInterval)
      BY <2>1, ValidDevice
    <3> HIDE DEF d
    <3>3. d.host = Trimmed[d.host]
      BY <3>1 DEF derived, Device
    <3>4. d.name = IF Trimmed[d.name] = "" THEN Trimmed[d.host]
                                           ELSE Trimmed[d.name]
      BY <3>1 DEF derived, Device
    <3>5. d.name # "" /\ Trimmed[d.name] = d.name
      BY <3>1, <3>2, <3>3, <3>4, TextAssumption DEF Device
    <3>6. d.interval = IF d.interval <= 0 THEN cfg.poll.interval ELSE d.interval
      BY <3>1 DEF derived, Device
    <3>7. d.interval >= MinInterval
      <4>1. cfg.poll.interval >= MinInterval
        BY <2>1, ValidSettings
      <4>2. d.interval \in Int /\ cfg.poll.interval \in Int
        BY <2>1, <3>1 DEF Device, Configuration
      <4>3. ~ (d.interval > 0 /\ d.interval < MinInterval)
        BY <3>2
      <4>4. MinInterval \in Nat
        BY MinIntervalAssumption
      <4>5. CASE d.interval <= 0
        BY <3>6, <4>1, <4>5
      <4>6. CASE ~ (d.interval <= 0)
        BY <4>2, <4>3, <4>4, <4>6
      <4> QED BY <4>5, <4>6
    <3> QED BY <3>2, <3>3, <3>5, <3>7 DEF d
  <2>5. \A i, j \in DOMAIN cfg.devices :
            cfg.devices[i].name = cfg.devices[j].name => i = j
    <3>1. ASSUME NEW i \in DOMAIN cfg.devices, NEW j \in DOMAIN cfg.devices,
                 j < i
          PROVE  cfg.devices[i].name # cfg.devices[j].name
      <4>1. j \in 1 .. i - 1
        BY <2>2, <3>1
      <4>2. cfg.devices[i].name # ""
        BY <2>4
      <4> QED BY <2>1, <4>1, <4>2, ValidDevice
    <3>2. \A i, j \in DOMAIN cfg.devices : i = j \/ i < j \/ j < i
      BY <2>2
    <3> QED BY <3>1, <3>2
  <2>6. Each(cfg) # {}
    <3>1. cfg.devices # <<>> /\ cfg.devices \in Seq(Device)
      BY <2>1, ValidSettings DEF Configuration
    <3>2. 1 \in DOMAIN cfg.devices
      BY <3>1
    <3> QED BY <3>2 DEF Each
  <2>7. \A d \in Each(cfg) : \E i \in DOMAIN cfg.devices : d = cfg.devices[i]
    BY DEF Each
  <2>8. \A d \in Each(cfg) :
            /\ d.name # "" /\ d.host # "" /\ d.host \notin URL
            /\ Trimmed[d.name] = d.name /\ Trimmed[d.host] = d.host
            /\ d.interval >= MinInterval
            /\ d.api \in {"auto", "v1", "v2"}
            /\ d.api = "v2" => HasToken(d, env)
    BY <2>4, <2>7, Zenon
  <2>9. /\ cfg.poll.stale > cfg.poll.interval
        /\ cfg.poll.timeout > 0 /\ cfg.poll.system > 0
        /\ cfg.dashboard.enabled =>
                /\ cfg.dashboard.path \notin {cfg.server.metrics, <<>>}
                /\ cfg.dashboard.refresh > 0
    BY <2>1, ValidSettings
  <2> QED BY <2>5, <2>6, <2>8, <2>9, Zenon DEF AcceptedIsPollable
<1> QED BY Invariant, <1>1, PTL
=============================================================================
