------------------------------- MODULE Config -------------------------------
(***************************************************************************)
(* internal/config: Load reads the file over the defaults, applies the     *)
(* environment, fills in what is derived, and validates.  What it accepts  *)
(* is what poller.New and web.New are handed.                              *)
(*                                                                         *)
(* A text is a member of Text; what TrimSpace, the "://" test and          *)
(* TokenEnvVar make of it is given by Trimmed, URL and VarOf.  A path is   *)
(* the sequence of its parts: "/" is <<"">>, "/a" is <<"a">>, "/a/" is     *)
(* <<"a", "">>; <<>> stands for one that does not begin with a slash.      *)
(* Durations are numbers.                                                  *)
(***************************************************************************)
EXTENDS Integers, Sequences, FiniteSets

CONSTANTS
    Text, Trimmed, URL, VarOf,
    Word,       \* the texts that are not trimmed: addresses, tokens, levels...
    MinInterval,
    Files,      \* [holds, config]: what the config file may hold, and the
                \* configuration its settings make of the defaults
    Envs        \* what the environment may hold

ASSUME TextAssumption ==
    /\ "" \in Text /\ URL \subseteq Text \ {""}
    /\ Trimmed \in [Text -> Text] /\ Trimmed[""] = ""
    /\ \A t \in Text : Trimmed[Trimmed[t]] = Trimmed[t]
    /\ DOMAIN VarOf = Text
ASSUME MinIntervalAssumption == MinInterval \in Nat \ {0}

\* The Go types, as far as they are used.
Device ==
    [name : Text, host : Text, api : Word, token : Word, tokenFile : Word,
     tls : Word, interval : Int]
Configuration ==
    [devices   : Seq(Device),
     poll      : [interval : Int, system : Int, timeout : Int, stale : Int],
     server    : [listen : Word, metrics : Seq(Word)],
     dashboard : [enabled : BOOLEAN, path : Seq(Word), refresh : Int],
     log       : [level : Word, format : Word]]
Environment ==
    [devices : Seq(Text), dashboard : Word, paths : SUBSET Word,
     listen : Word, level : Word, format : Word,
     tokens : [{VarOf[t] : t \in Text} -> Word]]

ASSUME InputAssumption ==
    /\ {"", ":9833", "metrics", "info", "text", "auto", "verify"} \subseteq Word
    /\ Files \subseteq [holds : {"missing", "garbage", "comments", "settings"},
                        config : Configuration]
    /\ Envs \subseteq Environment

VARIABLES
    stage,      \* "read", "env", "normalise", "validate", "loaded", "failed"
    file, env,  \* the inputs
    cfg,        \* the configuration so far
    problems    \* what Validate reports

vars == <<stage, file, env, cfg, problems>>

Default ==
    [devices   |-> <<>>,
     poll      |-> [interval |-> 10, system |-> 60, timeout |-> 5, stale |-> 60],
     server    |-> [listen |-> ":9833", metrics |-> <<"metrics">>],
     dashboard |-> [enabled |-> FALSE, path |-> <<"">>, refresh |-> 10],
     log       |-> [level |-> "info", format |-> "text"]]

\* A device of which only the host is known.
Bare(host) ==
    [name |-> "", host |-> host, api |-> "", token |-> "", tokenFile |-> "",
     tls |-> "", interval |-> 0]

-----------------------------------------------------------------------------
Init ==
    /\ stage = "read"
    /\ file \in Files /\ env \in Envs
    /\ cfg = Default
    /\ problems = {}

\* The file may be missing, or no YAML for a Config.  One without settings, only
\* comments, is not decoded; neither is the file that was not given.
Read ==
    /\ stage = "read"
    /\ \/ /\ file.holds \in {"missing", "garbage"}
          /\ stage' = "failed" /\ UNCHANGED cfg
       \/ /\ file.holds = "comments"
          /\ stage' = "env" /\ UNCHANGED cfg
       \/ /\ file.holds = "settings"
          /\ stage' = "env" /\ cfg' = file.config
    /\ UNCHANGED <<file, env, problems>>

\* HOMEWIZARD_DEVICES is a list of hosts; blank ones are skipped.  The i-th known
\* host is at the place up to which there are i of them.
Known(hosts) == {p \in DOMAIN hosts : Trimmed[hosts[p]] # ""}
Rank(hosts, p) == Cardinality({q \in Known(hosts) : q <= p})
place(hosts, i) == CHOOSE p \in Known(hosts) : Rank(hosts, p) = i
EnvDevices(hosts) ==
    [i \in 1 .. Cardinality(Known(hosts)) |->
        Bare(Trimmed[hosts[place(hosts, i)]])]

Override(value, setting) == IF value = "" THEN setting ELSE value

applyEnv(c, e) ==
    [c EXCEPT
        !.devices = @ \o EnvDevices(e.devices),
        !.server.listen = Override(e.listen, @),
        !.log.level = Override(e.level, @),
        !.log.format = Override(e.format, @),
        !.dashboard.enabled = IF e.dashboard \in {"true", "false"}
                              THEN e.dashboard = "true" ELSE @]

ApplyEnv ==
    /\ stage = "env"
    /\ stage' = "normalise"
    /\ cfg' = applyEnv(cfg, env)
    /\ UNCHANGED <<file, env, problems>>

\* The values that are derived rather than configured.
derived(d, c, e) ==
    LET host == Trimmed[d.host]
        name == IF Trimmed[d.name] = "" THEN host ELSE Trimmed[d.name]
    IN  [d EXCEPT
            !.host = host, !.name = name,
            !.api = IF @ = "" THEN "auto" ELSE @,
            !.tls = IF @ = "" THEN "verify" ELSE @,
            !.interval = IF @ <= 0 THEN c.poll.interval ELSE @,
            !.token = Override(e.tokens[VarOf[name]], @)]

\* Two ways to get it wrong: the interval forgotten, the name taken too early.
WithoutInterval(d, c, e) ==
    [derived(d, c, e) EXCEPT !.interval = d.interval]
UntrimmedName(d, c, e) ==
    [derived(d, c, e) EXCEPT !.name = IF Trimmed[d.name] = "" THEN d.host ELSE @]

normaliseEarly(c, e) ==
    [c EXCEPT !.devices =
        [i \in DOMAIN c.devices |-> UntrimmedName(c.devices[i], c, e)]]
normaliseIntervals(c, e) ==
    [c EXCEPT !.devices =
        [i \in DOMAIN c.devices |-> WithoutInterval(c.devices[i], c, e)]]
normalise(c, e) ==
    [c EXCEPT !.devices =
        [i \in DOMAIN c.devices |-> derived(c.devices[i], c, e)]]

Normalise ==
    /\ stage = "normalise"
    /\ stage' = "validate"
    /\ cfg' = normalise(cfg, env)
    /\ UNCHANGED <<file, env, problems>>

-----------------------------------------------------------------------------
\* Whether a v2 token is there, without reading it.
HasToken(d, e) == d.token # "" \/ (d.tokenFile # "" /\ d.tokenFile \in e.paths)

\* Each problem a device may have, and when it is reported.
DeviceChecks(c, i, e) ==
    LET d == c.devices[i] IN
    [host   |-> d.host = "",
     url    |-> d.host \in URL,
     name   |-> d.name # "" /\ \E j \in 1 .. i - 1 : c.devices[j].name = d.name,
     api    |-> d.api \notin {"auto", "v1", "v2"},
     token  |-> d.api = "v2" /\ ~HasToken(d, e),
     tls    |-> d.tls \notin {"verify", "insecure"},
     interval |-> d.interval > 0 /\ d.interval < MinInterval]

Failed(checks) == {p \in DOMAIN checks : checks[p]}

OnePlaceOff(c, i, e) == {<<i + 1, p>> : p \in Failed(DeviceChecks(c, i, e))}
DeviceProblems(c, i, e) == {<<i, p>> : p \in Failed(DeviceChecks(c, i, e))}

\* The problems of the rest.
Checks(c) ==
    LET on == c.dashboard.enabled IN
    [devices |-> c.devices = <<>>,
     poll    |-> c.poll.interval < MinInterval,
     system  |-> c.poll.system <= 0,
     timeout |-> c.poll.timeout <= 0,
     stale   |-> c.poll.stale <= 0 \/ c.poll.stale <= c.poll.interval,
     listen  |-> c.server.listen = "",
     metrics |-> c.server.metrics = <<>>,
     path    |-> on /\ c.dashboard.path = <<>>,
     both    |-> on /\ c.dashboard.path = c.server.metrics,
     refresh |-> on /\ c.dashboard.refresh <= 0,
     level   |-> c.log.level \notin {"debug", "info", "warn", "error"},
     format  |-> c.log.format \notin {"text", "json"}]

GlobalProblems(c) == {<<0, p>> : p \in Failed(Checks(c))}

Validate(c, e) ==
    GlobalProblems(c) \cup
    UNION {DeviceProblems(c, i, e) : i \in DOMAIN c.devices}

Check ==
    /\ stage = "validate"
    /\ problems' = Validate(cfg, env)
    /\ stage' = IF problems' = {} THEN "loaded" ELSE "failed"
    /\ UNCHANGED <<file, env, cfg>>

Next == Read \/ ApplyEnv \/ Normalise \/ Check

Spec == Init /\ [][Next]_vars

-----------------------------------------------------------------------------
TypeOK ==
    /\ stage \in {"read", "env", "normalise", "validate", "loaded", "failed"}
    /\ env \in Envs /\ file.config \in Configuration
    /\ cfg \in Configuration
    /\ problems \subseteq
        (0 .. Len(cfg.devices)) \X
        {"host", "url", "name", "api", "token", "tls", "interval", "devices",
         "poll", "system", "timeout", "stale", "listen", "metrics", "path",
         "both", "refresh", "level", "format"}

Each(c) == {c.devices[i] : i \in DOMAIN c.devices}

\* What poller.New, the client, the collector and web.New take for granted of a
\* configuration that Load returned.  Names label series and key the snapshot,
\* and no two devices share one although names may be given, trimmed, or
\* taken from a host of the file or of the environment.  A dashboard that only
\* the environment switches on has a place of its own, too.
AcceptedIsPollable ==
    stage = "loaded" =>
        /\ Each(cfg) # {}
        /\ \A i, j \in DOMAIN cfg.devices :
                cfg.devices[i].name = cfg.devices[j].name => i = j
        /\ \A d \in Each(cfg) :
                /\ d.name # "" /\ d.host # "" /\ d.host \notin URL
                /\ Trimmed[d.name] = d.name /\ Trimmed[d.host] = d.host
                /\ d.interval >= MinInterval
                /\ d.api \in {"auto", "v1", "v2"}
                /\ d.api = "v2" => HasToken(d, env)
        /\ cfg.poll.stale > cfg.poll.interval
        /\ cfg.poll.timeout > 0 /\ cfg.poll.system > 0
        /\ cfg.dashboard.enabled =>
                /\ cfg.dashboard.path \notin {cfg.server.metrics, <<>>}
                /\ cfg.dashboard.refresh > 0

\* "everything downstream can read them without repeating the fallbacks"
\* (config.go:222): after normalise, no fallback is left to apply.
NormaliseIsFinal ==
    stage \in {"validate", "loaded"} => normalise(cfg, env) = cfg

-----------------------------------------------------------------------------
\* The inductive invariant behind AcceptedIsPollable: what was accepted is final,
\* and Validate has nothing to say of it.
LoadedIsValid == stage = "loaded" => Validate(cfg, env) = {}
NothingFoundYet == stage \notin {"loaded", "failed"} => problems = {}
IInv == TypeOK /\ NormaliseIsFinal /\ NothingFoundYet /\ LoadedIsValid
=============================================================================
