------------------------------ MODULE MCConfig ------------------------------
(* Small instances of Config for TLC. *)
EXTENDS Config

MCText == {"", "p-1", " p-1", "p 1", "http://p"}
MCTrimmed == [t \in MCText |-> IF t = " p-1" THEN "p-1" ELSE t]
MCVarOf == [t \in MCText |-> IF t = "" THEN "" ELSE
                             IF t = "http://p" THEN "HTTP___P" ELSE "P_1"]

Vars == {MCVarOf[t] : t \in MCText}

MCWord == STRING

NoTokens == [v \in Vars |-> ""]

EnvOf(devices, dashboard, tokens, paths) ==
    [devices |-> devices, listen |-> "", level |-> "", format |-> "",
     dashboard |-> dashboard, tokens |-> tokens, paths |-> paths]

\* Up to two devices, named or not, whose token files may be missing.
SomeDevices ==
    {[name |-> n, host |-> h, api |-> a, token |-> "", tokenFile |-> "f",
      tls |-> "", interval |-> i] :
        n \in {"", " p-1", "p 1"}, h \in {"", " p-1", "p 1", "http://p"},
        a \in {"", "v2"}, i \in {0, 1, 70}}

Lists == {<<>>} \cup {<<d>> : d \in SomeDevices}
                \cup (SomeDevices \X SomeDevices)

File(holds, config) == [holds |-> holds, config |-> config]

DeviceFiles ==
    {File("settings", [Default EXCEPT !.devices = ds, !.poll.stale = s]) :
        ds \in Lists, s \in {0, 60}}
    \cup {File(h, Default) : h \in {"comments", "missing", "garbage"}}

DeviceEnvs ==
    {EnvOf(ds, "", NoTokens, {}) : ds \in {<<>>, <<" p-1">>}}
    \cup {EnvOf(<<>>, "", [v \in Vars |-> "t"], {}),
          EnvOf(<<>>, "", NoTokens, {"f"})}

\* One device, and the settings of the server and of the dashboard.
Paths == {<<>>, <<"">>, <<"metrics">>, <<"healthz">>, <<"api", "snapshot">>}

ServerFiles ==
    {File("settings", [Default EXCEPT !.devices = <<Bare("p 1")>>,
                            !.server.metrics = m, !.dashboard.path = p,
                            !.dashboard.refresh = r, !.log.level = l]) :
        m \in Paths, p \in Paths \cup {<<"ui", "">>}, r \in {0, 10},
        l \in {"info", "loud"}}

ServerEnvs ==
    {EnvOf(<<>>, d, NoTokens, {}) : d \in {"true", "false", "on"}}

MCFiles == DeviceFiles \cup ServerFiles
MCEnvs  == DeviceEnvs \cup ServerEnvs
=============================================================================
