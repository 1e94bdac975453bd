------------------------------- MODULE Poller -------------------------------
(***************************************************************************)
(* internal/poller: Run registers every configured device in the snapshot  *)
(* and starts one loop per device.  A loop connects when it has no client, *)
(* reads the measurement and then the secondary endpoints the device has,  *)
(* publishes each reading as it arrives, and sleeps for the interval or,   *)
(* after a failure, for an exponential backoff.                            *)
(*                                                                         *)
(* A step ends where another goroutine, the clock or a device can get in   *)
(* between: at every request and at the select.  store.Update is one step, *)
(* which is what SnapshotStore is shown to implement.                      *)
(*                                                                         *)
(* Time.  Only requests and timers take time.  A timestamp is an age (see  *)
(* Views), a timer the time it has left.  Tick advances them all, and may  *)
(* not pass the moment a timer expires or a request times out.             *)
(*                                                                         *)
(* Devices.  While serves[d][v] is "any", the device may give any response *)
(* to any request.  Settle(d) ends this: from then on the device behaves   *)
(* in one way for ever, which is what liveness properties speak about.     *)
(***************************************************************************)
EXTENDS Client, Views

CONSTANTS
    Devices,        \* Poller.devices: the configured names, in order
    Config,         \* name -> its APIVersion, Type and Interval settings
    ProductOf,      \* firmware -> the product type it reports
    APIOf,          \* firmware -> the API version it reports, as its parts
    TokenFile,      \* the states a token file may be in
    Settled,        \* the ways a device may settle: [Version -> Behaviour]
    Interval, SystemInterval, Timeout,  \* poll.*
    BackoffMin, BackoffMax,             \* as New leaves them
    JitterDivisor,                      \* 50
    MayCancel       \* whether Run's context is ever cancelled

Device   == {Devices[i] : i \in 1 .. Len(Devices)}
Firmware == DOMAIN APIOf

Behaviour == {"any", "ok", "denied", "gone", "dead"}

\* What Validate and New guarantee, and that ages outlast every threshold.
ASSUME DevicesAssumption ==
    /\ Devices \in Seq(STRING)
    /\ \A i, j \in 1 .. Len(Devices) : Devices[i] = Devices[j] => i = j
ASSUME ConfigAssumption ==
    /\ Config \in [Device -> [APIVersion : Version \cup {"auto"},
                              Type : STRING, Interval : Nat]]
    /\ Firmware \subseteq STRING /\ Firmware # {}
    /\ ProductOf \in [Firmware -> STRING]
    /\ APIOf \in [Firmware -> Seq(Int) \ {<<>>}]
    /\ TokenFile \subseteq {"absent", "present", "unreadable"}
    /\ TokenFile # {}
    /\ Settled \subseteq [Version -> Behaviour \ {"any"}]
    /\ MayCancel \in BOOLEAN
ASSUME TimesAssumption ==
    /\ {Interval, SystemInterval, Timeout, BackoffMin, BackoffMax,
        JitterDivisor} \subseteq Nat \ {0}
    /\ BackoffMin <= BackoffMax
    /\ StaleAfter > Interval
    /\ AgeCap >= SystemInterval

VARIABLES
    ctx,            \* "live", or "done" once the context is cancelled
    started,        \* how many devices Run has registered and started
    entry,          \* the snapshot: name -> Device, or Absent
    pc, client, backoff, timer, start, err,     \* locals of each loop
    dial,           \* locals of homewizard.New
    waited,         \* how long the request in flight has taken
    lastSuccess,    \* the poll_last_success_timestamp gauge, as an age
    serves, firmware, token     \* the devices, and their token files

loopVars == <<pc, client, backoff, timer, start, err, dial, waited>>
envVars  == <<serves, firmware, token>>
vars     == <<ctx, started, entry, lastSuccess, loopVars, envVars>>

Absent == [name |-> "none"]
None   == [version |-> "none"]
Hangup == [token |-> FALSE, versions |-> <<>>]     \* New is not running

\* store.Update on a name that is not in the table: &Device{Name: name}.
Blank ==
    [version |-> "", info |-> [product |-> "", firmware |-> ""], caps |-> {},
     MeasuredAt |-> Never, SystemAt |-> Never, StateAt |-> Never,
     BatteriesAt |-> Never]

\* Both are "" until the device has been identified.
Info == [product : STRING \cup {""}, firmware : Firmware \cup {""}]

Entry ==
    [version : Version \cup {""}, info : Info, caps : SUBSET Endpoint,
     MeasuredAt : Age, SystemAt : Age, StateAt : Age, BatteriesAt : Age]

ClientState ==
    [version : Version, token : BOOLEAN, info : Info, caps : SUBSET Endpoint]

Request == {"probe", "measurement", "state", "system", "batteries"}

JitterOfAnySize(d) == 0 .. d
jitter(d) == 0 .. (d \div JitterDivisor)

interval(d) == IF Config[d].Interval > 0 THEN Config[d].Interval ELSE Interval

\* The longest the loop of d may be told to sleep.
MaxSleep(d) ==
    LET longest == IF interval(d) > BackoffMax THEN interval(d) ELSE BackoffMax
    IN  longest + longest \div JitterDivisor

TypeOK ==
    /\ ctx \in {"live", "done"}
    /\ started \in 0 .. Len(Devices)
    /\ entry \in [Device -> Entry \cup {Absent}]
    /\ lastSuccess \in [Device -> Age]
    /\ pc \in [Device -> {"off", "wait", "observe", "stopped"} \cup Request]
    /\ client \in [Device -> ClientState \cup {None}]
    /\ backoff \in [Device -> BackoffMin .. BackoffMax]
    /\ timer \in [Device -> Nat] /\ \A d \in Device : timer[d] <= MaxSleep(d)
    /\ start \in [Device -> Age]
    /\ err \in [Device -> SUBSET Error]
    /\ dial \in [Device -> [token : BOOLEAN, versions : Seq(Version)]]
    /\ waited \in [Device -> 0 .. Timeout]
    /\ serves \in [Device -> [Version -> Behaviour]]
    /\ firmware \in [Device -> Firmware]
    /\ token \in [Device -> TokenFile]

-----------------------------------------------------------------------------
Init ==
    /\ ctx = "live"
    /\ started = 0
    /\ entry = [d \in Device |-> Absent]
    /\ lastSuccess = [d \in Device |-> Never]
    /\ pc = [d \in Device |-> "off"]
    /\ client = [d \in Device |-> None]
    /\ backoff = [d \in Device |-> BackoffMin]
    /\ timer = [d \in Device |-> 0]
    /\ start = [d \in Device |-> Never]
    /\ err = [d \in Device |-> {}]
    /\ dial = [d \in Device |-> Hangup]
    /\ waited = [d \in Device |-> 0]
    /\ serves = [d \in Device |-> [v \in Version |-> "any"]]
    /\ firmware \in [Device -> Firmware]
    /\ token \in [Device -> TokenFile]

\* The next iteration of Run's loop: put the device in the snapshot, so that
\* it is exported before it is first reached, and start its polling loop.
Register ==
    LET d == Devices[started + 1] IN
    /\ started < Len(Devices)
    /\ started' = started + 1
    /\ entry' = [entry EXCEPT ![d] = Blank]
    /\ pc' = [pc EXCEPT ![d] = "wait"]
    /\ UNCHANGED <<ctx, lastSuccess, client, backoff, timer, start, err, dial,
                   waited, envVars>>

\* Start a request, or finish the poll.
Goto(d, label) ==
    /\ pc' = [pc EXCEPT ![d] = label]
    /\ waited' = [waited EXCEPT ![d] = 0]

\* The select takes the timer.  With no client, New reads the token file and
\* sets out to probe; a file that cannot be read (or a CA file: newHTTPClient)
\* fails the connection before any request.
Select(d) ==
    /\ pc[d] = "wait" /\ timer[d] = 0
    /\ start' = [start EXCEPT ![d] = 0]
    /\ \/ /\ client[d] # None
          /\ Goto(d, "measurement")
          /\ UNCHANGED <<err, dial>>
       \/ /\ client[d] = None /\ token[d] = "unreadable"
          /\ err' = [err EXCEPT ![d] = {"other"}]
          /\ Goto(d, "observe")
          /\ UNCHANGED dial
       \/ /\ client[d] = None /\ token[d] # "unreadable"
          /\ dial' = [dial EXCEPT ![d] =
                [token    |-> token[d] = "present",
                 versions |-> probeOrder(Config[d].APIVersion,
                                         token[d] = "present")]]
          /\ Goto(d, "probe")
          /\ UNCHANGED err
    /\ UNCHANGED <<ctx, started, entry, lastSuccess, client, backoff, timer,
                   envVars>>

\* The select takes ctx.Done() and the loop returns.
IgnoresDone(d) == FALSE
Stop(d) ==
    /\ pc[d] = "wait" /\ ctx = "done"
    /\ pc' = [pc EXCEPT ![d] = "stopped"]
    /\ UNCHANGED <<ctx, started, entry, lastSuccess, client, backoff, timer,
                   start, err, dial, waited, envVars>>

\* What the device may answer.  A request whose context is cancelled fails.
Replies(d, version, hasToken, path) ==
    LET mood == serves[d][version] IN
    CASE ctx = "done" -> {NoAnswer}
      [] ctx = "live" /\ mood = "any"  -> Responses
      [] ctx = "live" /\ mood = "dead" -> {NoAnswer}
      [] ctx = "live" /\ mood = "gone" -> {Answer(404, "", "garbled")}
      [] ctx = "live" /\ mood = "denied" -> {Answer(401, "", "garbled")}
      [] ctx = "live" /\ mood = "ok" /\ version = "v2" /\ ~hasToken ->
            {Answer(401, "", "garbled")}
      [] ctx = "live" /\ mood = "ok" /\ (version = "v1" \/ hasToken) ->
            {Answer(200, "", "valid")} \cup
            (IF path \in {"state", "system", "batteries"}
             THEN {Answer(404, "", "garbled")} ELSE {})

\* The client New builds from a version that answered GET /api.
connected(d, version) ==
    LET product == IF Config[d].Type # "" THEN Config[d].Type
                                        ELSE ProductOf[firmware[d]]
    IN  [version |-> version, token |-> dial[d].token,
         info |-> [product |-> product, firmware |-> firmware[d]],
         caps |-> capabilitiesFor(product, APIOf[firmware[d]], version)]

IdentityWithoutCaps(e, c) ==
    [e EXCEPT !.version = c.version, !.info = c.info]
IdentityFromScratch(e, c) ==
    [Blank EXCEPT !.version = c.version, !.info = c.info, !.caps = c.caps]
publishIdentity(e, c) ==
    [e EXCEPT !.version = c.version, !.info = c.info, !.caps = c.caps]

\* GET /api on the version being tried.  The first that answers is kept and
\* published; after the last the connection has failed.
Probe(d) ==
    LET version == Head(dial[d].versions)
        others  == Tail(dial[d].versions)
    IN
    /\ pc[d] = "probe"
    /\ \E resp \in Replies(d, version, dial[d].token, "api") :
        \/ /\ fetchInfo(resp) = {}
           /\ client' = [client EXCEPT ![d] = connected(d, version)]
           /\ entry' = [entry EXCEPT ![d] =
                            publishIdentity(@, connected(d, version))]
           /\ err' = [err EXCEPT ![d] = {}]
           /\ dial' = [dial EXCEPT ![d] = Hangup]
           /\ Goto(d, "measurement")
        \/ /\ fetchInfo(resp) # {}
           /\ err' = [err EXCEPT ![d] = @ \cup fetchInfo(resp)]
           /\ dial' = [dial EXCEPT ![d] = IF others = <<>> THEN Hangup
                                          ELSE [@ EXCEPT !.versions = others]]
           /\ Goto(d, IF others = <<>> THEN "observe" ELSE "probe")
           /\ UNCHANGED <<client, entry>>
    /\ UNCHANGED <<ctx, started, lastSuccess, backoff, timer, start, envVars>>

\* Whether the slow endpoints are read again: only SystemAt counts.
DueByBatteries(e) == e.SystemAt = Never \/ e.BatteriesAt >= SystemInterval
due(e) == e.SystemAt = Never \/ e.SystemAt >= SystemInterval

AfterSystem(caps) == IF "batteries" \in caps THEN "batteries" ELSE "observe"

AfterState(caps, e) ==
    IF ~due(e) THEN "observe"
    ELSE IF "system" \in caps THEN "system" ELSE AfterSystem(caps)

AfterMeasurement(caps, e) ==
    IF "state" \in caps THEN "state" ELSE AfterState(caps, e)

\* The measurement: a failure is the failure of the poll.
SecondariesAnyway(d) ==
    /\ pc[d] = "measurement"
    /\ \E resp \in Replies(d, client[d].version, client[d].token, "data") :
        /\ entry' = [entry EXCEPT ![d].MeasuredAt =
                        IF do(resp) = {} THEN 0 ELSE @]
        /\ err' = [err EXCEPT ![d] = do(resp)]
    /\ Goto(d, AfterMeasurement(client[d].caps, entry[d]))
    /\ UNCHANGED <<ctx, started, lastSuccess, client, backoff, timer, start,
                   dial, envVars>>
Measurement(d) ==
    /\ pc[d] = "measurement"
    /\ \E resp \in Replies(d, client[d].version, client[d].token, "data") :
        \/ /\ do(resp) = {}
           /\ entry' = [entry EXCEPT ![d].MeasuredAt = 0]
           /\ Goto(d, AfterMeasurement(client[d].caps, entry[d]))
           /\ UNCHANGED err
        \/ /\ do(resp) # {}
           /\ err' = [err EXCEPT ![d] = do(resp)]
           /\ Goto(d, "observe")
           /\ UNCHANGED entry
    /\ UNCHANGED <<ctx, started, lastSuccess, client, backoff, timer, start,
                   dial, envVars>>

\* A secondary endpoint: its reading is published, or noteSecondary forgets
\* the endpoint if the device does not have it; the poll goes on either way.
Secondary(d, endpoint, at, label) ==
    /\ pc[d] = endpoint
    /\ \E resp \in Replies(d, client[d].version, client[d].token, endpoint) :
        \/ /\ do(resp) = {}
           /\ entry' = [entry EXCEPT ![d][at] = 0]
           /\ UNCHANGED client
        \/ /\ "ErrNotFound" \in do(resp)
           /\ client' = [client EXCEPT ![d].caps = Disable(@, endpoint)]
           /\ entry' = [entry EXCEPT ![d].caps =
                            Disable(client[d].caps, endpoint)]
        \/ /\ do(resp) # {} /\ "ErrNotFound" \notin do(resp)
           /\ UNCHANGED <<client, entry>>
    /\ Goto(d, label)
    /\ UNCHANGED <<ctx, started, lastSuccess, backoff, timer, start, err, dial,
                   envVars>>

State(d) ==
    Secondary(d, "state", "StateAt", AfterState(client[d].caps, entry[d]))

System(d) == Secondary(d, "system", "SystemAt", AfterSystem(client[d].caps))

Batteries(d) == Secondary(d, "batteries", "BatteriesAt", "observe")

\* The errors after which the loop drops its client and probes again.
RejectedButRetried(e) == "ErrAPIDisabled" \in e
rejected(e) == e \cap {"ErrUnauthorized", "ErrAPIDisabled"} # {}

DoubledForEver(b) == 2 * b
doubled(b) == IF 2 * b > BackoffMax THEN BackoffMax ELSE 2 * b

\* metrics.observe returns early on an error.
ObservedAnyway(d) == lastSuccess' = [lastSuccess EXCEPT ![d] = 0]
observe(d) ==
    lastSuccess' = [lastSuccess EXCEPT ![d] = IF err[d] = {} THEN 0 ELSE @]

\* The end of an iteration: the loop returns, or its timer is reset to the
\* interval or the backoff.
GivesUp(d) == ctx = "done" \/ err[d] # {}
returns(d) == ctx = "done"

Observe(d) ==
    LET next == IF err[d] = {} THEN interval(d) ELSE backoff[d] IN
    /\ pc[d] = "observe"
    /\ observe(d)
    /\ err' = [err EXCEPT ![d] = {}]
    /\ \/ /\ returns(d)
          /\ pc' = [pc EXCEPT ![d] = "stopped"]
          /\ UNCHANGED <<client, backoff, timer>>
       \/ /\ ~returns(d)
          /\ pc' = [pc EXCEPT ![d] = "wait"]
          /\ client' = [client EXCEPT ![d] =
                            IF rejected(err[d]) THEN None ELSE @]
          /\ backoff' = [backoff EXCEPT ![d] =
                            IF err[d] = {} THEN BackoffMin ELSE doubled(@)]
          /\ \E j \in jitter(next) : timer' = [timer EXCEPT ![d] = next + j]
    /\ UNCHANGED <<ctx, started, entry, start, dial, waited, envVars>>

Loop(d) ==
    \/ Select(d) \/ Stop(d) \/ Probe(d) \/ Measurement(d) \/ State(d)
    \/ System(d) \/ Batteries(d) \/ Observe(d)

-----------------------------------------------------------------------------
\* Time passes while every loop sleeps or waits for an answer.
Tick ==
    /\ ctx = "live" /\ started = Len(Devices)
    /\ \A d \in Device :
        /\ pc[d] # "observe"
        /\ pc[d] = "wait" => timer[d] > 0
        /\ pc[d] \in Request => waited[d] < Timeout
    /\ timer' = [d \in Device |-> IF pc[d] = "wait" THEN timer[d] - 1
                                                    ELSE timer[d]]
    /\ waited' = [d \in Device |-> IF pc[d] \in Request THEN waited[d] + 1
                                                        ELSE waited[d]]
    /\ start' = [d \in Device |-> Older(start[d])]
    /\ lastSuccess' = [d \in Device |-> Older(lastSuccess[d])]
    /\ entry' = [d \in Device |->
            [entry[d] EXCEPT !.MeasuredAt = Older(@), !.SystemAt = Older(@),
                             !.StateAt = Older(@), !.BatteriesAt = Older(@)]]
    /\ UNCHANGED <<ctx, started, pc, client, backoff, err, dial, envVars>>

\* The signal handler cancels the context.
Cancel ==
    /\ MayCancel /\ ctx = "live"
    /\ ctx' = "done"
    /\ UNCHANGED <<started, entry, lastSuccess, loopVars, envVars>>

\* The device stops misbehaving in new ways.
Settle(d) ==
    /\ serves[d] = [v \in Version |-> "any"]
    /\ \E s \in Settled : serves' = [serves EXCEPT ![d] = s]
    /\ UNCHANGED <<ctx, started, entry, lastSuccess, loopVars, firmware, token>>

\* Until it settles, a device may be given another firmware, and the pair
\* command or the administrator may write or remove its token file.
Change(d) ==
    /\ serves[d] = [v \in Version |-> "any"]
    /\ \/ /\ \E f \in Firmware :
                /\ ProductOf[f] = ProductOf[firmware[d]]
                /\ firmware' = [firmware EXCEPT ![d] = f]
          /\ UNCHANGED token
       \/ /\ \E t \in TokenFile : token' = [token EXCEPT ![d] = t]
          /\ UNCHANGED firmware
    /\ UNCHANGED <<ctx, started, entry, lastSuccess, loopVars, serves>>

Next ==
    \/ Register \/ Tick \/ Cancel
    \/ \E d \in Device : Loop(d) \/ Settle(d) \/ Change(d)

Spec == Init /\ [][Next]_vars

\* The scheduler runs every goroutine, http.Client.Timeout ends every request,
\* and the clock does not stop.
Fairness ==
    /\ WF_vars(Register) /\ WF_vars(Tick)
    /\ \A d \in Device : WF_vars(Loop(d))

FairSpec == Spec /\ Fairness
-----------------------------------------------------------------------------
\* The published snapshot, as the readers get it.
Snapshot == [d \in {e \in Device : entry[e] # Absent} |-> entry[d]]

Up(d) == entry[d] # Absent /\ Fresh(entry[d])

Resting(d) == pc[d] \in {"wait", "stopped"}

\* Between polls, the last-success metric vouches for every reading in the
\* snapshot: nothing was published after the poll it dates from, and it is
\* unset exactly when no measurement was ever read.
LastSuccessCoversReadings ==
    \A d \in Device : Resting(d) =>
        /\ lastSuccess[d] <= LastUpdate(entry[d])
        /\ lastSuccess[d] = Never <=> entry[d].MeasuredAt = Never

\* Fresh looks at the newest reading of any kind, yet a device that counts as
\* up also has a recent measurement: the secondary reads that can make it look
\* fresher end at most two requests after the measurement they follow.
UpBoundsMeasurementAge ==
    \A d \in Device : Up(d) => entry[d].MeasuredAt < StaleAfter + 2 * Timeout

\* No sequence of slow answers, failures and backoffs makes a loop abandon its
\* device: the next poll starts at most five requests (two probes, the
\* measurement, two secondary reads) and one sleep after the last one did.
PollGapBounded ==
    \A d \in Device : (pc[d] \notin {"off", "stopped"} /\ start[d] # Never) =>
        start[d] <= 5 * Timeout + MaxSleep(d)

\* The slow endpoints share one timestamp and one connection after the other,
\* yet through failures, endpoints that go and reconnections the system reading
\* is never replaced sooner than SystemInterval after it was taken.
SystemPaced ==
    [][\A d \in Device :
        (/\ entry[d] # Absent
         /\ entry[d].SystemAt # Never
         /\ entry'[d].SystemAt < entry[d].SystemAt)
            => entry[d].SystemAt >= SystemInterval]_vars

\* The identity and capabilities in the snapshot are the ones the loop acts
\* on, and no reading is exported before the device has been identified.
PublishedIdentity ==
    \A d \in Device :
        /\ client[d] # None =>
            \A field \in {"version", "info", "caps"} :
                entry[d][field] = client[d][field]
        /\ (entry[d] # Absent /\ LastUpdate(entry[d]) # Never) =>
            entry[d].version \in Version

\* The three health reports never contradict each other: /healthz succeeds
\* exactly when some homewizard_up is 1 and when the dashboard says up.
HealthAgreement ==
    LET scrape == Collect(Snapshot) IN
    /\ Healthz(Snapshot) <=> \E d \in DOMAIN Snapshot : scrape.up[d] = 1
    /\ Healthz(Snapshot) <=> buildView(Snapshot).up
    /\ buildView(Snapshot).status = "ok" =>
        \A d \in DOMAIN Snapshot : scrape.up[d] = 1
    /\ \A d \in DOMAIN Snapshot :
        scrape.up[d] = 1 => "MeasuredAt" \in scrape.readings[d]

\* What a scrape shows of a device whose entry is e.
StatusOf(e) == IF e = Absent THEN "unknown"
               ELSE IF e.version = "" THEN "listed" ELSE "identified"
MeasuredOf(e) == IF e = Absent THEN Never ELSE e.MeasuredAt
UpdatedOf(e)  == IF e = Absent THEN Never ELSE LastUpdate(e)

Statuses == [d \in Device |-> StatusOf(entry[d])]
Measured == [d \in Device |-> MeasuredOf(entry[d])]
Updated  == [d \in Device |-> UpdatedOf(entry[d])]

Shown == INSTANCE Exporter WITH
    Lag <- 2 * Timeout, status <- Statuses, measured <- Measured,
    updated <- Updated, succeeded <- lastSuccess

\* Everything a scrape can see of the loops, at any time, is a behaviour of
\* Exporter: each step that publishes is one of its steps, on one device, and
\* no other step shows.
ImplementsExporter == Shown!Spec

-----------------------------------------------------------------------------
\* A device that from now on serves both API generations, with its token file
\* in place, comes back and then never goes stale again, whatever went wrong
\* before: stale_after leaves room for a sleep, its jitter and three requests.
StaysFreshWhenServed ==
    \A d \in Device :
        (/\ serves[d] = [v \in Version |-> "ok"]
         /\ token[d] = "present")
            ~> [](ctx = "done" \/ Up(d))

\* Every loop polls again and again until the context is cancelled.
KeepsPolling == \A d \in Device : []<>(pc[d] = "observe" \/ ctx = "done")

\* Once the context is cancelled, every loop ends and Run returns.
ShutdownCompletes ==
    ctx = "done" ~> (\A d \in Device : pc[d] = "stopped")
-----------------------------------------------------------------------------
(* The inductive invariant behind the safety properties: what each of them   *)
(* comes down to at every point of a poll.                                   *)

\* Run has put in the snapshot exactly the devices whose loops it started.
Registered ==
    \A i \in 1 .. Len(Devices) :
        LET d == Devices[i] IN
        /\ pc[d] = "off" <=> i > started
        /\ pc[d] = "off" => /\ entry[d] = Absent /\ client[d] = None
                            /\ err[d] = {} /\ start[d] = Never
                            /\ lastSuccess[d] = Never
        /\ pc[d] # "off" => entry[d] \in Entry

\* What the locals hold at each point of an iteration.
LocalsFitPC(d) ==
    /\ pc[d] \in {"measurement", "state", "system", "batteries"} =>
            client[d] # None
    /\ pc[d] = "probe" => Len(dial[d].versions) \in {1, 2}
    /\ pc[d] \notin {"probe", "observe"} => err[d] = {}
    /\ client[d] # None =>
            ~({"state", "batteries"} \subseteq client[d].caps)
    /\ pc[d] = "state" => "state" \in client[d].caps
    /\ pc[d] = "batteries" => "batteries" \in client[d].caps
    /\ pc[d] = "system" => due(entry[d])

\* How old the measurement may be, measured in requests.
MeasurementAge(d) ==
    LET e == entry[d] IN
    /\ \A at \in {"SystemAt", "StateAt", "BatteriesAt"} :
            e[at] # Never => e.MeasuredAt # Never
                             /\ e.MeasuredAt <= e[at] + 2 * Timeout
    /\ pc[d] = "state" => e.MeasuredAt <= waited[d]
    /\ pc[d] \in {"system", "batteries"} => e.MeasuredAt <= Timeout + waited[d]
    /\ pc[d] = "system" /\ "batteries" \in client[d].caps =>
            e.MeasuredAt <= waited[d]
    /\ pc[d] = "observe" /\ err[d] = {} => e.MeasuredAt <= 2 * Timeout

\* How long ago the iteration started, measured in requests.
PollAge(d) ==
    LET T == Timeout IN
    /\ pc[d] = "probe" => start[d] <= T + waited[d]
    /\ pc[d] = "probe" /\ Len(dial[d].versions) = 2 => start[d] <= waited[d]
    /\ pc[d] = "measurement" => start[d] <= 2 * T + waited[d]
    /\ pc[d] = "state" => start[d] <= 3 * T + waited[d]
    /\ pc[d] \in {"system", "batteries"} => start[d] <= 4 * T + waited[d]
    /\ pc[d] = "system" /\ "batteries" \in client[d].caps =>
            start[d] <= 3 * T + waited[d]
    /\ pc[d] = "observe" => start[d] <= 5 * T
    /\ pc[d] = "wait" /\ start[d] # Never =>
            start[d] + timer[d] <= 5 * T + MaxSleep(d)

\* No reading is younger than the last success, until this poll reads one.
Covered(d) ==
    /\ lastSuccess[d] <= LastUpdate(entry[d])
    /\ lastSuccess[d] = Never <=> entry[d].MeasuredAt = Never

SuccessCovers(d) ==
    IF \/ pc[d] \in {"wait", "stopped", "probe", "measurement"}
       \/ pc[d] = "observe" /\ err[d] # {}
    THEN Covered(d) ELSE entry[d].MeasuredAt # Never

\* Readings and identity.
Identified(d) ==
    /\ client[d] # None =>
        /\ entry[d].version = client[d].version
        /\ entry[d].info = client[d].info
        /\ entry[d].caps = client[d].caps
    /\ entry[d].MeasuredAt # Never => entry[d].version \in Version

DeviceInv(d) ==
    /\ LocalsFitPC(d) /\ MeasurementAge(d) /\ PollAge(d)
    /\ SuccessCovers(d) /\ Identified(d)

IInv == TypeOK /\ Registered /\ \A d \in Device : pc[d] # "off" => DeviceInv(d)
=============================================================================
