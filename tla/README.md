# Verification of homewizard_exporter

homewizard_exporter polls HomeWizard energy meters on the local network and
exports what they report to Prometheus. This directory holds TLA+ modules that
model it, TLC configurations that check small instances of them, and proofs,
checked by TLAPS, that the most important properties hold in every instance.

    tlc -config MCPoller.cfg MCPoller        # check one run
    tlapm PollerProofs.tla                   # check the proofs of a module

`PROJECT.json` lists the runs, maps every definition to the lines it is
translated from, and lists the hazards, the findings and the theorems.

## 1. The system

| Component | Source | State it keeps | Operations |
| --- | --- | --- | --- |
| snapshot store | `internal/snapshot` | an atomic pointer to an immutable map of devices; a mutex for writers | `Update`, `Load` |
| poller | `internal/poller` | per device: client, backoff, timer; the last-success gauge | `Run`, `loop`, `connect`, `poll`, `pollSlow`, `Healthz` |
| client | `internal/homewizard` | the API generation and capabilities it is pinned to, a token | `New` (probing), one GET per endpoint, `Disable` |
| pairing | `homewizard/pair.go`, `cmd/.../pair.go` | the token being obtained; a file | wait for the button, create a user, write the token |
| configuration | `internal/config` | none after start | `Load` = decode, `applyEnv`, `normalise`, `Validate` |
| collector | `internal/metrics` | none | `Collect`: one pass over a loaded snapshot |
| web server, dashboard | `internal/web` | a listener, requests in flight; in the browser, the view drawn last | `/metrics`, `/healthz`, `/`, `api/snapshot`, shutdown |
| daemon | `cmd/.../main.go` | a context cancelled by a signal, a wait group | start everything, end everything |
| discovery | `internal/discovery`, `cmd/.../discover.go` | the devices found so far | two mDNS browses, merge, print a `devices:` block |
| command line, capture, build information, fake device | `cmd/` | none | sequential tools |

How they interact. The daemon starts one goroutine per device (`Poller.loop`)
and the HTTP server. The loops share nothing but the snapshot store: each
publishes every reading as soon as it arrives, by `Store.Update` with a closure.
Scrapes, the health check and the dashboard load the store and never touch a
device. A signal cancels one context, which the loops select on, which aborts
their requests, and which makes the server shut down. `pair` is another process:
it meets the daemon at the device and in the token file.

What is hard. Copy-on-write under concurrent writers and readers; partly failed
polls (a measurement without its secondary reads); a client pinned to an API
generation that the device stops serving; timers, backoffs and request timeouts
adding up against `stale_after`; cancellation at any point of a poll; three
readers that each decide whether a device is well.

What makes each component correct:

* *store*: an update is atomic and loses no other; a loaded snapshot never
  changes and never shows half of a reading; every `Update` returns.
* *poller*: a device that is up has a recent measurement; the last-success
  gauge and the readings agree; every device is polled again within a bounded
  time; a device that is well again becomes fresh again; the published identity
  is the one the loop acts on; the loops end when the context does.
* *readers*: `/healthz`, `homewizard_up` and the dashboard never disagree.
* *configuration*: what `Validate` accepts is what the poller relies on.
* *pairing*: success means one user on the device, which has accepted its token, and
  with `-o` that token in the file; a failure before the device has accepted a new
  token leaves the old one there.
* *discovery*: a device that answers is printed, under a name of its own.
* *daemon*: the process ends after a signal, and drains what is in flight.

## 2. Modules

| Module | What it models |
| --- | --- |
| `DeviceTable` | the promise of the store: a table whose updates are atomic |
| `SnapshotStore` | `snapshot.Store` with an explicit heap, one step per shared access |
| `SnapshotStoreProofs` | its invariant, its properties, and that it implements `DeviceTable` |
| `Client` | pure: classification of responses, order of the probes, capabilities |
| `Views` | pure: `LastUpdate`, `Fresh`, and what `Collect`, `Healthz` and `buildView` derive |
| `Poller` | `poller.go`: `Run` and the loops, with devices that may answer anything |
| `Exporter` | the promise to those who scrape: identity, then measurements, then what rests on them |
| `PollerProofs` | the invariant of `Poller`, the properties proved with it, and that it implements `Exporter` |
| `PollerClaims` | statements of the documentation about the poller that TLC refutes |
| `Daemon` | `runDaemon` and `Server.Run`: start, signal, drain, exit |
| `Process` | the daemon with the real loops of `Poller`; refines `Daemon` |
| `ProcessProofs` | that it does, for any number of loops; and that it ends as it should |
| `Measurement` | pure: an answer of either API generation to one `Measurement`, or an error |
| `Scrape` | from the house to the answer, the snapshot, the metrics and the dashboard |
| `ScrapeProofs` | that every timestamp is read back, every house decoded, and shown as it should be |
| `Config` | `config.Load`: file, environment, `normalise`, `Validate` |
| `ConfigProofs` | that what `Load` returns is final, and fit for the poller and the server |
| `Pairing` | the `pair` command, from the first request to the token printed or in its file |
| `PairingProofs` | the invariant of `Pairing` and the properties it implies |
| `Discovery` | the `discover` command: two browses, the merge, the printed block |
| `DiscoveryProofs` | that every device heard is printed once, under a name of its own |
| `Page` | the dashboard's script in a browser, against a daemon that may be restarted |
| `PageProofs` | how old what it shows may be, for any refresh, latency and number of fetches |
| `MCSnapshotStore`, `MCPoller`, `MCProcess`, `MCScrape`, `MCConfig`, `MCDiscovery` | small instances |

`Poller` extends `Client` and `Views`, so one module holds the loops together
with everything that reads what they publish; `Pairing` and `Discovery` extend
`Client`; `SnapshotStore` instantiates `DeviceTable` and `Poller` instantiates
`Exporter`, the abstract specifications they refine. `Daemon` composes the loops and the server at the level of who is
still running, and `Process` puts the loops of `Poller` in their place: its `loops` is
an expression over their `pc`, and `Daemon` with that expression is a property of it.
`Scrape` extends `Measurement` and `Client`: `Poller` and `Views` are about when something
is read and whether it is fresh, `Scrape` is about what is shown of it. `Config` stands before
them all: what `AcceptedIsPollable` says of an accepted configuration is what
`ConfigAssumption` and `TimesAssumption` of `Poller` assume.

Definitions carry the names of the code (`loop`'s parts are `Select`, `Probe`,
`Measurement`, ..., after the statement each stands for). A definition named for
a mistake (`SharePrevious`, `GivesUp`, `FillUnchecked`, ...) is a plausible bug
of the definition that follows it; it is used by nothing but the mutation check
listed in `PROJECT.json`.

### How the state corresponds to the code

*SnapshotStore.* The heap is explicit: `snapMem` maps references to maps of
devices, `devMem` references to devices, `current` is the atomic pointer. One
step is one access to memory another goroutine can see: lock, copy the map, copy
the device, two writes by the closure, link, publish, unlock, load. A reference
is allocated from those nothing reaches, as a garbage collector would.

*Poller.* `pc[d]` is where the loop of `d` is: `wait` (the select), the request
in flight, or `observe` (the end of the iteration). `client`, `backoff`, `timer`,
`start` and `err` are its locals, `dial` those of `homewizard.New`. A request and
the handling of its answer are one action that happens when the answer arrives,
so every other goroutine may act while it is in flight. A device is free to
answer with any of the ten classes of response the client tells apart, until it
settles; it may be given other firmware, and its token file may be written,
removed or made unreadable, at any time. `Store.Update` is one step here, which
the refinement proved for `SnapshotStore` justifies.

*Time* passes by the action `Tick`, only while every loop sleeps or waits for an
answer, and never beyond a request's timeout: local computation takes no time.
Timestamps are kept as ages, cut off at `AgeCap`, beyond which no threshold tells
them apart; `Never` is larger than any age. After the context is cancelled every
request fails at once and time stands still, because nothing after that depends
on it.

*Process.* The variables of `Poller`, and those of `Daemon` without `loops`. Time goes on
while the process lives.

*Scrape.* `entry` is one device of the snapshot; `read` in it has the endpoints whose
time of reading is set. `todo` are the endpoints the poll has yet to ask. A `*float64`
is a sequence of at most one number, so a series is emitted exactly when there is one.
An answer is the struct its JSON is decoded into, where a field that was not sent has
its zero value. What is left of a list of meters keeps its places, so that leaving one
out needs no recursion; the code closes the gaps, but nothing depends on them. A scrape is the
set of series the collector sends; `nth` tells apart those that one place in the code
emits, as a second series with the same labels would be an error of the registry and
not simply the same element. `house` is the truth the answers are made from; `seen`
and `told` remember it, and the last answers, for the properties. Which houses there
are, and what the other endpoints may answer, are constants: `House` is any house, of
meters with any readings and clocks. `HouseAssumption` asks that no two meters of a
house share an identifier, that the gas meter is one of the meters, of the type and
unit `v1.go` gives it, and that every meter that is heard is listed: a gas meter in
the flat fields of firmware that has a list, but missing in it, is excluded, as the
comment at `v1.go:201` says that both describe the same meter. `AnswerAssumption` asks
that no permission is repeated.

*Pairing.* `file` and `printed` are `""` for whatever is no whole token: `Truncate` and
`Fill` are the two halves of `os.WriteFile`, of which each may fail, and the second
also when the file is closed and the token is already in it; `PrintToken` is a `fmt.Println`
whose error nobody reads. In between the process may be killed.

*Discovery.* `block` is what is written to standard output; as in `pair`, whether the
writes succeed is not looked at.

*Page* keeps ages as well. A fetch is assumed to end within `Latency`; the script
itself sets no limit.

## 3. Plan

In order, the most important behaviour first:

1. `SnapshotStore` refining `DeviceTable`, with proofs: everything else relies on
   updates being atomic. Done.
2. `Client`, `Views`, `Poller`, with proofs: what is exported, and when. Done.
3. `Daemon`, `Config`, `Pairing`, `Discovery`, `Page`, with proofs: the rest of the
   process, and the commands beside it. Done.
4. `Process`, the daemon with the real polling loops, shown to implement both `Daemon`
   and `Poller`, with proofs. Done.
5. `Measurement` and `Scrape`, from an answer to a metric, for any houses and answers,
   with proofs. Done.
6. `Exporter`, what a scrape sees of the loops, and that `Poller` implements it, with
   proofs. Done.
7. Left: the totals of the dashboard; one module that puts what `Scrape` shows together
   with when `Poller` shows it.

## 4. The runs

| Run | Instance | Distinct states | Shows |
| --- | --- | --- | --- |
| `store` | 2 writers, 1 reader, 2 devices, 2 groups of readings | 63 000 | no torn reading, no loaded snapshot that changes; refines `DeviceTable` |
| `poller` | 1 device, a P1 Meter whose firmware may be changed or a socket; interval 2, system interval 3, timeout 1, backoff 1 to 2, stale after 3 | 530 000 | what the snapshot and the metrics may show, when, and the inductive invariant |
| `poller_live` | 1 P1 Meter that may settle and serve both APIs; a cancellation at any point | 257 000 | the loop keeps polling, ends when told to, and becomes fresh again; implements `Exporter` |
| `process` | the whole process: 1 P1 Meter, 1 request, `Serve` may fail, the token file may be unreadable, a signal at any point | 458 000 | refines `Daemon`; a regular exit is a clean one; a signal ends the process |
| `config` | 74 000 inputs: up to 2 devices of the file and 1 of the environment; paths, dashboard and log settings | 372 000 | an accepted configuration is one the poller and the server can use |
| `pairing` | 2 tokens, file or standard output, either of which may fail | 752 | what success means, what a failure costs, that the command ends |
| `discovery` | 3 devices on one or both services, a channel with room for 2 | 54 000 | what was heard is printed once, under a name of its own |
| `page` | refresh of 2.5 s, fetches of up to 2 s, 2 at a time | 423 000 | how old the page can be, that its age never stops, that it recovers |
| `scrape` | a P1 Meter in 108 states of its house and firmware, a socket, a water meter, a battery; both API generations | 66 000 | each reading is shown once, as it was last read, alike in metrics and dashboard |
| `claim_printed` | as `pairing` | violated | finding 1 of section 6 |
| `claim_back` | as `poller_live`, a device that settles on v2 only | violated | finding 2 |
| `claim_found` | as `discovery`, devices that answer promptly | violated | finding 3 |

`IInv`, and `ProcessInv` in `process`, is the inductive invariant the proofs use: TLC
checks it before the prover does. The type invariant is its first conjunct.

What the safety properties of the poller say:

* `UpBoundsMeasurementAge`: `Fresh` accepts a reading of any kind, so a device
  whose measurement fails could look fresh on its secondary reads. It cannot by
  much: those are only read after a measurement, so the measurement behind an
  `up` is younger than `stale_after` and two request timeouts.
* `PollGapBounded`: no sequence of slow answers, failures and doubled backoffs puts
  more than five requests and one sleep between the starts of two polls.
* `LastSuccessCoversReadings`: between polls, no reading is newer than the
  last-success gauge, which is unset exactly as long as nothing was measured.
* `PublishedIdentity`: the version and capabilities in the snapshot are those the
  loop acts on, also after endpoints were dropped and connections replaced.
* `HealthAgreement`: `/healthz`, `homewizard_up` and the dashboard agree on every
  snapshot, complete or not.
* `SystemPaced`: the slow endpoints share one timestamp; through failures, dropped
  endpoints and reconnections, the system reading is never replaced before
  `system_interval` has passed.

`ImplementsExporter`, checked in `poller_live`, says the same from the outside: what a
scrape can see of a device's status, its measurement, its newest reading and its last
success changes as `Exporter` allows. Nothing is read before the identity is known,
nothing is renewed but in the wake of a measurement, and nothing that was shown is
taken back, through disconnections, reconnections and dropped endpoints.

Those of `process` are those of `Daemon`, now of a process whose loops connect, wait
for answers and sleep. `ImplementsDaemon` is what makes `Daemon` an abstraction of it:
a loop ends only after the context has, from wherever it was.

Those of `scrape` relate what is shown to what the house was when the device last
answered:

* `NoDuplicateSeries`: the gas meter may arrive in the list, in the flat fields of
  older firmware, or in both; it is one series.
* `ShowsLastReading`: phases and external meters are shown under the same names on
  either generation and any firmware, with the times the device meant, and an
  answer with an impossible timestamp changes nothing.
* `SecondariesAreOneAnswer`: no field of an answer outlives it.
* `DashboardAgrees`: two pieces of code draw the same readings from a snapshot.

Why the bounds are enough.

* *store*: two writers are what it takes for one to publish over the other, a
  device both write and one that only one writes, and two groups of readings are
  what it takes to tear one. References are interchangeable, which is what the
  symmetry says; the view leaves out memory that nothing reaches and nothing
  reads. The proofs cover every other size.
* *poller*: times are small but keep their order (timeout < interval < system
  interval, backoff capped at its second doubling), and the jitter, a fraction of
  the sleep, is 0 or 1. `AgeCap` exceeds the longest gap the invariant allows, so
  a violation could not hide above it. One device is enough where the properties
  speak of one: loops share nothing but the store. `HealthAgreement` speaks of
  several, and is proved for any number. The P1 Meter goes from one firmware to the
  other and back at any time (`Change`), with the battery group or without. Its
  token is always there in this run, so that every connection may go through both
  probes; it comes and goes in `poller_live`, and its file cannot be read at times in
  `process`, of which `ProcessInv` has `IInv` of the poller as a part. The proofs cover every other value, and an explicit `api_version`: in all runs
  the device is configured as `auto`, which probes both generations.
* *poller_live*: no jitter, and one firmware, which serves both generations, so that
  `Change` only replaces the token file; before the device settles it may answer as in
  `poller`.
* *process*: every time is 1, which keeps all orders of a timer, a request and a
  signal; how long things take is the subject of `poller`. One loop is what main
  waits for, and one request is what a shutdown drains or cuts off.
* *scrape*: the P1 Meter has two wirings, of which one skips the second phase; a gas
  meter that may be listed without a value; a meter clock that is unset, right, or in
  a month 25; a time with leading zeros and a leap day; and the two older spellings of
  the identifier. Every quantity has a value of its own, so that none can pass for
  another. Any step from one house to any other is possible. The proofs cover every
  other house.
* *config*: `" p-1"`, `"p-1"` and `"p 1"` are names that collide after trimming, or
  only in their token variable; hosts serve as names; two devices are what a
  duplicate takes.
* *pairing*: a second token exists because an answer may be lost after the device
  has issued the first.
* *discovery*: the entries contain a device heard twice under two instance names,
  one without a serial, one without an address and one on the older service only.
* *page*: two fetches may be under way, since `Latency` is no shorter than the
  period; a refresh that is no whole number of seconds exercises the rounding.
  `AgeCap` is beyond the age that `ShownIsRecent` allows, as `PageAssumption` asks of
  every instance, so that no page is too old to be told from one that is not.

`CHECK_DEADLOCK FALSE` stands where the program or the modelled command really
ends: `process`, `pairing`, `discovery`, `config`, and `poller_live`, where the
context may be cancelled. The other runs check for deadlock: without a
cancellation the loops always go on, and so do the store and the page.

## 5. Fairness, and what it rests on

* `Poller`: weak fairness of `Register`, of each loop and of `Tick`. The Go scheduler
  runs every goroutine that can run, `http.Client.Timeout` ends every request, and
  the clock goes on. Nothing is assumed of a device until it settles, and nothing
  forces it to: `StaysFreshWhenServed` speaks of those that have.
* `Process`: weak fairness of the main goroutine, of `Register` and of each loop while
  the process lives. None of the clock or of a device: after a signal every request
  fails at once. Nothing makes a client read its answer, `Serve` return or a signal
  come; `Shutdown` has its own deadline.
* `Pairing`: weak fairness of the command, its ticker and its deadline. The user
  need not press anything.
* `Discovery`: weak fairness of the consumer and the clock, strong fairness of
  zeroconf closing its channel: it selects on its context while devices keep
  answering. That it does is what `discovery.go:59` says of it.
* `Page`: weak fairness of the browser's timers and callbacks. `PageCatchesUp` is
  conditional on the daemon staying reachable.

## 6. Where the code and its documentation differ

Three differences have a run that exhibits them.

1. `claim_printed`. `cmd/homewizard_exporter/pair.go:29`: "Creates a user on a
   HomeWizard device and prints the API token it issues." The error of the
   `fmt.Println` that prints it is ignored (`pair.go:81`) and `runPair` returns nil, so
   when standard output cannot be written, as on a full disk, the command succeeds, the
   user is on the device, and its token is lost. With `-o` the same failure is an error
   (`pair.go:90`). `SuccessIsOneUser` is what a success does mean.
2. `claim_back`. `README.md:294`: a meter "comes back on its own without restarting
   the exporter". A client that was pinned to v1, because v2 did not answer when
   it connected, keeps to v1 when the device later answers v1 with 404 and v2
   correctly: only a rejection makes the loop probe again (`poller.go:151`).
3. `claim_found`. `discover.go:28`: "Finds HomeWizard devices on the local
   network". The two browses share a deadline, and zeroconf closes the channel of
   the first when that has passed (`discovery.go:59`), so the second one, for the
   v1 service, starts with a context that is done.

Others were met while modelling and have no run:

* `descriptors.go:21`: `homewizard_up` is "1 when the last poll of this device
  succeeded and its readings are still fresh". Only freshness counts
  (`collector.go:61`): after a poll that succeeded and one that failed it is 1
  until `stale_after` has passed.
* "A failed poll keeps the previous readings [...], so staleness shows up in
  `homewizard_up`" (`README.md:289`). An endpoint that is answered with 404 is forgotten
  (`poller.go:259`) and fails no poll: its last readings are kept too
  (`collector.go:82`), and neither `homewizard_up` nor the last success shows their age.
  Nothing says what should become of them.
* After a reconnection from one API generation to the other, the metrics name the
  Wi-Fi of the system endpoint (`collector.go:90`) and the dashboard that of the
  measurement (`view.go:141`). They differ when the network was renamed in between.
* Fresh counts readings of any kind (`snapshot.go:35`), while
  `config.example.yaml:69` says that readings older than `stale_after` mark the
  device down. `UpBoundsMeasurementAge` says by how much a measurement may be older.
* While the system endpoint fails, `due` (`poller.go:220`) stays true and the
  battery group is read on every poll, not at `system_interval` (`config.go:112`).
  `SystemPaced` is about the system endpoint only.
* The identity is read once per connection (`poller.go:133`): after a firmware
  update that does not break the connection, `homewizard_device_info`
  (`descriptors.go:24`) still shows the old firmware and its capabilities.
* `devices_total`, "Devices this exporter is configured to poll"
  (`descriptors.go:35`), counts those registered so far while `Run` starts them
  (`poller.go:91`).
* "Run serves until ctx is cancelled" (`server.go:100`): if `Serve` fails on its
  own, it returns without draining (`server.go:109`), and the process then waits
  for loops nobody has told to stop (`main.go:127`), until a signal.
* `HOMEWIZARD_DEVICES` adds to the devices of the file (`config.go:290`) although
  the usage text says that environment variables override it (`main.go:164`).
* Two names that differ only in punctuation read the same token variable
  (`config.go:251`), whose comment says "this device's".
* `stale_after` must exceed `poll.interval` "or readings are always stale"
  (`config.go:389`); the interval of a single device is not compared, so one that
  polls more slowly is stale between its polls.
* `metrics_path: /healthz` passes `Validate` and registers one pattern twice
  (`server.go:61`, `server.go:65`), which `http.ServeMux` answers with a panic.
* `pair` is said to "keep retrying until you do" (`README.md:100`); any error but
  "not pressed yet" ends it (`pair.go:107`).
* When the answer to the creation of a user is lost, or the check of its token
  fails (`pair.go:93`), the user stays on the device; the token is gone.
* The page's age "has to be repainted on its own timer" (`app.js:143`) lest it
  freeze; it does freeze when a restarted daemon sends a view without `updatedAt`
  (`app.js:148`).
* A dashboard refresh below one second becomes 0 in the page (`dashboard.go:67`),
  and 10 seconds in the script (`app.js:5`).

## 7. The proofs

All proofs are checked to the last leaf and hold for every value of the
constants that satisfies the named assumptions, which TLC evaluates in the runs.

**SnapshotStoreProofs** assumes that `Nil` is no reference, goroutine or device.
The inductive invariant `IInv` says who may reach what: a reference under
construction is reachable from its owner alone, at most one goroutine is between
`Lock` and `Unlock`, the map it copied is still the current one, and the payload
and the time of every reachable reading come from the same call, except in the
device the owner is writing. Without the first part a step of another goroutine
could change a snapshot that is already published. `NoTornReading` and
`LoadedSnapshotIsFrozen` follow from it; so does the refinement: `Publish` is an
update of `DeviceTable`, every other step a stutter.

**PollerProofs** assumes what `New` and `Validate` guarantee: distinct names, positive
times, `BackoffMin <= BackoffMax`, `StaleAfter > Interval`, and ages that outlast
the thresholds. The properties about time are not inductive. `IInv` adds, for each
point of a poll, how many requests can have passed since it started (`PollAge`)
and since its measurement (`MeasurementAge`), each of which is at most a timeout
plus the one in flight; and which of the success gauge and the readings is ahead
(`SuccessCovers`). `PollAge` needs to know that two probes are the most a
connection makes, and that a product with a state endpoint has no battery group
(`LocalsFitPC`): that is why the bound is five requests and not six.
`HealthAgreement` follows from the part of `IInv` that puts a measurement
behind every other reading, and from counting: the devices are finitely
many, so "some are fresh" and "the number of fresh ones is positive" are the same.

`PollerImplementsExporter` maps the snapshot and the last-success gauge to the variables
of `Exporter`: whether an entry exists and has an identity, the age of its measurement
and that of its newest reading. `Lag` becomes two request timeouts: a secondary reading,
and the success of the poll, are published at most that long after the measurement,
which is what `MeasurementAge` says at each point of a poll, up to the one where the
success is recorded. Every step of a loop that publishes is one step of `Exporter`, on
its own device; every other step of a loop, of a device and of the context is a stutter.

**PairingProofs** assumes that the empty string is no token and that the old token
is not one the device issues. `TokenFitsPC` says how far the token has come at
each point of the command.

`SystemPaced` is an action property: a reading of the system endpoint is only replaced
at `pc[d] = "system"`, and `LocalsFitPC` says that the loop is there only while the
reading is `due`. Ages only grow in between, so it still is when the answer comes.

**ProcessProofs** puts the two halves together. `ProcessInv` is `IInv` of `Poller`, the
invariant `Inv` of `Daemon` under the mapping of `loops`, and that no loop is registered
before main starts the poller. `Inv` follows the order of `runDaemon`: what has been
started (`StartedInOrder`), what Serve can have done (`ServedInOrder`), and what has
ended when `Run` returns and when the process exits (`DrainedInOrder`). Every step of
the process is one of `Daemon` or a stutter (`ProcessImplementsDaemon`): a step of a
loop maps to `LoopStops` if it leaves `pc` at `"stopped"`, which it may only after the
context is cancelled, and else to nothing. It is also one of `Poller`
(`ProcessImplementsPoller`, given that `Poller` allows a cancellation), so that all of
`PollerProofs` holds of the process. `CleanExit` and `LoopsWithinProcess` are
consequences of `Inv`.

**ConfigProofs** assumes of texts that trimming is idempotent and leaves the empty one
alone, and of the inputs that they have their Go types. `Word` is any set that has the
texts the code brings along. The heart of it is `DerivedOnce`: a device that has been
normalised is not changed by normalising it again, although its name may come from its
host, its interval from the poller's and its token from a variable selected by the
name. So `NormaliseIsFinal` is inductive, and with `LoadedIsValid`, that `Validate`
finds nothing in what is returned, it gives `AcceptedIsPollable`: what is not trimmed
would change, a name can only be empty if its host is, and an interval of 0 would have
been replaced by one that was found long enough. The known hosts of
`HOMEWIZARD_DEVICES` are picked by their rank; `PlaceIsKnown` shows by counting that
every rank up to their number is that of a host.

**ScrapeProofs** has three parts. The first is about the compact timestamps of the v1
API and assumes nothing: the clocks of the run are three, one of them broken, while
`CompactIsReadBack` covers every time two digits can tell from another (`Moments`, the
hundred years in which Go reads a two-digit year), and `CompactIsOneTime` is its
converse: a number that is accepted is not the number of another time. Both rest on
Euclid's division by 100, twice (`ThreePairs`, `PairsOf`), and on the century being
chosen consistently (`Century`).

The second part is `Decoding`: for any house that `HouseAssumption` allows and any API
generation and firmware that serve it, the answer is accepted exactly if each meter
with a reading knows the time (`Readable`), and then has the phases of the house and
one external meter per reading. Its heart is `MetersAreRead`: with new firmware the
meters come from the list, in which the gas meter is if it is heard, so that nothing is
promoted (`ListIsRead`); with old firmware there is no list, and the flat fields give
the same meter under either spelling (`FlatFieldsAreRead`).

The third part is the state machine. `IInv` adds to the types that the measurement in
the snapshot is what `Decoding` speaks of, of the house as it was when it was last
readable (`MeasurementFits`), and that each other reading is the last answer of its
endpoint and empty if there was none (`SecondariesFit`); no property is inductive
without that, since each speaks of the snapshot only through what is rendered of it.
`ScrapedByName` says which series of each name are in a scrape. From there
`NoDuplicateSeries` needs that phases have names of their own and meters identifiers of
their own; `ShowsLastReading` that a set of meters indexed by places and one indexed by
identifiers are the same set of series; and `DashboardAgrees` that a field of an
endpoint that was never read is empty, because `describe` does not ask whether it was,
and `collectDevice` does.

**DiscoveryProofs** assumes the shape of an entry and nothing of which there are. `Merged`
relates the devices found to the entries heard, `Printed` the block to the devices. An
order of a finite set that repeats nothing leaves nothing out (`OrderIsListing`), and
the numbers that `uniqueName` counts grow along it (`NamesAreUnique`). That no *device*
is printed twice needs a premise, `OneKeyEach`: one that gives its serial with one
service and not with the other has two keys, and is two devices to the command. Names
are unique without it.

**PageProofs** assumes that `AgeCap` exceeds the bound to be proved, and otherwise any
refresh, latency and number of fetches. `ShownIsRecent` is not inductive: `RefreshIsComing`
adds that a page which is older than a latency and what the timer has run is about to
be replaced, by a fetch that was sent at the first tick since, and `BuiltAfterSent` that
no answer is older than its question. A late answer may still be drawn over a newer
one: that is where the second latency comes from.

Only model-checked is everything about liveness (`KeepsPolling`, `ShutdownCompletes`,
`StaysFreshWhenServed`, `ExitsAfterSignal`, `PairReturns`, `DiscoverReturns`,
`PageCatchesUp`), which is out of the prover's reach. Every other property of the runs
that pass is proved.

## 8. Not modelled

* Of the fields that are copied from an answer to a metric, `Measurement` and `Scrape`
  have one of each kind: present on both generations, on one of them, per phase, a
  ratio, a time. The table of the others (`descriptors.go`) is data.
* The dashboard's totals, and the order and layout of its cards.
* Certificates (`tls.go`): verification is the library's. A failed handshake is a
  request without an answer.
* The command line, `check`, `capture`, build information: sequential, without
  state. The fake device: a tool for development.
* The telegram endpoint, which only `capture` asks for.
* YAML, JSON, URLs and the wording of errors and logs. A text is a member of a
  small set, and a response a class of those the code tells apart.
* zeroconf, the browser, the HTTP server's connections, the operating system and
  the devices are external: they are modelled by what the code relies on, and do
  anything else at will.
* The duration, poll and error counters: they count what `observe` already shows.
