-------------------------------- MODULE Page --------------------------------
(***************************************************************************)
(* The dashboard in a browser: assets/app.js fetches api/snapshot on a     *)
(* timer and redraws when an answer comes, whatever it has drawn since it  *)
(* asked; a second timer repaints how old the newest reading is.  The      *)
(* daemon answers with buildView of the snapshot it holds at that moment,  *)
(* and starts over with no readings when it is restarted.                  *)
(*                                                                         *)
(* Times are kept as ages in seconds, up to AgeCap.  A fetch ends within   *)
(* Latency; the script sets no limit of its own.                           *)
(***************************************************************************)
EXTENDS Integers, FiniteSets

CONSTANTS
    Refresh,    \* dashboard.refresh in milliseconds
    Latency,    \* the longest a fetch takes
    AgeCap,     \* ages of this much and more are not told apart
    Fetch       \* the fetches that may be under way at a time

\* int(refresh.Seconds()) in the page, || 10 in the script.
Period == IF Refresh \div 1000 = 0 THEN 10 ELSE Refresh \div 1000

ASSUME PageAssumption ==
    /\ Refresh \in Nat \ {0} /\ Latency \in Nat \ {0} /\ AgeCap \in Nat \ {0}
    /\ IsFiniteSet(Fetch) /\ Cardinality(Fetch) * Period > Latency
    /\ AgeCap > Period + 2 * Latency

VARIABLES
    reachable,  \* whether the daemon runs and the network lets it answer
    newest,     \* the age of its newest reading, or Null
    timer,      \* the time to the next tick of setInterval(tick)
    fetch,      \* fetch -> Idle, or what has become of it
    drawn,      \* the age of the view on the page: since the daemon built it
    state,      \* "loading", "shown" or "unreachable"
    updatedAt,  \* the age of the newest reading in that view, or Null
    text        \* what "updated ... ago" says, and of which age, or Nulls

vars == <<reachable, newest, timer, fetch, drawn, state, updatedAt, text>>

Null == -1
Age == 0 .. AgeCap
Older(age) == IF age \in {Null, AgeCap} THEN age ELSE age + 1

Idle == [is |-> "idle", sent |-> 0, built |-> 0, newest |-> 0]
Sent == [is |-> "sent", sent |-> 0, built |-> 0, newest |-> 0]

TypeOK ==
    /\ reachable \in BOOLEAN
    /\ newest \in Age \cup {Null}
    /\ timer \in 0 .. Period
    /\ fetch \in [Fetch -> [is : {"idle", "sent", "answered", "failed"},
                            sent : 0 .. Latency, built : 0 .. Latency,
                            newest : Age \cup {Null}]]
    /\ drawn \in Age
    /\ state \in {"loading", "shown", "unreachable"}
    /\ updatedAt \in Age \cup {Null}
    /\ text \in [says : Age \cup {Null}, of : Age \cup {Null}]

\* The page calls tick before it sets the timers.
Init ==
    /\ reachable \in BOOLEAN
    /\ newest \in {0, Null}
    /\ timer = 0
    /\ fetch = [f \in Fetch |-> Idle]
    /\ drawn = AgeCap /\ state = "loading"
    /\ updatedAt = Null /\ text = [says |-> Null, of |-> Null]

-----------------------------------------------------------------------------
\* The poller publishes a reading.
Reading ==
    /\ newest # 0
    /\ newest' = 0
    /\ UNCHANGED <<reachable, timer, fetch, drawn, state, updatedAt, text>>

\* The daemon stops, or its network does, and nothing that was asked and not
\* yet answered will be.
Lost ==
    /\ reachable
    /\ reachable' = FALSE
    /\ fetch' = [f \in Fetch |-> IF fetch[f].is = "sent"
                                 THEN [fetch[f] EXCEPT !.is = "failed"]
                                 ELSE fetch[f]]
    /\ UNCHANGED <<newest, timer, drawn, state, updatedAt, text>>

\* It is back; a daemon that was restarted has no readings.
Back ==
    /\ ~reachable
    /\ reachable' = TRUE
    /\ newest' \in {newest, Null}
    /\ UNCHANGED <<timer, fetch, drawn, state, updatedAt, text>>

-----------------------------------------------------------------------------
\* A fetch is sent, whether or not earlier ones have ended.
send ==
    \E f \in Fetch :
        /\ fetch[f].is = "idle"
        /\ fetch' = [fetch EXCEPT ![f] =
                        IF reachable THEN Sent ELSE [Sent EXCEPT !.is = "failed"]]

\* tick, by setInterval.
StopsOnError ==
    /\ timer = 0 /\ timer' = Period
    /\ IF state = "unreachable" THEN UNCHANGED fetch ELSE send
    /\ UNCHANGED <<reachable, newest, drawn, state, updatedAt, text>>
InMilliseconds ==
    /\ timer = 0 /\ timer' = Refresh
    /\ send
    /\ UNCHANGED <<reachable, newest, drawn, state, updatedAt, text>>
tick ==
    /\ timer = 0 /\ timer' = Period
    /\ send
    /\ UNCHANGED <<reachable, newest, drawn, state, updatedAt, text>>

\* handleSnapshot answers with the snapshot as it is now.
handleSnapshot(f) ==
    /\ fetch[f].is = "sent"
    /\ fetch' = [fetch EXCEPT ![f].is = "answered", ![f].built = 0,
                              ![f].newest = newest]
    /\ UNCHANGED <<reachable, newest, timer, drawn, state, updatedAt, text>>

\* paintUpdated leaves the text alone when there is nothing to say.
painted(updated, old) ==
    IF updated = Null THEN old ELSE [says |-> updated, of |-> updated]

\* render, of any answer that has come.
render(f) ==
    /\ fetch[f].is = "answered"
    /\ fetch' = [fetch EXCEPT ![f] = Idle]
    /\ state' = "shown"
    /\ drawn' = fetch[f].built
    /\ updatedAt' = fetch[f].newest
    /\ text' = painted(updatedAt', text)
    /\ UNCHANGED <<reachable, newest, timer>>

\* The catch: the page says so and keeps what it shows.
FailQuietly(f) ==
    /\ fetch[f].is = "failed"
    /\ fetch' = [fetch EXCEPT ![f] = Idle]
    /\ UNCHANGED <<reachable, newest, timer, drawn, state, updatedAt, text>>
fail(f) ==
    /\ fetch[f].is = "failed"
    /\ fetch' = [fetch EXCEPT ![f] = Idle]
    /\ state' = "unreachable"
    /\ UNCHANGED <<reachable, newest, timer, drawn, updatedAt, text>>

\* A second passes, and paintUpdated's timer fires.  No fetch outlives Latency,
\* and no timer is late.
PaintedWhenDrawn ==
    /\ timer > 0 /\ \A f \in Fetch : fetch[f].is # "idle" =>
                                        fetch[f].sent < Latency
    /\ timer' = timer - 1
    /\ newest' = Older(newest) /\ drawn' = Older(drawn)
    /\ fetch' = [f \in Fetch |->
                    IF fetch[f].is = "idle" THEN Idle
                    ELSE [fetch[f] EXCEPT !.sent = @ + 1,
                            !.built = IF fetch[f].is = "answered" THEN @ + 1 ELSE @,
                            !.newest = IF fetch[f].is = "answered" THEN Older(@)
                                                                   ELSE @]]
    /\ updatedAt' = Older(updatedAt)
    /\ text' = [text EXCEPT !.of = Older(@)]
    /\ UNCHANGED <<reachable, state>>
Tick ==
    /\ timer > 0 /\ \A f \in Fetch : fetch[f].is # "idle" =>
                                        fetch[f].sent < Latency
    /\ timer' = timer - 1
    /\ newest' = Older(newest) /\ drawn' = Older(drawn)
    /\ fetch' = [f \in Fetch |->
                    IF fetch[f].is = "idle" THEN Idle
                    ELSE [fetch[f] EXCEPT !.sent = @ + 1,
                            !.built = IF fetch[f].is = "answered" THEN @ + 1 ELSE @,
                            !.newest = IF fetch[f].is = "answered" THEN Older(@)
                                                                   ELSE @]]
    /\ updatedAt' = Older(updatedAt)
    /\ text' = painted(updatedAt', [text EXCEPT !.of = Older(@)])
    /\ UNCHANGED <<reachable, state>>

Next ==
    \/ Reading \/ Lost \/ Back \/ tick \/ Tick
    \/ \E f \in Fetch : handleSnapshot(f) \/ render(f) \/ fail(f)

Spec == Init /\ [][Next]_vars

\* Time passes, the browser runs its timers and callbacks, and the daemon
\* answers while it can be reached.
Fairness ==
    /\ WF_vars(tick) /\ WF_vars(Tick)
    /\ \A f \in Fetch : WF_vars(handleSnapshot(f) \/ render(f) \/ fail(f))

FairSpec == Spec /\ Fairness
-----------------------------------------------------------------------------
\* A page that does not say that the daemon is unreachable shows what the
\* daemon held at most a refresh and two fetches ago, although a slow answer
\* may be drawn over a newer one (app.js:151 does not wait for the last fetch).
ShownIsRecent == state = "shown" => drawn <= Period + 2 * Latency

\* app.js:143: the age of the snapshot is "a clock, not a value": as long as the
\* view has a reading, the page says how old it is now, also while nothing
\* is drawn.
AgeIsAClock == updatedAt # Null => text = [says |-> updatedAt, of |-> updatedAt]

\* Whatever the daemon and the network did, once they stay up the page ends up
\* showing them and stays so.
PageCatchesUp == <>[]reachable => <>[](state = "shown")
-----------------------------------------------------------------------------
(* The inductive invariant behind the safety properties.                     *)

\* An answer was built after it was asked for.
BuiltAfterSent == \A f \in Fetch : fetch[f].built <= fetch[f].sent

\* Either no tick has passed since the page was drawn, or a fetch is under way
\* that was sent at the first one.
RefreshIsComing ==
    state = "shown" =>
        \/ drawn <= Latency + (Period - timer)
        \/ \E f \in Fetch : /\ fetch[f].is # "idle"
                            /\ drawn <= Latency + Period + fetch[f].sent

IInv == TypeOK /\ BuiltAfterSent /\ RefreshIsComing /\ AgeIsAClock
=============================================================================
