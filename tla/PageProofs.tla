------------------------------ MODULE PageProofs ------------------------------
(***************************************************************************)
(* Page's safety properties, for any refresh, any latency and any number   *)
(* of fetches under way: an answer may be drawn in any order, and may      *)
(* never come.                                                             *)
(***************************************************************************)
EXTENDS Page, TLAPS

\* The page refreshes every few seconds, at least every second.
LEMMA Numbers ==
    /\ Period \in Nat \ {0} /\ Latency \in Nat \ {0} /\ AgeCap \in Nat \ {0}
    /\ AgeCap > Period + 2 * Latency
    /\ Null \notin Age /\ 0 \in Age /\ AgeCap \in Age
<1>1. Refresh \in Nat /\ Refresh \div 1000 \in Nat
    BY PageAssumption
<1>2. Period \in Nat \ {0}
    BY <1>1 DEF Period
<1> QED
    BY <1>2, PageAssumption DEF Null, Age

\* A second makes an age at most one older, and a missing one stays missing.
LEMMA OlderAge ==
    /\ Older(Null) = Null
    /\ \A a \in Age : /\ Older(a) \in Age
                      /\ Older(a) = a + 1 \/ Older(a) = a
                      /\ a <= Older(a)
BY Numbers DEF Older, Age, Null

\* The states of a fetch.
FetchState ==
    [is : {"idle", "sent", "answered", "failed"}, sent : 0 .. Latency,
     built : 0 .. Latency, newest : Age \cup {Null}]

LEMMA IdleIsAFetch ==
    /\ Idle \in FetchState /\ Sent \in FetchState
    /\ [Sent EXCEPT !.is = "failed"] \in FetchState
BY Numbers DEF Idle, Sent, FetchState

LEMMA InitInvariant == Init => IInv
<1> SUFFICES ASSUME Init PROVE IInv
    OBVIOUS
<1>1. TypeOK
    BY Numbers, IdleIsAFetch DEF Init, TypeOK, FetchState
<1>2. BuiltAfterSent
    BY DEF Init, BuiltAfterSent, Idle
<1>3. RefreshIsComing /\ AgeIsAClock
    BY DEF Init, RefreshIsComing, AgeIsAClock
<1> QED
    BY <1>1, <1>2, <1>3 DEF IInv

-----------------------------------------------------------------------------
(* The daemon and the network.                                              *)

\* What happens to the daemon touches no clock of the page.
LEMMA DaemonStep ==
    ASSUME IInv, Reading \/ Lost \/ Back
    PROVE  IInv'
<1>1. /\ timer' = timer /\ drawn' = drawn /\ state' = state
      /\ updatedAt' = updatedAt /\ text' = text
    BY DEF Reading, Lost, Back
<1>2. fetch \in [Fetch -> FetchState]
    BY DEF IInv, TypeOK, FetchState
<1>3. /\ fetch' \in [Fetch -> FetchState]
      /\ \A f \in Fetch : /\ fetch'[f].sent = fetch[f].sent
                          /\ fetch'[f].built = fetch[f].built
                          /\ fetch'[f].is = "idle" <=> fetch[f].is = "idle"
    <2>1. CASE fetch' = fetch
        BY <1>2, <2>1
    <2>2. CASE Lost
        BY <1>2, <2>2 DEF Lost, FetchState
    <2> QED
        BY <2>1, <2>2 DEF Reading, Back
<1>4. reachable' \in BOOLEAN /\ newest' \in Age \cup {Null}
    BY Numbers DEF Reading, Lost, Back, IInv, TypeOK
<1>5. TypeOK'
    BY <1>1, <1>3, <1>4 DEF IInv, TypeOK, FetchState
<1>6. BuiltAfterSent' /\ AgeIsAClock'
    BY <1>1, <1>3 DEF IInv, BuiltAfterSent, AgeIsAClock
<1>7. RefreshIsComing'
    BY <1>1, <1>3 DEF IInv, RefreshIsComing
<1> QED
    BY <1>5, <1>6, <1>7 DEF IInv

-----------------------------------------------------------------------------
(* The page.                                                                *)

\* A tick sends a fetch of age 0, while the page is at most a refresh old.
LEMMA tickStep ==
    ASSUME IInv, tick
    PROVE  IInv'
<1>1. PICK f \in Fetch :
        /\ fetch[f].is = "idle"
        /\ fetch' = [fetch EXCEPT ![f] =
                        IF reachable THEN Sent ELSE [Sent EXCEPT !.is = "failed"]]
    BY DEF tick, send
<1>2. /\ timer = 0 /\ timer' = Period
      /\ UNCHANGED <<reachable, newest, drawn, state, updatedAt, text>>
    BY DEF tick
<1>3. /\ fetch \in [Fetch -> FetchState] /\ drawn \in Nat
      /\ \A x \in Fetch : fetch[x].sent \in Nat
    BY DEF IInv, TypeOK, FetchState, Age
<1>4. /\ fetch'[f] \in FetchState /\ fetch'[f].is # "idle"
      /\ fetch'[f].sent = 0 /\ fetch'[f].built = 0
    BY <1>1, <1>3, IdleIsAFetch DEF Sent
<1>5. \A x \in Fetch \ {f} : fetch'[x] = fetch[x]
    BY <1>1, <1>3
<1>6. TypeOK'
    <2>1. fetch' \in [Fetch -> FetchState]
        BY <1>1, <1>3, IdleIsAFetch
    <2> QED
        BY <1>2, <2>1, Numbers DEF IInv, TypeOK, FetchState
<1>7. BuiltAfterSent'
    BY <1>4, <1>5 DEF IInv, BuiltAfterSent
<1>8. RefreshIsComing'
    <2> SUFFICES ASSUME state = "shown"
                 PROVE  \E x \in Fetch :
                            /\ fetch'[x].is # "idle"
                            /\ drawn <= Latency + Period + fetch'[x].sent
        BY <1>2 DEF RefreshIsComing
    <2>1. CASE drawn <= Latency + (Period - timer)
        BY <1>2, <1>3, <1>4, <2>1, Numbers
    <2>2. CASE \E x \in Fetch : /\ fetch[x].is # "idle"
                                /\ drawn <= Latency + Period + fetch[x].sent
        BY <1>1, <1>5, <2>2
    <2> QED
        BY <2>1, <2>2 DEF IInv, RefreshIsComing
<1>9. AgeIsAClock'
    BY <1>2 DEF IInv, AgeIsAClock
<1> QED
    BY <1>6, <1>7, <1>8, <1>9 DEF IInv

\* The fetch that ends is the one the invariant counted on, or not: the page it
\* draws is new, and a page that says "unreachable" is not vouched for.
LEMMA FetchStep ==
    ASSUME IInv, NEW f \in Fetch, handleSnapshot(f) \/ render(f) \/ fail(f)
    PROVE  IInv'
<1>1. /\ fetch \in [Fetch -> FetchState] /\ newest \in Age \cup {Null}
      /\ timer \in 0 .. Period /\ timer' = timer
      /\ reachable' = reachable /\ newest' = newest
    BY DEF IInv, TypeOK, FetchState, handleSnapshot, render, fail
<1>2. \A x \in Fetch : /\ fetch[x].built \in Nat /\ fetch[x].built <= Latency
                       /\ fetch[x].newest \in Age \cup {Null}
    BY <1>1, Numbers DEF FetchState
<1>3. CASE handleSnapshot(f)
    <2>1. /\ fetch' = [fetch EXCEPT ![f].is = "answered", ![f].built = 0,
                                    ![f].newest = newest]
          /\ fetch[f].is = "sent"
          /\ UNCHANGED <<drawn, state, updatedAt, text>>
        BY <1>3 DEF handleSnapshot
    <2>2. fetch' \in [Fetch -> FetchState]
        <3>1. [fetch[f] EXCEPT !.is = "answered", !.built = 0, !.newest = newest]
                    \in FetchState
            <4>1. fetch[f] \in FetchState /\ 0 \in 0 .. Latency
                BY <1>1, Numbers
            <4> QED
                BY <1>1, <4>1 DEF FetchState
        <3> QED
            BY <1>1, <2>1, <3>1
    <2>3. \A x \in Fetch :
            /\ fetch'[x].is = "idle" <=> fetch[x].is = "idle"
            /\ fetch'[x].sent = fetch[x].sent
            /\ fetch'[x].built \in {0, fetch[x].built}
        BY <1>1, <2>1 DEF FetchState
    <2>4. TypeOK'
        BY <1>1, <2>1, <2>2 DEF IInv, TypeOK, FetchState
    <2>5. BuiltAfterSent'
        <3>1. \A x \in Fetch : fetch[x].sent \in Nat
            BY <1>1 DEF FetchState
        <3> QED
            BY <2>3, <3>1 DEF IInv, BuiltAfterSent
    <2>6. RefreshIsComing'
        BY <1>1, <2>1, <2>3 DEF IInv, RefreshIsComing
    <2> QED
        BY <2>1, <2>4, <2>5, <2>6 DEF IInv, AgeIsAClock
<1>4. ASSUME fetch' = [fetch EXCEPT ![f] = Idle]
      PROVE  fetch' \in [Fetch -> FetchState] /\ BuiltAfterSent'
    <2>1. \A x \in Fetch : fetch'[x] = IF x = f THEN Idle ELSE fetch[x]
        BY <1>1, <1>4
    <2> QED
        BY <1>1, <1>4, <2>1, IdleIsAFetch DEF IInv, BuiltAfterSent, Idle
<1>5. CASE render(f)
    <2>1. /\ fetch' = [fetch EXCEPT ![f] = Idle]
          /\ state' = "shown" /\ drawn' = fetch[f].built
          /\ updatedAt' = fetch[f].newest
          /\ text' = painted(updatedAt', text)
        BY <1>5 DEF render
    <2>2. drawn' \in Age /\ updatedAt' \in Age \cup {Null}
        BY <1>2, <2>1, Numbers DEF Age
    <2>3. text' \in [says : Age \cup {Null}, of : Age \cup {Null}]
        BY <2>1, <2>2 DEF painted, IInv, TypeOK
    <2>4. TypeOK'
        BY <1>1, <1>4, <2>1, <2>2, <2>3 DEF IInv, TypeOK, FetchState
    <2>5. RefreshIsComing'
        BY <1>1, <1>2, <2>1, Numbers DEF RefreshIsComing
    <2>6. AgeIsAClock'
        BY <2>1 DEF AgeIsAClock, painted
    <2> QED
        BY <1>4, <2>1, <2>4, <2>5, <2>6 DEF IInv
<1>6. CASE fail(f)
    <2>1. /\ fetch' = [fetch EXCEPT ![f] = Idle] /\ state' = "unreachable"
          /\ UNCHANGED <<drawn, updatedAt, text>>
        BY <1>6 DEF fail
    <2>2. TypeOK'
        BY <1>1, <1>4, <2>1 DEF IInv, TypeOK, FetchState
    <2> QED
        BY <1>4, <2>1, <2>2 DEF IInv, RefreshIsComing, AgeIsAClock
<1> QED
    BY <1>3, <1>5, <1>6

\* A second makes the page, the fetch that is to replace it and the time since
\* the last tick older alike.
LEMMA TickStep ==
    ASSUME IInv, Tick
    PROVE  IInv'
<1>1. /\ fetch \in [Fetch -> FetchState] /\ timer \in 0 .. Period /\ timer > 0
      /\ drawn \in Age /\ newest \in Age \cup {Null}
      /\ updatedAt \in Age \cup {Null}
      /\ text \in [says : Age \cup {Null}, of : Age \cup {Null}]
    BY DEF IInv, TypeOK, FetchState, Tick
<1>2. \A f \in Fetch : fetch[f].is # "idle" => fetch[f].sent < Latency
    BY DEF Tick
<1>3. /\ timer' = timer - 1 /\ newest' = Older(newest) /\ drawn' = Older(drawn)
      /\ updatedAt' = Older(updatedAt) /\ reachable' = reachable
      /\ state' = state
      /\ text' = painted(updatedAt', [text EXCEPT !.of = Older(@)])
    BY DEF Tick
<1>4. \A a \in Age \cup {Null} : Older(a) \in Age \cup {Null}
    BY OlderAge
<1>5. ASSUME NEW f \in Fetch
      PROVE  /\ fetch'[f] \in FetchState
             /\ fetch'[f].built <= fetch'[f].sent
             /\ fetch'[f].is = fetch[f].is
             /\ fetch[f].is # "idle" => fetch'[f].sent = fetch[f].sent + 1
    <2>1. fetch'[f] =
            IF fetch[f].is = "idle" THEN Idle
            ELSE [fetch[f] EXCEPT !.sent = @ + 1,
                    !.built = IF fetch[f].is = "answered" THEN @ + 1 ELSE @,
                    !.newest = IF fetch[f].is = "answered" THEN Older(@) ELSE @]
        BY DEF Tick
    <2>2. /\ fetch[f] \in FetchState /\ fetch[f].built <= fetch[f].sent
          /\ fetch[f].newest \in Age \cup {Null}
          /\ fetch[f].sent \in Nat /\ fetch[f].built \in Nat
        BY <1>1 DEF IInv, BuiltAfterSent, FetchState
    <2>3. CASE fetch[f].is = "idle"
        BY <2>1, <2>3, IdleIsAFetch DEF Idle
    <2>4. CASE fetch[f].is # "idle"
        <3>1. fetch[f].sent < Latency
            BY <1>2, <2>4
        <3>2. /\ fetch'[f].is = fetch[f].is
              /\ fetch'[f].sent = fetch[f].sent + 1
              /\ fetch'[f].built \in {fetch[f].built, fetch[f].built + 1}
              /\ fetch'[f].newest \in {fetch[f].newest, Older(fetch[f].newest)}
              /\ fetch'[f] = [is |-> fetch'[f].is, sent |-> fetch'[f].sent,
                              built |-> fetch'[f].built,
                              newest |-> fetch'[f].newest]
            BY <2>1, <2>2, <2>4 DEF FetchState
        <3>3. fetch'[f].newest \in Age \cup {Null}
            BY <1>4, <2>2, <3>2
        <3> QED
            BY <2>2, <3>1, <3>2, <3>3, Numbers DEF FetchState
    <2> QED
        BY <2>3, <2>4
<1>6. TypeOK'
    <2>1. fetch' \in [Fetch -> FetchState]
        BY <1>5 DEF Tick
    <2>2. timer' \in 0 .. Period
        BY <1>1, <1>3, Numbers
    <2>3. text' \in [says : Age \cup {Null}, of : Age \cup {Null}]
        <3>1. text.of \in Age \cup {Null} /\ updatedAt' \in Age \cup {Null}
            BY <1>1, <1>3, <1>4
        <3> QED
            BY <1>1, <1>3, <1>4, <3>1 DEF painted
    <2> QED
        BY <1>1, <1>3, <1>4, <2>1, <2>2, <2>3, OlderAge
        DEF IInv, TypeOK, FetchState
<1>7. BuiltAfterSent'
    BY <1>5 DEF BuiltAfterSent
<1>8. RefreshIsComing'
    <2> SUFFICES ASSUME state = "shown"
                 PROVE  \/ drawn' <= Latency + (Period - timer')
                        \/ \E f \in Fetch :
                                /\ fetch'[f].is # "idle"
                                /\ drawn' <= Latency + Period + fetch'[f].sent
        BY <1>3 DEF RefreshIsComing
    <2>1. drawn \in Nat /\ drawn' \in Nat /\ drawn' <= drawn + 1
        BY <1>1, <1>3, OlderAge DEF Age
    <2>2. CASE drawn <= Latency + (Period - timer)
        BY <1>1, <1>3, <2>1, <2>2, Numbers
    <2>3. CASE \E f \in Fetch : /\ fetch[f].is # "idle"
                                /\ drawn <= Latency + Period + fetch[f].sent
        <3>1. PICK f \in Fetch : /\ fetch[f].is # "idle"
                                 /\ drawn <= Latency + Period + fetch[f].sent
            BY <2>3
        <3>2. fetch[f].sent \in Nat /\ fetch'[f].sent = fetch[f].sent + 1
            BY <1>1, <1>5, <3>1 DEF FetchState
        <3> QED
            BY <1>5, <2>1, <3>1, <3>2, Numbers
    <2> QED
        BY <2>2, <2>3 DEF IInv, RefreshIsComing
<1>9. AgeIsAClock'
    BY <1>3 DEF AgeIsAClock, painted
<1> QED
    BY <1>6, <1>7, <1>8, <1>9 DEF IInv

-----------------------------------------------------------------------------
(* The theorems.                                                            *)

LEMMA NextInvariant == IInv /\ [Next]_vars => IInv'
<1> SUFFICES ASSUME IInv, [Next]_vars PROVE IInv'
    OBVIOUS
<1>1. CASE Reading \/ Lost \/ Back
    BY <1>1, DaemonStep
<1>2. CASE tick
    BY <1>2, tickStep
<1>3. CASE Tick
    BY <1>3, TickStep
<1>4. ASSUME NEW f \in Fetch, handleSnapshot(f) \/ render(f) \/ fail(f)
      PROVE  IInv'
    BY <1>4, FetchStep
<1>5. CASE UNCHANGED vars
    BY <1>5 DEF vars, IInv, TypeOK, BuiltAfterSent, RefreshIsComing, AgeIsAClock
<1> QED
    BY <1>1, <1>2, <1>3, <1>4, <1>5 DEF Next

\* The page and its fetches keep the invariant, in whatever order the answers
\* come and are drawn (app.js:151, app.js:171).
THEOREM Invariant == Spec => []IInv
BY InitInvariant, NextInvariant, PTL DEF Spec

\* A page that does not say "unreachable" shows what the daemon held at most one
\* refresh and two fetches ago, also when answers overtake each other.
THEOREM ShownIsRecentAlways == Spec => []ShownIsRecent
<1>1. IInv => ShownIsRecent
    <2> SUFFICES ASSUME IInv, state = "shown"
                 PROVE  drawn <= Period + 2 * Latency
        BY DEF ShownIsRecent
    <2>1. /\ drawn \in Nat /\ timer \in Nat
          /\ \A f \in Fetch : fetch[f].sent \in Nat /\ fetch[f].sent <= Latency
        BY DEF IInv, TypeOK, Age
    <2>2. \/ drawn <= Latency + (Period - timer)
          \/ \E f \in Fetch : drawn <= Latency + Period + fetch[f].sent
        BY DEF IInv, RefreshIsComing
    <2> QED
        BY <2>1, <2>2, Numbers
<1> QED
    BY <1>1, Invariant, PTL

\* The page says how old its newest reading is now, not when it was drawn.
THEOREM AgeIsAlwaysAClock == Spec => []AgeIsAClock
<1>1. IInv => AgeIsAClock
    BY DEF IInv
<1> QED
    BY <1>1, Invariant, PTL
=============================================================================
