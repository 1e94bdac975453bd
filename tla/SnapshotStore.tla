--------------------------- MODULE SnapshotStore ---------------------------
(***************************************************************************)
(* internal/snapshot.Store, one step per memory access that another        *)
(* goroutine could observe.  Update takes the writers mutex, copies the    *)
(* published map, copies the device it changes, lets the caller's closure  *)
(* mutate the copy field by field, links the copy into the new map and     *)
(* publishes the map through an atomic pointer.  Readers (Collect,         *)
(* Healthz, handleSnapshot, due) load the pointer without the mutex and    *)
(* keep using what they loaded while updates go on.                        *)
(*                                                                         *)
(* The heap is explicit: a Snapshot maps a name to a *reference* to a      *)
(* Device, and maps.Copy copies references.  That readers never see a      *)
(* device change under them depends on which copies Update makes.          *)
(*                                                                         *)
(* Before some steps stands a faulty version of them, named for the fault: *)
(* LockWithoutWaiting and the like.  No specification uses these; they are *)
(* what the properties below are known to exclude.                         *)
(***************************************************************************)
CONSTANTS
    Goroutine,  \* callers of Update: Poller.Run and the polling loops
    Scraper,    \* callers of Load
    Name, Group, Value, Zero,
    SnapRef,    \* heap references to Snapshots
    DevRef,     \* heap references to Devices
    Nil         \* the nil pointer, the free mutex, a key that is not in a map

ASSUME NilIsNoRef == Nil \notin SnapRef \cup DevRef
ASSUME NilIsNoGoroutine == Nil \notin Goroutine

\* The devices of the heap; see DeviceTable for Reading and Blank.
Reading == [payload : Value \cup {Zero}, at : Value \cup {Zero}]
Device  == [Group -> Reading]
Blank   == [g \in Group |-> [payload |-> Zero, at |-> Zero]]

ASSUME NilIsNoDevice == Nil \notin Device

VARIABLES
    writers,    \* Store.writers: the goroutine that holds the mutex, or Nil
    current,    \* Store.current: the published snapshot
    snapMem,    \* the heap of Snapshot.Devices maps
    devMem,     \* the heap of Devices
    pc,         \* where each goroutine is in Update
    call,       \* its arguments: the name, and what mutate will assign
    next,       \* Update's local variable next
    device,     \* Update's local variable device
    view        \* the snapshot each scraper got from Load

vars == <<writers, current, snapMem, devMem, pc, call, next, device, view>>

Call    == [name : Name, group : Group, value : Value]

\* A map[string]*Device: Nil is the entry of a key that is not in it.
SnapMap  == [Name -> DevRef \cup {Nil}]
EmptyMap == [n \in Name |-> Nil]

Critical == {"locked", "copied", "mutatePayload", "mutateAt", "link",
             "publish", "unlock"}

TypeOK ==
    /\ writers \in Goroutine \cup {Nil}
    /\ current \in SnapRef \cup {Nil}
    /\ snapMem \in [SnapRef -> SnapMap]
    /\ devMem  \in [DevRef -> Device]
    /\ pc \in [Goroutine -> {"idle", "lock"} \cup Critical]
    /\ call   \in [Goroutine -> Call \cup {Nil}]
    /\ next   \in [Goroutine -> SnapRef \cup {Nil}]
    /\ device \in [Goroutine -> DevRef \cup {Nil}]
    /\ view   \in [Scraper -> SnapRef \cup {Nil}]

\* The references the garbage collector may not reuse.
LiveSnaps ==
    ({current} \cup {next[g] : g \in Goroutine} \cup {view[r] : r \in Scraper})
        \ {Nil}

LiveDevs ==
    ({snapMem[s][n] : s \in LiveSnaps, n \in Name}
        \cup {device[g] : g \in Goroutine}) \ {Nil}

-----------------------------------------------------------------------------
Init ==
    /\ writers = Nil
    /\ current = Nil
    /\ snapMem = [s \in SnapRef |-> EmptyMap]
    /\ devMem  = [d \in DevRef |-> Blank]
    /\ pc = [g \in Goroutine |-> "idle"]
    /\ call   = [g \in Goroutine |-> Nil]
    /\ next   = [g \in Goroutine |-> Nil]
    /\ device = [g \in Goroutine |-> Nil]
    /\ view   = [r \in Scraper |-> Nil]

Goto(g, from, to) == pc[g] = from /\ pc' = [pc EXCEPT ![g] = to]

\* A goroutine calls Update(name, mutate).
Begin(g) ==
    /\ Goto(g, "idle", "lock")
    /\ \E c \in Call : call' = [call EXCEPT ![g] = c]
    /\ UNCHANGED <<writers, current, snapMem, devMem, next, device, view>>

\* s.writers.Lock()
LockWithoutWaiting(g) ==
    /\ Goto(g, "lock", "locked")
    /\ writers' = g
    /\ UNCHANGED <<current, snapMem, devMem, call, next, device, view>>
Lock(g) ==
    /\ Goto(g, "lock", "locked")
    /\ writers = Nil
    /\ writers' = g
    /\ UNCHANGED <<current, snapMem, devMem, call, next, device, view>>

\* next := &Snapshot{...}; maps.Copy(next.Devices, current.Devices)
CopyIntoNilMap(g) ==
    /\ Goto(g, "locked", "copied")
    /\ \E s \in SnapRef \ LiveSnaps :
        /\ next' = [next EXCEPT ![g] = s]
        /\ snapMem' = [snapMem EXCEPT ![s] =
                IF current = Nil THEN Nil ELSE snapMem[current]]
    /\ UNCHANGED <<writers, current, devMem, call, device, view>>
CopyMap(g) ==
    /\ Goto(g, "locked", "copied")
    /\ \E s \in SnapRef \ LiveSnaps :
        /\ next' = [next EXCEPT ![g] = s]
        /\ snapMem' = [snapMem EXCEPT ![s] =
                IF current = Nil THEN EmptyMap ELSE snapMem[current]]
    /\ UNCHANGED <<writers, current, devMem, call, device, view>>

\* device := &Device{Name: name}, or a copy of the previous device
SharePrevious(g) ==
    LET previous == snapMem[next[g]][call[g].name] IN
    /\ Goto(g, "copied", "mutatePayload")
    /\ \E d \in DevRef \ LiveDevs :
        /\ device' = [device EXCEPT ![g] = IF previous = Nil THEN d ELSE previous]
        /\ devMem' = [devMem EXCEPT ![d] = Blank]
    /\ UNCHANGED <<writers, current, snapMem, call, next, view>>
CopyDevice(g) ==
    LET previous == snapMem[next[g]][call[g].name] IN
    /\ Goto(g, "copied", "mutatePayload")
    /\ \E d \in DevRef \ LiveDevs :
        /\ device' = [device EXCEPT ![g] = d]
        /\ devMem' = [devMem EXCEPT ![d] =
                IF previous = Nil THEN Blank ELSE devMem[previous]]
    /\ UNCHANGED <<writers, current, snapMem, call, next, view>>

\* mutate(device), first assignment: the payload
MutatePayload(g) ==
    /\ Goto(g, "mutatePayload", "mutateAt")
    /\ devMem' = [devMem EXCEPT
                    ![device[g]][call[g].group].payload = call[g].value]
    /\ UNCHANGED <<writers, current, snapMem, call, next, device, view>>

\* mutate(device), second assignment: the time it was read
MutateAt(g) ==
    /\ Goto(g, "mutateAt", "link")
    /\ devMem' = [devMem EXCEPT
                    ![device[g]][call[g].group].at = call[g].value]
    /\ UNCHANGED <<writers, current, snapMem, call, next, device, view>>

\* next.Devices[name] = device
LinkIntoCurrent(g) ==
    /\ Goto(g, "link", "publish")
    /\ snapMem' = [snapMem EXCEPT
            ![IF current = Nil THEN next[g] ELSE current][call[g].name] = device[g]]
    /\ UNCHANGED <<writers, current, devMem, call, next, device, view>>
Link(g) ==
    /\ Goto(g, "link", "publish")
    /\ snapMem' = [snapMem EXCEPT ![next[g]][call[g].name] = device[g]]
    /\ UNCHANGED <<writers, current, devMem, call, next, device, view>>

\* s.current.Store(next)
Publish(g) ==
    /\ Goto(g, "publish", "unlock")
    /\ current' = next[g]
    /\ UNCHANGED <<writers, snapMem, devMem, call, next, device, view>>

\* The deferred s.writers.Unlock(), and the return that drops the locals.
Unlock(g) ==
    /\ Goto(g, "unlock", "idle")
    /\ writers' = Nil
    /\ call'   = [call EXCEPT ![g] = Nil]
    /\ next'   = [next EXCEPT ![g] = Nil]
    /\ device' = [device EXCEPT ![g] = Nil]
    /\ UNCHANGED <<current, snapMem, devMem, view>>

\* Load, and the end of the request that used the snapshot.
Load(r) ==
    /\ view[r] = Nil
    /\ current # Nil
    /\ view' = [view EXCEPT ![r] = current]
    /\ UNCHANGED <<writers, current, snapMem, devMem, pc, call, next, device>>

Finish(r) ==
    /\ view[r] # Nil
    /\ view' = [view EXCEPT ![r] = Nil]
    /\ UNCHANGED <<writers, current, snapMem, devMem, pc, call, next, device>>

Update(g) ==
    \/ Lock(g) \/ CopyMap(g) \/ CopyDevice(g) \/ MutatePayload(g)
    \/ MutateAt(g) \/ Link(g) \/ Publish(g) \/ Unlock(g)

Next ==
    \/ \E g \in Goroutine : Begin(g) \/ Update(g)
    \/ \E r \in Scraper : Load(r) \/ Finish(r)

Spec == Init /\ [][Next]_vars

-----------------------------------------------------------------------------
\* What a reader that holds snapshot s sees of the device called n.
DeviceIn(s, n) ==
    IF s = Nil \/ snapMem[s][n] = Nil THEN Nil ELSE devMem[snapMem[s][n]]

Contents(s) == [n \in Name |-> DeviceIn(s, n)]

\* The published snapshot and the ones that readers still hold.
Published == ({current} \cup {view[r] : r \in Scraper}) \ {Nil}

\* A reading and its timestamp always come from the same read: no snapshot a
\* reader can hold shows the payload of one poll with the time of another
\* (the "torn read" of TestConcurrentUpdates).
NoTornReading ==
    \A s \in Published, n \in Name :
        DeviceIn(s, n) # Nil =>
            \A g \in Group : DeviceIn(s, n)[g].payload = DeviceIn(s, n)[g].at

\* A snapshot never changes while a reader holds it, whatever Update does
\* meanwhile (TestUpdateDoesNotMutatePublished, for every interleaving).
LoadedSnapshotIsFrozen ==
    [][\A r \in Scraper :
        (view[r] # Nil /\ view'[r] = view[r]) =>
            Contents(view[r])' = Contents(view[r])]_vars

\* Update as a whole is atomic, loses no concurrent update and touches only
\* the reading it writes: the published contents behave as a DeviceTable.
Table == INSTANCE DeviceTable WITH Absent <- Nil, table <- Contents(current)

ImplementsTable == Table!Spec
-----------------------------------------------------------------------------
(* The inductive invariant behind these properties.                         *)

\* The critical section is where the mutex is held.
MutualExclusion == \A g \in Goroutine : pc[g] \in Critical <=> writers = g

\* The map that next starts from, and the device that mutate starts from.
Base == IF current = Nil THEN EmptyMap ELSE snapMem[current]

Previous(g) ==
    IF Base[call[g].name] = Nil THEN Blank ELSE devMem[Base[call[g].name]]

Mutating == {"mutatePayload", "mutateAt", "link"}

\* Update's locals, from their allocation to the end of the call.
LocalsAllocated ==
    \A g \in Goroutine :
        /\ pc[g] # "idle" => call[g] \in Call
        /\ pc[g] \in {"idle", "lock", "locked"} => next[g] = Nil
        /\ pc[g] \in {"copied", "publish"} \cup Mutating =>
                next[g] \in SnapRef \ Published
        /\ pc[g] \in {"publish"} \cup Mutating => device[g] \in DevRef

\* The copy that mutate writes to is not reachable by anyone else.
CopyIsPrivate ==
    \A g \in Goroutine : pc[g] \in Mutating =>
        \A s \in Published \cup {next[g]}, n \in Name :
            snapMem[s][n] # device[g]

\* How far the two copies have come.
NextIsCopy ==
    \A g \in Goroutine :
        /\ pc[g] \in {"copied"} \cup Mutating => snapMem[next[g]] = Base
        /\ pc[g] = "publish" =>
                snapMem[next[g]] = [Base EXCEPT ![call[g].name] = device[g]]

CopyStage(g) ==
    LET c == call[g] IN
    /\ pc[g] = "mutatePayload" => devMem[device[g]] = Previous(g)
    /\ pc[g] = "mutateAt" =>
        devMem[device[g]] = [Previous(g) EXCEPT ![c.group] =
                    [payload |-> c.value, at |-> Previous(g)[c.group].at]]
    /\ pc[g] \in {"link", "publish"} =>
        devMem[device[g]] = [Previous(g) EXCEPT ![c.group] =
                    [payload |-> c.value, at |-> c.value]]

DeviceIsCopy == \A g \in Goroutine : CopyStage(g)

IInv ==
    /\ TypeOK /\ MutualExclusion /\ LocalsAllocated /\ CopyIsPrivate
    /\ NextIsCopy /\ DeviceIsCopy /\ NoTornReading
=============================================================================
