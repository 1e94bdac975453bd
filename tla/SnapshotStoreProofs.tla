------------------------ MODULE SnapshotStoreProofs -------------------------
(***************************************************************************)
(* SnapshotStore's safety properties, for any number of goroutines,        *)
(* scrapers, devices and references.  Everything rests on one lemma,       *)
(* PublishedIsImmutable: no step writes to memory that a published         *)
(* snapshot can reach.                                                     *)
(***************************************************************************)
EXTENDS SnapshotStore, TLAPS

\* What a step may not do to a snapshot that a reader can hold.
Unwritten(s) ==
    /\ snapMem'[s] = snapMem[s]
    /\ \A n \in Name : snapMem[s][n] # Nil =>
            devMem'[snapMem[s][n]] = devMem[snapMem[s][n]]

\* Types are kept by every step.
LEMMA TypeStep == IInv /\ [Next]_vars => TypeOK'
<1> SUFFICES ASSUME IInv, [Next]_vars PROVE TypeOK'
    OBVIOUS
<1> USE DEF IInv, TypeOK
<1>1. ASSUME NEW g \in Goroutine, Begin(g) PROVE TypeOK'
    BY <1>1 DEF Begin, Goto
<1>2. ASSUME NEW g \in Goroutine, Lock(g) PROVE TypeOK'
    BY <1>2 DEF Lock, Goto, Critical
<1>3. ASSUME NEW g \in Goroutine, CopyMap(g) PROVE TypeOK'
    <2>1. PICK s \in SnapRef : snapMem' = [snapMem EXCEPT ![s] = Base]
                              /\ next' = [next EXCEPT ![g] = s]
        BY <1>3 DEF CopyMap, Base
    <2>2. Base \in SnapMap
        BY DEF Base, SnapMap, EmptyMap
    <2> QED
        BY <1>3, <2>1, <2>2 DEF CopyMap, Goto, Critical
<1>4. ASSUME NEW g \in Goroutine, CopyDevice(g) PROVE TypeOK'
    <2> DEFINE p == snapMem[next[g]][call[g].name]
    <2>1. next[g] \in SnapRef /\ call[g] \in Call
        BY <1>4 DEF CopyDevice, Goto, LocalsAllocated
    <2>2. p \in DevRef \cup {Nil}
        BY <2>1 DEF SnapMap, Call
    <2>3. Blank \in Device
        BY DEF Blank, Device, Reading
    <2>4. PICK d \in DevRef :
            /\ device' = [device EXCEPT ![g] = d]
            /\ devMem' = [devMem EXCEPT ![d] =
                            IF p = Nil THEN Blank ELSE devMem[p]]
        BY <1>4 DEF CopyDevice
    <2> QED
        BY <1>4, <2>2, <2>3, <2>4 DEF CopyDevice, Goto, Critical
<1>5. ASSUME NEW g \in Goroutine, MutatePayload(g) PROVE TypeOK'
    <2>1. device[g] \in DevRef /\ call[g] \in Call
        BY <1>5 DEF MutatePayload, Goto, LocalsAllocated, Mutating
    <2> DEFINE c == call[g]
               old == devMem[device[g]]
               reading == [old[c.group] EXCEPT !.payload = c.value]
    <2>2. c.group \in Group /\ c.value \in Value
        BY <2>1 DEF Call
    <2>3. old \in Device
        BY <2>1
    <2>4. reading \in Reading
        BY <2>2, <2>3 DEF Device, Reading
    <2>5. [old EXCEPT ![c.group] = reading] \in Device
        BY <2>2, <2>3, <2>4 DEF Device
    <2>6. devMem' = [devMem EXCEPT ![device[g]] = [old EXCEPT ![c.group] = reading]]
        BY <1>5, <2>1 DEF MutatePayload
    <2>7. devMem' \in [DevRef -> Device]
        BY <2>1, <2>5, <2>6
    <2> QED
        BY <1>5, <2>7 DEF MutatePayload, Goto, Critical
<1>6. ASSUME NEW g \in Goroutine, MutateAt(g) PROVE TypeOK'
    <2>1. device[g] \in DevRef /\ call[g] \in Call
        BY <1>6 DEF MutateAt, Goto, LocalsAllocated, Mutating
    <2> DEFINE c == call[g]
               old == devMem[device[g]]
               reading == [old[c.group] EXCEPT !.at = c.value]
    <2>2. c.group \in Group /\ c.value \in Value
        BY <2>1 DEF Call
    <2>3. old \in Device
        BY <2>1
    <2>4. reading \in Reading
        BY <2>2, <2>3 DEF Device, Reading
    <2>5. [old EXCEPT ![c.group] = reading] \in Device
        BY <2>2, <2>3, <2>4 DEF Device
    <2>6. devMem' = [devMem EXCEPT ![device[g]] = [old EXCEPT ![c.group] = reading]]
        BY <1>6, <2>1 DEF MutateAt
    <2>7. devMem' \in [DevRef -> Device]
        BY <2>1, <2>5, <2>6
    <2> QED
        BY <1>6, <2>7 DEF MutateAt, Goto, Critical
<1>7. ASSUME NEW g \in Goroutine, Link(g) PROVE TypeOK'
    <2>1. /\ next[g] \in SnapRef /\ device[g] \in DevRef
          /\ call[g] \in Call
        BY <1>7 DEF Link, Goto, LocalsAllocated, Mutating
    <2>2. snapMem' \in [SnapRef -> SnapMap]
        BY <1>7, <2>1 DEF Link, Call, SnapMap
    <2> QED
        BY <1>7, <2>2 DEF Link, Goto, Critical
<1>8. ASSUME NEW g \in Goroutine, Publish(g) PROVE TypeOK'
    BY <1>8 DEF Publish, Goto, Critical
<1>9. ASSUME NEW g \in Goroutine, Unlock(g) PROVE TypeOK'
    BY <1>9 DEF Unlock, Goto, Critical
<1>10. ASSUME NEW r \in Scraper, Load(r) PROVE TypeOK'
    BY <1>10 DEF Load
<1>11. ASSUME NEW r \in Scraper, Finish(r) PROVE TypeOK'
    BY <1>11 DEF Finish
<1>12. CASE UNCHANGED vars
    BY <1>12 DEF vars
<1> QED
    BY <1>1, <1>2, <1>3, <1>4, <1>5, <1>6, <1>7, <1>8, <1>9, <1>10, <1>11,
       <1>12 DEF Next, Update

\* Two goroutines are never both between Lock and Unlock.
LEMMA Alone ==
    ASSUME IInv, NEW g \in Goroutine, NEW h \in Goroutine, g # h,
           pc[g] \in Critical
    PROVE  pc[h] \notin Critical
BY DEF IInv, MutualExclusion

\* No step writes to memory that a published snapshot can reach.
LEMMA PublishedIsImmutable == IInv /\ [Next]_vars => (\A s \in Published : Unwritten(s))
<1> SUFFICES ASSUME IInv, [Next]_vars PROVE (\A s \in Published : Unwritten(s))
    OBVIOUS
<1> USE DEF Unwritten
<1>1. ASSUME NEW g \in Goroutine, Begin(g) PROVE (\A s \in Published : Unwritten(s))
    BY <1>1 DEF Begin, Goto
<1>2. ASSUME NEW g \in Goroutine, Lock(g) PROVE (\A s \in Published : Unwritten(s))
    BY <1>2 DEF Lock, Goto
<1>3. ASSUME NEW g \in Goroutine, CopyMap(g) PROVE (\A s \in Published : Unwritten(s))
    <2>1. PICK s \in SnapRef \ LiveSnaps : snapMem' = [snapMem EXCEPT ![s] = Base]
        BY <1>3 DEF CopyMap, Base
    <2>2. Published \subseteq LiveSnaps
        BY DEF Published, LiveSnaps
    <2> QED
        BY <1>3, <2>1, <2>2 DEF CopyMap, IInv, TypeOK
<1>4. ASSUME NEW g \in Goroutine, CopyDevice(g) PROVE (\A s \in Published : Unwritten(s))
    <2>1. PICK d \in DevRef \ LiveDevs : \E x : devMem' = [devMem EXCEPT ![d] = x]
        BY <1>4 DEF CopyDevice
    <2>2. \A s \in Published, n \in Name :
            snapMem[s][n] # Nil => snapMem[s][n] \in LiveDevs
        BY DEF Published, LiveSnaps, LiveDevs
    <2>3. \A s \in Published, n \in Name :
            snapMem[s][n] # Nil => snapMem[s][n] \in DevRef
        BY DEF IInv, TypeOK, SnapMap, Published
    <2> QED
        BY <1>4, <2>1, <2>2, <2>3 DEF CopyDevice, IInv, TypeOK
<1>5. ASSUME NEW g \in Goroutine, MutatePayload(g) PROVE (\A s \in Published : Unwritten(s))
    <2>1. \A s \in Published, n \in Name : snapMem[s][n] # device[g]
        BY <1>5 DEF MutatePayload, Goto, IInv, CopyIsPrivate, Mutating
    <2>2. \A s \in Published, n \in Name :
            snapMem[s][n] # Nil => snapMem[s][n] \in DevRef
        BY DEF IInv, TypeOK, SnapMap, Published
    <2> QED
        BY <1>5, <2>1, <2>2 DEF MutatePayload, IInv, TypeOK
<1>6. ASSUME NEW g \in Goroutine, MutateAt(g) PROVE (\A s \in Published : Unwritten(s))
    <2>1. \A s \in Published, n \in Name : snapMem[s][n] # device[g]
        BY <1>6 DEF MutateAt, Goto, IInv, CopyIsPrivate, Mutating
    <2>2. \A s \in Published, n \in Name :
            snapMem[s][n] # Nil => snapMem[s][n] \in DevRef
        BY DEF IInv, TypeOK, SnapMap, Published
    <2> QED
        BY <1>6, <2>1, <2>2 DEF MutateAt, IInv, TypeOK
<1>7. ASSUME NEW g \in Goroutine, Link(g) PROVE (\A s \in Published : Unwritten(s))
    <2>1. next[g] \notin Published
        BY <1>7 DEF Link, Goto, IInv, LocalsAllocated, Mutating
    <2>2. Published \subseteq SnapRef
        BY DEF Published, IInv, TypeOK
    <2> QED
        BY <1>7, <2>1, <2>2 DEF Link, IInv, TypeOK
<1>8. ASSUME NEW g \in Goroutine, Publish(g) PROVE (\A s \in Published : Unwritten(s))
    BY <1>8 DEF Publish, Goto
<1>9. ASSUME NEW g \in Goroutine, Unlock(g) PROVE (\A s \in Published : Unwritten(s))
    BY <1>9 DEF Unlock, Goto
<1>10. ASSUME NEW r \in Scraper, Load(r) PROVE (\A s \in Published : Unwritten(s))
    BY <1>10 DEF Load
<1>11. ASSUME NEW r \in Scraper, Finish(r) PROVE (\A s \in Published : Unwritten(s))
    BY <1>11 DEF Finish
<1>12. CASE UNCHANGED vars
    BY <1>12 DEF vars
<1> QED
    BY <1>1, <1>2, <1>3, <1>4, <1>5, <1>6, <1>7, <1>8, <1>9, <1>10, <1>11,
       <1>12 DEF Next, Update

\* While current stays, so does what the next update starts from.
LEMMA BaseIsKept ==
    ASSUME IInv, [Next]_vars, current' = current
    PROVE  /\ Base' = Base
           /\ \A g \in Goroutine :
                (call[g] \in Call /\ call'[g] = call[g]) =>
                    Previous(g)' = Previous(g)
<1>1. CASE current = Nil
    BY <1>1 DEF Base, Previous, EmptyMap, Call
<1>2. CASE current # Nil
    <2>1. current \in Published
        BY <1>2 DEF Published
    <2>2. Unwritten(current)
        BY <2>1, PublishedIsImmutable
    <2>3. Base = snapMem[current] /\ Base' = Base
        BY <1>2, <2>2 DEF Base, Unwritten
    <2>4. ASSUME NEW g \in Goroutine, call[g] \in Call, call'[g] = call[g]
          PROVE  Previous(g)' = Previous(g)
        <3>1. call[g].name \in Name
            BY <2>4 DEF Call
        <3>2. Base[call[g].name] # Nil =>
                devMem'[Base[call[g].name]] = devMem[Base[call[g].name]]
            BY <2>2, <2>3, <3>1 DEF Unwritten
        <3> QED
            BY <2>3, <2>4, <3>2 DEF Previous
    <2> QED
        BY <2>3, <2>4
<1> QED
    BY <1>1, <1>2

\* The critical section stays exclusive.
LEMMA MutexStep == IInv /\ [Next]_vars => MutualExclusion'
<1> SUFFICES ASSUME IInv, [Next]_vars PROVE MutualExclusion'
    OBVIOUS
<1> USE DEF IInv, TypeOK, MutualExclusion, Critical
<1>1. ASSUME NEW g \in Goroutine, Begin(g) PROVE MutualExclusion'
    BY <1>1 DEF Begin, Goto
<1>2. ASSUME NEW g \in Goroutine, Lock(g) PROVE MutualExclusion'
    BY <1>2, NilIsNoGoroutine DEF Lock, Goto
<1>3. ASSUME NEW g \in Goroutine, CopyMap(g) PROVE MutualExclusion'
    BY <1>3 DEF CopyMap, Goto
<1>4. ASSUME NEW g \in Goroutine, CopyDevice(g) PROVE MutualExclusion'
    BY <1>4 DEF CopyDevice, Goto
<1>5. ASSUME NEW g \in Goroutine, MutatePayload(g) PROVE MutualExclusion'
    BY <1>5 DEF MutatePayload, Goto
<1>6. ASSUME NEW g \in Goroutine, MutateAt(g) PROVE MutualExclusion'
    BY <1>6 DEF MutateAt, Goto
<1>7. ASSUME NEW g \in Goroutine, Link(g) PROVE MutualExclusion'
    BY <1>7 DEF Link, Goto
<1>8. ASSUME NEW g \in Goroutine, Publish(g) PROVE MutualExclusion'
    BY <1>8 DEF Publish, Goto
<1>9. ASSUME NEW g \in Goroutine, Unlock(g) PROVE MutualExclusion'
    BY <1>9, NilIsNoGoroutine DEF Unlock, Goto
<1>10. ASSUME NEW r \in Scraper, Load(r) PROVE MutualExclusion'
    BY <1>10 DEF Load
<1>11. ASSUME NEW r \in Scraper, Finish(r) PROVE MutualExclusion'
    BY <1>11 DEF Finish
<1>12. CASE UNCHANGED vars
    BY <1>12 DEF vars
<1> QED
    BY <1>1, <1>2, <1>3, <1>4, <1>5, <1>6, <1>7, <1>8, <1>9, <1>10, <1>11,
       <1>12 DEF Next, Update

\* The locals stay allocated, and next unpublished until it is published.
LEMMA LocalsStep == IInv /\ [Next]_vars => LocalsAllocated'
<1> SUFFICES ASSUME IInv, [Next]_vars PROVE LocalsAllocated'
    OBVIOUS
<1> USE DEF IInv, TypeOK, LocalsAllocated, Critical, Mutating, Published
<1>1. ASSUME NEW g \in Goroutine, Begin(g) PROVE LocalsAllocated'
    <2>1. PICK c \in Call : call' = [call EXCEPT ![g] = c]
        BY <1>1 DEF Begin
    <2> QED
        BY <1>1, <2>1 DEF Begin, Goto
<1>2. ASSUME NEW g \in Goroutine, Lock(g) PROVE LocalsAllocated'
    BY <1>2 DEF Lock, Goto
<1>3. ASSUME NEW g \in Goroutine, CopyMap(g) PROVE LocalsAllocated'
    <2>1. PICK s \in SnapRef \ LiveSnaps : next' = [next EXCEPT ![g] = s]
        BY <1>3 DEF CopyMap
    <2>2. s \notin Published
        BY DEF LiveSnaps
    <2> QED
        BY <1>3, <2>1, <2>2 DEF CopyMap, Goto
<1>4. ASSUME NEW g \in Goroutine, CopyDevice(g) PROVE LocalsAllocated'
    <2>1. PICK d \in DevRef : device' = [device EXCEPT ![g] = d]
        BY <1>4 DEF CopyDevice
    <2> QED
        BY <1>4, <2>1 DEF CopyDevice, Goto
<1>5. ASSUME NEW g \in Goroutine, MutatePayload(g) PROVE LocalsAllocated'
    BY <1>5 DEF MutatePayload, Goto
<1>6. ASSUME NEW g \in Goroutine, MutateAt(g) PROVE LocalsAllocated'
    BY <1>6 DEF MutateAt, Goto
<1>7. ASSUME NEW g \in Goroutine, Link(g) PROVE LocalsAllocated'
    BY <1>7 DEF Link, Goto
<1>8. ASSUME NEW g \in Goroutine, Publish(g) PROVE LocalsAllocated'
    <2>1. \A h \in Goroutine : h # g => pc[h] \notin Critical
        BY <1>8, Alone DEF Publish, Goto
    <2> QED
        BY <1>8, <2>1 DEF Publish, Goto
<1>9. ASSUME NEW g \in Goroutine, Unlock(g) PROVE LocalsAllocated'
    BY <1>9 DEF Unlock, Goto
<1>10. ASSUME NEW r \in Scraper, Load(r) PROVE LocalsAllocated'
    BY <1>10 DEF Load
<1>11. ASSUME NEW r \in Scraper, Finish(r) PROVE LocalsAllocated'
    BY <1>11 DEF Finish
<1>12. CASE UNCHANGED vars
    BY <1>12 DEF vars
<1> QED
    BY <1>1, <1>2, <1>3, <1>4, <1>5, <1>6, <1>7, <1>8, <1>9, <1>10, <1>11,
       <1>12 DEF Next, Update

\* The device being mutated stays out of every reader's reach.
LEMMA PrivateStep == IInv /\ [Next]_vars => CopyIsPrivate'
<1> SUFFICES ASSUME IInv, [Next]_vars PROVE CopyIsPrivate'
    OBVIOUS
<1> USE DEF IInv, TypeOK, CopyIsPrivate, Mutating, Published
<1>1. ASSUME NEW g \in Goroutine, Begin(g) PROVE CopyIsPrivate'
    BY <1>1 DEF Begin, Goto
<1>2. ASSUME NEW g \in Goroutine, Lock(g) PROVE CopyIsPrivate'
    BY <1>2 DEF Lock, Goto
<1>3. ASSUME NEW g \in Goroutine, CopyMap(g) PROVE CopyIsPrivate'
    <2>1. \A h \in Goroutine : h # g => pc[h] \notin Critical
        BY <1>3, Alone DEF CopyMap, Goto, Critical
    <2> QED
        BY <1>3, <2>1 DEF CopyMap, Goto, Critical
<1>4. ASSUME NEW g \in Goroutine, CopyDevice(g) PROVE CopyIsPrivate'
    <2>1. \A h \in Goroutine : h # g => pc[h] \notin Critical
        BY <1>4, Alone DEF CopyDevice, Goto, Critical
    <2>2. PICK d \in DevRef \ LiveDevs : device' = [device EXCEPT ![g] = d]
        BY <1>4 DEF CopyDevice
    <2>3. next[g] \in SnapRef
        BY <1>4 DEF CopyDevice, Goto, LocalsAllocated
    <2>4. Published \cup {next[g]} \subseteq LiveSnaps
        BY <2>3, NilIsNoRef DEF LiveSnaps
    <2>5. \A s \in Published \cup {next[g]}, n \in Name : snapMem[s][n] # d
        BY <2>2, <2>4, NilIsNoRef DEF LiveDevs
    <2> QED
        BY <1>4, <2>1, <2>2, <2>5 DEF CopyDevice, Goto, Critical
<1>5. ASSUME NEW g \in Goroutine, MutatePayload(g) PROVE CopyIsPrivate'
    BY <1>5 DEF MutatePayload, Goto
<1>6. ASSUME NEW g \in Goroutine, MutateAt(g) PROVE CopyIsPrivate'
    BY <1>6 DEF MutateAt, Goto
<1>7. ASSUME NEW g \in Goroutine, Link(g) PROVE CopyIsPrivate'
    <2>1. \A h \in Goroutine : h # g => pc[h] \notin Critical
        BY <1>7, Alone DEF Link, Goto, Critical
    <2> QED
        BY <1>7, <2>1 DEF Link, Goto, Critical
<1>8. ASSUME NEW g \in Goroutine, Publish(g) PROVE CopyIsPrivate'
    <2>1. \A h \in Goroutine : h # g => pc[h] \notin Critical
        BY <1>8, Alone DEF Publish, Goto, Critical
    <2> QED
        BY <1>8, <2>1 DEF Publish, Goto, Critical
<1>9. ASSUME NEW g \in Goroutine, Unlock(g) PROVE CopyIsPrivate'
    <2>1. \A h \in Goroutine : h # g => pc[h] \notin Critical
        BY <1>9, Alone DEF Unlock, Goto, Critical
    <2> QED
        BY <1>9, <2>1 DEF Unlock, Goto, Critical
<1>10. ASSUME NEW r \in Scraper, Load(r) PROVE CopyIsPrivate'
    BY <1>10 DEF Load
<1>11. ASSUME NEW r \in Scraper, Finish(r) PROVE CopyIsPrivate'
    BY <1>11 DEF Finish
<1>12. CASE UNCHANGED vars
    BY <1>12 DEF vars
<1> QED
    BY <1>1, <1>2, <1>3, <1>4, <1>5, <1>6, <1>7, <1>8, <1>9, <1>10, <1>11,
       <1>12 DEF Next, Update

\* The new map is a copy of the published one, then the one to publish.
LEMMA NextStep == IInv /\ [Next]_vars => NextIsCopy'
<1> SUFFICES ASSUME IInv, [Next]_vars PROVE NextIsCopy'
    OBVIOUS
<1> USE DEF IInv, TypeOK, NextIsCopy, Mutating
<1>1. ASSUME NEW g \in Goroutine, Begin(g) PROVE NextIsCopy'
    <2>1. Base' = Base
        BY <1>1, BaseIsKept DEF Begin
    <2> QED
        BY <1>1, <2>1 DEF Begin, Goto
<1>2. ASSUME NEW g \in Goroutine, Lock(g) PROVE NextIsCopy'
    <2>1. Base' = Base
        BY <1>2, BaseIsKept DEF Lock
    <2> QED
        BY <1>2, <2>1 DEF Lock, Goto
<1>3. ASSUME NEW g \in Goroutine, CopyMap(g) PROVE NextIsCopy'
    <2>1. \A h \in Goroutine : h # g => pc[h] \notin Critical
        BY <1>3, Alone DEF CopyMap, Goto, Critical
    <2>2. Base' = Base
        BY <1>3, BaseIsKept DEF CopyMap
    <2>3. PICK s \in SnapRef : /\ next' = [next EXCEPT ![g] = s]
                               /\ snapMem' = [snapMem EXCEPT ![s] = Base]
        BY <1>3 DEF CopyMap, Base
    <2> QED
        BY <1>3, <2>1, <2>2, <2>3 DEF CopyMap, Goto, Critical
<1>4. ASSUME NEW g \in Goroutine, CopyDevice(g) PROVE NextIsCopy'
    <2>1. \A h \in Goroutine : h # g => pc[h] \notin Critical
        BY <1>4, Alone DEF CopyDevice, Goto, Critical
    <2>2. Base' = Base
        BY <1>4, BaseIsKept DEF CopyDevice
    <2> QED
        BY <1>4, <2>1, <2>2 DEF CopyDevice, Goto, Critical
<1>5. ASSUME NEW g \in Goroutine, MutatePayload(g) PROVE NextIsCopy'
    <2>1. \A h \in Goroutine : h # g => pc[h] \notin Critical
        BY <1>5, Alone DEF MutatePayload, Goto, Critical
    <2>2. Base' = Base
        BY <1>5, BaseIsKept DEF MutatePayload
    <2> QED
        BY <1>5, <2>1, <2>2 DEF MutatePayload, Goto, Critical
<1>6. ASSUME NEW g \in Goroutine, MutateAt(g) PROVE NextIsCopy'
    <2>1. \A h \in Goroutine : h # g => pc[h] \notin Critical
        BY <1>6, Alone DEF MutateAt, Goto, Critical
    <2>2. Base' = Base
        BY <1>6, BaseIsKept DEF MutateAt
    <2> QED
        BY <1>6, <2>1, <2>2 DEF MutateAt, Goto, Critical
<1>7. ASSUME NEW g \in Goroutine, Link(g) PROVE NextIsCopy'
    <2>1. \A h \in Goroutine : h # g => pc[h] \notin Critical
        BY <1>7, Alone DEF Link, Goto, Critical
    <2>2. Base' = Base
        BY <1>7, BaseIsKept DEF Link
    <2>3. /\ next[g] \in SnapRef /\ snapMem[next[g]] = Base
          /\ snapMem' = [snapMem EXCEPT ![next[g]] =
                            [Base EXCEPT ![call[g].name] = device[g]]]
        BY <1>7 DEF Link, Goto, LocalsAllocated
    <2>4. snapMem'[next'[g]] = [Base' EXCEPT ![call'[g].name] = device'[g]]
        BY <1>7, <2>2, <2>3 DEF Link
    <2>5. pc'[g] = "publish" /\ \A h \in Goroutine : h # g => pc'[h] = pc[h]
        BY <1>7 DEF Link, Goto
    <2> QED
        BY <2>1, <2>4, <2>5 DEF Critical
<1>8. ASSUME NEW g \in Goroutine, Publish(g) PROVE NextIsCopy'
    <2>1. \A h \in Goroutine : h # g => pc[h] \notin Critical
        BY <1>8, Alone DEF Publish, Goto, Critical
    <2> QED
        BY <1>8, <2>1 DEF Publish, Goto, Critical
<1>9. ASSUME NEW g \in Goroutine, Unlock(g) PROVE NextIsCopy'
    <2>1. Base' = Base
        BY <1>9, BaseIsKept DEF Unlock
    <2> QED
        BY <1>9, <2>1 DEF Unlock, Goto
<1>10. ASSUME NEW r \in Scraper, Load(r) PROVE NextIsCopy'
    <2>1. Base' = Base
        BY <1>10, BaseIsKept DEF Load
    <2> QED
        BY <1>10, <2>1 DEF Load
<1>11. ASSUME NEW r \in Scraper, Finish(r) PROVE NextIsCopy'
    <2>1. Base' = Base
        BY <1>11, BaseIsKept DEF Finish
    <2> QED
        BY <1>11, <2>1 DEF Finish
<1>12. CASE UNCHANGED vars
    BY <1>12 DEF vars, Base
<1> QED
    BY <1>1, <1>2, <1>3, <1>4, <1>5, <1>6, <1>7, <1>8, <1>9, <1>10, <1>11,
       <1>12 DEF Next, Update

\* The device an update starts from is a device.
LEMMA PreviousIsDevice ==
    ASSUME IInv, NEW g \in Goroutine, call[g] \in Call
    PROVE  Previous(g) \in Device
<1>1. Base \in SnapMap
    BY DEF Base, IInv, TypeOK, SnapMap, EmptyMap
<1>2. Blank \in Device
    BY DEF Blank, Device, Reading
<1> QED
    BY <1>1, <1>2 DEF Previous, SnapMap, Call, IInv, TypeOK

\* The copy of the device holds the old readings, then the half written one,
\* then the new one.
LEMMA DeviceStep == IInv /\ [Next]_vars => DeviceIsCopy'
<1> SUFFICES ASSUME IInv, [Next]_vars PROVE DeviceIsCopy'
    OBVIOUS
<1> USE DEF IInv, TypeOK, DeviceIsCopy
<1>1. ASSUME NEW g \in Goroutine, Begin(g) PROVE DeviceIsCopy'
    <2>1. ASSUME NEW h \in Goroutine PROVE CopyStage(h)'
        <3>1. CASE pc'[h] \in {"mutatePayload", "mutateAt", "link", "publish"}
            <4>1. call[h] \in Call /\ call'[h] = call[h]
                BY <1>1, <3>1 DEF Begin, LocalsAllocated, Goto
            <4>2. Previous(h)' = Previous(h)
                BY <1>1, <4>1, BaseIsKept DEF Begin
            <4>3. CopyStage(h)
                OBVIOUS
            <4> QED
                BY <1>1, <3>1, <4>1, <4>2, <4>3 DEF Begin, CopyStage, Goto
        <3>2. CASE pc'[h] \notin {"mutatePayload", "mutateAt", "link", "publish"}
            BY <3>2 DEF CopyStage
        <3> QED
            BY <3>1, <3>2
    <2> QED
        BY <2>1
<1>2. ASSUME NEW g \in Goroutine, Lock(g) PROVE DeviceIsCopy'
    <2>1. ASSUME NEW h \in Goroutine PROVE CopyStage(h)'
        <3>1. CASE pc'[h] \in {"mutatePayload", "mutateAt", "link", "publish"}
            <4>1. call[h] \in Call /\ call'[h] = call[h]
                BY <1>2, <3>1 DEF Lock, LocalsAllocated, Goto
            <4>2. Previous(h)' = Previous(h)
                BY <1>2, <4>1, BaseIsKept DEF Lock
            <4>3. CopyStage(h)
                OBVIOUS
            <4> QED
                BY <1>2, <3>1, <4>1, <4>2, <4>3 DEF Lock, CopyStage, Goto
        <3>2. CASE pc'[h] \notin {"mutatePayload", "mutateAt", "link", "publish"}
            BY <3>2 DEF CopyStage
        <3> QED
            BY <3>1, <3>2
    <2> QED
        BY <2>1
<1>3. ASSUME NEW g \in Goroutine, CopyMap(g) PROVE DeviceIsCopy'
    <2>1. \A h \in Goroutine : h # g => pc[h] \notin Critical
        BY <1>3, Alone DEF CopyMap, Goto, Critical
    <2> QED
        BY <1>3, <2>1 DEF CopyMap, Goto, Critical, CopyStage
<1>4. ASSUME NEW g \in Goroutine, CopyDevice(g) PROVE DeviceIsCopy'
    <2>1. \A h \in Goroutine : h # g => pc[h] \notin Critical
        BY <1>4, Alone DEF CopyDevice, Goto, Critical
    <2>2. call[g] \in Call /\ call'[g] = call[g]
        BY <1>4 DEF CopyDevice, Goto, LocalsAllocated
    <2>3. Previous(g)' = Previous(g)
        BY <1>4, <2>2, BaseIsKept DEF CopyDevice
    <2>4. snapMem[next[g]] = Base
        BY <1>4 DEF CopyDevice, Goto, NextIsCopy
    <2>5. PICK d \in DevRef : /\ device' = [device EXCEPT ![g] = d]
                              /\ devMem' = [devMem EXCEPT ![d] = Previous(g)]
        BY <1>4, <2>4 DEF CopyDevice, Previous
    <2> QED
        BY <1>4, <2>1, <2>3, <2>5 DEF CopyDevice, Goto, Critical, CopyStage
<1>5. ASSUME NEW g \in Goroutine, MutatePayload(g) PROVE DeviceIsCopy'
    <2>1. \A h \in Goroutine : h # g => pc[h] \notin Critical
        BY <1>5, Alone DEF MutatePayload, Goto, Critical
    <2>2. call[g] \in Call /\ call'[g] = call[g]
        BY <1>5 DEF MutatePayload, Goto, LocalsAllocated
    <2>3. Previous(g)' = Previous(g)
        BY <1>5, <2>2, BaseIsKept DEF MutatePayload
    <2>4. Previous(g) \in Device /\ device[g] \in DevRef
        BY <1>5, <2>2, PreviousIsDevice
        DEF MutatePayload, Goto, LocalsAllocated, Mutating
    <2>5. devMem[device[g]] = Previous(g)
        BY <1>5 DEF MutatePayload, Goto, CopyStage
    <2> DEFINE c == call[g]
    <2>6. c.group \in Group /\ Previous(g)[c.group] \in Reading
        BY <2>2, <2>4 DEF Call, Device
    <2>7. [Previous(g)[c.group] EXCEPT !.payload = c.value]
            = [payload |-> c.value, at |-> Previous(g)[c.group].at]
        BY <2>6 DEF Reading
    <2>8. devMem'[device[g]] = [Previous(g) EXCEPT ![c.group] =
                    [payload |-> c.value, at |-> Previous(g)[c.group].at]]
        BY <1>5, <2>4, <2>5, <2>7 DEF MutatePayload
    <2> QED
        BY <1>5, <2>1, <2>2, <2>3, <2>8 DEF MutatePayload, Goto, Critical, CopyStage
<1>6. ASSUME NEW g \in Goroutine, MutateAt(g) PROVE DeviceIsCopy'
    <2>1. \A h \in Goroutine : h # g => pc[h] \notin Critical
        BY <1>6, Alone DEF MutateAt, Goto, Critical
    <2>2. call[g] \in Call /\ call'[g] = call[g]
        BY <1>6 DEF MutateAt, Goto, LocalsAllocated
    <2>3. Previous(g)' = Previous(g)
        BY <1>6, <2>2, BaseIsKept DEF MutateAt
    <2>4. Previous(g) \in Device /\ device[g] \in DevRef
        BY <1>6, <2>2, PreviousIsDevice
        DEF MutateAt, Goto, LocalsAllocated, Mutating
    <2> DEFINE c == call[g]
               half == [payload |-> c.value, at |-> Previous(g)[c.group].at]
    <2>5. devMem[device[g]] = [Previous(g) EXCEPT ![c.group] = half]
        BY <1>6 DEF MutateAt, Goto, CopyStage
    <2>6. c.group \in Group
        BY <2>2 DEF Call
    <2>7. devMem'[device[g]] =
            [devMem[device[g]] EXCEPT ![c.group] =
                [devMem[device[g]][c.group] EXCEPT !.at = c.value]]
        BY <1>6, <2>4 DEF MutateAt
    <2>8. devMem[device[g]][c.group] = half
        BY <2>4, <2>5, <2>6 DEF Device
    <2>9. [half EXCEPT !.at = c.value] = [payload |-> c.value, at |-> c.value]
        OBVIOUS
    <2>10. devMem'[device[g]] = [Previous(g) EXCEPT ![c.group] =
                    [payload |-> c.value, at |-> c.value]]
        BY <2>4, <2>5, <2>6, <2>7, <2>8, <2>9 DEF Device
    <2> QED
        BY <1>6, <2>1, <2>2, <2>3, <2>10 DEF MutateAt, Goto, Critical, CopyStage
<1>7. ASSUME NEW g \in Goroutine, Link(g) PROVE DeviceIsCopy'
    <2>1. ASSUME NEW h \in Goroutine PROVE CopyStage(h)'
        <3>1. CASE pc'[h] \in {"mutatePayload", "mutateAt", "link", "publish"}
            <4>1. call[h] \in Call /\ call'[h] = call[h]
                BY <1>7, <3>1 DEF Link, LocalsAllocated, Goto
            <4>2. Previous(h)' = Previous(h)
                BY <1>7, <4>1, BaseIsKept DEF Link
            <4>3. CopyStage(h)
                OBVIOUS
            <4> QED
                BY <1>7, <3>1, <4>1, <4>2, <4>3 DEF Link, CopyStage, Goto
        <3>2. CASE pc'[h] \notin {"mutatePayload", "mutateAt", "link", "publish"}
            BY <3>2 DEF CopyStage
        <3> QED
            BY <3>1, <3>2
    <2> QED
        BY <2>1
<1>8. ASSUME NEW g \in Goroutine, Publish(g) PROVE DeviceIsCopy'
    <2>1. \A h \in Goroutine : h # g => pc[h] \notin Critical
        BY <1>8, Alone DEF Publish, Goto, Critical
    <2> QED
        BY <1>8, <2>1 DEF Publish, Goto, Critical, CopyStage
<1>9. ASSUME NEW g \in Goroutine, Unlock(g) PROVE DeviceIsCopy'
    <2>1. ASSUME NEW h \in Goroutine PROVE CopyStage(h)'
        <3>1. CASE pc'[h] \in {"mutatePayload", "mutateAt", "link", "publish"}
            <4>1. call[h] \in Call /\ call'[h] = call[h]
                BY <1>9, <3>1 DEF Unlock, LocalsAllocated, Goto
            <4>2. Previous(h)' = Previous(h)
                BY <1>9, <4>1, BaseIsKept DEF Unlock
            <4>3. CopyStage(h)
                OBVIOUS
            <4> QED
                BY <1>9, <3>1, <4>1, <4>2, <4>3 DEF Unlock, CopyStage, Goto
        <3>2. CASE pc'[h] \notin {"mutatePayload", "mutateAt", "link", "publish"}
            BY <3>2 DEF CopyStage
        <3> QED
            BY <3>1, <3>2
    <2> QED
        BY <2>1
<1>10. ASSUME NEW r \in Scraper, Load(r) PROVE DeviceIsCopy'
    <2>1. ASSUME NEW h \in Goroutine PROVE CopyStage(h)'
        <3>1. CASE pc'[h] \in {"mutatePayload", "mutateAt", "link", "publish"}
            <4>1. call[h] \in Call /\ call'[h] = call[h]
                BY <1>10, <3>1 DEF Load, LocalsAllocated
            <4>2. Previous(h)' = Previous(h)
                BY <1>10, <4>1, BaseIsKept DEF Load
            <4>3. CopyStage(h)
                OBVIOUS
            <4> QED
                BY <1>10, <3>1, <4>1, <4>2, <4>3 DEF Load, CopyStage
        <3>2. CASE pc'[h] \notin {"mutatePayload", "mutateAt", "link", "publish"}
            BY <3>2 DEF CopyStage
        <3> QED
            BY <3>1, <3>2
    <2> QED
        BY <2>1
<1>11. ASSUME NEW r \in Scraper, Finish(r) PROVE DeviceIsCopy'
    <2>1. ASSUME NEW h \in Goroutine PROVE CopyStage(h)'
        <3>1. CASE pc'[h] \in {"mutatePayload", "mutateAt", "link", "publish"}
            <4>1. call[h] \in Call /\ call'[h] = call[h]
                BY <1>11, <3>1 DEF Finish, LocalsAllocated
            <4>2. Previous(h)' = Previous(h)
                BY <1>11, <4>1, BaseIsKept DEF Finish
            <4>3. CopyStage(h)
                OBVIOUS
            <4> QED
                BY <1>11, <3>1, <4>1, <4>2, <4>3 DEF Finish, CopyStage
        <3>2. CASE pc'[h] \notin {"mutatePayload", "mutateAt", "link", "publish"}
            BY <3>2 DEF CopyStage
        <3> QED
            BY <3>1, <3>2
    <2> QED
        BY <2>1
<1>12. CASE UNCHANGED vars
    BY <1>12 DEF vars, CopyStage, Previous, Base
<1> QED
    BY <1>1, <1>2, <1>3, <1>4, <1>5, <1>6, <1>7, <1>8, <1>9, <1>10, <1>11,
       <1>12 DEF Next, Update

\* A published snapshot without torn readings stays without them.
LEMMA PublishedStaysWhole ==
    ASSUME IInv, [Next]_vars, NEW s \in Published, NEW n \in Name,
           DeviceIn(s, n)' # Nil
    PROVE  \A g \in Group : DeviceIn(s, n)'[g].payload = DeviceIn(s, n)'[g].at
<1>1. Unwritten(s)
    BY PublishedIsImmutable
<1>2. s # Nil
    BY DEF Published
<1>3. snapMem'[s][n] # Nil
    BY <1>2 DEF DeviceIn
<1>4. DeviceIn(s, n) = devMem[snapMem[s][n]] /\ DeviceIn(s, n)' = DeviceIn(s, n)
    BY <1>1, <1>2, <1>3 DEF DeviceIn, Unwritten
<1>5. DeviceIn(s, n) # Nil
    BY <1>4
<1> QED
    BY <1>4, <1>5 DEF IInv, NoTornReading

\* Only Publish adds a snapshot to the published ones.
LEMMA PublishedGrows ==
    ASSUME IInv, [Next]_vars, NEW s \in Published', s \notin Published
    PROVE  \E g \in Goroutine : Publish(g) /\ s = next[g]
<1> USE DEF Published
<1>1. ASSUME NEW g \in Goroutine, Publish(g) PROVE s = next[g]
    BY <1>1 DEF Publish
<1>2. ASSUME ~ \E g \in Goroutine : Publish(g) PROVE FALSE
    <2>1. ASSUME NEW r \in Scraper, Load(r) PROVE FALSE
        BY <2>1 DEF Load, IInv, TypeOK
    <2>2. ASSUME NEW r \in Scraper, Finish(r) PROVE FALSE
        BY <2>2 DEF Finish, IInv, TypeOK
    <2>3. ASSUME ~ \E r \in Scraper : Load(r) \/ Finish(r) PROVE FALSE
        <3>1. UNCHANGED <<current, view>>
            BY <1>2, <2>3 DEF Next, Update, Begin, Lock, CopyMap, CopyDevice,
               MutatePayload, MutateAt, Link, Unlock, vars
        <3> QED
            BY <3>1
    <2> QED
        BY <2>1, <2>2, <2>3
<1> QED
    BY <1>1, <1>2

\* What Publish makes visible: the old contents, and in them the new reading.
LEMMA PublishedContents ==
    ASSUME IInv, NEW g \in Goroutine, Publish(g)
    PROVE  /\ call[g] \in Call /\ device[g] \in DevRef /\ next[g] \in SnapRef
           /\ current' = next[g] /\ snapMem' = snapMem /\ devMem' = devMem
           /\ snapMem[next[g]] = [Base EXCEPT ![call[g].name] = device[g]]
           /\ devMem[device[g]] = [Previous(g) EXCEPT ![call[g].group] =
                    [payload |-> call[g].value, at |-> call[g].value]]
           /\ Base \in SnapMap /\ Previous(g) \in Device
<1>1. pc[g] = "publish" /\ call[g] \in Call
    BY DEF Publish, Goto, IInv, LocalsAllocated
<1>2. Base \in SnapMap
    BY DEF Base, IInv, TypeOK, SnapMap, EmptyMap
<1>3. Previous(g) \in Device
    BY <1>1, PreviousIsDevice
<1> QED
    BY <1>1, <1>2, <1>3
    DEF Publish, IInv, LocalsAllocated, NextIsCopy, DeviceIsCopy, CopyStage

\* No torn reading becomes visible.
LEMMA NoTornStep == IInv /\ [Next]_vars => NoTornReading'
<1> SUFFICES ASSUME IInv, [Next]_vars,
                    NEW s \in Published', NEW n \in Name, DeviceIn(s, n)' # Nil,
                    NEW k \in Group
             PROVE  DeviceIn(s, n)'[k].payload = DeviceIn(s, n)'[k].at
    BY DEF NoTornReading
<1>1. CASE s \in Published
    BY <1>1, PublishedStaysWhole
<1>2. CASE s \notin Published
    <2>1. PICK g \in Goroutine : Publish(g) /\ s = next[g]
        BY <1>2, PublishedGrows
    <2> DEFINE c == call[g]
    <2>2. c.name \in Name /\ c.group \in Group
        BY <2>1, PublishedContents DEF Call
    <2>3. s # Nil
        BY DEF Published
    <2>6. /\ snapMem'[s] = [Base EXCEPT ![c.name] = device[g]]
          /\ Base \in SnapMap /\ device[g] # Nil
        BY <2>1, PublishedContents, NilIsNoRef
    <2>4. CASE n = c.name
        <3>1. snapMem'[s][n] = device[g] /\ device[g] # Nil
            BY <2>2, <2>4, <2>6 DEF SnapMap
        <3>2. DeviceIn(s, n)' = [Previous(g) EXCEPT ![c.group] =
                                    [payload |-> c.value, at |-> c.value]]
            BY <2>1, <2>3, <3>1, PublishedContents DEF DeviceIn
        <3>5. DOMAIN Previous(g) = Group
            BY <2>1, PublishedContents DEF Device
        <3>3. CASE k = c.group
            <4>1. DeviceIn(s, n)'[k] = [payload |-> c.value, at |-> c.value]
                BY <2>2, <3>2, <3>3, <3>5
            <4> QED
                BY <4>1
        <3>4. CASE k # c.group
            <4>1. DeviceIn(s, n)'[k] = Previous(g)[k]
                BY <2>1, <3>2, <3>4, PublishedContents DEF Device
            <4>2. CASE Base[n] = Nil
                BY <2>4, <4>1, <4>2 DEF Previous, Blank
            <4>3. CASE Base[n] # Nil
                <5>1. current # Nil /\ current \in Published
                    BY <4>3 DEF Base, EmptyMap, Published
                <5>2. Previous(g) = DeviceIn(current, n)
                    BY <2>4, <4>3, <5>1 DEF Previous, Base, DeviceIn
                <5>3. Previous(g) # Nil
                    BY <2>1, PublishedContents, NilIsNoDevice
                <5> QED
                    BY <4>1, <5>1, <5>2, <5>3 DEF IInv, NoTornReading
            <4> QED
                BY <4>2, <4>3
        <3> QED
            BY <3>3, <3>4
    <2>5. CASE n # c.name
        <3>1. snapMem'[s][n] = Base[n]
            BY <2>5, <2>6 DEF SnapMap
        <3>2. Base[n] # Nil
            BY <2>3, <3>1 DEF DeviceIn
        <3>3. current # Nil /\ current \in Published
            BY <3>2 DEF Base, EmptyMap, Published
        <3>4. DeviceIn(s, n)' = DeviceIn(current, n)
            BY <2>1, <2>3, <3>1, <3>2, <3>3, PublishedContents
            DEF DeviceIn, Base
        <3> QED
            BY <3>3, <3>4 DEF IInv, NoTornReading
    <2> QED
        BY <2>4, <2>5
<1> QED
    BY <1>1, <1>2

\* The invariant holds initially.
LEMMA InitIInv == Init => IInv
<1> SUFFICES ASSUME Init PROVE IInv
    OBVIOUS
<1> USE DEF Init
<1>1. TypeOK
    BY DEF TypeOK, SnapMap, EmptyMap, Device, Blank, Reading, Critical
<1>2. MutualExclusion
    BY NilIsNoGoroutine DEF MutualExclusion, Critical
<1>3. LocalsAllocated /\ CopyIsPrivate /\ NextIsCopy
    BY DEF LocalsAllocated, CopyIsPrivate, NextIsCopy, Mutating
<1>4. DeviceIsCopy
    BY DEF DeviceIsCopy, CopyStage
<1>5. NoTornReading
    BY DEF NoTornReading, Published
<1> QED
    BY <1>1, <1>2, <1>3, <1>4, <1>5 DEF IInv

\* Every step keeps the invariant.
LEMMA StepIInv == IInv /\ [Next]_vars => IInv'
BY TypeStep, MutexStep, LocalsStep, PrivateStep, NextStep, DeviceStep,
   NoTornStep DEF IInv

\* The inductive invariant holds of every reachable state.
THEOREM Invariant == Spec => []IInv
BY InitIInv, StepIInv, PTL DEF Spec

\* Every variable keeps its type.
THEOREM TypeCorrect == Spec => []TypeOK
<1>1. IInv => TypeOK
    BY DEF IInv
<1> QED
    BY Invariant, <1>1, PTL

\* No reader ever sees the payload of one poll with the time of another.
THEOREM NothingIsTorn == Spec => []NoTornReading
<1>1. IInv => NoTornReading
    BY DEF IInv
<1> QED
    BY Invariant, <1>1, PTL

\* A loaded snapshot does not change while its reader holds it.
THEOREM LoadedIsFrozen == Spec => LoadedSnapshotIsFrozen
<1>1. IInv /\ [Next]_vars =>
        \A r \in Scraper : (view[r] # Nil /\ view'[r] = view[r]) =>
            Contents(view[r])' = Contents(view[r])
    <2> SUFFICES ASSUME IInv, [Next]_vars, NEW r \in Scraper,
                        view[r] # Nil, view'[r] = view[r]
                 PROVE  Contents(view[r])' = Contents(view[r])
        OBVIOUS
    <2>1. Unwritten(view[r])
        BY PublishedIsImmutable DEF Published
    <2>2. \A n \in Name : DeviceIn(view[r], n)' = DeviceIn(view[r], n)
        BY <2>1 DEF Unwritten, DeviceIn
    <2> QED
        BY <2>2 DEF Contents
<1> QED
    BY Invariant, <1>1, PTL DEF Spec, LoadedSnapshotIsFrozen

\* A step that does not publish leaves the published contents alone.
LEMMA ContentsKept ==
    ASSUME IInv, [Next]_vars, current' = current
    PROVE  Contents(current)' = Contents(current)
<1>1. CASE current = Nil
    BY <1>1 DEF Contents, DeviceIn
<1>2. CASE current # Nil
    <2>1. Unwritten(current)
        BY <1>2, PublishedIsImmutable DEF Published
    <2>2. \A n \in Name : DeviceIn(current, n)' = DeviceIn(current, n)
        BY <2>1 DEF Unwritten, DeviceIn
    <2> QED
        BY <2>2 DEF Contents
<1> QED
    BY <1>1, <1>2

\* Publish is the abstract update, of the reading its caller asked for.
LEMMA PublishUpdates ==
    ASSUME IInv, NEW g \in Goroutine, Publish(g)
    PROVE  Table!Update(call[g].name, call[g].group, call[g].value)
<1> DEFINE c == call[g]
           old == IF Contents(current)[c.name] = Nil THEN Blank
                                                ELSE Contents(current)[c.name]
           new == [old EXCEPT ![c.group] = [payload |-> c.value, at |-> c.value]]
<1>1. c.name \in Name /\ c.group \in Group /\ next[g] # Nil /\ device[g] # Nil
    BY PublishedContents, NilIsNoRef DEF Call
<1>2. old = Previous(g)
    <2>1. CASE current = Nil
        BY <1>1, <2>1 DEF Contents, DeviceIn, Previous, Base, EmptyMap
    <2>2. CASE current # Nil
        <3>1. Base[c.name] # Nil => devMem[Base[c.name]] # Nil
            BY PublishedContents, NilIsNoDevice DEF Previous
        <3> QED
            BY <1>1, <2>2, <3>1 DEF Contents, DeviceIn, Previous, Base
    <2> QED
        BY <2>1, <2>2
<1>3. ASSUME NEW n \in Name
      PROVE  DeviceIn(current, n)' =
                IF n = c.name THEN new ELSE DeviceIn(current, n)
    <2>4. /\ snapMem'[current'] = [Base EXCEPT ![c.name] = device[g]]
          /\ Base \in SnapMap
        BY PublishedContents
    <2>1. snapMem'[current'][n] = IF n = c.name THEN device[g] ELSE Base[n]
        BY <1>1, <2>4 DEF SnapMap
    <2>2. CASE n = c.name
        BY <1>1, <1>2, <2>1, <2>2, PublishedContents DEF DeviceIn
    <2>3. CASE n # c.name
        BY <1>1, <2>1, <2>3, PublishedContents DEF DeviceIn, Base, EmptyMap
    <2> QED
        BY <2>2, <2>3
<1>4. Contents(current)' = [Contents(current) EXCEPT ![c.name] = new]
    BY <1>1, <1>3 DEF Contents
<1>5. Blank = Table!Blank
    BY DEF Blank, Table!Blank
<1> QED
    BY <1>4, <1>5 DEF Table!Update

\* Update as a whole is one atomic, lossless update of one reading.
THEOREM StoreImplementsTable == Spec => ImplementsTable
<1>1. Init => Table!Init
    BY DEF Init, Table!Init, Contents, DeviceIn
<1>2. IInv /\ [Next]_vars => [Table!Next]_(Contents(current))
    <2> SUFFICES ASSUME IInv, [Next]_vars
                 PROVE  [Table!Next]_(Contents(current))
        OBVIOUS
    <2>1. CASE current' = current
        BY <2>1, ContentsKept
    <2>2. CASE current' # current
        <3>1. PICK g \in Goroutine : Publish(g)
            BY <2>2 DEF Next, Update, Begin, Lock, CopyMap, CopyDevice,
               MutatePayload, MutateAt, Link, Unlock, Load, Finish, vars
        <3>2. Table!Update(call[g].name, call[g].group, call[g].value)
            BY <3>1, PublishUpdates
        <3>3. call[g] \in Call
            BY <3>1, PublishedContents
        <3> QED
            BY <3>2, <3>3 DEF Table!Next, Call
    <2> QED
        BY <2>1, <2>2
<1> QED
    BY Invariant, <1>1, <1>2, PTL DEF Spec, ImplementsTable, Table!Spec
=============================================================================
