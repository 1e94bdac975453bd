-------------------------- MODULE DiscoveryProofs --------------------------
(***************************************************************************)
(* Proofs about Discovery, for any devices, any entries they advertise and *)
(* any order in which these arrive: whatever was heard is printed, once,   *)
(* and no two devices get the same name.                                   *)
(***************************************************************************)
EXTENDS Discovery, FiniteSetTheorems, TLAPS

\* SetToSeqs lists every element of a finite set, and none of them twice.
LEMMA OrderIsListing ==
    ASSUME NEW S, IsFiniteSet(S), NEW order \in SetToSeqs(S)
    PROVE  /\ DOMAIN order = 1 .. Cardinality(S) /\ Cardinality(S) \in Nat
           /\ \A i \in DOMAIN order : order[i] \in S
           /\ \A k \in S : \E i \in DOMAIN order : order[i] = k
           /\ \A i, j \in DOMAIN order : order[i] = order[j] => i = j
<1> DEFINE n == Cardinality(S)
<1>1. n \in Nat
  BY FS_CardinalityType
<1>2. order \in [1 .. n -> S] /\ \A i, j \in 1 .. n : i # j => order[i] # order[j]
  BY DEF SetToSeqs
<1>3. order \in Injection(1 .. n, S)
  BY <1>2 DEF Injection, IsInjective
<1>4. Cardinality(1 .. n) = n
  BY <1>1, FS_Interval
<1>5. order \in Surjection(1 .. n, S)
  BY <1>3, <1>4, FS_Injection
<1> QED BY <1>1, <1>2, <1>5 DEF Surjection

\* The numbers uniqueName gives to the devices of one name go up.
LEMMA NamesAreUnique ==
    ASSUME NEW devices, NEW n \in Nat, NEW i \in 1 .. n, NEW j \in 1 .. n,
           uniqueName(devices, i) = uniqueName(devices, j)
    PROVE  i = j
<1> DEFINE Same(k) == {l \in 1 .. k : deviceName(devices[l]) = deviceName(devices[k])}
<1>1. ASSUME NEW k \in 1 .. n, NEW l \in 1 .. n, k < l,
             uniqueName(devices, k) = uniqueName(devices, l)
      PROVE  FALSE
  <2>1. deviceName(devices[k]) = deviceName(devices[l])
    BY <1>1 DEF uniqueName
  <2>2. Cardinality(Same(k)) = Cardinality(Same(l))
    BY <1>1 DEF uniqueName
  <2>3. Same(k) \subseteq Same(l) /\ l \in Same(l) /\ l \notin Same(k)
    BY <1>1, <2>1
  <2>4. IsFiniteSet(Same(l))
    <3>1. 1 \in Int /\ l \in Int
      OBVIOUS
    <3>2. IsFiniteSet(1 .. l)
      BY <3>1, FS_Interval
    <3>3. Same(l) \in SUBSET (1 .. l)
      OBVIOUS
    <3> HIDE DEF Same
    <3> QED BY <3>2, <3>3, FS_Subset
  <2> HIDE DEF Same
  <2> QED BY <2>2, <2>3, <2>4, FS_Subset
<1> QED BY <1>1
-----------------------------------------------------------------------------
\* The two services.
LEMMA TwoServices == DOMAIN Services = 1 .. 2 /\ Len(Services) = 2
BY DEF Services

LEMMA AnswersAreEntries ==
    ASSUME turn \in DOMAIN Services, NEW h \in Hardware, NEW e \in answersOf(h)
    PROVE  e \in All
BY DEF answersOf, All

LEMMA InitInv == Init => IInv
<1> SUFFICES ASSUME Init PROVE IInv
  OBVIOUS
<1> USE DEF Init
<1>1. IsFiniteSet({}) /\ Cardinality({}) = 0
  BY FS_EmptySet
<1>2. DOMAIN found = {}
  OBVIOUS
<1>3. TypeOK
  <2>1. Cardinality(DOMAIN found) <= Cardinality(heard)
    BY <1>1, <1>2
  <2>2. turn \in DOMAIN Services
    BY TwoServices
  <2>3. left \in 0 .. Timeout /\ waited \in 0 .. Timeout - left
    BY DiscoveryAssumption
  <2>4. entries \in Seq(All) /\ Len(entries) <= Room
    BY DiscoveryAssumption
  <2> QED BY <2>1, <2>2, <2>3, <2>4 DEF TypeOK
<1>4. Merged
  BY <1>1, <1>2 DEF Merged
<1>5. Printed
  BY DEF Printed
<1> QED BY <1>3, <1>4, <1>5 DEF IInv

\* What merge makes of a device keeps its address, or takes that of the entry.
LEMMA MergedAddress ==
    ASSUME NEW device, NEW e, "host" \in DOMAIN device
    PROVE  /\ "host" \in DOMAIN merged(device, e)
           /\ e.host # "" => merged(device, e).host # ""
           /\ device.host # "" => merged(device, e).host # ""
BY DEF merged

\* There are no more devices than entries.
LEMMA FewerDevices ==
    ASSUME NEW S, IsFiniteSet(S)
    PROVE  Cardinality({key(e) : e \in S}) <= Cardinality(S)
<1> DEFINE K == {key(e) : e \in S}
           name == [e \in S |-> key(e)]
<1>1. name \in Surjection(S, K)
  BY DEF Surjection
<1> HIDE DEF K, name
<1>2. Cardinality(K) <= Cardinality(S)
  BY <1>1, FS_Surjection
<1> QED BY <1>2 DEF K

LEMMA MergeKeeps == IInv /\ merge => IInv'
<1> SUFFICES ASSUME IInv, merge PROVE IInv'
  OBVIOUS
<1> USE DEF IInv
<1> DEFINE e == Head(entries)
           k0 == key(e)
           device == IF k0 \in DOMAIN found THEN found[k0] ELSE Unknown(e)
<1>1. /\ pc = "browse" /\ entries # <<>> /\ entries \in Seq(All)
      /\ entries' = Tail(entries)
      /\ heard' = heard \cup {e}
      /\ found' = [k \in DOMAIN found \cup {k0} |->
                        IF k = k0 THEN merged(device, e) ELSE found[k]]
      /\ UNCHANGED <<pc, turn, clock, open, block, answered>>
  BY DEF merge, TypeOK
<1>2. e \in All /\ Tail(entries) \in Seq(All) /\ Len(Tail(entries)) <= Len(entries)
  BY <1>1
<1>3. "host" \in DOMAIN device
  BY DEF Unknown, Merged
<1> HIDE DEF device
<1>4. Merged'
  <2>1. IsFiniteSet(heard')
    BY <1>1, FS_AddElement DEF Merged
  <2>2. DOMAIN found' = {key(x) : x \in heard'}
    BY <1>1 DEF Merged
  <2>3. \A k \in DOMAIN found' : "host" \in DOMAIN found'[k]
    <3> SUFFICES ASSUME NEW k \in DOMAIN found'
                 PROVE  "host" \in DOMAIN found'[k]
      OBVIOUS
    <3>1. CASE k = k0
      BY <1>1, <1>3, <3>1, MergedAddress
    <3>2. CASE k # k0
      BY <1>1, <3>2 DEF Merged
    <3> QED BY <3>1, <3>2
  <2>4. ASSUME NEW x \in heard', x.host # ""
        PROVE  found'[key(x)].host # ""
    <3>1. CASE key(x) # k0
      BY <1>1, <2>4, <3>1 DEF Merged
    <3>2. CASE x = e
      BY <1>1, <1>3, <2>4, <3>2, MergedAddress
    <3>3. CASE key(x) = k0 /\ x # e
      <4>1. x \in heard /\ k0 \in DOMAIN found
        BY <1>1, <3>3 DEF Merged
      <4>2. device.host # ""
        BY <2>4, <3>3, <4>1 DEF Merged, device
      <4> QED BY <1>1, <1>3, <3>3, <4>1, <4>2, MergedAddress
    <3> QED BY <3>1, <3>2, <3>3
  <2> QED BY <2>1, <2>2, <2>3, <2>4 DEF Merged
<1>5. TypeOK'
  <2>1. Cardinality(DOMAIN found') <= Cardinality(heard')
    <3>1. IsFiniteSet(heard') /\ DOMAIN found' = {key(x) : x \in heard'}
      BY <1>4 DEF Merged
    <3> QED BY <3>1, FewerDevices
  <2>2. heard' \subseteq All
    BY <1>1, <1>2 DEF TypeOK
  <2>3. entries' \in Seq(All) /\ Len(entries') <= Room
    BY <1>1, <1>2, DiscoveryAssumption DEF TypeOK
  <2> QED BY <1>1, <2>1, <2>2, <2>3 DEF TypeOK, clock
<1>6. Printed'
  BY <1>1 DEF Printed
<1> QED BY <1>4, <1>5, <1>6

LEMMA PrintKeeps == IInv /\ PrintBlock => IInv'
<1> SUFFICES ASSUME IInv, PrintBlock PROVE IInv'
  OBVIOUS
<1> USE DEF IInv
<1>1. /\ pc' = "done"
      /\ UNCHANGED <<turn, clock, open, entries, found, answered, heard>>
  BY DEF PrintBlock
<1>2. PICK order \in SetToSeqs(DOMAIN found) :
        block' = [i \in DOMAIN order |->
                    [name |-> uniqueName([l \in DOMAIN order |-> found[order[l]]], i),
                     host |-> [l \in DOMAIN order |-> found[order[l]]][i].host,
                     key |-> order[i]]]
  BY Zenon DEF PrintBlock
<1> DEFINE devices == [l \in DOMAIN order |-> found[order[l]]]
           n == Cardinality(DOMAIN found)
<1>3. IsFiniteSet(DOMAIN found)
  <2> DEFINE name == [e \in heard |-> key(e)]
  <2>1. name \in Surjection(heard, DOMAIN found)
    BY DEF Surjection, Merged
  <2> HIDE DEF name
  <2> QED BY <2>1, FS_Surjection DEF Merged
<1>4. /\ DOMAIN order = 1 .. n /\ n \in Nat
      /\ \A i \in DOMAIN order : order[i] \in DOMAIN found
      /\ \A k \in DOMAIN found : \E i \in DOMAIN order : order[i] = k
      /\ \A i, j \in DOMAIN order : order[i] = order[j] => i = j
  BY <1>2, <1>3, OrderIsListing
<1>5. /\ DOMAIN block' = DOMAIN order
      /\ \A i \in DOMAIN order : /\ block'[i].key = order[i]
                                 /\ block'[i].host = found[order[i]].host
                                 /\ block'[i].name = uniqueName(devices, i)
  BY <1>2
<1>6. \A i, j \in DOMAIN order :
        uniqueName(devices, i) = uniqueName(devices, j) => i = j
  <2> HIDE DEF devices, n
  <2> QED BY <1>4, NamesAreUnique
<1> HIDE DEF devices, n
<1>7. Printed'
  <2>1. \A k \in DOMAIN found : \E i \in DOMAIN block' : block'[i].key = k
    BY <1>4, <1>5
  <2>2. \A i \in DOMAIN block' : block'[i].host = found[block'[i].key].host
    BY <1>5
  <2>3. \A i, j \in DOMAIN block' :
            \/ i = j
            \/ block'[i].key # block'[j].key /\ block'[i].name # block'[j].name
    BY <1>4, <1>5, <1>6
  <2> QED BY <1>1, <2>1, <2>2, <2>3 DEF Printed
<1>8. TypeOK'
  BY <1>1 DEF TypeOK, clock
<1>9. Merged'
  BY <1>1 DEF Merged
<1> QED BY <1>7, <1>8, <1>9

\* The steps that add to no device and print nothing.
LEMMA OthersKeep ==
    ASSUME IInv, [Next]_vars, ~merge, ~PrintBlock
    PROVE  IInv'
<1> USE DEF IInv
<1>1. CASE UNCHANGED vars
  <2>1. /\ UNCHANGED <<pc, turn, left, waited, cancelled, open>>
        /\ UNCHANGED <<entries, found, block, answered, heard>>
    BY <1>1 DEF vars, clock
  <2>2. TypeOK'
    BY <2>1, Zenon DEF TypeOK
  <2>3. Merged' /\ Printed'
    BY <2>1 DEF Merged, Printed
  <2> QED BY <2>2, <2>3
<1>2. ASSUME NEW h \in Hardware, Deliver(h) PROVE IInv'
  <2>1. PICK e \in answersOf(h) : entries' = Append(entries, e)
    BY <1>2 DEF Deliver
  <2>2. e \in All
    BY AnswersAreEntries DEF TypeOK
  <2>3. entries' \in Seq(All) /\ Len(entries') <= Room
    BY <1>2, <2>1, <2>2, DiscoveryAssumption DEF TypeOK, Deliver
  <2>4. TypeOK'
    BY <1>2, <2>3 DEF TypeOK, Deliver, clock
  <2> QED BY <1>2, <2>4 DEF Deliver, Merged, Printed
<1>3. CASE Close
  <2>1. TypeOK'
    BY <1>3 DEF Close, clock, TypeOK
  <2> QED BY <1>3, <2>1 DEF Close, Merged, Printed
<1>4. CASE BrowseFails
  BY <1>4 DEF BrowseFails, clock, TypeOK, Merged, Printed
<1>5. CASE NextService
  <2>1. turn' \in DOMAIN Services /\ pc' \in {"browse", "print"}
    BY <1>5, TwoServices DEF NextService, TypeOK
  <2>2. left' \in 0 .. Timeout /\ waited' \in 0 .. Timeout - left'
    BY <1>5, DiscoveryAssumption DEF NextService, TypeOK
  <2>3. {cancelled', open'} \subseteq BOOLEAN
    BY <1>5 DEF NextService, TypeOK
  <2>4. answered' \subseteq Hardware /\ block' = <<>>
    BY <1>5 DEF NextService, TypeOK
  <2>5. TypeOK'
    BY <1>5, <2>1, <2>2, <2>3, <2>4 DEF NextService, TypeOK
  <2>6. Merged' /\ Printed'
    BY <1>5 DEF NextService, Merged, Printed
  <2> QED BY <2>5, <2>6
<1>6. CASE Tick
  <2>1. left' \in 0 .. Timeout /\ waited' \in 0 .. Timeout - left'
    BY <1>6, DiscoveryAssumption DEF Tick, TypeOK
  <2>2. TypeOK'
    BY <1>6, <2>1 DEF Tick, TypeOK
  <2> QED BY <1>6, <2>2 DEF Tick, Merged, Printed
<1>7. CASE Signal
  <2>1. /\ UNCHANGED <<pc, turn, left, waited, open>>
        /\ UNCHANGED <<entries, found, block, answered, heard>>
    BY <1>7 DEF Signal
  <2>2. {cancelled', open'} \subseteq BOOLEAN
    BY <1>7 DEF TypeOK, Signal
  <2>3. TypeOK'
    BY <2>1, <2>2 DEF TypeOK
  <2> QED BY <2>1, <2>3 DEF Merged, Printed
<1> QED BY <1>1, <1>2, <1>3, <1>4, <1>5, <1>6, <1>7 DEF Next, Consumer
-----------------------------------------------------------------------------
\* What is found and what is printed stays as described above whatever the
\* devices advertise, in any order and number, and whenever the command ends.
THEOREM Invariant == Spec => []IInv
<1>1. IInv /\ [Next]_vars => IInv'
  BY MergeKeeps, PrintKeeps, OthersKeep
<1> QED BY InitInv, <1>1, PTL DEF Spec

\* Each device that was heard has its entry, with an address if any of its
\* answers had one: for the merge in Browse and the block of runDiscover.
THEOREM EverythingHeardIsPrinted == Spec => []HeardIsPrinted
<1>1. IInv => HeardIsPrinted
  <2> SUFFICES ASSUME IInv, pc = "done", NEW e \in heard
               PROVE  \E i \in DOMAIN block :
                        /\ block[i].key = key(e)
                        /\ e.host # "" => block[i].host # ""
    BY DEF HeardIsPrinted
  <2>1. key(e) \in DOMAIN found /\ (e.host # "" => found[key(e)].host # "")
    BY DEF IInv, Merged
  <2>2. PICK i \in DOMAIN block : block[i].key = key(e)
    BY <2>1 DEF IInv, Printed
  <2>3. block[i].host = found[key(e)].host
    BY <2>2 DEF IInv, Printed
  <2> QED BY <2>1, <2>2, <2>3
<1> QED BY Invariant, <1>1, PTL

\* No name is printed twice, whatever the devices are; and no device is, as long
\* as it goes by one serial, or one instance name, in all that it advertises.
THEOREM DevicesArePrintedOnce == OneKeyEach => (Spec => []OneEntryPerDevice)
<1> SUFFICES ASSUME OneKeyEach PROVE Spec => []OneEntryPerDevice
  OBVIOUS
<1>1. ASSUME IInv PROVE OneEntryPerDevice
  <2>1. \A i, j \in DOMAIN block :
            \/ i = j
            \/ block[i].key # block[j].key /\ block[i].name # block[j].name
    <3>1. CASE pc = "done"
      BY <1>1, <3>1 DEF IInv, Printed
    <3>2. CASE pc # "done"
      BY <1>1, <3>2 DEF IInv, TypeOK
    <3> QED BY <3>1, <3>2
  <2>2. ASSUME NEW h \in Hardware
        PROVE  Cardinality({i \in DOMAIN block : block[i].key \in KeysOf(h)}) <= 1
    <3> DEFINE D == {i \in DOMAIN block : block[i].key \in KeysOf(h)}
    <3>1. \A i, j \in D : i = j
      BY <1>1, <2>1 DEF OneKeyEach
    <3> HIDE DEF D
    <3>2. CASE D = {}
      BY <3>2, FS_EmptySet DEF D
    <3>3. CASE D # {}
      <4>1. \E i : D = {i}
        BY <3>1, <3>3
      <4>2. Cardinality(D) = 1
        BY <4>1, FS_Singleton
      <4> QED BY <4>2 DEF D
    <3> QED BY <3>2, <3>3
  <2> QED BY <2>1, <2>2 DEF OneEntryPerDevice
<1> QED BY Invariant, <1>1, PTL
=============================================================================
