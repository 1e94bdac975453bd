---------------------------- MODULE DeviceTable ----------------------------
(***************************************************************************)
(* What internal/snapshot promises the rest of the exporter: a table with  *)
(* one entry per device name, in which an update replaces one reading of   *)
(* one device, together with its timestamp, in a single step and leaves    *)
(* every other entry and reading alone.  SnapshotStore is shown to         *)
(* implement this.                                                         *)
(***************************************************************************)
CONSTANTS
    Name,       \* device names: the keys of Snapshot.Devices
    Group,      \* the parts of a Device that one mutation writes together
    Value,      \* what a read of a device can return
    Zero,       \* Go's zero value of a payload and of a timestamp
    Absent      \* the entry of a name that is not in the table

VARIABLE table

\* A payload and the time it was read.  Both carry the identity of the read
\* they come from, so a torn pair is one whose halves differ.
Reading == [payload : Value \cup {Zero}, at : Value \cup {Zero}]

Device == [Group -> Reading]

\* &Device{Name: name}: every other field is its zero value.
Blank == [g \in Group |-> [payload |-> Zero, at |-> Zero]]

TypeOK == table \in [Name -> Device \cup {Absent}]

Init == table = [n \in Name |-> Absent]

Update(n, g, v) ==
    LET previous == IF table[n] = Absent THEN Blank ELSE table[n]
    IN  table' = [table EXCEPT ![n] =
                    [previous EXCEPT ![g] = [payload |-> v, at |-> v]]]

Next == \E n \in Name, g \in Group, v \in Value : Update(n, g, v)

Spec == Init /\ [][Next]_table
=============================================================================
