-------------------------- MODULE MCSnapshotStore --------------------------
(* Small instances of SnapshotStore for TLC. *)
EXTENDS SnapshotStore, TLC

RefSymmetry == Permutations(SnapRef) \cup Permutations(DevRef)

\* The state without the garbage on the heap, which no step and no property
\* reads: memory is always initialised before it is reachable again.
Entries(s) == IF snapMem[s] = Nil THEN {} ELSE {snapMem[s][n] : n \in Name}

Reachable ==
    (UNION {Entries(s) : s \in LiveSnaps} \cup {device[g] : g \in Goroutine})
        \ {Nil}

LiveHeap ==
    <<writers, current, [s \in LiveSnaps |-> snapMem[s]],
      [d \in Reachable |-> devMem[d]], pc, call, next, device, view>>
=============================================================================
