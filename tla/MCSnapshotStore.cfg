SPECIFICATION Spec
CONSTANTS
    Goroutine = {g1, g2}
    Scraper = {s1}
    Name = {p1, kwh}
    Group = {meas, sys}
    Value = {v1}
    Zero = Zero
    SnapRef = {a1, a2, a3}
    DevRef = {d1, d2, d3, d4, d5}
    Nil = Nil
SYMMETRY RefSymmetry
VIEW LiveHeap
INVARIANTS
    IInv
    NoTornReading
PROPERTIES
    LoadedSnapshotIsFrozen
    ImplementsTable
