-------------------------- MODULE MCPhysicalMemory --------------------------
(* The memory maps and device ranges TLC tries.  Pages are two units long  *)
(* and the kernel keeps the first two frames.                              *)
EXTENDS PhysicalMemory

Range3(s, n, t) == [start |-> s, size |-> n, type |-> t]

\* All usable; enough frames for several collections.
Plain == <<Range3(0, 22, "usable")>>

\* An entry that neither starts nor ends on a page, and reserved memory.
Ragged == <<Range3(0, 4, "usable"), Range3(4, 3, "reserved"),
            Range3(7, 20, "usable"), Range3(27, 5, "bad"),
            Range3(32, 4, "nvs")>>

\* Little memory: the listed collections are all the kernel's.
Small == <<Range3(0, 12, "usable"), Range3(12, 2, "reclaimable")>>

MCMaps == {Plain, Ragged, Small}

MCDevices == {[start |-> 40, size |-> 4], [start |-> 41, size |-> 2],
              [start |-> 8, size |-> 2]}
=============================================================================
